---------------------------- MODULE BridgeProofs ----------------------------
(***************************************************************************)
(* Proofs about the bridge process.  Of the quote service: the token       *)
(* bucket bounds the quotes admitted in every interval, and an attestation *)
(* holds what was read for it, for any number of callers, concurrent       *)
(* requests, agents and EVM addresses and any burst, refill rate and cost. *)
(* Of the event tail: whatever is lost, late or cut off, the credit worker *)
(* handles no event twice and out of order only what was given up.  And    *)
(* the process as a whole implements the quote service.                    *)
(***************************************************************************)
EXTENDS Bridge, SequenceTheorems, TLAPS

(***************************************************************************)
(* The tokens left and the quotes admitted since t together never exceed   *)
(* the burst plus what the bucket was refilled between t and its last      *)
(* update; no quote was admitted after that update.                        *)
(***************************************************************************)
BucketAccounts(c) ==
  /\ bucket[c].known => bucket[c].last <= clock
  /\ \A t \in 0 .. MaxTime :
       IF bucket[c].known /\ t <= bucket[c].last
         THEN COST * since[c][t] + bucket[c].tokens
                <= CAPACITY + REFILL * (bucket[c].last - t)
         ELSE since[c][t] = 0

(***************************************************************************)
(* What a request has read is among the values seen while it was served.   *)
(***************************************************************************)
Served(r) ==
  LET q == request[r] IN
    /\ q.pc \in {"exposure", "credit", "legacy", "sign"} =>
         q.agent \in DOMAIN Bindings /\ q.ttl \in 1 .. MAX_TTL
    /\ q.pc \in {"exposure", "credit", "legacy"} =>
         /\ exposure[Resolve(q.agent)] \in seen[r].exposures
         /\ credit[Resolve(q.agent)] \in seen[r].limits
    /\ q.pc \in {"credit", "legacy", "sign"} =>
         q.outstanding \in seen[r].exposures
    /\ q.pc = "sign" => q.limit \in seen[r].limits

RateInv == QuoteTypeOK /\ \A c \in Callers : BucketAccounts(c)
ServeInv == QuoteTypeOK /\ \A r \in Requests : Served(r)

(* Arithmetic that the provers want to be told. *)

\* The refill from t to b is the refill from t to a and from a to b.
LEMMA RefillSplits ==
  ASSUME NEW a \in Int, NEW b \in Int, NEW t \in Int
  PROVE  REFILL * (b - t) = REFILL * (a - t) + (b - a) * REFILL
BY QuoteAssumption

\* A refill over a span of time is a natural number.
LEMMA RefillNonNegative ==
  ASSUME NEW d \in Nat
  PROVE  d * REFILL \in Nat /\ REFILL * d \in Nat
BY QuoteAssumption

\* Tokens (RateLimiter.consume) stay between zero and the burst.
LEMMA TokensInRange ==
  ASSUME QuoteTypeOK, NEW c \in Callers, bucket[c].known => bucket[c].last <= clock
  PROVE  Tokens(c) \in 0 .. CAPACITY
<1> USE QuoteAssumption
<1>1. CASE ~bucket[c].known
  BY <1>1 DEF Tokens
<1>2. CASE bucket[c].known
  <2>1. clock - bucket[c].last \in Nat
    BY <1>2 DEF QuoteTypeOK
  <2>2. (clock - bucket[c].last) * REFILL \in Nat
    BY <2>1, RefillNonNegative
  <2>3. bucket[c].tokens \in Nat
    BY DEF QuoteTypeOK
  <2> QED BY <1>2, <2>2, <2>3 DEF Tokens, Refilled, Least
<1> QED BY <1>1, <1>2

\* One call of RateLimiter.consume leaves a well-typed bucket.
LEMMA ConsumedInRange ==
  ASSUME QuoteTypeOK, NEW c \in Callers, BucketAccounts(c)
  PROVE  Consumed(c) \in [known : BOOLEAN, tokens : 0 .. CAPACITY,
                          last : 0 .. MaxTime]
<1>1. Tokens(c) \in 0 .. CAPACITY
  BY TokensInRange DEF BucketAccounts
<1> QED BY <1>1, QuoteAssumption DEF Consumed, Admits, QuoteTypeOK

(***************************************************************************)
(* The heart of the rate limiter: one call of consume keeps the account.   *)
(***************************************************************************)
LEMMA ConsumeAccounts ==
  ASSUME RateInv, NEW r \in Requests, NEW c \in Callers, NEW a \in Agents,
         NEW ttl \in Ttls, PostQuote(r, c, a, ttl)
  PROVE  BucketAccounts(c)'
<1> USE QuoteAssumption
<1> DEFINE n == IF Admits(c) THEN 1 ELSE 0
<1>0. /\ clock \in 0 .. MaxTime
      /\ bucket \in [Callers -> [known : BOOLEAN, tokens : 0 .. CAPACITY,
                                 last : 0 .. MaxTime]]
      /\ since \in [Callers -> [0 .. MaxTime -> Nat]]
  BY DEF RateInv, QuoteTypeOK
<1>a. /\ bucket[c].known \in BOOLEAN
      /\ bucket[c].tokens \in Int /\ bucket[c].last \in Int
  BY <1>0
<1>1. /\ bucket'[c] = Consumed(c)
      /\ clock' = clock /\ clock \in 0 .. MaxTime
      /\ \A t \in 0 .. MaxTime : since[c][t] \in Nat
  BY <1>0 DEF PostQuote
<1>2. \A t \in 0 .. MaxTime :
        since'[c][t] = since[c][t] + (IF t <= clock THEN n ELSE 0)
  <2>1. CASE Admits(c)
    BY <1>0, <2>1 DEF PostQuote
  <2>2. CASE ~Admits(c)
    BY <1>0, <2>2 DEF PostQuote
  <2> QED BY <2>1, <2>2
<1>3. BucketAccounts(c) /\ Tokens(c) \in 0 .. CAPACITY
  BY TokensInRange DEF RateInv, BucketAccounts
<1>4. bucket'[c].known /\ bucket'[c].last = clock
      /\ bucket'[c].tokens + COST * n = Tokens(c)
  BY <1>1, <1>3 DEF Consumed
<1>5. ASSUME NEW t \in 0 .. MaxTime, t <= clock
      PROVE  COST * since'[c][t] + bucket'[c].tokens
               <= CAPACITY + REFILL * (clock - t)
  <2>1. COST * since'[c][t] = COST * since[c][t] + COST * n
    BY <1>1, <1>2, <1>5
  <2>2. COST * since[c][t] + Tokens(c) <= CAPACITY + REFILL * (clock - t)
    <3>1. CASE bucket[c].known /\ t <= bucket[c].last
      <4>1. COST * since[c][t] + bucket[c].tokens
              <= CAPACITY + REFILL * (bucket[c].last - t)
        BY <1>3, <3>1 DEF BucketAccounts
      <4>2. Tokens(c) <= bucket[c].tokens + (clock - bucket[c].last) * REFILL
        <5>1. (clock - bucket[c].last) * REFILL \in Int
          BY <1>1, <1>a
        <5> QED BY <1>a, <3>1, <5>1 DEF Tokens, Refilled, Least
      <4>3. REFILL * (clock - t)
              = REFILL * (bucket[c].last - t) + (clock - bucket[c].last) * REFILL
        BY <1>1, <1>a, RefillSplits
      <4>4. /\ COST * since[c][t] \in Int /\ bucket[c].tokens \in Int
            /\ REFILL * (bucket[c].last - t) \in Int
            /\ (clock - bucket[c].last) * REFILL \in Int /\ Tokens(c) \in Int
        BY <1>1, <1>3, <1>a
      <4> HIDE DEF n
      <4> QED BY <4>1, <4>2, <4>3, <4>4
    <3>2. CASE ~(bucket[c].known /\ t <= bucket[c].last)
      <4>1. since[c][t] = 0
        BY <1>3, <3>2 DEF BucketAccounts
      <4>2. REFILL * (clock - t) \in Nat
        BY <1>1, <1>5, RefillNonNegative
      <4> QED BY <1>3, <4>1, <4>2
    <3> QED BY <3>1, <3>2
  <2>3. /\ COST * since[c][t] \in Int /\ COST * n \in Int
        /\ bucket'[c].tokens \in Int /\ REFILL * (clock - t) \in Int
    BY <1>1, <1>3 DEF Consumed
  <2> HIDE DEF n
  <2> QED BY <1>4, <2>1, <2>2, <2>3
<1>6. ASSUME NEW t \in 0 .. MaxTime, ~(t <= clock)
      PROVE  since'[c][t] = 0
  <2>1. ~(bucket[c].known /\ t <= bucket[c].last)
    BY <1>1, <1>3, <1>6, <1>a DEF BucketAccounts
  <2>2. since[c][t] = 0
    BY <1>3, <2>1 DEF BucketAccounts
  <2> QED BY <1>2, <1>6, <2>2
<1>7. clock <= clock
  BY <1>0
<1> HIDE DEF n
<1> QED BY <1>1, <1>4, <1>5, <1>6, <1>7 DEF BucketAccounts

-----------------------------------------------------------------------------
(* Types *)

\* The bridge starts well typed.
LEMMA InitTyped == QuoteInit => QuoteTypeOK
<1> SUFFICES ASSUME QuoteInit PROVE QuoteTypeOK
  OBVIOUS
<1> USE QuoteAssumption
<1>1. bucket \in [Callers -> [known : BOOLEAN, tokens : 0 .. CAPACITY,
                              last : 0 .. MaxTime]]
  BY DEF QuoteInit, NoBucket
<1>2. request \in [Requests -> [pc : Phases, agent : Agents \cup {NoAgent},
                                ttl : Int, outstanding : Nat, limit : Nat]]
  BY DEF QuoteInit, NoRequest, Phases
<1>3. reply \in [agent : Agents \cup {NoAgent}, limit : Nat, outstanding : Nat,
                 attested_at : Nat, expires_at : Int]
  BY DEF QuoteInit, NoReply
<1>4. since \in [Callers -> [0 .. MaxTime -> Nat]]
  BY DEF QuoteInit, NeverAdmitted
<1>5. seen \in [Requests -> [exposures : SUBSET Credits, limits : SUBSET Credits]]
  BY DEF QuoteInit, NoneSeen
<1> QED BY <1>1, <1>2, <1>3, <1>4, <1>5 DEF QuoteInit, QuoteTypeOK

RequestType ==
  [pc : Phases, agent : Agents \cup {NoAgent}, ttl : Int, outstanding : Nat,
   limit : Nat]

\* Answering a request (res.end) leaves a well-typed request slot.
LEMMA AnswerTyped ==
  ASSUME QuoteTypeOK, NEW r \in Requests, Answer(r)
  PROVE  request' \in [Requests -> RequestType]
<1>1. NoRequest \in RequestType
  BY DEF NoRequest, RequestType, Phases
<1> QED BY <1>1 DEF QuoteTypeOK, Answer, RequestType

\* The EVM values of a registered agent's address.
LEMMA EvmValues ==
  ASSUME QuoteTypeOK, NEW a \in DOMAIN Bindings
  PROVE  /\ Resolve(a) \in EvmAddresses
         /\ exposure[Resolve(a)] \in Credits /\ credit[Resolve(a)] \in Credits
<1>1. Resolve(a) \in EvmAddresses
  BY QuoteAssumption DEF Resolve
<1> QED BY <1>1 DEF QuoteTypeOK

\* Bearer check and rate limit of POST /quote keep the types.
LEMMA PostTyped ==
  ASSUME RateInv, NEW r \in Requests, NEW c \in Callers, NEW a \in Agents,
         NEW ttl \in Ttls, PostQuote(r, c, a, ttl)
  PROVE  QuoteTypeOK'
<1> USE QuoteAssumption
<1>0. QuoteTypeOK /\ BucketAccounts(c)
  BY DEF RateInv
<1>1. bucket' \in [Callers -> [known : BOOLEAN, tokens : 0 .. CAPACITY,
                               last : 0 .. MaxTime]]
  BY <1>0, ConsumedInRange DEF QuoteTypeOK, PostQuote
<1>2. [NoRequest EXCEPT !.pc = "body", !.agent = a, !.ttl = ttl] \in RequestType
  BY DEF NoRequest, RequestType, Phases
<1>3. request' \in [Requests -> RequestType]
  BY <1>0, <1>2 DEF QuoteTypeOK, PostQuote, RequestType
<1>4. since' \in [Callers -> [0 .. MaxTime -> Nat]]
  <2>1. since \in [Callers -> [0 .. MaxTime -> Nat]] /\ clock \in Nat
    BY <1>0 DEF QuoteTypeOK
  <2>2. [t \in 0 .. MaxTime |-> since[c][t] + (IF t <= clock THEN 1 ELSE 0)]
          \in [0 .. MaxTime -> Nat]
    BY <2>1
  <2> QED BY <2>1, <2>2 DEF PostQuote
<1> QED BY <1>0, <1>1, <1>3, <1>4 DEF QuoteTypeOK, PostQuote, RequestType, evmVars

\* Every step of handleQuote keeps the types.
LEMMA ServeTyped ==
  ASSUME ServeInv, NEW r \in Requests,
         ReadBody(r) \/ ReadExposure(r) \/ ReadCredit(r) \/ Sign(r)
  PROVE  QuoteTypeOK'
<1> USE QuoteAssumption
<1>0. QuoteTypeOK /\ Served(r) /\ request[r] \in RequestType
  BY DEF ServeInv, QuoteTypeOK, RequestType
<1>1. CASE ReadBody(r)
  <2>1. request' \in [Requests -> RequestType]
    <3>1. Least(request[r].ttl, MAX_TTL) \in Int
      BY <1>0 DEF Least, RequestType
    <3>2. CASE Answer(r)
      BY <1>0, <3>2, AnswerTyped
    <3>3. CASE request' = [request EXCEPT
                             ![r].pc = "exposure",
                             ![r].ttl = Least(request[r].ttl, MAX_TTL)]
      BY <1>0, <3>1, <3>3 DEF QuoteTypeOK, RequestType, Phases
    <3> QED BY <1>1, <3>2, <3>3 DEF ReadBody
  <2>2. seen' \in [Requests -> [exposures : SUBSET Credits,
                                limits : SUBSET Credits]]
    <3>1. CASE request[r].agent \in DOMAIN Bindings
      <4>1. [exposures |-> {exposure[Resolve(request[r].agent)]},
             limits |-> {credit[Resolve(request[r].agent)]}]
              \in [exposures : SUBSET Credits, limits : SUBSET Credits]
        BY <1>0, <3>1, EvmValues
      <4> QED BY <1>0, <1>1, <4>1 DEF QuoteTypeOK, ReadBody
    <3>2. CASE request[r].agent \notin DOMAIN Bindings
      BY <1>0, <1>1, <3>2 DEF QuoteTypeOK, ReadBody
    <3> QED BY <3>1, <3>2
  <2> QED BY <1>0, <1>1, <2>1, <2>2 DEF QuoteTypeOK, ReadBody, RequestType, evmVars
<1>2. CASE ReadExposure(r)
  <2>1. request' \in [Requests -> RequestType]
    <3>1. request[r].agent \in DOMAIN Bindings
      BY <1>0, <1>2 DEF Served, ReadExposure
    <3>2. ExposureRead(r) \in Nat
      BY <1>0, <3>1, EvmValues DEF ExposureRead
    <3>3. CASE Answer(r)
      BY <1>0, <3>3, AnswerTyped
    <3>4. CASE request' = [request EXCEPT ![r].pc = "credit",
                                          ![r].outstanding = ExposureRead(r)]
      BY <1>0, <3>2, <3>4 DEF QuoteTypeOK, RequestType, Phases
    <3> QED BY <1>2, <3>3, <3>4 DEF ReadExposure
  <2> QED BY <1>0, <1>2, <2>1 DEF QuoteTypeOK, ReadExposure, RequestType, evmVars
<1>3. CASE ReadCredit(r)
  <2>1. request' \in [Requests -> RequestType]
    <3>1. request[r].agent \in DOMAIN Bindings
      BY <1>0, <1>3 DEF Served, ReadCredit
    <3>2. credit[Resolve(request[r].agent)] \in Nat
      BY <1>0, <3>1, EvmValues
    <3>3. CASE Answer(r)
      BY <1>0, <3>3, AnswerTyped
    <3>4. CASE request' = [request EXCEPT
                             ![r].pc = "sign",
                             ![r].limit = credit[Resolve(request[r].agent)]]
      BY <1>0, <3>2, <3>4 DEF QuoteTypeOK, RequestType, Phases
    <3>5. CASE request' = [request EXCEPT ![r].pc = "legacy"]
      BY <1>0, <3>5 DEF QuoteTypeOK, RequestType, Phases
    <3> QED BY <1>3, <3>3, <3>4, <3>5 DEF ReadCredit
  <2> QED BY <1>0, <1>3, <2>1 DEF QuoteTypeOK, ReadCredit, RequestType, evmVars
<1>4. CASE Sign(r)
  <2>1. request' \in [Requests -> RequestType]
    BY <1>0, <1>4, AnswerTyped DEF Sign
  <2>2. reply' \in [agent : Agents \cup {NoAgent}, limit : Nat,
                    outstanding : Nat, attested_at : Nat, expires_at : Int]
    BY <1>0, <1>4 DEF QuoteTypeOK, Sign, RequestType
  <2>3. seen' \in [Requests -> [exposures : SUBSET Credits,
                                limits : SUBSET Credits]]
    BY <1>0, <1>4 DEF QuoteTypeOK, Sign, NoneSeen
  <2> QED BY <1>0, <1>4, <2>1, <2>2, <2>3 DEF QuoteTypeOK, Sign, RequestType, evmVars
<1> QED BY <1>1, <1>2, <1>3, <1>4

\* EVM changes, time, process exit and start keep the types.
LEMMA WorldTyped ==
  ASSUME QuoteTypeOK, World \/ Crash \/ Start
  PROVE  QuoteTypeOK'
<1> USE QuoteAssumption
<1>1. ASSUME NEW e \in EvmAddresses, EvmChange(e)
      PROVE  QuoteTypeOK'
  <2>1. exposure' \in [EvmAddresses -> Credits] /\ credit' \in [EvmAddresses -> Credits]
    BY <1>1 DEF EvmChange, QuoteTypeOK
  <2>2. seen' \in [Requests -> [exposures : SUBSET Credits,
                                limits : SUBSET Credits]]
    <3>1. exposure'[e] \in Credits /\ credit'[e] \in Credits
      BY <2>1
    <3> QED BY <1>1, <3>1 DEF EvmChange, QuoteTypeOK
  <2> QED BY <1>1, <2>1, <2>2 DEF EvmChange, QuoteTypeOK
<1>2. CASE Tick
  BY <1>2 DEF Tick, QuoteTypeOK, evmVars
<1>3. CASE Crash
  <2>1. bucket' \in [Callers -> [known : BOOLEAN, tokens : 0 .. CAPACITY,
                                 last : 0 .. MaxTime]]
    BY <1>3 DEF Crash, NoBucket
  <2>2. request' \in [Requests -> RequestType]
    BY <1>3 DEF Crash, NoRequest, RequestType, Phases
  <2>3. since' \in [Callers -> [0 .. MaxTime -> Nat]]
    BY <1>3 DEF Crash, NeverAdmitted
  <2>4. seen' \in [Requests -> [exposures : SUBSET Credits,
                                limits : SUBSET Credits]]
    BY <1>3 DEF Crash, NoneSeen
  <2> QED BY <1>3, <2>1, <2>2, <2>3, <2>4 DEF Crash, QuoteTypeOK, RequestType, evmVars
<1>4. CASE Start
  BY <1>4 DEF Start, QuoteTypeOK, evmVars
<1> QED BY <1>1, <1>2, <1>3, <1>4 DEF World

-----------------------------------------------------------------------------
(* The rate limiter *)

\* Every step of the bridge keeps every bucket accounted for.
LEMMA BucketsStep ==
  ASSUME RateInv, QuoteTypeOK', [QuoteNext]_quoteVars, NEW c \in Callers
  PROVE  BucketAccounts(c)'
<1>0. BucketAccounts(c) /\ QuoteTypeOK
  BY DEF RateInv
<1>1. ASSUME NEW r \in Requests, NEW d \in Callers, NEW a \in Agents,
             NEW ttl \in Ttls, PostQuote(r, d, a, ttl)
      PROVE  BucketAccounts(c)'
  <2>1. CASE c = d
    BY <1>1, <2>1, ConsumeAccounts
  <2>2. CASE c # d
    <3>1. bucket'[c] = bucket[c] /\ since'[c] = since[c] /\ clock' = clock
      BY <1>0, <1>1, <2>2 DEF PostQuote, QuoteTypeOK
    <3> QED BY <1>0, <3>1 DEF BucketAccounts
  <2> QED BY <2>1, <2>2
<1>2. CASE bucket' = bucket /\ since' = since /\ clock' = clock
  BY <1>0, <1>2 DEF BucketAccounts
<1>3. CASE Tick
  <2>1. bucket' = bucket /\ since' = since /\ clock' = clock + 1
    BY <1>3 DEF Tick
  <2>2. bucket[c].last \in Int /\ clock \in Int
    BY <1>0, QuoteAssumption DEF QuoteTypeOK
  <2>3. bucket[c].known => bucket[c].last <= clock + 1
    BY <1>0, <2>2 DEF BucketAccounts
  <2> QED BY <1>0, <2>1, <2>3 DEF BucketAccounts
<1>4. CASE Crash
  <2>1. bucket'[c].known = FALSE /\ \A t \in 0 .. MaxTime : since'[c][t] = 0
    BY <1>4 DEF Crash, NoBucket, NeverAdmitted
  <2> QED BY <2>1 DEF BucketAccounts
<1> QED BY <1>1, <1>2, <1>3, <1>4 DEF QuoteNext, Serve, World, ReadBody,
             ReadExposure, ReadCredit, Sign, EvmChange, Start, quoteVars

-----------------------------------------------------------------------------
(* Requests *)

\* Every step of the bridge keeps what a request has read among what was seen.
LEMMA ServedStep ==
  ASSUME ServeInv, QuoteTypeOK', [QuoteNext]_quoteVars, NEW r \in Requests
  PROVE  Served(r)'
<1> USE QuoteAssumption
<1>0. QuoteTypeOK /\ Served(r) /\ request[r] \in RequestType
      /\ request \in [Requests -> RequestType]
      /\ seen \in [Requests -> [exposures : SUBSET Credits, limits : SUBSET Credits]]
  BY DEF ServeInv, QuoteTypeOK, RequestType
<1>1. CASE /\ request'[r] = request[r] /\ seen'[r] = seen[r]
           /\ exposure' = exposure /\ credit' = credit
  BY <1>0, <1>1 DEF Served, Resolve
<1>2. CASE request'[r].pc \in {"idle", "body"}
  BY <1>2 DEF Served
<1>3. ASSUME NEW s \in Requests, NEW c \in Callers, NEW a \in Agents,
             NEW ttl \in Ttls, PostQuote(s, c, a, ttl)
      PROVE  Served(r)'
  <2>1. seen' = seen /\ exposure' = exposure /\ credit' = credit
    BY <1>3 DEF PostQuote, evmVars
  <2>2. CASE request'[r] = request[r]
    BY <1>1, <2>1, <2>2
  <2>3. CASE request'[r] # request[r]
    <3>1. request'[r].pc = "body"
      BY <1>0, <1>3, <2>3 DEF PostQuote, NoRequest
    <3> QED BY <1>2, <3>1
  <2> QED BY <2>2, <2>3
<1>4. ASSUME NEW s \in Requests, s # r,
             ReadBody(s) \/ ReadExposure(s) \/ ReadCredit(s) \/ Sign(s)
      PROVE  Served(r)'
  <2>1. request'[r] = request[r]
    BY <1>0, <1>4 DEF ReadBody, ReadExposure, ReadCredit, Sign, Answer
  <2>2. seen'[r] = seen[r]
    BY <1>0, <1>4 DEF ReadBody, ReadExposure, ReadCredit, Sign
  <2>3. exposure' = exposure /\ credit' = credit
    BY <1>4 DEF ReadBody, ReadExposure, ReadCredit, Sign, evmVars
  <2> QED BY <1>1, <2>1, <2>2, <2>3
<1>5. ASSUME Answer(r) PROVE Served(r)'
  <2>1. request'[r].pc = "idle"
    BY <1>0, <1>5 DEF Answer, NoRequest
  <2> QED BY <1>2, <2>1
<1>6. CASE ReadBody(r)
  <2>1. CASE ~(Least(request[r].ttl, MAX_TTL) > 0
               /\ request[r].agent \in DOMAIN Bindings)
    BY <1>5, <1>6, <2>1 DEF ReadBody
  <2>2. CASE Least(request[r].ttl, MAX_TTL) > 0
             /\ request[r].agent \in DOMAIN Bindings
    <3>1. /\ request'[r].pc = "exposure"
          /\ request'[r].agent = request[r].agent
          /\ request'[r].ttl = Least(request[r].ttl, MAX_TTL)
      BY <1>0, <1>6, <2>2 DEF ReadBody, RequestType
    <3>2. /\ seen'[r].exposures = {exposure[Resolve(request[r].agent)]}
          /\ seen'[r].limits = {credit[Resolve(request[r].agent)]}
          /\ exposure' = exposure /\ credit' = credit
      BY <1>0, <1>6, <2>2 DEF ReadBody, evmVars
    <3>3. Least(request[r].ttl, MAX_TTL) \in 1 .. MAX_TTL
      BY <1>0, <2>2 DEF Least, RequestType
    <3> QED BY <2>2, <3>1, <3>2, <3>3 DEF Served, Resolve
  <2> QED BY <2>1, <2>2
<1>7. CASE ReadExposure(r)
  <2>1. CASE Answer(r)
    BY <1>5, <2>1
  <2>2. CASE request' = [request EXCEPT ![r].pc = "credit",
                                        ![r].outstanding = ExposureRead(r)]
    <3>1. /\ request'[r].pc = "credit"
          /\ request'[r].agent = request[r].agent
          /\ request'[r].ttl = request[r].ttl
          /\ request'[r].outstanding = exposure[Resolve(request[r].agent)]
      BY <1>0, <2>2 DEF RequestType, ExposureRead
    <3>2. seen' = seen /\ exposure' = exposure /\ credit' = credit
          /\ request[r].pc = "exposure"
      BY <1>7 DEF ReadExposure, evmVars
    <3> QED BY <1>0, <3>1, <3>2 DEF Served, Resolve
  <2> QED BY <1>7, <2>1, <2>2 DEF ReadExposure
<1>8. CASE ReadCredit(r)
  <2>0. seen' = seen /\ exposure' = exposure /\ credit' = credit
        /\ request[r].pc \in {"credit", "legacy"}
    BY <1>8 DEF ReadCredit, evmVars
  <2>1. CASE Answer(r)
    BY <1>5, <2>1
  <2>2. CASE request' = [request EXCEPT
                           ![r].pc = "sign",
                           ![r].limit = credit[Resolve(request[r].agent)]]
    <3>1. /\ request'[r].pc = "sign"
          /\ request'[r].agent = request[r].agent
          /\ request'[r].ttl = request[r].ttl
          /\ request'[r].outstanding = request[r].outstanding
          /\ request'[r].limit = credit[Resolve(request[r].agent)]
      BY <1>0, <2>2 DEF RequestType
    <3> QED BY <1>0, <2>0, <3>1 DEF Served, Resolve
  <2>3. CASE request' = [request EXCEPT ![r].pc = "legacy"]
    <3>1. /\ request'[r].pc = "legacy"
          /\ request'[r].agent = request[r].agent
          /\ request'[r].ttl = request[r].ttl
          /\ request'[r].outstanding = request[r].outstanding
      BY <1>0, <2>3 DEF RequestType
    <3> QED BY <1>0, <2>0, <3>1 DEF Served, Resolve
  <2> QED BY <1>8, <2>1, <2>2, <2>3 DEF ReadCredit
<1>9. CASE Sign(r)
  BY <1>5, <1>9 DEF Sign
<1>10. ASSUME NEW e \in EvmAddresses, EvmChange(e)
       PROVE  Served(r)'
  <2>0. request' = request
    BY <1>10 DEF EvmChange
  <2>1. /\ seen[r].exposures \subseteq seen'[r].exposures
        /\ seen[r].limits \subseteq seen'[r].limits
    BY <1>0, <1>10 DEF EvmChange
  <2>2. \A x \in EvmAddresses : x # e =>
          exposure'[x] = exposure[x] /\ credit'[x] = credit[x]
    <3>1. /\ exposure \in [EvmAddresses -> Credits]
          /\ credit \in [EvmAddresses -> Credits]
      BY <1>0 DEF QuoteTypeOK
    <3>2. CASE UNCHANGED credit
      <4>1. PICK n \in Credits : exposure' = [exposure EXCEPT ![e] = n]
                                 \/ exposure' = exposure
        BY <1>10 DEF EvmChange
      <4> QED BY <3>1, <3>2, <4>1
    <3>3. CASE UNCHANGED exposure
      <4>1. PICK n \in Credits : credit' = [credit EXCEPT ![e] = n]
                                 \/ credit' = credit
        BY <1>10 DEF EvmChange
      <4> QED BY <3>1, <3>3, <4>1
    <3> QED BY <1>10, <3>2, <3>3 DEF EvmChange
  <2>3. request[r].pc \in {"exposure", "credit", "legacy"}
          /\ Resolve(request[r].agent) = e =>
             exposure'[e] \in seen'[r].exposures /\ credit'[e] \in seen'[r].limits
    BY <1>0, <1>10 DEF EvmChange
  <2>4. request[r].pc \in {"exposure", "credit", "legacy"} =>
          Resolve(request[r].agent) \in EvmAddresses
    BY <1>0, EvmValues DEF Served
  <2>5. request[r].pc \in {"exposure", "credit", "legacy"} =>
          /\ exposure'[Resolve(request[r].agent)] \in seen'[r].exposures
          /\ credit'[Resolve(request[r].agent)] \in seen'[r].limits
    BY <1>0, <2>1, <2>2, <2>3, <2>4 DEF Served
  <2> QED BY <1>0, <2>0, <2>1, <2>5 DEF Served, Resolve
<1>11. CASE Tick \/ Start \/ UNCHANGED quoteVars
  BY <1>1, <1>11 DEF Tick, Start, quoteVars, evmVars
<1>12. CASE Crash
  BY <1>2, <1>12 DEF Crash, NoRequest
<1> QED BY <1>3, <1>4, <1>6, <1>7, <1>8, <1>9, <1>10, <1>11, <1>12
        DEF QuoteNext, Serve, World

-----------------------------------------------------------------------------
(* Theorems *)

IInv == RateInv /\ ServeInv

\* The inductive invariant holds when the bridge starts.
LEMMA InvInit == QuoteInit => IInv
<1> SUFFICES ASSUME QuoteInit PROVE IInv
  OBVIOUS
<1>1. QuoteTypeOK
  BY InitTyped
<1>2. ASSUME NEW c \in Callers PROVE BucketAccounts(c)
  BY DEF QuoteInit, BucketAccounts, NoBucket, NeverAdmitted
<1>3. ASSUME NEW r \in Requests PROVE Served(r)
  BY DEF QuoteInit, Served, NoRequest
<1> QED BY <1>1, <1>2, <1>3 DEF IInv, RateInv, ServeInv

\* Every step of the bridge keeps the inductive invariant.
LEMMA InvStep == IInv /\ [QuoteNext]_quoteVars => IInv'
<1> SUFFICES ASSUME IInv, [QuoteNext]_quoteVars PROVE IInv'
  OBVIOUS
<1>1. QuoteTypeOK'
  <2>1. CASE UNCHANGED quoteVars
    BY <2>1 DEF IInv, RateInv, QuoteTypeOK, quoteVars
  <2>2. CASE Serve
    BY <2>2, PostTyped, ServeTyped DEF IInv, Serve
  <2>3. CASE World \/ Crash \/ Start
    BY <2>3, WorldTyped DEF IInv, RateInv
  <2> QED BY <2>1, <2>2, <2>3 DEF QuoteNext
<1>2. ASSUME NEW c \in Callers PROVE BucketAccounts(c)'
  BY <1>1, BucketsStep DEF IInv
<1>3. ASSUME NEW r \in Requests PROVE Served(r)'
  BY <1>1, ServedStep DEF IInv
<1> QED BY <1>1, <1>2, <1>3 DEF IInv, RateInv, ServeInv

\* Every variable of the quote service keeps its type; a bucket never holds
\* more than the burst and never less than nothing (RateLimiter.consume).
THEOREM QuoteTypeCorrect == QuoteSpec => []QuoteTypeOK
<1>1. IInv => QuoteTypeOK
  BY DEF IInv, RateInv
<1> QED BY <1>1, InvInit, InvStep, PTL DEF QuoteSpec

\* Accounted buckets bound the quotes admitted in every interval.
LEMMA AccountsBound == RateInv => QuotesRateBounded
<1> SUFFICES ASSUME RateInv, NEW c \in Callers, NEW t \in 0 .. MaxTime, t <= clock
             PROVE  COST * since[c][t] <= CAPACITY + REFILL * (clock - t)
  BY DEF QuotesRateBounded
<1> USE QuoteAssumption
<1>0. /\ clock \in 0 .. MaxTime
      /\ bucket \in [Callers -> [known : BOOLEAN, tokens : 0 .. CAPACITY,
                                 last : 0 .. MaxTime]]
      /\ since \in [Callers -> [0 .. MaxTime -> Nat]]
      /\ BucketAccounts(c)
  BY DEF RateInv, QuoteTypeOK
<1>a. /\ since[c][t] \in Nat /\ bucket[c].tokens \in Nat
      /\ bucket[c].last \in Int /\ clock \in Int
  BY <1>0
<1>1. CASE bucket[c].known /\ t <= bucket[c].last
  <2>1. COST * since[c][t] + bucket[c].tokens
          <= CAPACITY + REFILL * (bucket[c].last - t)
    BY <1>0, <1>1 DEF BucketAccounts
  <2>2. clock - bucket[c].last \in Nat
    <3>1. bucket[c].last <= clock
      BY <1>0, <1>1 DEF BucketAccounts
    <3> QED BY <1>a, <3>1
  <2>3. (clock - bucket[c].last) * REFILL \in Nat
    BY <2>2, RefillNonNegative
  <2>4. REFILL * (clock - t)
          = REFILL * (bucket[c].last - t) + (clock - bucket[c].last) * REFILL
    BY <1>a, RefillSplits
  <2>5. COST * since[c][t] \in Int /\ REFILL * (bucket[c].last - t) \in Int
    BY <1>a
  <2> QED BY <1>a, <2>1, <2>3, <2>4, <2>5
<1>2. CASE ~(bucket[c].known /\ t <= bucket[c].last)
  <2>1. since[c][t] = 0
    BY <1>0, <1>2 DEF BucketAccounts
  <2>2. clock - t \in Nat
    BY <1>a
  <2>3. REFILL * (clock - t) \in Nat
    BY <2>2, RefillNonNegative
  <2> QED BY <2>1, <2>3
<1> QED BY <1>1, <1>2

\* For every caller and every interval that ends now, the rate limiter of the
\* bridge admits at most the burst plus the refill of the interval.
THEOREM QuotesRateBoundedHolds == QuoteSpec => []QuotesRateBounded
<1>1. IInv => QuotesRateBounded
  BY AccountsBound DEF IInv
<1> QED BY <1>1, InvInit, InvStep, PTL DEF QuoteSpec

\* Whatever requests interleave and however the EVM state moves, handleQuote
\* signs values read for the bound address while that request was served.
THEOREM AttestsWhatWasReadHolds == QuoteSpec => AttestsWhatWasRead
<1> DEFINE A == reply' # reply =>
       \E r \in Requests :
         /\ request[r].pc = "sign" /\ request'[r].pc = "idle"
         /\ reply'.agent = request[r].agent /\ reply'.agent \in DOMAIN Bindings
         /\ reply'.outstanding \in seen[r].exposures
         /\ reply'.limit \in seen[r].limits \ {0}
         /\ reply'.expires_at - reply'.attested_at \in 1 .. MAX_TTL
<1>1. IInv /\ [QuoteNext]_quoteVars => [A]_quoteVars
  <2> SUFFICES ASSUME IInv, [QuoteNext]_quoteVars, reply' # reply
               PROVE  A
    OBVIOUS
  <2>1. PICK r \in Requests : Sign(r)
    BY DEF QuoteNext, Serve, World, PostQuote, ReadBody, ReadExposure,
           ReadCredit, EvmChange, Tick, Crash, Start, quoteVars
  <2>2. Served(r) /\ request[r] \in RequestType /\ clock \in Int
        /\ request \in [Requests -> RequestType]
    BY QuoteAssumption DEF IInv, ServeInv, QuoteTypeOK, RequestType
  <2>3. request[r].pc = "sign" /\ request'[r].pc = "idle"
    BY <2>1, <2>2 DEF Sign, Answer, NoRequest
  <2>4. /\ request[r].limit # 0
        /\ reply'.agent = request[r].agent /\ reply'.limit = request[r].limit
        /\ reply'.outstanding = request[r].outstanding
        /\ reply'.attested_at = clock
        /\ reply'.expires_at = clock + request[r].ttl
    BY <2>1 DEF Sign
  <2>5. reply'.expires_at - reply'.attested_at \in 1 .. MAX_TTL
    BY <2>2, <2>3, <2>4, QuoteAssumption DEF Served
  <2> QED BY <2>2, <2>3, <2>4, <2>5 DEF Served
<1>2. QuoteSpec => [][A]_quoteVars
  BY <1>1, InvInit, InvStep, PTL DEF QuoteSpec
<1> QED BY <1>2 DEF AttestsWhatWasRead

-----------------------------------------------------------------------------
(* The event tail *)

\* The events the worker has handled, in whatever order.
Handled == {applied[i] : i \in 1 .. Len(applied)}

(***************************************************************************)
(* Everything that was taken from the subscription is an event of a        *)
(* transaction that committed, and older than everything still queued,     *)
(* because notifications arrive in the order of the chain.                 *)
(***************************************************************************)
QueueOrdered ==
  /\ reverted \subseteq 1 .. emitted
  /\ \A e \in posting \cup wire \cup Handled : e \in 1 .. emitted /\ e \notin reverted
  /\ \A i \in 1 .. Len(queue) :
       /\ queue[i].id \in 1 .. emitted
       /\ queue[i].id \in reverted => queue[i].err
       /\ \A e \in posting \cup wire \cup Handled : e < queue[i].id
  /\ \A i, j \in 1 .. Len(queue) : i < j => queue[i].id < queue[j].id

(***************************************************************************)
(* A POST is out at most once and never after the worker handled it; one   *)
(* that is not waited for was given up; the one that is waited for is the  *)
(* newest of all.                                                          *)
(***************************************************************************)
WireOrdered ==
  /\ wire \cap Handled = {}
  /\ wire \subseteq posting \cup abandoned
  /\ \A e \in posting, f \in wire \cup Handled : f <= e

TailInv ==
  /\ TailTypeOK /\ QueueOrdered /\ WireOrdered
  /\ WorkerAppliesOnce /\ WorkerSeesChainOrder

\* The tail starts with nothing queued, sent or handled.
LEMMA TailInvInit == TailInit => TailInv
<1> SUFFICES ASSUME TailInit PROVE TailInv
  OBVIOUS
<1>1. TailTypeOK
  BY TailAssumption DEF TailInit, TailTypeOK
<1>2. Handled = {} /\ Len(applied) = 0 /\ Len(queue) = 0
  BY DEF TailInit, Handled
<1>3. QueueOrdered /\ WireOrdered
  BY <1>2 DEF TailInit, QueueOrdered, WireOrdered
<1>4. WorkerAppliesOnce /\ WorkerSeesChainOrder
  BY <1>2 DEF WorkerAppliesOnce, WorkerSeesChainOrder
<1> QED BY <1>1, <1>3, <1>4 DEF TailInv

\* Steps that leave the worker alone leave its log in order.
LEMMA LogUntouched ==
  ASSUME TailInv, UNCHANGED applied, abandoned \subseteq abandoned',
         \A e \in Handled : e \in reverted' => e \in reverted
  PROVE  WorkerAppliesOnce' /\ WorkerSeesChainOrder' /\ Handled' = Handled
BY DEF TailInv, WorkerAppliesOnce, WorkerSeesChainOrder, Handled

\* Subscribing and starting again keep the tail in order.
LEMMA SubscribeStep ==
  ASSUME TailInv, Subscribe \/ TailRestarts \/ UNCHANGED tailVars
  PROVE  TailInv'
<1>1. UNCHANGED <<emitted, queue, posting, wire, applied, reverted, abandoned>>
  BY DEF Subscribe, TailRestarts, tailVars
<1>2. WorkerAppliesOnce' /\ WorkerSeesChainOrder' /\ Handled' = Handled
  BY <1>1, LogUntouched
<1>3. TailTypeOK'
  BY <1>1 DEF TailInv, TailTypeOK, Subscribe, TailRestarts, tailVars
<1>4. QueueOrdered' /\ WireOrdered'
  BY <1>1, <1>2 DEF TailInv, QueueOrdered, WireOrdered
<1> QED BY <1>2, <1>3, <1>4 DEF TailInv

\* A new event is newer than all others and not yet sent.
LEMMA EmitStep ==
  ASSUME TailInv, NEW err \in BOOLEAN, Emit(err)
  PROVE  TailInv'
<1> USE TailAssumption
<1> DEFINE n == [id |-> emitted + 1, err |-> err]
<1>0. /\ TailTypeOK /\ QueueOrdered /\ WireOrdered
      /\ emitted \in Nat /\ emitted' = emitted + 1
      /\ queue \in Seq([id : 1 .. MaxEvents, err : BOOLEAN])
  BY DEF TailInv, TailTypeOK, Emit
<1>1. n \in [id : 1 .. MaxEvents, err : BOOLEAN]
  BY <1>0 DEF Emit, TailTypeOK
<1>2. TailTypeOK'
  <2>1. emitted + 1 \in 1 .. MaxEvents
    BY <1>0 DEF TailTypeOK, Emit
  <2>2. reverted' \subseteq 1 .. MaxEvents
    BY <1>0, <2>1 DEF TailTypeOK, Emit
  <2>3. queue' \in Seq([id : 1 .. MaxEvents, err : BOOLEAN])
    <3>1. queue' = queue \/ queue' = Append(queue, n)
      BY DEF Emit
    <3>2. Append(queue, n) \in Seq([id : 1 .. MaxEvents, err : BOOLEAN])
      <4> DEFINE S == [id : 1 .. MaxEvents, err : BOOLEAN]
      <4>1. queue \in Seq(S) /\ n \in S
        BY <1>0, <1>1
      <4> HIDE DEF S, n
      <4>2. Append(queue, n) \in Seq(S)
        BY <4>1, AppendProperties
      <4> QED BY <4>2 DEF S
    <3> QED BY <1>0, <3>1, <3>2
  <2> QED BY <1>0, <2>1, <2>2, <2>3 DEF TailTypeOK, Emit
<1>3. \A e \in Handled : e \in reverted' => e \in reverted
  BY <1>0 DEF QueueOrdered, Emit
<1>4. WorkerAppliesOnce' /\ WorkerSeesChainOrder' /\ Handled' = Handled
  BY <1>3, LogUntouched DEF Emit
<1>5. WireOrdered'
  BY <1>0, <1>4 DEF WireOrdered, Emit
<1>6. QueueOrdered'
  <2>1. reverted' \subseteq 1 .. emitted'
    <3>1. reverted' \subseteq reverted \cup {emitted + 1}
      BY DEF Emit
    <3>2. reverted \subseteq 1 .. emitted
      BY <1>0 DEF QueueOrdered
    <3> QED BY <1>0, <3>1, <3>2
  <2>2. \A e \in (posting \cup wire \cup Handled)' :
          e \in 1 .. emitted' /\ e \notin reverted'
    BY <1>0, <1>4 DEF QueueOrdered, Emit
  <2>3. CASE queue' = queue
    BY <1>0, <1>4, <2>1, <2>2, <2>3 DEF QueueOrdered, Emit
  <2>4. CASE queue' = Append(queue, n)
    <3>1. /\ Len(queue') = Len(queue) + 1 /\ Len(queue) \in Nat
          /\ queue'[Len(queue) + 1] = n
          /\ \A i \in 1 .. Len(queue) : queue'[i] = queue[i]
      BY <1>0, <1>1, <2>4
    <3>2. ASSUME NEW i \in 1 .. Len(queue')
          PROVE  /\ queue'[i].id \in 1 .. emitted'
                 /\ queue'[i].id \in reverted' => queue'[i].err
                 /\ \A e \in (posting \cup wire \cup Handled)' : e < queue'[i].id
      <4>1. CASE i = Len(queue) + 1
        BY <1>0, <1>4, <3>1, <4>1 DEF QueueOrdered, Emit
      <4>2. CASE i \in 1 .. Len(queue)
        BY <1>0, <1>4, <3>1, <4>2 DEF QueueOrdered, Emit
      <4> QED BY <3>1, <4>1, <4>2
    <3>3. ASSUME NEW i \in 1 .. Len(queue'), NEW j \in 1 .. Len(queue'), i < j
          PROVE  queue'[i].id < queue'[j].id
      <4>1. i \in 1 .. Len(queue) /\ queue'[i] = queue[i]
            /\ queue[i].id \in 1 .. emitted
        BY <1>0, <3>1, <3>3 DEF QueueOrdered
      <4>2. CASE j = Len(queue) + 1
        BY <1>0, <3>1, <4>1, <4>2
      <4>3. CASE j \in 1 .. Len(queue)
        BY <1>0, <3>1, <3>3, <4>1, <4>3 DEF QueueOrdered
      <4> QED BY <3>1, <4>2, <4>3
    <3> QED BY <2>1, <2>2, <3>2, <3>3 DEF QueueOrdered
  <2> QED BY <2>3, <2>4 DEF Emit
<1> QED BY <1>2, <1>4, <1>5, <1>6 DEF TailInv

\* The loop takes the oldest notification, and only when no POST is out: what
\* it sends is newer than all it ever sent and older than what is queued.
LEMMA TakeStep ==
  ASSUME TailInv, TakeNotification
  PROVE  TailInv'
<1> DEFINE n == Head(queue)
<1>0. /\ TailTypeOK /\ QueueOrdered /\ WireOrdered
      /\ queue \in Seq([id : 1 .. MaxEvents, err : BOOLEAN]) /\ queue # <<>>
      /\ emitted \in Nat
  BY TailAssumption DEF TailInv, TailTypeOK, TakeNotification
<1>1. /\ Len(queue) \in Nat /\ Len(queue) >= 1 /\ n = queue[1]
      /\ n \in [id : 1 .. MaxEvents, err : BOOLEAN]
      /\ Tail(queue) \in Seq([id : 1 .. MaxEvents, err : BOOLEAN])
      /\ Len(Tail(queue)) = Len(queue) - 1
      /\ \A i \in 1 .. Len(Tail(queue)) : Tail(queue)[i] = queue[i + 1]
  <2>1. Len(queue) \in Nat /\ Len(queue) # 0
    BY <1>0
  <2>2. n = queue[1] /\ 1 \in 1 .. Len(queue)
    BY <1>0, <2>1
  <2>3. n \in [id : 1 .. MaxEvents, err : BOOLEAN]
    BY <1>0, HeadTailProperties
  <2>4. /\ Tail(queue) \in Seq([id : 1 .. MaxEvents, err : BOOLEAN])
        /\ Len(Tail(queue)) = Len(queue) - 1
        /\ \A i \in 1 .. Len(Tail(queue)) : Tail(queue)[i] = queue[i + 1]
    BY <1>0, HeadTailProperties
  <2> QED BY <2>1, <2>2, <2>3, <2>4
<1>2. /\ n.id \in 1 .. emitted
      /\ n.id \in reverted => n.err
      /\ \A e \in posting \cup wire \cup Handled : e < n.id
  BY <1>0, <1>1 DEF QueueOrdered
<1>3. /\ posting' \subseteq posting \cup {n.id} /\ wire' \subseteq wire \cup {n.id}
      /\ n.err => posting' = posting /\ wire' = wire
      /\ posting' # posting => posting' = {n.id} /\ n.id \notin reverted
      /\ wire \subseteq wire'
      /\ wire' # wire => n.id \in posting'
  BY <1>2 DEF TakeNotification, Forwarded, Ready
<1>4. WorkerAppliesOnce' /\ WorkerSeesChainOrder' /\ Handled' = Handled
  BY LogUntouched DEF TakeNotification
<1>5. TailTypeOK'
  BY <1>0, <1>1, <1>3 DEF TailTypeOK, TakeNotification
<1>6. QueueOrdered'
  <2>1. \A e \in (posting \cup wire \cup Handled)' :
          /\ e \in posting \cup wire \cup Handled \cup {n.id}
          /\ e = n.id => e \notin reverted
    BY <1>0, <1>2, <1>3, <1>4 DEF QueueOrdered, TakeNotification, Forwarded
  <2>2. \A e \in (posting \cup wire \cup Handled)' :
          e \in 1 .. emitted' /\ e \notin reverted'
    BY <1>0, <1>2, <2>1 DEF QueueOrdered, TakeNotification
  <2>3. ASSUME NEW i \in 1 .. Len(queue')
        PROVE  /\ queue'[i].id \in 1 .. emitted'
               /\ queue'[i].id \in reverted' => queue'[i].err
               /\ \A e \in (posting \cup wire \cup Handled)' : e < queue'[i].id
    <3>1. i + 1 \in 1 .. Len(queue) /\ queue'[i] = queue[i + 1] /\ 1 < i + 1
      BY <1>1, <2>3 DEF TakeNotification
    <3>2. n.id < queue[i + 1].id
      BY <1>0, <1>1, <3>1 DEF QueueOrdered
    <3> QED BY <1>0, <2>1, <3>1, <3>2 DEF QueueOrdered, TakeNotification
  <2>4. ASSUME NEW i \in 1 .. Len(queue'), NEW j \in 1 .. Len(queue'), i < j
        PROVE  queue'[i].id < queue'[j].id
    <3>1. /\ i + 1 \in 1 .. Len(queue) /\ queue'[i] = queue[i + 1]
          /\ j + 1 \in 1 .. Len(queue) /\ queue'[j] = queue[j + 1]
          /\ i + 1 < j + 1
      BY <1>1, <2>4 DEF TakeNotification
    <3> QED BY <1>0, <3>1 DEF QueueOrdered
  <2> QED BY <1>0, <2>2, <2>3, <2>4 DEF QueueOrdered, TakeNotification
<1>7. WireOrdered'
  <2>1. n.id \notin Handled /\ n.id \in Int
    BY <1>1, <1>2
  <2>2. (wire \cap Handled)' = {}
    BY <1>0, <1>3, <1>4, <2>1 DEF WireOrdered
  <2>3. wire' \subseteq posting' \cup abandoned'
    BY <1>0, <1>3 DEF WireOrdered, TakeNotification, Forwarded, Ready
  <2>4. ASSUME NEW e \in posting', NEW f \in (wire \cup Handled)'
        PROVE  f <= e
    <3>1. e = n.id
      BY <1>3 DEF TakeNotification, Ready
    <3>2. f = n.id \/ f \in wire \cup Handled
      BY <1>3, <1>4
    <3>3. f \in Int
      BY <1>0, <2>1, <3>2 DEF QueueOrdered
    <3> QED BY <1>2, <2>1, <3>1, <3>2, <3>3
  <2> QED BY <2>2, <2>3, <2>4 DEF WireOrdered
<1> QED BY <1>4, <1>5, <1>6, <1>7 DEF TailInv

\* A POST ends or is given up: what is on the wire without being awaited has
\* been abandoned.
LEMMA ReturnStep ==
  ASSUME TailInv, NEW e \in posting, PostReturns(e)
  PROVE  TailInv'
<1>0. TailTypeOK /\ QueueOrdered /\ WireOrdered
  BY DEF TailInv
<1>1. /\ wire' = wire /\ posting' = posting \ {e}
      /\ abandoned \subseteq abandoned' /\ abandoned' \subseteq abandoned \cup {e}
      /\ e \in wire => e \in abandoned'
  BY DEF PostReturns, AfterFailure, StillPosting
<1>2. WorkerAppliesOnce' /\ WorkerSeesChainOrder' /\ Handled' = Handled
  BY <1>1, LogUntouched DEF PostReturns
<1>3. TailTypeOK'
  BY <1>0, <1>1 DEF TailTypeOK, PostReturns
<1>4. QueueOrdered'
  BY <1>0, <1>1, <1>2 DEF QueueOrdered, PostReturns
<1>5. WireOrdered'
  BY <1>0, <1>1, <1>2 DEF WireOrdered
<1> QED BY <1>2, <1>3, <1>4, <1>5 DEF TailInv

\* The tail fails: its queue is lost and the POST it waited for is abandoned.
LEMMA FailStep ==
  ASSUME TailInv, TailFails
  PROVE  TailInv'
<1>0. TailTypeOK /\ QueueOrdered /\ WireOrdered
  BY DEF TailInv
<1>1. WorkerAppliesOnce' /\ WorkerSeesChainOrder' /\ Handled' = Handled
  BY LogUntouched DEF TailFails
<1>2. TailTypeOK'
  BY <1>0 DEF TailTypeOK, TailFails
<1>3. QueueOrdered'
  <2>1. Len(queue') = 0
    BY DEF TailFails
  <2> QED BY <1>0, <1>1, <2>1 DEF QueueOrdered, TailFails
<1>4. WireOrdered'
  BY <1>0, <1>1 DEF WireOrdered, TailFails
<1> QED BY <1>1, <1>2, <1>3, <1>4 DEF TailInv

\* A POST is lost.
LEMMA LoseStep ==
  ASSUME TailInv, NEW e \in wire, WireLoses(e)
  PROVE  TailInv'
<1>0. TailTypeOK /\ QueueOrdered /\ WireOrdered
  BY DEF TailInv
<1>1. WorkerAppliesOnce' /\ WorkerSeesChainOrder' /\ Handled' = Handled
  BY LogUntouched DEF WireLoses
<1>2. TailTypeOK'
  BY <1>0 DEF TailTypeOK, WireLoses
<1>3. QueueOrdered'
  BY <1>0, <1>1 DEF QueueOrdered, WireLoses
<1>4. WireOrdered'
  BY <1>0, <1>1 DEF WireOrdered, WireLoses
<1> QED BY <1>1, <1>2, <1>3, <1>4 DEF TailInv

\* The worker handles a POST: one that is awaited is newer than everything it
\* handled before, any other was abandoned.
LEMMA ApplyStep ==
  ASSUME TailInv, NEW e \in wire, WorkerApplies(e)
  PROVE  TailInv'
<1>0. /\ TailTypeOK /\ QueueOrdered /\ WireOrdered
      /\ WorkerAppliesOnce /\ WorkerSeesChainOrder
      /\ applied \in Seq(1 .. MaxEvents)
      /\ e \in 1 .. MaxEvents /\ e \in Int
  BY TailAssumption DEF TailInv, TailTypeOK
<1>1. /\ Len(applied') = Len(applied) + 1 /\ Len(applied) \in Nat
      /\ applied'[Len(applied) + 1] = e
      /\ \A i \in 1 .. Len(applied) : applied'[i] = applied[i]
      /\ applied' \in Seq(1 .. MaxEvents)
  BY <1>0 DEF WorkerApplies
<1>2. Handled' = Handled \cup {e}
  <2>1. ASSUME NEW f \in Handled' PROVE f \in Handled \cup {e}
    <3>1. PICK i \in 1 .. Len(applied') : f = applied'[i]
      BY <2>1 DEF Handled
    <3>2. CASE i = Len(applied) + 1
      BY <1>1, <3>1, <3>2
    <3>3. CASE i \in 1 .. Len(applied)
      BY <1>1, <3>1, <3>3 DEF Handled
    <3> QED BY <1>1, <3>2, <3>3
  <2>2. Handled \subseteq Handled'
    BY <1>1 DEF Handled
  <2>3. e \in Handled'
    BY <1>1 DEF Handled
  <2> QED BY <2>1, <2>2, <2>3
<1>3. e \notin Handled /\ e \notin reverted
  BY <1>0 DEF WireOrdered, QueueOrdered
<1>4. TailTypeOK'
  BY <1>0, <1>1 DEF TailTypeOK, WorkerApplies
<1>5. QueueOrdered'
  BY <1>0, <1>2 DEF QueueOrdered, WorkerApplies
<1>6. WireOrdered'
  BY <1>0, <1>2 DEF WireOrdered, WorkerApplies
<1>7. WorkerAppliesOnce'
  <2>1. \A i \in 1 .. Len(applied) : applied[i] \in Handled
    BY DEF Handled
  <2>2. ASSUME NEW i \in 1 .. Len(applied'), NEW j \in 1 .. Len(applied'),
               applied'[i] = applied'[j]
        PROVE  i = j
    BY <1>0, <1>1, <1>3, <2>1, <2>2 DEF WorkerAppliesOnce
  <2>3. ASSUME NEW i \in 1 .. Len(applied') PROVE applied'[i] \notin reverted'
    BY <1>0, <1>1, <1>3 DEF WorkerAppliesOnce, WorkerApplies
  <2> QED BY <2>2, <2>3 DEF WorkerAppliesOnce
<1>8. WorkerSeesChainOrder'
  <2> SUFFICES ASSUME NEW i \in 1 .. Len(applied'), NEW j \in 1 .. Len(applied'),
                      i < j, applied'[j] < applied'[i]
               PROVE  applied'[j] \in abandoned
    BY DEF WorkerSeesChainOrder, WorkerApplies
  <2>1. i \in 1 .. Len(applied) /\ applied'[i] = applied[i]
    BY <1>1
  <2>2. CASE j \in 1 .. Len(applied)
    BY <1>0, <1>1, <2>1, <2>2 DEF WorkerSeesChainOrder
  <2>3. CASE j = Len(applied) + 1
    <3>1. applied'[j] = e /\ applied[i] \in Handled /\ applied[i] \in Int
      <4>1. applied[i] \in 1 .. MaxEvents
        BY <1>0, <2>1, ElementOfSeq
      <4>2. applied[i] \in Handled
        BY <2>1 DEF Handled
      <4> QED BY <1>1, <2>3, <4>1, <4>2
    <3>2. e \notin posting
      BY <1>0, <2>1, <3>1 DEF WireOrdered
    <3> QED BY <1>0, <3>1, <3>2 DEF WireOrdered
  <2> QED BY <1>1, <2>2, <2>3
<1> QED BY <1>4, <1>5, <1>6, <1>7, <1>8 DEF TailInv

-----------------------------------------------------------------------------
(* The process *)

\* Every step of the bridge process is one of its quote service or leaves that
\* alone.
LEMMA BridgeStepServes == [BridgeNext]_bridgeVars => [QuoteNext]_quoteVars
BY DEF BridgeNext, QuoteNext, Exit, Supervise, bridgeVars

\* Every step of the bridge process keeps the event tail in order.
LEMMA BridgeStepTails == TailInv /\ [BridgeNext]_bridgeVars => TailInv'
<1> SUFFICES ASSUME TailInv, [BridgeNext]_bridgeVars PROVE TailInv'
  OBVIOUS
<1>1. CASE UNCHANGED tailVars
  BY <1>1, SubscribeStep
<1>2. CASE TailStep \/ Outside
  BY <1>2, SubscribeStep, TakeStep, ReturnStep, EmitStep, ApplyStep, LoseStep
     DEF TailStep, Outside
<1>3. CASE Exit
  BY <1>3, FailStep DEF Exit
<1>4. CASE Supervise
  BY <1>4, SubscribeStep DEF Supervise
<1> QED BY <1>1, <1>2, <1>3, <1>4 DEF BridgeNext, bridgeVars

\* The bridge process, with its event tail, its exits and its restarts,
\* implements the quote service: all that holds of the service alone, the rate
\* bound and the attestations, holds of the process (main in ts/bridge).
THEOREM BridgeImplementsQuoteService == BridgeSpec => QuoteSpec
<1>1. BridgeInit => QuoteInit
  BY DEF BridgeInit
<1> QED BY <1>1, BridgeStepServes, PTL DEF BridgeSpec, QuoteSpec

BridgeInv == IInv /\ TailInv /\ restarts \in 0 .. MaxRestarts

\* The invariant of the process is that of its two halves.
LEMMA BridgeInvInit == BridgeInit => BridgeInv
BY InvInit, TailInvInit, BridgeAssumption DEF BridgeInit, BridgeInv

\* Every step of the process keeps the invariants of both halves.
LEMMA BridgeInvStep == BridgeInv /\ [BridgeNext]_bridgeVars => BridgeInv'
<1> SUFFICES ASSUME BridgeInv, [BridgeNext]_bridgeVars PROVE BridgeInv'
  OBVIOUS
<1>1. IInv'
  BY BridgeStepServes, InvStep DEF BridgeInv
<1>2. TailInv'
  BY BridgeStepTails DEF BridgeInv
<1>3. restarts' = restarts \/ (restarts < MaxRestarts /\ restarts' = restarts + 1)
  BY DEF BridgeNext, Exit, Supervise, bridgeVars
<1>4. restarts' \in 0 .. MaxRestarts
  BY <1>3, BridgeAssumption DEF BridgeInv
<1> QED BY <1>1, <1>2, <1>4 DEF BridgeInv

\* Both halves of the process keep their types across failures and restarts.
THEOREM BridgeTypeCorrect == BridgeSpec => []BridgeTypeOK
<1>1. BridgeInv => BridgeTypeOK
  BY DEF BridgeInv, BridgeTypeOK, IInv, RateInv, TailInv
<1> QED BY <1>1, BridgeInvInit, BridgeInvStep, PTL DEF BridgeSpec

\* For any number of events and restarts, forwardEvent moves an agent's record
\* on the EVM side at most once for each event, and never for a transaction
\* that failed.
THEOREM WorkerAppliesOnceHolds == BridgeSpec => []WorkerAppliesOnce
<1>1. BridgeInv => WorkerAppliesOnce
  BY DEF BridgeInv, TailInv
<1> QED BY <1>1, BridgeInvInit, BridgeInvStep, PTL DEF BridgeSpec

\* The await on forwardEvent keeps the worker in the order of the chain but for
\* the POSTs that the tail stopped waiting for.
THEOREM WorkerSeesChainOrderHolds == BridgeSpec => []WorkerSeesChainOrder
<1>1. BridgeInv => WorkerSeesChainOrder
  BY DEF BridgeInv, TailInv
<1> QED BY <1>1, BridgeInvInit, BridgeInvStep, PTL DEF BridgeSpec
=============================================================================
