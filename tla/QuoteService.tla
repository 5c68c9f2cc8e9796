---------------------------- MODULE QuoteService ----------------------------
(***************************************************************************)
(* The bridge's POST /quote: bearer-token check, token-bucket rate limit,  *)
(* the body, two or three awaited reads of EVM contracts, and a signed     *)
(* credit attestation.  Requests interleave at every await; the EVM state  *)
(* moves underneath them.                                                  *)
(*                                                                         *)
(* Buckets live in the process: Crash loses them with the requests that    *)
(* were being served.  Tokens are counted in units in which a quote costs  *)
(* COST and a second refills REFILL (the defaults, 1 and 12/60, are 5 and  *)
(* 1 here); the code keeps the same quantities as floating point numbers.  *)
(* Date.now() is taken to be monotonic.                                    *)
(***************************************************************************)
EXTENDS Integers

CONSTANTS
  Callers,       \* rate keys: bearer tokens, or remote addresses without auth
  AuthTokens,    \* the callers that pass the bearer check
  Requests,      \* HTTP requests being served at the same time
  Agents,        \* Solana public keys that a body may name
  NoAgent,       \* no agent
  Bindings,      \* agentBindings: a function from agents to EVM addresses
  EvmAddresses,
  Credits,       \* u256 values of exposure and maxExposure
  U64_MAX,       \* 2^64 - 1
  Ttls,          \* values of ttl_seconds in bodies, whole seconds
  MAX_TTL,       \* 15 * 60
  CAPACITY, REFILL, COST,
  MaxTime        \* bound: last clock value explored

ASSUME QuoteAssumption ==
  /\ AuthTokens \subseteq Callers
  /\ NoAgent \notin Agents
  /\ DOMAIN Bindings \subseteq Agents
  /\ Bindings \in [DOMAIN Bindings -> EvmAddresses]
  /\ Credits \subseteq Nat /\ 0 \in Credits
  /\ Ttls \subseteq Int
  /\ U64_MAX \in Nat /\ MAX_TTL \in Nat /\ MaxTime \in Nat
  /\ CAPACITY \in Nat /\ REFILL \in Nat /\ COST \in Nat

VARIABLES
  clock,      \* Date.now() in seconds
  server,     \* "up" or "down"
  bucket,     \* RateLimiter.buckets
  request,    \* progress of each request
  exposure,   \* TrustlessEscrow.exposure, by EVM address
  credit,     \* ReputationCreditOracle.maxExposure, by EVM address
  reply       \* the last attestation signed

\* History, never read by an action.  since[c][t] counts the quotes admitted
\* for c at time t or later in this process's life; seen[r] holds the values
\* the EVM contracts have had for r's agent while r was being served.
VARIABLES since, seen

evmVars == <<exposure, credit>>
quoteVars == <<clock, server, bucket, request, exposure, credit, reply, since,
               seen>>

NoBucket == [known |-> FALSE, tokens |-> 0, last |-> 0]
NoRequest ==
  [pc |-> "idle", agent |-> NoAgent, ttl |-> 0, outstanding |-> 0, limit |-> 0]
NoReply ==
  [agent |-> NoAgent, limit |-> 0, outstanding |-> 0, attested_at |-> 0,
   expires_at |-> 0]
NoneSeen == [exposures |-> {}, limits |-> {}]
NeverAdmitted == [c \in Callers |-> [t \in 0 .. MaxTime |-> 0]]

QuoteInit ==
  /\ clock = 0
  /\ server = "up"
  /\ bucket = [c \in Callers |-> NoBucket]
  /\ request = [r \in Requests |-> NoRequest]
  /\ exposure \in [EvmAddresses -> Credits]
  /\ credit \in [EvmAddresses -> Credits]
  /\ reply = NoReply
  /\ since = NeverAdmitted
  /\ seen = [r \in Requests |-> NoneSeen]

-----------------------------------------------------------------------------
(* RateLimiter.consume *)

Least(x, y) == IF x <= y THEN x ELSE y

\* Mutation: time that has passed is credited without the burst ceiling.
Refilled_uncapped(b) == b.tokens + (clock - b.last) * REFILL

Refilled(b) == Least(CAPACITY, b.tokens + (clock - b.last) * REFILL)

\* The tokens of c's bucket at this moment; a new bucket is full.
Tokens(c) == IF bucket[c].known THEN Refilled(bucket[c]) ELSE CAPACITY

Admits(c) == Tokens(c) >= COST

\* A refused call also brings the bucket up to date.
Consumed(c) ==
  [known |-> TRUE, last |-> clock,
   tokens |-> IF Admits(c) THEN Tokens(c) - COST ELSE Tokens(c)]

-----------------------------------------------------------------------------
(* POST /quote, await by await *)

Resolve(a) == Bindings[a]

\* Authorization and rate limit come before the body is read.
PostQuote(r, c, a, ttl) ==
  /\ server = "up"
  /\ request[r].pc = "idle"
  /\ c \in AuthTokens
  /\ bucket' = [bucket EXCEPT ![c] = Consumed(c)]
  /\ IF Admits(c)
       THEN /\ request' = [request EXCEPT ![r] =
                             [NoRequest EXCEPT !.pc = "body", !.agent = a,
                                               !.ttl = ttl]]
            /\ since' = [since EXCEPT ![c] =
                           [t \in 0 .. MaxTime |->
                              since[c][t] + (IF t <= clock THEN 1 ELSE 0)]]
       ELSE UNCHANGED <<request, since>>
  /\ UNCHANGED <<clock, server, evmVars, reply, seen>>

Answer(r) == request' = [request EXCEPT ![r] = NoRequest]

\* handleQuote up to its first await: TTL, then the binding.
ReadBody(r) ==
  /\ request[r].pc = "body"
  /\ IF Least(request[r].ttl, MAX_TTL) > 0 /\ request[r].agent \in DOMAIN Bindings
       THEN /\ request' = [request EXCEPT
                             ![r].pc = "exposure",
                             ![r].ttl = Least(request[r].ttl, MAX_TTL)]
            /\ seen' = [seen EXCEPT ![r] =
                          [exposures |-> {exposure[Resolve(request[r].agent)]},
                           limits |-> {credit[Resolve(request[r].agent)]}]]
       ELSE Answer(r) /\ UNCHANGED seen
  /\ UNCHANGED <<clock, server, bucket, evmVars, reply, since>>

\* Mutation: the exposure of an agent quoted before is taken from a cache.
ExposureRead_cached(r) ==
  IF reply.agent = request[r].agent THEN reply.outstanding
  ELSE exposure[Resolve(request[r].agent)]

ExposureRead(r) == exposure[Resolve(request[r].agent)]

\* fetchAgent's first await; a failed read fails the quote.
ReadExposure(r) ==
  /\ request[r].pc = "exposure"
  /\ \/ request' = [request EXCEPT ![r].pc = "credit",
                                   ![r].outstanding = ExposureRead(r)]
     \/ Answer(r)
  /\ UNCHANGED <<clock, server, bucket, evmVars, reply, since, seen>>

\* getCredit, or after its failure the legacy maxExposure read, whose own
\* failure fails the quote.
ReadCredit(r) ==
  /\ request[r].pc \in {"credit", "legacy"}
  /\ \/ request' = [request EXCEPT ![r].pc = "sign",
                                   ![r].limit = credit[Resolve(request[r].agent)]]
     \/ /\ request[r].pc = "credit"
        /\ request' = [request EXCEPT ![r].pc = "legacy"]
     \/ request[r].pc = "legacy" /\ Answer(r)
  /\ UNCHANGED <<clock, server, bucket, evmVars, reply, since, seen>>

\* encodeAttestation refuses what does not fit a u64.
Encodable(r) == request[r].limit <= U64_MAX /\ request[r].outstanding <= U64_MAX

\* The rest of handleQuote: zero limit refused, timestamps, signature.
Sign(r) ==
  /\ request[r].pc = "sign"
  /\ Answer(r)
  /\ IF request[r].limit # 0 /\ Encodable(r)
       THEN reply' = [agent |-> request[r].agent, limit |-> request[r].limit,
                      outstanding |-> request[r].outstanding,
                      attested_at |-> clock,
                      expires_at |-> clock + request[r].ttl]
       ELSE UNCHANGED reply
  /\ seen' = [seen EXCEPT ![r] = NoneSeen]
  /\ UNCHANGED <<clock, server, bucket, evmVars, since>>

-----------------------------------------------------------------------------
(* Environment *)

\* The EVM lane lends, is repaid, or rescores an agent.
EvmChange(e) ==
  /\ \/ exposure' \in {[exposure EXCEPT ![e] = n] : n \in Credits} /\ UNCHANGED credit
     \/ credit' \in {[credit EXCEPT ![e] = n] : n \in Credits} /\ UNCHANGED exposure
  /\ seen' = [r \in Requests |->
                IF request[r].pc \in {"exposure", "credit", "legacy"}
                     /\ Resolve(request[r].agent) = e
                  THEN [exposures |-> seen[r].exposures \cup {exposure'[e]},
                        limits |-> seen[r].limits \cup {credit'[e]}]
                  ELSE seen[r]]
  /\ UNCHANGED <<clock, server, bucket, request, reply, since>>

Tick ==
  /\ clock < MaxTime
  /\ clock' = clock + 1
  /\ UNCHANGED <<server, bucket, request, evmVars, reply, since, seen>>

\* The process ends: sockets are closed and the buckets are gone.
Crash ==
  /\ server = "up"
  /\ server' = "down"
  /\ bucket' = [c \in Callers |-> NoBucket]
  /\ request' = [r \in Requests |-> NoRequest]
  /\ since' = NeverAdmitted
  /\ seen' = [r \in Requests |-> NoneSeen]
  /\ UNCHANGED <<clock, evmVars, reply>>

Start ==
  /\ server = "down"
  /\ server' = "up"
  /\ UNCHANGED <<clock, bucket, request, evmVars, reply, since, seen>>

Serve ==
  \/ \E r \in Requests, c \in Callers, a \in Agents, ttl \in Ttls :
       PostQuote(r, c, a, ttl)
  \/ \E r \in Requests :
       ReadBody(r) \/ ReadExposure(r) \/ ReadCredit(r) \/ Sign(r)

World == Tick \/ \E e \in EvmAddresses : EvmChange(e)

QuoteNext == Serve \/ World \/ Crash \/ Start

QuoteSpec == QuoteInit /\ [][QuoteNext]_quoteVars

-----------------------------------------------------------------------------
(* Properties *)

Phases == {"idle", "body", "exposure", "credit", "legacy", "sign"}

\* Every variable has its type; tokens never leave 0 .. CAPACITY.
QuoteTypeOK ==
  /\ clock \in 0 .. MaxTime
  /\ server \in {"up", "down"}
  /\ bucket \in [Callers -> [known : BOOLEAN, tokens : 0 .. CAPACITY,
                             last : 0 .. MaxTime]]
  /\ request \in [Requests -> [pc : Phases, agent : Agents \cup {NoAgent},
                               ttl : Int, outstanding : Nat, limit : Nat]]
  /\ exposure \in [EvmAddresses -> Credits]
  /\ credit \in [EvmAddresses -> Credits]
  /\ reply \in [agent : Agents \cup {NoAgent}, limit : Nat, outstanding : Nat,
                attested_at : Nat, expires_at : Int]
  /\ since \in [Callers -> [0 .. MaxTime -> Nat]]
  /\ seen \in [Requests -> [exposures : SUBSET Credits, limits : SUBSET Credits]]

\* RateLimiter (ts/bridge/src/index.ts): in every interval that ends now, one
\* caller is admitted at most the burst plus what the interval refills, however
\* admissions, refusals and idle times alternate.
QuotesRateBounded ==
  \A c \in Callers, t \in 0 .. MaxTime :
    t <= clock => COST * since[c][t] <= CAPACITY + REFILL * (clock - t)

\* handleQuote signs only what the EVM contracts said of the bound address
\* while this very request was being served, not a value of another request,
\* another agent or an earlier quote; and what it signs lapses within MAX_TTL.
\* (Limit and exposure are read at different moments: nothing says that they
\* ever held together.)
AttestsWhatWasRead ==
  [][reply' # reply =>
       \E r \in Requests :
         /\ request[r].pc = "sign" /\ request'[r].pc = "idle"
         /\ reply'.agent = request[r].agent /\ reply'.agent \in DOMAIN Bindings
         /\ reply'.outstanding \in seen[r].exposures
         /\ reply'.limit \in seen[r].limits \ {0}
         /\ reply'.expires_at - reply'.attested_at \in 1 .. MAX_TTL]_quoteVars
=============================================================================
