------------------------------ MODULE SiwsAuth ------------------------------
(***************************************************************************)
(* The server's Sign-In With Solana: POST /auth/nonce hands out one-shot   *)
(* nonces from an in-memory store, authMiddleware accepts a request whose  *)
(* headers carry such a nonce and a signature over the canonical message.  *)
(*                                                                         *)
(* The middleware has no await before next(), so one request is one step.  *)
(* A request that was sent may arrive late, twice, after others or never:  *)
(* any headers may be presented at any time, with any signature that has   *)
(* ever been made.  A request refused before the nonce store is looked at  *)
(* (missing headers, unknown cluster, timestamp out of tolerance) changes  *)
(* nothing and is no step.  GET, HEAD and OPTIONS pass without any of this *)
(* and get no auth context.                                                *)
(*                                                                         *)
(* A message is the record of what buildSiwsMessage puts in its lines; the *)
(* domain, statement and version are the same for all of them.  Date.now() *)
(* is taken to be monotonic.                                               *)
(***************************************************************************)
EXTENDS Integers, FiniteSets

CONSTANTS
  Addresses,               \* base58 public keys
  NoAddress,
  Uris,                    \* request URLs
  Clusters,                \* values of X-Agent-Cluster
  CLUSTERS,                \* {"mainnet-beta", "devnet"}
  Nonces,                  \* 16 random bytes; never drawn twice
  NoSignature,             \* a signature that does not decode to 64 bytes
  Skews,                   \* wallet clock minus server clock
  TIMESTAMP_TOLERANCE,     \* 10 minutes
  NONCE_TTL,               \* 5 minutes
  EXPIRATION,              \* 5 minutes, from Issued At to Expiration Time
  MaxSigned,               \* bound: signatures made
  MaxTime                  \* bound: last clock value explored

ASSUME SiwsAssumption ==
  /\ NoAddress \notin Addresses
  /\ CLUSTERS \subseteq Clusters
  /\ Skews \subseteq Int
  /\ TIMESTAMP_TOLERANCE \in Nat /\ NONCE_TTL \in Nat /\ EXPIRATION \in Nat
  /\ MaxTime \in Nat /\ MaxSigned \in Nat

VARIABLES
  clock,    \* Date.now()
  nonces,   \* NonceStore.nonces: NoEntry where the map has no key
  signed    \* messages for which a wallet has produced a signature

\* History.  minted[n] is for whom and when n was drawn, kept when the store
\* forgets it; touched holds the nonces that have been presented with their own
\* address or were lost in a restart; uses[n] counts the requests accepted with
\* n, granted holds what was accepted and when; last_issue is the time of the
\* latest POST /auth/nonce.
VARIABLES minted, touched, uses, granted, last_issue

histVars == <<minted, touched, uses, granted, last_issue>>
vars == <<clock, nonces, signed, histVars>>

NoEntry == [address |-> NoAddress, issuedAt |-> 0]

Entry == [address : Addresses \cup {NoAddress}, issuedAt : 0 .. MaxTime]

Message ==
  [address : Addresses, uri : Uris, cluster : Clusters, nonce : Nonces,
   issuedAt : Int, expirationTime : Int]

Init ==
  /\ clock = 0
  /\ nonces = [n \in Nonces |-> NoEntry]
  /\ signed = {}
  /\ minted = [n \in Nonces |-> NoEntry]
  /\ touched = {}
  /\ uses = [n \in Nonces |-> 0]
  /\ granted = {}
  /\ last_issue = 0

-----------------------------------------------------------------------------
(* NonceStore *)

Expired(entry) == clock - entry.issuedAt > NONCE_TTL

\* Mutation: issuing a nonce clears nothing away.
Collected_nothing == nonces

\* gc, which runs only when a nonce is issued.
Collected ==
  [n \in Nonces |-> IF nonces[n] # NoEntry /\ Expired(nonces[n]) THEN NoEntry
                                                               ELSE nonces[n]]

\* POST /auth/nonce: anybody may ask, for any address.
IssueNonce(a, n) ==
  /\ minted[n] = NoEntry
  /\ nonces' = [Collected EXCEPT ![n] = [address |-> a, issuedAt |-> clock]]
  /\ minted' = [minted EXCEPT ![n] = [address |-> a, issuedAt |-> clock]]
  /\ last_issue' = clock
  /\ UNCHANGED <<clock, signed, touched, uses, granted>>

\* Mutation: stale entries are left to gc.
Consumable_stale(n, a) == nonces[n] # NoEntry /\ nonces[n].address = a

\* consume returns true.
Consumable(n, a) ==
  /\ nonces[n] # NoEntry
  /\ nonces[n].address = a
  /\ ~Expired(nonces[n])

\* Mutation: the entry is not deleted.
Spent_kept(n, a) == nonces

\* Mutation: the entry is deleted before its address is compared.
Spent_any(n, a) == [nonces EXCEPT ![n] = NoEntry]

\* The store after consume: an entry of this address is deleted whether or not
\* it has expired, an entry of another address stays.
Spent(n, a) ==
  IF nonces[n].address = a THEN [nonces EXCEPT ![n] = NoEntry] ELSE nonces

-----------------------------------------------------------------------------
(* authMiddleware *)

InTolerance(timestamp) ==
  timestamp - clock \in -TIMESTAMP_TOLERANCE .. TIMESTAMP_TOLERANCE

\* The message rebuilt from the headers h and the URL of the request.
Expected(h) ==
  [address |-> h.address, uri |-> h.uri, cluster |-> h.cluster,
   nonce |-> h.nonce, issuedAt |-> h.timestamp,
   expirationTime |-> h.timestamp + EXPIRATION]

\* nacl.sign.detached.verify: a signature verifies for the message it was made
\* over, under the key that made it.
Verifies(h, sig) == sig # NoSignature /\ sig = Expected(h)

KnownCluster(h) == h.cluster \in CLUSTERS

\* The nonce is spent before the signature is looked at.  next() runs with the
\* auth context when the request is accepted.
Authenticate(h, sig) ==
  /\ KnownCluster(h)
  /\ InTolerance(h.timestamp)
  /\ nonces' = Spent(h.nonce, h.address)
  /\ touched' = IF minted[h.nonce].address = h.address THEN touched \cup {h.nonce}
                                                      ELSE touched
  /\ IF Consumable(h.nonce, h.address) /\ Verifies(h, sig)
       THEN /\ uses' = [uses EXCEPT ![h.nonce] = @ + 1]
            /\ granted' = granted \cup {[message |-> Expected(h), at |-> clock]}
       ELSE UNCHANGED <<uses, granted>>
  /\ UNCHANGED <<clock, signed, minted, last_issue>>

-----------------------------------------------------------------------------
(* Around the server *)

\* A wallet signs for its own address and a nonce it was given, with its own
\* idea of the time.
WalletSigns(a, n, uri, cluster, skew) ==
  /\ minted[n].address = a
  /\ Cardinality(signed) < MaxSigned
  /\ signed' = signed \cup
       {[address |-> a, uri |-> uri, cluster |-> cluster, nonce |-> n,
         issuedAt |-> clock + skew, expirationTime |-> clock + skew + EXPIRATION]}
  /\ UNCHANGED <<clock, nonces, histVars>>

\* The process is restarted; the store was in its memory.
Restart ==
  /\ nonces' = [n \in Nonces |-> NoEntry]
  /\ touched' = {n \in Nonces : minted[n] # NoEntry}
  /\ UNCHANGED <<clock, signed, minted, uses, granted, last_issue>>

Tick ==
  /\ clock < MaxTime
  /\ clock' = clock + 1
  /\ UNCHANGED <<nonces, signed, histVars>>

\* Timestamps that can be in tolerance at some time explored.
Timestamps == -TIMESTAMP_TOLERANCE .. MaxTime + TIMESTAMP_TOLERANCE

Headers ==
  [address : Addresses, uri : Uris, cluster : Clusters, nonce : Nonces,
   timestamp : Timestamps]

Next ==
  \/ \E a \in Addresses, n \in Nonces : IssueNonce(a, n)
  \/ \E h \in Headers, sig \in signed \cup {NoSignature} : Authenticate(h, sig)
  \/ \E a \in Addresses, n \in Nonces, uri \in Uris, cluster \in Clusters,
        skew \in Skews : WalletSigns(a, n, uri, cluster, skew)
  \/ Restart
  \/ Tick

Spec == Init /\ [][Next]_vars

-----------------------------------------------------------------------------
(* Properties *)

\* Every variable has its type; in particular AuthContext.cluster is one of the
\* two clusters, to which the header is cast before it is compared.
TypeOK ==
  /\ clock \in 0 .. MaxTime
  /\ nonces \in [Nonces -> Entry]
  /\ minted \in [Nonces -> Entry]
  /\ signed \subseteq Message
  /\ touched \subseteq Nonces
  /\ uses \in [Nonces -> Nat]
  /\ granted \subseteq [message : Message, at : 0 .. MaxTime]
  /\ \A g \in granted : g.message.cluster \in CLUSTERS
  /\ last_issue \in 0 .. clock

\* NonceStore.consume is one-shot: however a request is repeated, delayed or
\* resent with other headers, and across restarts, at most one request is
\* accepted with a nonce.
NonceAcceptedOnce == \A n \in Nonces : uses[n] <= 1

\* What the middleware accepts was signed by the address it sets in the auth
\* context, for exactly this URL, cluster and nonce, and the nonce was drawn for
\* that address no longer than NONCE_TTL ago, although gc runs only now and then.
\* The message's own Expiration Time is never compared with the clock: it may
\* have passed by as much as the timestamp tolerance exceeds the five minutes.
AcceptedIsFresh ==
  \A g \in granted :
    /\ g.message \in signed
    /\ minted[g.message.nonce].address = g.message.address
    /\ g.at - minted[g.message.nonce].issuedAt \in 0 .. NONCE_TTL
    /\ g.at - g.message.expirationTime <= TIMESTAMP_TOLERANCE - EXPIRATION

\* A nonce stays good until it expires, for its address alone to use up: neither
\* gc, nor other nonces being issued or spent, nor requests that present it with
\* another address take it away.
UnspentNonceKept ==
  \A n \in Nonces \ touched :
    minted[n] # NoEntry /\ ~Expired(minted[n]) => nonces[n] = minted[n]

\* The store does not accumulate: whatever it holds was still usable when the
\* latest nonce was issued.
StoreHoldsOnlyRecent ==
  \A n \in Nonces :
    nonces[n] # NoEntry => last_issue - nonces[n].issuedAt <= NONCE_TTL
=============================================================================
