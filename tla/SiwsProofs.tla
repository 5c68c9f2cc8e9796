----------------------------- MODULE SiwsProofs -----------------------------
(***************************************************************************)
(* Proofs about the SIWS middleware, for any number of addresses, nonces   *)
(* and requests and any tolerance and lifetime.                            *)
(***************************************************************************)
EXTENDS SiwsAuth, TLAPS

\* The store is a part of what was minted, and what it still holds is unused.
StoreInv ==
  \A n \in Nonces :
    /\ minted[n] = NoEntry \/ minted[n].address \in Addresses
    /\ minted[n].issuedAt <= clock
    /\ nonces[n] # NoEntry => nonces[n] = minted[n] /\ uses[n] = 0
    /\ minted[n] = NoEntry => uses[n] = 0
    /\ uses[n] <= 1

IInv ==
  /\ TypeOK /\ StoreInv
  /\ AcceptedIsFresh /\ UnspentNonceKept /\ StoreHoldsOnlyRecent

\* Nothing has been issued or accepted.
LEMMA InitIInv == Init => IInv
<1> SUFFICES ASSUME Init PROVE IInv
  OBVIOUS
<1> USE SiwsAssumption
<1>1. TypeOK
  BY DEF Init, TypeOK, Entry, NoEntry
<1>2. StoreInv
  BY DEF Init, StoreInv, NoEntry
<1>3. AcceptedIsFresh /\ UnspentNonceKept /\ StoreHoldsOnlyRecent
  BY DEF Init, AcceptedIsFresh, UnspentNonceKept, StoreHoldsOnlyRecent
<1> QED BY <1>1, <1>2, <1>3 DEF IInv

\* POST /auth/nonce: a fresh entry, and only expired ones are cleared away.
LEMMA IssueStep ==
  ASSUME IInv, NEW a \in Addresses, NEW m \in Nonces, IssueNonce(a, m)
  PROVE  IInv'
<1> USE SiwsAssumption
<1> DEFINE new == [address |-> a, issuedAt |-> clock]
<1>1. /\ minted[m] = NoEntry
      /\ nonces' = [Collected EXCEPT ![m] = new]
      /\ minted' = [minted EXCEPT ![m] = new]
      /\ last_issue' = clock
      /\ UNCHANGED <<clock, signed, touched, uses, granted>>
  BY DEF IssueNonce
<1>2. clock \in Nat /\ clock \in 0 .. MaxTime
  BY DEF IInv, TypeOK
<1>3. new \in Entry /\ new # NoEntry /\ new.address \in Addresses
      /\ new.issuedAt = clock
  BY <1>2 DEF Entry, NoEntry
<1> HIDE DEF new
<1>4. \A n \in Nonces : n # m =>
        /\ minted'[n] = minted[n]
        /\ nonces'[n] = Collected[n]
        /\ nonces'[n] # NoEntry => nonces'[n] = nonces[n] /\ ~Expired(nonces[n])
        /\ nonces'[n] = NoEntry => nonces[n] = NoEntry \/ Expired(nonces[n])
  BY <1>1 DEF IInv, TypeOK, Collected
<1>5. minted'[m] = new /\ nonces'[m] = new
  BY <1>1 DEF IInv, TypeOK, Collected
<1>6. \A n \in Nonces : Collected[n] \in Entry
  BY DEF IInv, TypeOK, Collected, Entry, NoEntry
<1>7. TypeOK'
  <2>1. nonces' \in [Nonces -> Entry] /\ minted' \in [Nonces -> Entry]
    BY <1>1, <1>3, <1>6 DEF IInv, TypeOK, Collected
  <2> QED BY <1>1, <1>2, <2>1 DEF IInv, TypeOK
<1>8. StoreInv'
  BY <1>1, <1>2, <1>3, <1>4, <1>5 DEF IInv, StoreInv, TypeOK, Entry
<1>9. AcceptedIsFresh'
  <2> SUFFICES ASSUME NEW g \in granted
               PROVE  /\ g.message \in signed
                      /\ minted'[g.message.nonce].address = g.message.address
                      /\ g.at - minted'[g.message.nonce].issuedAt \in 0 .. NONCE_TTL
                      /\ g.at - g.message.expirationTime
                           <= TIMESTAMP_TOLERANCE - EXPIRATION
    BY <1>1 DEF AcceptedIsFresh
  <2>1. g.message \in Message
    BY DEF IInv, TypeOK
  <2>2. g.message.nonce \in Nonces /\ g.message.address \in Addresses
    BY <2>1 DEF Message
  <2>3. g.message.nonce # m
    BY <1>1, <2>2 DEF IInv, AcceptedIsFresh, NoEntry
  <2> QED BY <1>4, <2>2, <2>3 DEF IInv, AcceptedIsFresh
<1>10. UnspentNonceKept'
  BY <1>1, <1>4, <1>5 DEF IInv, UnspentNonceKept, Expired
<1>11. StoreHoldsOnlyRecent'
  <2> SUFFICES ASSUME NEW n \in Nonces, nonces'[n] # NoEntry
               PROVE  clock - nonces'[n].issuedAt <= NONCE_TTL
    BY <1>1 DEF StoreHoldsOnlyRecent
  <2>1. CASE n = m
    BY <1>2, <1>3, <1>5, <2>1
  <2>2. CASE n # m
    <3>1. nonces'[n] = nonces[n] /\ ~Expired(nonces[n])
      BY <1>4, <2>2
    <3>2. nonces[n].issuedAt \in Nat
      BY DEF IInv, TypeOK, Entry
    <3> QED BY <1>2, <3>1, <3>2 DEF Expired
  <2> QED BY <2>1, <2>2
<1> QED BY <1>7, <1>8, <1>9, <1>10, <1>11 DEF IInv

\* authMiddleware: an entry leaves the store for its own address only, and is
\* counted as used only if it was in the store and young enough.
LEMMA AuthenticateStep ==
  ASSUME IInv, NEW h \in Headers, NEW sig \in signed \cup {NoSignature},
         Authenticate(h, sig)
  PROVE  IInv'
<1> USE SiwsAssumption
<1> DEFINE m == h.nonce
           ok == Consumable(m, h.address) /\ Verifies(h, sig)
<1>1. /\ m \in Nonces /\ h.address \in Addresses /\ h.uri \in Uris
      /\ h.cluster \in Clusters /\ h.timestamp \in Int
  BY DEF Headers, Timestamps
<1>2. /\ KnownCluster(h) /\ InTolerance(h.timestamp)
      /\ nonces' = Spent(m, h.address)
      /\ touched' = IF minted[m].address = h.address THEN touched \cup {m}
                                                     ELSE touched
      /\ UNCHANGED <<clock, signed, minted, last_issue>>
  BY DEF Authenticate
<1>3. ok => /\ uses' = [uses EXCEPT ![m] = @ + 1]
            /\ granted' = granted \cup {[message |-> Expected(h), at |-> clock]}
  BY DEF Authenticate
<1>4. ~ok => UNCHANGED <<uses, granted>>
  BY DEF Authenticate
<1>5. clock \in Nat /\ clock \in 0 .. MaxTime /\ uses \in [Nonces -> Nat]
  BY DEF IInv, TypeOK
<1>6. /\ nonces' \in [Nonces -> Entry]
      /\ \A n \in Nonces : nonces'[n] # NoEntry => nonces'[n] = nonces[n]
      /\ \A n \in Nonces : nonces'[n] # nonces[n] =>
           n = m /\ nonces[m].address = h.address
  BY <1>1, <1>2 DEF IInv, TypeOK, Spent, Entry, NoEntry
<1>7. ok => /\ nonces[m] # NoEntry /\ nonces[m].address = h.address
            /\ clock - nonces[m].issuedAt <= NONCE_TTL
            /\ nonces[m] = minted[m] /\ uses[m] = 0
            /\ nonces'[m] = NoEntry
            /\ sig = Expected(h) /\ sig \in signed
  <2> SUFFICES ASSUME ok
               PROVE  /\ nonces[m] # NoEntry /\ nonces[m].address = h.address
                      /\ clock - nonces[m].issuedAt <= NONCE_TTL
                      /\ nonces[m] = minted[m] /\ uses[m] = 0
                      /\ nonces'[m] = NoEntry
                      /\ sig = Expected(h) /\ sig \in signed
    OBVIOUS
  <2>1. nonces[m] # NoEntry /\ nonces[m].address = h.address
        /\ ~(clock - nonces[m].issuedAt > NONCE_TTL)
    BY DEF Consumable, Expired
  <2>2. nonces[m].issuedAt \in Nat
    BY <1>1 DEF IInv, TypeOK, Entry
  <2>3. nonces[m] = minted[m] /\ uses[m] = 0
    BY <1>1, <2>1 DEF IInv, StoreInv
  <2>4. nonces'[m] = NoEntry
    BY <1>1, <1>2, <2>1 DEF Spent, IInv, TypeOK
  <2>5. sig = Expected(h) /\ sig \in signed
    BY DEF Verifies
  <2> QED BY <1>5, <2>1, <2>2, <2>3, <2>4, <2>5
<1>8. Expected(h) \in Message /\ Expected(h).cluster \in CLUSTERS
  BY <1>1, <1>2 DEF Expected, Message, KnownCluster
<1> DEFINE g1 == [message |-> Expected(h), at |-> clock]
<1>9. TypeOK'
  <2>1. uses' \in [Nonces -> Nat]
    BY <1>1, <1>3, <1>4, <1>5
  <2>2. granted' \subseteq [message : Message, at : 0 .. MaxTime]
        /\ \A g \in granted' : g.message.cluster \in CLUSTERS
    BY <1>3, <1>4, <1>5, <1>8 DEF IInv, TypeOK
  <2>3. touched' \subseteq Nonces
    BY <1>1, <1>2 DEF IInv, TypeOK
  <2> QED BY <1>2, <1>6, <2>1, <2>2, <2>3 DEF IInv, TypeOK
<1>10. StoreInv'
  <2>1. \A n \in Nonces : n # m => uses'[n] = uses[n]
    BY <1>1, <1>3, <1>4, <1>5
  <2>2. CASE ok
    <3>1. uses'[m] = 1 /\ minted[m] # NoEntry
      BY <1>1, <1>3, <1>5, <1>7, <2>2
    <3> QED BY <1>2, <1>6, <1>7, <2>1, <2>2, <3>1 DEF IInv, StoreInv
  <2>3. CASE ~ok
    BY <1>2, <1>4, <1>6, <2>3 DEF IInv, StoreInv
  <2> QED BY <2>2, <2>3
<1>11. AcceptedIsFresh'
  <2>1. CASE ok
    <3>1. g1.message = Expected(h) /\ g1.at = clock
          /\ Expected(h).nonce = m /\ Expected(h).address = h.address
          /\ Expected(h).expirationTime = h.timestamp + EXPIRATION
      BY DEF Expected
    <3>2. minted[m].issuedAt \in Nat /\ minted[m].issuedAt <= clock
      BY <1>1 DEF IInv, TypeOK, Entry, StoreInv
    <3>3. clock - minted[m].issuedAt \in 0 .. NONCE_TTL
      BY <1>5, <1>7, <2>1, <3>2
    <3>4. clock - (h.timestamp + EXPIRATION) <= TIMESTAMP_TOLERANCE - EXPIRATION
      BY <1>1, <1>2, <1>5 DEF InTolerance
    <3>5. granted' = granted \cup {g1}
      BY <1>3, <2>1
    <3> HIDE DEF g1, ok
    <3> QED BY <1>2, <1>7, <2>1, <3>1, <3>3, <3>4, <3>5 DEF IInv, AcceptedIsFresh
  <2>2. CASE ~ok
    BY <1>2, <1>4, <2>2 DEF IInv, AcceptedIsFresh
  <2> QED BY <2>1, <2>2
<1>12. UnspentNonceKept'
  <2> SUFFICES ASSUME NEW n \in Nonces \ touched', minted[n] # NoEntry,
                      ~Expired(minted[n])
               PROVE  nonces'[n] = minted[n]
    BY <1>2 DEF UnspentNonceKept, Expired
  <2>1. nonces[n] = minted[n]
    BY <1>2 DEF IInv, UnspentNonceKept
  <2> QED BY <1>2, <1>6, <2>1
<1>13. StoreHoldsOnlyRecent'
  BY <1>2, <1>6 DEF IInv, StoreHoldsOnlyRecent
<1> QED BY <1>9, <1>10, <1>11, <1>12, <1>13 DEF IInv

\* A wallet's signature adds a message and changes nothing else.
LEMMA SignStep ==
  ASSUME IInv, NEW a \in Addresses, NEW n \in Nonces, NEW uri \in Uris,
         NEW cluster \in Clusters, NEW skew \in Skews,
         WalletSigns(a, n, uri, cluster, skew)
  PROVE  IInv'
<1> USE SiwsAssumption
<1>1. signed \subseteq signed' /\ UNCHANGED <<clock, nonces, histVars>>
  BY DEF WalletSigns
<1>2. clock \in Int /\ skew \in Int
  BY DEF IInv, TypeOK
<1>3. signed' \subseteq Message
  BY <1>2 DEF WalletSigns, IInv, TypeOK, Message
<1>4. TypeOK'
  BY <1>1, <1>3 DEF IInv, TypeOK, histVars
<1>5. StoreInv' /\ UnspentNonceKept' /\ StoreHoldsOnlyRecent'
  BY <1>1 DEF IInv, StoreInv, UnspentNonceKept, StoreHoldsOnlyRecent, Expired,
              histVars
<1>6. AcceptedIsFresh'
  BY <1>1 DEF IInv, AcceptedIsFresh, histVars
<1> QED BY <1>4, <1>5, <1>6 DEF IInv

\* A restart empties the store and forgets no use.
LEMMA RestartStep ==
  ASSUME IInv, Restart
  PROVE  IInv'
<1> USE SiwsAssumption
<1>1. NoEntry \in Entry
  BY DEF NoEntry, Entry
<1>2. TypeOK'
  BY <1>1 DEF IInv, TypeOK, Restart
<1>3. StoreInv' /\ UnspentNonceKept' /\ StoreHoldsOnlyRecent' /\ AcceptedIsFresh'
  BY DEF IInv, Restart, StoreInv, UnspentNonceKept, StoreHoldsOnlyRecent,
         AcceptedIsFresh, Expired
<1> QED BY <1>2, <1>3 DEF IInv

\* Time only makes entries older.
LEMMA TickStep ==
  ASSUME IInv, Tick
  PROVE  IInv'
<1> USE SiwsAssumption
<1>1. /\ clock \in Nat /\ clock' = clock + 1 /\ clock' \in 0 .. MaxTime
      /\ UNCHANGED <<nonces, signed, minted, touched, uses, granted, last_issue>>
  BY DEF IInv, TypeOK, Tick, histVars
<1>2. TypeOK'
  BY <1>1 DEF IInv, TypeOK
<1>3. \A n \in Nonces : minted[n].issuedAt \in Nat
  BY DEF IInv, TypeOK, Entry
<1>4. StoreInv'
  BY <1>1, <1>3 DEF IInv, StoreInv
<1>5. \A n \in Nonces : Expired(minted[n]) => Expired(minted[n])'
  BY <1>1, <1>3 DEF Expired
<1>6. UnspentNonceKept'
  BY <1>1, <1>5 DEF IInv, UnspentNonceKept
<1>7. StoreHoldsOnlyRecent' /\ AcceptedIsFresh'
  BY <1>1 DEF IInv, StoreHoldsOnlyRecent, AcceptedIsFresh
<1> QED BY <1>2, <1>4, <1>6, <1>7 DEF IInv

\* Every step preserves the invariant.
LEMMA NextIInv == IInv /\ [Next]_vars => IInv'
<1> SUFFICES ASSUME IInv, [Next]_vars PROVE IInv'
  OBVIOUS
<1>1. CASE Next
  BY <1>1, IssueStep, AuthenticateStep, SignStep, RestartStep, TickStep DEF Next
<1>2. CASE UNCHANGED vars
  <2>1. UNCHANGED <<clock, nonces, signed, minted, touched, uses, granted,
                    last_issue>>
    BY <1>2 DEF vars, histVars
  <2> QED BY <2>1 DEF IInv, TypeOK, StoreInv, AcceptedIsFresh, UnspentNonceKept,
                      StoreHoldsOnlyRecent, Expired
<1> QED BY <1>1, <1>2

\* IInv is an invariant of the middleware.
LEMMA IInvHolds == Spec => []IInv
BY InitIInv, NextIInv, PTL DEF Spec

(***************************************************************************)
(* Every variable keeps its type, and no accepted request has a cluster    *)
(* that authMiddleware does not know.                                      *)
(***************************************************************************)
THEOREM SiwsTypeCorrect == Spec => []TypeOK
<1>1. IInv => TypeOK
  BY DEF IInv
<1> QED BY <1>1, IInvHolds, PTL

(***************************************************************************)
(* consume is one-shot: no nonce ever authenticates two requests.          *)
(***************************************************************************)
THEOREM NonceAcceptedOnceHolds == Spec => []NonceAcceptedOnce
<1>1. IInv => NonceAcceptedOnce
  BY DEF IInv, StoreInv, NonceAcceptedOnce
<1> QED BY <1>1, IInvHolds, PTL

(***************************************************************************)
(* What authMiddleware accepts was signed by its address for this URL,     *)
(* cluster and nonce, with a nonce drawn for it within its lifetime.       *)
(***************************************************************************)
THEOREM AcceptedIsFreshHolds == Spec => []AcceptedIsFresh
<1>1. IInv => AcceptedIsFresh
  BY DEF IInv
<1> QED BY <1>1, IInvHolds, PTL

(***************************************************************************)
(* Nothing but its own address, a restart or time takes a nonce away.      *)
(***************************************************************************)
THEOREM UnspentNonceKeptHolds == Spec => []UnspentNonceKept
<1>1. IInv => UnspentNonceKept
  BY DEF IInv
<1> QED BY <1>1, IInvHolds, PTL

(***************************************************************************)
(* The store holds nothing that had expired when a nonce was last issued.  *)
(***************************************************************************)
THEOREM StoreHoldsOnlyRecentHolds == Spec => []StoreHoldsOnlyRecent
<1>1. IInv => StoreHoldsOnlyRecent
  BY DEF IInv
<1> QED BY <1>1, IInvHolds, PTL
=============================================================================
