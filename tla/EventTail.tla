------------------------------ MODULE EventTail ------------------------------
(***************************************************************************)
(* The bridge's event tail: a subscription to the escrow program's logs    *)
(* whose events are POSTed, one at a time, to the EVM credit worker.       *)
(*                                                                         *)
(* An event is its position in the order in which transactions were        *)
(* processed; err marks one of a transaction that failed, whose logs are   *)
(* notified as well.  A POST that the tail has given up on may still be    *)
(* on its way to the worker.                                               *)
(***************************************************************************)
EXTENDS Integers, Sequences

CONSTANTS
  WorkerConfigured,   \* EVM_CREDIT_WORKER_URL is set
  MaxEvents           \* bound: events the chain emits

ASSUME TailAssumption == WorkerConfigured \in BOOLEAN /\ MaxEvents \in Nat

VARIABLES
  tail,      \* "connecting", "subscribed" or "failed"
  emitted,   \* events emitted so far
  queue,     \* notifications that the for-await loop has not taken yet
  posting,   \* the event whose POST is awaited: at most one
  wire,      \* POSTs the worker has not handled
  applied    \* events the worker has handled, in its order

\* History, never read by an action: events of failed transactions, and events
\* whose POST the tail stopped waiting for before the worker handled it.
VARIABLES reverted, abandoned

tailVars == <<tail, emitted, queue, posting, wire, applied, reverted, abandoned>>

TailInit ==
  /\ tail = "connecting"
  /\ emitted = 0
  /\ queue = <<>> /\ posting = {} /\ wire = {} /\ applied = <<>>
  /\ reverted = {} /\ abandoned = {}

\* logsNotifications(...).subscribe(...): logs from now on, no history.
Subscribe ==
  /\ tail = "connecting"
  /\ tail' = "subscribed"
  /\ UNCHANGED <<emitted, queue, posting, wire, applied, reverted, abandoned>>

\* A transaction on Solana writes an event to its logs, then commits or fails.
Emit(err) ==
  /\ emitted < MaxEvents
  /\ emitted' = emitted + 1
  /\ queue' = IF tail = "subscribed"
                THEN Append(queue, [id |-> emitted + 1, err |-> err]) ELSE queue
  /\ reverted' = IF err THEN reverted \cup {emitted + 1} ELSE reverted
  /\ UNCHANGED <<tail, posting, wire, applied, abandoned>>

\* Mutation: forwardEvent is called without await.
Ready_not_awaited == TRUE

\* forwardEvent is awaited: the loop takes nothing while a POST is out.
Ready == posting = {}

\* value.err skips the notification; without a worker it is only logged.
Forwarded(n) == ~n.err /\ WorkerConfigured

\* One turn of the for-await loop.
TakeNotification ==
  /\ tail = "subscribed"
  /\ queue # <<>>
  /\ Ready
  /\ queue' = Tail(queue)
  /\ IF Forwarded(Head(queue))
       THEN /\ posting' = posting \cup {Head(queue).id}
            /\ wire' = wire \cup {Head(queue).id}
       ELSE UNCHANGED <<posting, wire>>
  /\ UNCHANGED <<tail, emitted, applied, reverted, abandoned>>

\* The credit worker handles a POST, or the POST is lost.
WorkerApplies(e) ==
  /\ e \in wire
  /\ wire' = wire \ {e}
  /\ applied' = Append(applied, e)
  /\ UNCHANGED <<tail, emitted, queue, posting, reverted, abandoned>>

WireLoses(e) ==
  /\ e \in wire
  /\ wire' = wire \ {e}
  /\ UNCHANGED <<tail, emitted, queue, posting, applied, reverted, abandoned>>

\* Mutation: a POST without an answer is sent again.
AfterFailure_retry(e) == wire \cup {e}

\* A failed POST is logged, and that is all.
AfterFailure(e) == wire

\* Mutation: the loop waits until the worker has dealt with the POST.
StillPosting_unhandled(e) == IF e \in wire THEN posting ELSE posting \ {e}

\* Whatever fetch came to, the error is caught and the loop goes on.
StillPosting(e) == posting \ {e}

\* The awaited fetch ends: an answer (accepting or not), or an exception that
\* leaves the POST wherever it is.
PostReturns(e) ==
  /\ e \in posting
  /\ posting' = StillPosting(e)
  /\ \/ e \notin wire /\ UNCHANGED <<wire, abandoned>>
     \/ wire' = AfterFailure(e) /\ abandoned' = abandoned \cup {e}
  /\ UNCHANGED <<tail, emitted, queue, applied, reverted>>

\* The subscription throws, or never comes about.
TailFails ==
  /\ tail # "failed"
  /\ tail' = "failed"
  /\ queue' = <<>>
  /\ posting' = {}
  /\ abandoned' = abandoned \cup posting
  /\ UNCHANGED <<emitted, wire, applied, reverted>>

TailRestarts ==
  /\ tail = "failed"
  /\ tail' = "connecting"
  /\ UNCHANGED <<emitted, queue, posting, wire, applied, reverted, abandoned>>

\* What the tail, the chain and the worker do while the process lives.
TailStep ==
  \/ Subscribe \/ TakeNotification
  \/ \E e \in posting : PostReturns(e)

Outside ==
  \/ \E err \in BOOLEAN : Emit(err)
  \/ \E e \in wire : WorkerApplies(e) \/ WireLoses(e)

-----------------------------------------------------------------------------
(* Properties *)

\* Every variable has its type; part of BridgeTypeOK.
TailTypeOK ==
  /\ tail \in {"connecting", "subscribed", "failed"}
  /\ emitted \in 0 .. MaxEvents
  /\ queue \in Seq([id : 1 .. MaxEvents, err : BOOLEAN])
  /\ posting \subseteq 1 .. MaxEvents /\ wire \subseteq 1 .. MaxEvents
  /\ applied \in Seq(1 .. MaxEvents)
  /\ reverted \subseteq 1 .. MaxEvents /\ abandoned \subseteq 1 .. MaxEvents

\* No event moves an agent's EVM record twice and no failed transaction moves
\* it at all, although POSTs are lost, answered late or cut off by a restart:
\* the tail never sends again (forwardEvent) and skips value.err.
WorkerAppliesOnce ==
  /\ \A i, j \in 1 .. Len(applied) : applied[i] = applied[j] => i = j
  /\ \A i \in 1 .. Len(applied) : applied[i] \notin reverted

\* The worker handles events in the order of the chain (an advance is issued
\* before it is settled); only a POST that the tail gave up waiting for, after
\* an exception or a restart, can arrive behind a later event.
WorkerSeesChainOrder ==
  \A i, j \in 1 .. Len(applied) :
    i < j /\ applied[j] < applied[i] => applied[j] \in abandoned

Notified(e) == \E i \in 1 .. Len(queue) : queue[i].id = e

\* "if it's down the tail keeps observing" (event_tail.ts:207): every event that
\* was notified gets its turn in the loop, or the process ends, although the
\* worker may handle none of the POSTs before it and answer none of them.
TailKeepsObserving == \A e \in 1 .. MaxEvents : Notified(e) ~> ~Notified(e)
=============================================================================
