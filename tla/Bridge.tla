------------------------------- MODULE Bridge -------------------------------
(***************************************************************************)
(* The bridge process: the quote service and the event tail side by side.  *)
(* startEventTail(...).catch ends the process, so a tail that fails takes  *)
(* the quote endpoint with it until a supervisor starts the bridge again.  *)
(***************************************************************************)
EXTENDS QuoteService, EventTail

CONSTANT MaxRestarts   \* bound: starts of the process

ASSUME BridgeAssumption == MaxRestarts \in Nat

VARIABLE restarts

bridgeVars == <<quoteVars, tailVars, restarts>>

BridgeInit == QuoteInit /\ TailInit /\ restarts = 0

\* main's catch handler on startEventTail: process.exit(2).  A process killed
\* for any other reason loses the same state.
Exit ==
  /\ TailFails
  /\ Crash
  /\ UNCHANGED restarts

Supervise ==
  /\ restarts < MaxRestarts
  /\ restarts' = restarts + 1
  /\ Start
  /\ TailRestarts

BridgeNext ==
  \/ (Serve \/ World) /\ UNCHANGED <<tailVars, restarts>>
  \/ (TailStep \/ Outside) /\ UNCHANGED <<quoteVars, restarts>>
  \/ Exit
  \/ Supervise

BridgeSpec == BridgeInit /\ [][BridgeNext]_bridgeVars

\* The loop is not stopped for good: fetch ends with an answer or an error (it
\* has time limits of its own), and the event loop of the process turns.
\* Nothing is assumed of the worker, the network or the chain.
FairBridgeSpec ==
  /\ BridgeSpec
  /\ WF_bridgeVars(TailStep /\ UNCHANGED <<quoteVars, restarts>>)

\* Both halves of the process are well typed; in particular a token bucket
\* never holds more than the burst (proved, and used by the proofs).
BridgeTypeOK == QuoteTypeOK /\ TailTypeOK /\ restarts \in 0 .. MaxRestarts

\* ts/bridge/src/index.ts:353-355 says of the event tail: "Failures restart the
\* subscription rather than crashing the process - quote endpoint stays live
\* even if the WS connection is flaky."
QuoteEndpointStaysLive == tail = "failed" => server = "up"
=============================================================================
