------------------------------ MODULE MCEscrow ------------------------------
(***************************************************************************)
(* Small instances of CredmeshEscrow for TLC.  TLC's integers have 32 bits *)
(* and its state spaces must be small, so amounts, basis points and time   *)
(* are scaled down: U64_MAX is a two-digit number that the runs really     *)
(* reach, and a "second" is one tick.                                      *)
(***************************************************************************)
EXTENDS CredmeshEscrow, TLC

Fold == INSTANCE Functions

\* Tally is the fold of the community modules on small functions.
ASSUME TallyIsSum ==
  \A f \in [1 .. 3 -> 0 .. 3], S \in SUBSET (1 .. 3) :
    Tally(f, S) = Fold!SumFunctionOnSet(f, S)

CONSTANTS a1, a2, r1, r2, r3, n1, n2, s1, s2, v1, v2, l1, l2, thisPool

\* A valid fee curve, a steeper valid one, and one whose maximum is above 100%.
Curve(base, kinkRate, maxRate) ==
  [utilization_kink_bps |-> 5, base_rate_bps |-> base,
   kink_rate_bps |-> kinkRate, max_rate_bps |-> maxRate,
   duration_per_day_bps |-> 1, risk_premium_bps |-> 1,
   pool_loss_surcharge_bps |-> 0]

Flat == Curve(5, 5, 5)
Steep == Curve(5, 8, 10)
Usurious == Curve(12, 13, 15)

Params(curve, cap) ==
  [fee_curve |-> curve, max_advance_pct_bps |-> 3, max_advance_abs |-> 6,
   agent_window_cap |-> cap]

Opening(curve, cap, timelock) ==
  [params |-> Params(curve, cap), timelock_seconds |-> timelock,
   governance |-> v1, chain_id |-> 2]

Proposal(curve, cap) ==
  [fee_curve |-> curve, max_advance_pct_bps |-> 3, max_advance_abs |-> 6,
   agent_window_cap |-> cap, execute_after |-> 0]

\* What a bridge signs for agent a at time t: here the limit, the EVM-lane
\* balance and the tenor are small.
Signed(s, a, limit, owed, t, tenor, n) ==
  [signer |-> s, agent |-> a, pool |-> thisPool, credit_limit |-> limit,
   outstanding |-> owed, expires_at |-> t + tenor, attested_at |-> t,
   nonce |-> n, chain_id |-> 2, version |-> 1]

\* Attestations that this pool must never accept: for another pool, for another
\* cluster, in another layout version.
Misdirected(a) ==
  LET good == Signed(s1, a, 9, 0, 0, 1, n1)
  IN {[good EXCEPT !.pool = NoSigner], [good EXCEPT !.chain_id = 1],
      [good EXCEPT !.version = 2]}

OneOpening == {Opening(Flat, 0, 0)}
TimelockedOpening == {Opening(Flat, 0, 3)}
CappedOpening == {Opening(Flat, 4, 0)}
GovernedOpening ==
  {Opening(Flat, 4, 2), Opening(Usurious, 4, 2), Opening(Flat, 4, -1)}

NoProposals == {}
OneProposal == {Proposal(Steep, 2)}
GovernanceProposals == {Proposal(Steep, 2), Proposal(Usurious, 4)}

\* Two agents; each attestation can be replayed for several receivables.
CoreAttestations ==
  UNION {{Signed(s1, a, 5, 1, t, 1, n1) : t \in {0, 3}} \cup Misdirected(a) :
           a \in {a1, a2}}

\* One agent with a fresh attestation at every time of a range; the tenor is the
\* bridge's, shorter than a day.
FreshEvery(times, limit) == {Signed(s1, a1, limit, 0, t, 1, n1) : t \in times}

ShareAttestations == FreshEvery({0}, 4)
LivenessAttestations == FreshEvery({0, 3}, 5)
WindowAttestations == FreshEvery(0 .. 3, 12)

CoreSymmetry == Permutations({a1, a2}) \cup Permutations({r1, r2})
ReceivableSymmetry == Permutations({r1, r2, r3})
=============================================================================
