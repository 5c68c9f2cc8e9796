# CredMesh on Solana: a TLA+ verification project

CredMesh lends USDC from a pool of LP money to software agents, against a credit
limit that lives on an EVM chain. This directory holds TLA+ models of the
Solana programs and of the services around them, the TLC configurations that check
them on small instances, and TLAPS proofs of the invariants that matter most.

All paths below are relative to the repository root, `src/`.

## 1. The system

| Part | State it keeps | Operations |
|---|---|---|
| `programs/credmesh-escrow` | one `Pool` (book value, shares, deployed principal, accrued fees, parameters, pending parameters), the pool's USDC vault and share mint, and per agent or receivable: `Advance`, `ConsumedPayment`, `AgentIssuanceLedger`, `LiquidationTombstone` | `init_pool`, `deposit`, `withdraw`, `request_advance`, `claim_and_settle`, `liquidate`, `propose_params`, `execute_params`, `skim_protocol_fees` |
| `programs/credmesh-escrow/src/pricing.rs` | none | share math, fee curve, late penalty, utilization |
| `programs/credmesh-attestor-registry` | `AttestorConfig` (governance vault), one `AllowedSigner` per whitelisted key | `init_registry`, `add_allowed_signer`, `remove_allowed_signer`, `set_governance` |
| `crates/credmesh-shared` | none | wire format of the attestation; introspection of the transaction's other instructions (ed25519 verification, memo nonce, Squads call) |
| `ts/bridge` (quotes) | agent bindings, token buckets | `POST /quote`: two awaited EVM reads, then a signature |
| `ts/bridge` (event tail) | a log subscription | forwards escrow events to the EVM credit worker, best effort |
| `ts/keeper` | none between ticks | scan, then liquidate what is overdue, concurrently |
| `ts/server` | SIWS nonces | nonce issue and consumption, authentication, fee preview |
| `ts/shared`, `scripts` | none | constants; one-shot operator commands |

How they interact. The bridge reads an agent's limit and EVM-lane balance and
signs them. The agent sends the signed message to `request_advance`, which
accepts it when the signer is in the registry and the message is fresh; the
program adds the agent's live Solana principal itself. The agent repays with
`claim_and_settle` until `expires_at` + grace; from that second on anybody, in
practice the keeper, may `liquidate`. LPs move money in and out at a price that
settlements raise and liquidations lower. Governance (a Squads vault) stages
parameters behind a timelock, skims protocol fees and maintains the registry.

What is hard about it:

* several running totals (`deployed_amount`, `live_principal`, `total_assets`,
  `total_shares`, the vault's tokens) describe the same money and are updated by
  different instructions, in any order, with a checked subtraction that blocks
  the instruction for good if one of them ever drifts;
* accounts are closed and their addresses can be initialised again;
* attestations are snapshots, valid for 15 minutes and replayable;
* settlement and liquidation race at a timestamp; windows and timelocks are
  evaluated lazily, by whoever calls next;
* integer division everywhere, in the pool's favour or against it;
* off-chain: awaited reads that are not atomic, lost events, a keeper that may
  be down.

The list of hazards, each with its line and the properties that cover it, is in
`PROJECT.json` under `hazards`.

## 2. Modules

| Module | What it is |
|---|---|
| `Pricing` | pure arithmetic of `pricing.rs`, `FeeCurve::validate` and the settlement waterfall of `claim_and_settle.rs` |
| `CredmeshEscrow` | the escrow program: state, one action per instruction, environment, properties |
| `Tally` | sum of a function over a finite set, stated without recursion so that it can be proved about |
| `AdvanceLifecycle` | abstract specification: what the escrow promises about loans |
| `EscrowRefinement` | the refinement mapping from accounts to loans |
| `QuoteService` | the bridge's `POST /quote`, await by await |
| `EventTail` | the bridge's forwarding of escrow events to the EVM credit worker |
| `Bridge` | the process that runs both: they fail and restart together |
| `Keeper` | the liquidation keeper's loop against the advances on the chain |
| `IxIntrospection` | a transaction as its instructions; what the three introspection helpers accept, and what the native programs check |
| `AttestorRegistry` | the registry program, one action per instruction |
| `Transactions` | escrow and registry composed: an instruction that introspects stands in a transaction |
| `SiwsAuth` | the server's nonce store and authentication middleware |
| `FeePreview` | the server's fee engine |
| `PricingGrid` | a grid of queries to the escrow's fee curve, with a reference definition |
| `MCEscrow`, `MCShares`, `MCTransactions`, `MCQuotes`, `MCBridge`, `MCKeeper`, `MCSiws` | instances for TLC |
| `PoolPricing` | what both fee engines promise about every query of a grid |
| `ArithmeticTheorems`, `EscrowProofs`, `EscrowSafety`, `EscrowGuarantees`, `TransactionsProofs`, `BridgeProofs`, `KeeperProofs`, `SiwsProofs` | lemmas and theorems |

### CredmeshEscrow

*Atomicity.* A Solana transaction is atomic, and transactions that write the
same account are serialized. A handler is therefore one action; its guard
conjoins every account constraint, `require!` and checked operation, and a
failing call is no step at all. Two instructions in one transaction are two
consecutive steps.

*Accounts.* A PDA that does not exist is a zeroed record (`bump = 0`, the test
that `request_advance` itself uses on the ledger). `init` is the guard
`bump = 0`; `close` writes the zeroed record back. `AdvanceState` is not kept:
`Settled` and `Liquidated` are written just before the account is closed and no
instruction can ever read them.

*Tokens.* The vault's and the treasury's balances and the LPs' shares are kept;
wallets of users are not (a transfer out of a wallet succeeds when its owner can
fund it). The treasury account is taken to be different from the vault, which
`init_pool` does not verify. Shares are not transferred between holders: such a
transfer changes neither the pool nor the supply.

*Attestations.* `Attestations` is the set of messages that carry a valid
ed25519 signature. `Attested` is what `verify_prev_ed25519` and the decoding of
the 128 bytes establish. The offsets are abstracted to fields of a record. That
these instructions can rely on it is shown in `Transactions`, where the set of
messages, the Squads vault and the memo are read off a transaction.

*Governance.* An instruction gated by `require_squads_governance_cpi` has the
Squads vault found in the transaction as a parameter.

*Time.* `now` is `Clock::unix_timestamp`; `Tick` moves it. `GraceEnd` is compared
with `I64_MAX` because the code uses `checked_add`.

*Environment.* `DonateToVault` (a plain token transfer to the vault),
`BurnShares` (a holder burns share tokens directly), `RegistryChange` (the
registry adds or removes a signer), `Tick`.

*History.* `drawn`, `donated`, `skimmed`, `burned` and `pending_since` are never
read by an action; the properties use them to speak of the past.

### Properties

* `TypeOK`: types; every `u64` stays in range.
* `AccountsConsistent`: which accounts of a receivable may coexist.
* `VaultReconciles`: vault = total_assets - deployed_amount + donated - skimmed.
* `ExposureMatchesAdvances`: `deployed_amount` and each `live_principal` are the
  sums of the principals of the existing advances.
* `SharesMatchSupply`: `total_shares` is the holders' tokens plus direct burns.
* `NoOverDeployment`: without donations, deployed principal never exceeds the book.
* `TreasuryReconciles`: the treasury got each cut once at settlement, and once
  more when it was skimmed.
* `OverdueIsLiquidatable`: without donations, nothing but the time window stands
  between an advance and its liquidation.
* `ReplayStaysWithinCredit`: replaying attestations never takes an agent's live
  principal above the limit of some attestation made for it.
* `DrawnOnce`: a receivable is lent against at most once.
* `TombstoneFaithful`: a tombstone records a principal that was drawn, never
  settled, and liquidated after its grace period.
* `LedgerCountsWindow`, `TrailingWindowTwiceCap`: what the issuance ledger counts
  and what that bounds.
* `FeeWithinPrincipal`, `TimelockHonoured`: what governance can and cannot do.
* `SharePriceFallsOnlyByDefault`: an action property. No step but a liquidation lowers the
  book price of a share, `total_assets` over `total_shares`. It says nothing of the USDC
  behind the books, which a skim takes away unseen (section 3, `vault_equals_idle`).
* `RoundTripNeverProfits`, `SplittingNeverMintsMore`: at every state of the books
  that LPs, loans, defaults and donations can produce, redeeming what a deposit mints
  returns at most the deposit, and two deposits mint at most what one of their sum does.
* `AdvancesClose`: liveness. Every advance is closed in the end, unless more was donated to the
  vault than skimmed and the book value is below the advance's principal (`BooksShort`).
* `ImplementsLifecycle`: refinement.

### AdvanceLifecycle

Per receivable a loan is none, live, repaid or defaulted, with its principal and
due date. It is made once, repaid only before the end of the grace period,
written off only from then on, and the book value falls by exactly the principal
of a written-off loan. `EscrowRefinement` reads the status off the accounts: an
`Advance` is a live loan, a tombstone a defaulted one, a `ConsumedPayment` with
neither a repaid one. Deposits and withdrawals are the abstract `LpFlow`;
governance, skims and registry changes are stuttering steps.

### IxIntrospection, AttestorRegistry and Transactions

`CredmeshEscrow` takes three things as given: the attestation, the Squads vault and
the memo. `Transactions` replaces them by what the code does. A transaction is a
function from positions to top-level instructions; `Calls` are the positions of
CredMesh instructions in transactions that execute, that is, in which every
instruction succeeds. `verify_prev_ed25519` looks at the instruction before the
current one and requires one signature whose three indices are that instruction;
`require_memo_nonce` and `require_squads_governance_cpi` scan up to `MAX_IX_SCAN`
instructions. `RegistryChange` of the escrow becomes the registry's own instructions
behind its own governance; the escrow's remaining actions (`OpenStep`) need no
introspection and are taken over.

Taken from outside the repository, and marked external in the map: the ed25519 program
verifies every entry of its table and reads index 65535 as "this instruction";
the Memo program refuses a text that is not UTF-8 (`MemoTexts`); a Squads
instruction that holds a vault writable succeeds only for a vault whose members
approve (`Approving`, fixed for a behaviour). The last one is an assumption the code makes and
documents (`ix_introspection.rs`, the comment on `require_squads_governance_cpi`), not one
it can verify. A transaction with several CredMesh instructions is several steps.

* `ImplementsEscrow`: every behaviour of the composition is one of `CredmeshEscrow!Spec`.
  An advance therefore rests on a message that was really signed, whatever
  the transaction around `request_advance` looks like.
* `ApprovedByGovernance`: whitelist, registry governance, pending parameters and skims
  change only while the vault in charge approves.
* `RepaidByOwnMemo`: an advance was repaid in a transaction in which a memo spelled out the nonce
  of its own request, not that of another receivable. The history variable `memos` keeps the memos
  of the settling transaction. A nonce that is not UTF-8 therefore makes an advance that can only
  be liquidated.

### SiwsAuth

The middleware runs without an await up to `next()`, so a request is one step;
what is concurrent is the network: any headers may be presented at any time, any number of
times, with any signature a wallet has made. `IssueNonce` runs `gc` and is open to
anybody for any address; `Authenticate` spends the nonce before it looks at the
signature; `Restart` loses the store. History: `minted`, `touched`, `uses`, `granted`,
`last_issue`.

* `NonceAcceptedOnce`: at most one request is accepted with a nonce.
* `AcceptedIsFresh`: what is accepted was signed by the address of the auth context for this
  URL, cluster and nonce, with a nonce at most `NONCE_TTL` old.
* `UnspentNonceKept`: nothing but a request that names its own address, its age or a restart takes a
  nonce away. Such a request need not be signed: the code spends the nonce before it verifies,
  so whoever knows address and nonce can use it up.
* `StoreHoldsOnlyRecent`: the store does not accumulate.

### FeePreview and PricingGrid

`FeePreview` is `ts/server/src/pricing.ts` with its floating point rates as exact
fractions of basis points and its money in cents, rounded where the code rounds.
`PricingGrid` is a grid of queries to the program's curve with a reference definition of it.
`PoolPricing` states the properties of both:

* `FeeFollowsCurve`: the program's fee is the exact curve up to its two roundings.
* `FeeNeverDrops`: a larger, longer or riskier advance from a busier pool is never cheaper.
* `PreviewNeverDrops`: the same of the server's preview.

These are statements about pure functions; TLC evaluates them over the grid in
the states in which the pool is not open yet. That they hold for all inputs is proved
(section 4).

### QuoteService

A request is a small process: `PostQuote` (bearer check and `RateLimiter.consume`,
which run without an await), `ReadBody` (the body has arrived: TTL, binding),
`ReadExposure`, `ReadCredit` (with its fallback to the legacy read), `Sign`. Between
these steps other requests run, the clock moves and the EVM contracts change
(`EvmChange`). A refused or failed request is answered and leaves only its mark on
the bucket. `Crash` ends the process with its requests and buckets.

Abstractions: tokens are counted in exact units in which a quote costs `COST` and a
second refills `REFILL` (the code's defaults 1 and 12/60 are 5 and 1), where the code
has floating point; `Date.now()` is monotonic and counts whole seconds; TTLs are whole
(a fraction makes `BigInt` throw, which is one of the failures); pool and nonce are
copied from the body and left out. Callers are rate keys; without
`BRIDGE_AUTH_TOKENS` all of them are in `AuthTokens`. History: `since` counts
admissions, `seen` collects what the contracts said during a request.

* `QuotesRateBounded`: in every interval that ends now, one caller is admitted at
  most the burst plus what the interval refills. This is about admissions within
  one life of the process: a restart gives a fresh burst, and when EVM reads are
  slow signatures can bunch up.
* `AttestsWhatWasRead`: limit and exposure that are signed were each read for
  this agent during this request, the limit is not zero, the TTL is at most 15
  minutes. Nothing says that the two held at the same moment, and they need not.

### EventTail and Bridge

An event is its position in the log, with a flag for a failed transaction (whose
logs are notified too). `TakeNotification` is a turn of the `for await` loop up to the
awaited POST; `PostReturns` is the end of that await, with an answer or an exception
that leaves the POST on `wire`. Which of the three kinds the event is, and how its
bytes are decoded, is left out; an event that cannot be decoded throws, which is one
of the reasons for `TailFails`. `Bridge` conjoins `TailFails` with `Crash` (`process.exit`)
and lets a supervisor restart both. History: `reverted`, `abandoned`.

* `WorkerAppliesOnce`: the worker handles no event twice and none of a failed
  transaction.
* `WorkerSeesChainOrder`: an event arrives behind a later one only if the tail had
  given up waiting for its POST.
* `TailKeepsObserving`: liveness; every notification gets its turn in the loop or the process ends,
  whatever became of the POSTs before it (`event_tail.ts:206-208`, "if it's down the tail keeps
  observing").

Events can be lost; the code accepts that (`event_tail.ts:206`).

### Keeper

One tick is `Scan`, `Select`, `Submit`, then per advance `Fulfil` or `Reject`, and
`EndTick`; `wire` holds the transactions that may still execute, those of earlier ticks
too. The chain side is as small as the keeper can tell: an advance is issued,
settled before the end of its grace period or liquidated from then on, by the
keeper or by anybody else. Of the pool's books the model keeps `total_assets`, because `liquidate`
refuses when the principal cannot be subtracted from it; that none of its other checks can
refuse, and this one only while more was donated than skimmed, is
`EscrowSafety!LiquidationBlockedOnlyByDonation`. `Surplus` is what was donated and not skimmed: LPs
may withdraw until the books are that much below the deployed principal (`LpFlow`). Other pools'
books are left out. That a closed advance never comes back is `DrawnOnce`. The keeper's clock differs from the cluster's by a member of
`Skews`. The scan filters by discriminator only, so it finds the advances of every
pool, while the accounts passed are those of one pool: transactions for the others
are refused, tick after tick.

`sendAndConfirm` is built with `rpcSubscriptions: undefined`
(`ts/keeper/src/index.ts:347`). Whether the library can then confirm anything is not
visible in this repository; `Reject` covers a transaction that executed and could not
be confirmed, `Fulfil` the other case.

* `ReportedIsLiquidated`: a liquidation the keeper reports did happen.
* `OverdueGetClosed`: liveness; every overdue advance of the pool is closed, also
  when the batch contains one that always fails, unless there is a surplus in the vault and the
  books are below its principal. With `Surplus = 0` it is unconditional.

## 3. Runs

TLC's integers have 32 bits and its state spaces must be small, so the
constants are scaled: 10 basis points make a whole, a "day" is one tick, the
grace period and the window are two ticks and the largest `u64` is 10 to 17,
small enough that the runs really hit it.

| Run | Instance | Shows |
|---|---|---|
| `core` | 2 agents x 2 receivables, 1 LP, amounts 1, 4, 8, 3 ticks; attestations made at times 0 and 3, and misdirected ones (other pool, cluster, version) | the accounting and account invariants. Agents can have two live advances, replay an attestation, settle early, late or not at all, and be re-quoted after a default |
| `shares` | 2 LPs with three share amounts, 1 receivable, one atom donated, one share burned, one parameter change whose timelock just fits into `I64_MAX`; a grid of 36 curves (kink 0, 40% and 100%, valid and invalid), all utilizations, principals to 8, tenors to 5, defaults to 3; previews for pools of up to 12 units at every bracket | supply, share price and rounding at every reachable state of the books; `AdvanceLifecycle` is implemented, also after a donation; the fee curve against the exact one, and both fee engines' monotonicity |
| `governance` | `Transactions`: 3 receivables of 1 agent, cap 4 lowered to 2, window 2; three nonces, two of them valid memo texts; 15 transactions (genuine, unsigned, empty, multi-signature and redirected ed25519 instructions, memos with the own, another or an invalid nonce, several of them in one transaction, approving and read-only Squads calls, memo and Squads instructions beyond the scan); right and wrong vaults, valid and invalid curves, negative timelock, timelock 2, 4 ticks | the introspection implements what the escrow assumes; who approves what; timelock, fee bound and the issuance ledger |
| `liveness` | 2 receivables, 1 LP who deposits and withdraws, one atom donated, 6 ticks, `FairSpec` | every advance closes, unless the books are short after the donation |
| `quotes` | 2 requests, an authorized and an unauthorized caller, two agents bound to different EVM addresses and an unbound one, TTLs 0 and above the cap, EVM values 0 and 1, burst of 1.5 quotes, 1.5 quotes refilled per tick, 2 ticks, restarts | what is signed was read for this request; the token bucket's bound |
| `event_tail` | 3 events, failed transactions among them, 2 restarts, quotes served alongside, `FairBridgeSpec` | delivery to the credit worker; the tail goes on |
| `keeper` | 3 advances, one of another pool, grace 1, clock off by -1 to 1, 3 ticks, LP flows with a surplus of one atom, `FairSpec` | reports are true; overdue advances get closed, unless the books are short |
| `siws` | 2 addresses, 2 URLs, 2 nonces, a known and an unknown cluster, 2 signatures, wallets on time and behind, 3 ticks, restarts | nonces are one-shot, fresh, kept until spent, and collected |
| `vault_equals_idle`, `over_deploy`, `rolling_window`, `tail_failure` | small | violations, see below |

Why the bounds suffice. The accounting properties relate at most two advances
of one agent and one of another to the pool's totals; a third receivable adds no
new relation (and the proofs of section 4 cover every size). Time bounds are
chosen so that an advance can be issued, expire, run through its grace period,
be liquidated, and the receivable be tried again. In `governance`, three draws are
the least that reach twice the cap around a reset. Symmetry is used over agents
and receivables in the runs that check safety only; attestations are closed
under these permutations. A transaction of five instructions, with a memo inside the scan and a memo and a Squads
call beyond it, is two more than the scan covers.
For the server, a nonce TTL of one tick within three lets a nonce be spent, expire, be collected
and be outlived by a second one. For the bridge, two requests for two agents suffice for a value of one to
reach the other, two ticks let a bucket run short, refill in part and hit its
ceiling (the proof covers every length of time), and three events with two restarts let a POST be overtaken twice. For
the keeper, a due date of 1 with 3 ticks leaves room for a tick that is rejected and
a second one during which the first one's transaction executes.

Deadlock is not an error: the clock is bounded and receivables are used up, so an
instance may come to rest.

Fairness. `FairSpec` assumes weak fairness of `Tick` (the cluster's clock moves)
and of `Liquidate(k)` for every receivable. The keeper's main loop scans for ever
and catches the failure of a tick (`ts/keeper/src/index.ts:362-368`), submits
each liquidation independently (`Promise.allSettled`), and liquidation needs no
authority, so anybody else may crank it too. Nothing is assumed of agents, LPs
or governance. A `liquidate` that the books refuse is not enabled, so fairness does not force it:
once a donation has let LPs withdraw lent-out principal, it waits for a deposit, which nothing
guarantees. Hence the condition in `AdvancesClose`; with one donated atom and without the condition TLC finds
a behaviour in which LPs deposit and withdraw for ever and the advance stays open.

`Keeper!FairSpec` looks inside that assumption. The loop's own steps are weakly
fair (no await stays pending: requests time out, `allSettled` waits for no more than
that, and a failed tick is caught). Asking for a blockhash and the execution of an
acceptable transaction may fail any number of times but not always (strong
fairness of `Submit` and of `Land` for the running tick's transactions). A transaction
for another pool's advance is never acceptable, nor is one that the books refuse, so nothing is
assumed of them.
`OverdueGetClosed` is stated for advances whose end of grace the keeper's clock can
still show within the bound `MaxTime`.

`FairBridgeSpec` assumes weak fairness of the tail's own steps: the subscription's iterator hands over what it
has queued, and an awaited `fetch` ends, with an answer or with an exception. The code sets no time limit on
it; the HTTP client's own limits are what justifies this. Nothing is assumed of the network or the worker.

### Where the code and its documentation disagree

* `vault_equals_idle`. `claim_and_settle` sends the protocol cut to the treasury
  and also accrues it; `skim_protocol_fees` pays the accrued amount again, from the
  vault, without touching `total_assets`. The comment in `withdraw.rs:48` ("vault
  balance == idle") is then false. What holds instead is `VaultReconciles` with its
  `skimmed` term and `TreasuryReconciles` with its factor two.
* `over_deploy`. `withdraw` checks the vault's balance instead of
  `total_assets - deployed_amount`. A transfer of USDC into the vault lets
  LPs withdraw against lent-out principal; `liquidate` may then fail in its
  subtraction from `total_assets`, until LPs deposit again. `NoOverDeployment` and
  `OverdueIsLiquidatable` hold under `donated = 0`; `AdvancesClose` and `OverdueGetClosed` except where the
  books are short.
* `rolling_window`. The issuance window tumbles; over a trailing window an agent can
  draw twice the cap, and no more (`TrailingWindowTwiceCap`).

* `tail_failure`. The comment at `ts/bridge/src/index.ts:353` says that failures restart
  the subscription and the quote endpoint stays live; the handler below it calls
  `process.exit(2)`. What holds is that a supervisor brings both back, with empty
  buckets and without the queued notifications.

Also noticed, not stated as runs: `max_advance_pct_bps` is stored, proposed and
executed but no instruction reads it, and `propose_params` does not bound it;
the clamp to `MAX_LATE_DAYS` cannot be reached, because settlement closes after 14
days; an attestation with `expires_at` above `i64::MAX` - grace would make an advance
that can be neither settled nor liquidated (the bridge never signs one);
`Pool.governance` cannot be rotated while the registry's can. Further:

* An attestation made under a signer that governance removed becomes valid again, for the
  rest of its 15 minutes, when the signer is added again: nobody reads `added_at`.
* The bridge stamps `attested_at` when it signs (`ts/bridge/src/index.ts:245`), not when it
  read; its freshness counts from there.
* `crates/credmesh-shared/src/lib.rs:75-77` calls the attested exposure the "sum of all live
  advances across chains"; the bridge reads the EVM lane alone and the program adds
  its own lane's live principal.
* No route of `ts/server/src/server.ts` uses `authMiddleware`, nor does anything call
  `assertAuthorized`. The Expiration Time in a SIWS message is never compared with the
  clock; the timestamp's tolerance is twice as wide.
* `ts/server/src/pricing.ts:16-18` says that server and on-chain quotes must match exactly, "asserted
  in tests". The two have different formulas (fixed brackets and a clamp to 2-25% on one side, a
  stored curve on the other), and no test compares them. Line 10 says that fees rise with
  absorbed defaults; a larger loss also shrinks the capital that utilization is computed from,
  and can lower the preview.
* `crates/credmesh-shared/src/cross_program.rs` is called by nobody.
* `TESTING_PLAN.md:87-88` (T-SET-08, T-SET-09) and item 4 of `DEPLOYMENT_PLAN.md:39-54` say that settlement opens
  only 7 days before `expires_at`, so that shorter receivables can never be settled. `claim_and_settle.rs:92-105`
  has an upper end only: an advance can be settled from the moment it exists.
* `TESTING_PLAN.md:101-102` (T-LIQ-04, T-LIQ-05) and item 2 of `DEPLOYMENT_PLAN.md:39-54` say that `liquidate` keeps the
  `Advance` alive and pays the cranker no rent. It closes the account to the cranker (`close = cranker`) and
  leaves a `LiquidationTombstone` (`state.rs:174-192`) as the record; `TombstoneFaithful` says what that
  record is worth.

## 4. Proofs

Proved with TLAPS for every value of the constants that satisfies the named
assumptions: `PricingAssumption`, `EscrowAssumption` and `DomainAssumption` for the
escrow, and `TransactionsAssumption`, `QuoteAssumption`, `TailAssumption`,
`BridgeAssumption`, `KeeperAssumption` and `SiwsAssumption` for the others (numbers
are naturals where the code's are, divisors are positive, sets of keys are
finite, arguments have their types). TLC evaluates the assumptions on every run.

### The escrow

* `EscrowProofs!TypeCorrect`: `Spec => []TypeOK`. One lemma per action.
* `EscrowSafety`: `VaultReconcilesHolds`, `ExposureMatchesHolds`, `DrawnOnceHolds`,
  `TreasuryReconcilesHolds`, `NoOverDeploymentHolds`, `OverdueIsLiquidatableHolds`,
  `AccountsConsistentHolds`, `RoundTripHolds`.

The inductive invariant `IInv` conjoins `TypeOK`, `AccountsConsistent`, the books
(`VaultReconciles`, `TreasuryReconciles`, `DrawnOnce`) and
`ExposureMatchesAdvances`. Why each part is needed: `DrawnOnce` is preserved by
`request_advance` only because a missing `ConsumedPayment` implies that there is no
advance and nothing was drawn; `ExposureMatchesAdvances` needs an absent advance to
carry no principal, so that issuing adds exactly one summand; `NoOverDeployment`
is not inductive by itself, because `withdraw` compares with the vault and not with
the books: it follows from `VaultReconciles` and a vault that is never negative;
`OverdueIsLiquidatable` follows from all of them, since one summand of a sum of
naturals is at most the sum.

Both of these hold under `donated = 0` only (section 3, `over_deploy`). What holds without
that is proved as well: `OverDeploymentBounded` (the advances exceed the book value by at
most what was donated and not skimmed) and `LiquidationBlockedOnlyByDonation` (the only check
of `liquidate` that can fail is the subtraction from `total_assets`, and only while more was
donated than skimmed).

The argument is laid out in effect lemmas (what an action does to the
variables the invariant speaks of: issue, close, or leave alone), so that the
sums are treated once per effect and not once per action.

`EscrowGuarantees` builds on `IInv` and proves what the escrow owes to each party:

* LPs. `SharesMatchSupplyHolds` (inductive with `TypeOK`; the sum moves by one summand),
  `SplittingHolds`, and the action property `SharePriceHolds`: deposit and withdraw
  round against the one who calls (`DepositKeepsPrice`, `RedeemKeepsPrice`), settlement
  adds income, everything else leaves assets and shares alone (a skim too: it is the vault that
  pays).
* Agents. `FeeWithinPrincipalHolds`; `TombstoneFaithfulHolds`, which needs of a *live* advance that
  it expires after it was created (`TombstoneInv`), since liquidation copies both times;
  `ReplayHolds`: a draw leaves the attestation it was made with as the witness, and a
  repayment or write-off only lowers the live principal.
* The issuance window. `LedgerCountsWindowHolds` is not inductive, because a roll must forget
  exactly the draws before it. `WindowInv` adds that no draw lies in the future, that an
  agent without a ledger has drawn nothing and that all draws precede the end of the
  open window. `TrailingWindowHolds` needs the two halves that a trailing window may straddle
  bounded each: the open window by its cap and the stretch of the same length before it,
  which a roll takes over from the window that ran out (`TrailInv`, with `CapsInv`: the cap
  in force is one that governance used).
* Governance. The action property `TimelockHolds`, from `TimelockInv`: what is pending becomes
  executable one timelock after its proposal.
* All of them: `ImplementsLifecycleHolds`, the refinement of `AdvanceLifecycle`. `LendStep`,
  `RepayStep` and `WriteOffStep` map the three lending instructions to steps of the abstract
  loan book; every other instruction is an `LpFlow`, a tick or a stutter.
* `FeeFollowsCurveHolds`, `FeeNeverDropsHolds` and `PreviewNeverDropsHolds` restate the
  pricing theorems below for the grids of the runs, whatever their bounds.

### Arithmetic

`ArithmeticTheorems` holds the laws of `Tally` (splitting, updating one summand, support, monotonicity,
covering; from the cardinality theorems of the library) and what the pricing operators do on
*all* inputs:

* `RoundTrip` and `SplitDeposit`: redeeming what a deposit minted never profits, and splitting a deposit
  never mints more.
* `FeeBounded`, `FeeMonotone`, `FeeNeverCheaper`: for any curve that `validate` accepts, the fee is at
  most the principal and monotone in principal, tenor, utilization and defaults. The
  only place where the order could break is the kink, where the rate below it
  is shown to be at most the kink rate and the rate above it at least that.
* `FeeIsCurveRounded`: the fee is the exact piecewise linear curve of `PricingGrid` rounded down to a basis
  point and then to an atom. Premiums and the clamp are whole basis points, so they
  commute with the first rounding.
* `PreviewMonotone`: the server's fee is monotone in the deployed amount and the hours and
  antitone in both rates.

### Transactions

`TransactionsProofs`: `ImplementsEscrowHolds`, `ApprovedByGovernanceHolds`,
`RepaidByOwnMemoHolds`, for any set of transactions of any length. With the first, every theorem
about `CredmeshEscrow!Spec` holds of the composition. Its crux is that a transaction that executes
and passes `verify_prev_ed25519` holds a message that was signed: the count is one, so the
native program has checked the entry, and the entry's indices are the instruction
itself, so what it checked is what the helper returns. `RepaidByOwnMemo` is inductive
together with the types (`MemoInv`): the memo that the scan finds is one of the transaction's
(`MemoIsOfTransaction`) and settlement compares it with the nonce in `ConsumedPayment` itself; a receivable
that is already repaid cannot be settled again, so its entry in `memos` stays; liquidation
leaves a tombstone.

### The bridge

`BridgeProofs`, for any number of callers, concurrent requests, events and restarts and any burst,
refill and cost: `QuoteTypeCorrect`, `QuotesRateBoundedHolds`, `AttestsWhatWasReadHolds` of the
quote service; `BridgeImplementsQuoteService`, which carries them over to the process;
`BridgeTypeCorrect`, `WorkerAppliesOnceHolds`, `WorkerSeesChainOrderHolds` of the process.

The rate bound is not inductive: it says nothing of the tokens left. `RateInv`
adds, for every caller with a bucket and every time t up to the bucket's last
update, that what was admitted since t plus the tokens left is at most the burst plus
the refill up to that update; consuming moves tokens from one side to the other,
refilling adds to both and the ceiling only lowers the left. A caller without a bucket was
never admitted. `ServeInv` says that past its first await a request is for a bound
agent with a TTL in range, and that what it has read so far is among `seen`.

The two properties of the event tail speak of the worker's log only; `TailInv` adds what keeps
that log in order. `QueueOrdered`: the queue is in the order of the chain, everything taken from it is older
than what is still in it, and nothing taken from it belongs to a failed transaction.
`WireOrdered`: a POST on the wire was not handled yet, the one that is awaited is the newest
of all, and one that is not awaited was abandoned. The await is used in one place: what
the loop takes is compared with an empty `posting`.

### The keeper

`KeeperProofs`: `KeeperTypeCorrect` (what the scan returns has a due date, because only issued advances are
listed and issuing sets it; a write-off leaves a natural number) and `ReportedIsLiquidatedHolds`. The latter is not inductive:
`Fulfil` looks at a promise and not at the chain. `ExecutedIsLiquidated` adds the same for
transactions that have executed and are not yet confirmed; no later step undoes it,
since a closed advance is never issued again.

### Authentication

`SiwsProofs`: `SiwsTypeCorrect` and all four SIWS properties, for any number of nonces and requests. `NonceAcceptedOnce`
is not inductive: it needs that an entry in the store is the one that was minted and
has not been used (`StoreInv`), which holds because an entry is deleted in the step that
reads it.

### Only model-checked

* `AdvancesClose`, `OverdueGetClosed` and `TailKeepsObserving`: liveness under fairness is out of the prover's reach.
* The four violations of section 3, which are counterexamples.

TLC also remains the check that the models do something: every action fires, and each property
is broken by a mutant of the code.

## 5. Not modelled, and the plan

Not modelled, and why:

* byte offsets, discriminators and lengths: parsing of fixed layouts without control flow;
* events and errors as data; the kind of an event is not told apart by any state change;
* `cross_program.rs`, dead code; `splitFee` and the component breakdown of the preview, which
  no route uses; `assertAuthorized`, likewise;
* the server's other routes (identity, health, agent card), which return constants, and the shared TypeScript constants;
* operator scripts: one-shot commands with no state of their own;
* rent and compute limits, which belong to the cluster.

Left to do:

1. Theorems about the composition: `BridgeProofs` and `EscrowSafety` speak of the two ends of an
   attestation. How far an agent's exposure over both lanes can exceed its limit when the
   EVM lane lends between the bridge's reads and the draw needs a model of both; as
   TLC instances they multiply (the quote service alone has two million states), as
   a proof the bound could be stated over a quote service reduced to its reads.
2. Lemmas about the late penalty (monotone in the days, bounded by `MAX_LATE_DAYS`).
