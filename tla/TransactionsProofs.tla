------------------------- MODULE TransactionsProofs -------------------------
(***************************************************************************)
(* The escrow and the registry inside transactions implement the escrow's  *)
(* own specification; governance needs approval; repayment needs the memo. *)
(***************************************************************************)
EXTENDS Transactions, EscrowProofs

\* Soundness of verify_prev_ed25519: in a transaction that takes effect, what
\* the helper returns was signed by the key it returns.
LEMMA VerifiedWasSigned ==
  ASSUME NEW tx \in Transactions, Registry!Executes(tx), NEW cur,
         NEW att \in Registry!verify_prev_ed25519(tx, cur)
  PROVE  att \in Attestations
<1>1. PICK i \in DOMAIN tx :
        /\ att = tx[i].claim
        /\ tx[i].program = "ed25519"
        /\ tx[i].count = 1
        /\ tx[i].entries[1].pk_ix = i /\ tx[i].entries[1].msg_ix = i
  BY DEF Registry!verify_prev_ed25519, Registry!OneSignature,
         Registry!RefersToItself
<1>2. att \in Attestation
  BY <1>1, TransactionsAssumption
<1>3. Registry!IxSucceeds(tx, i)
  BY DEF Registry!Executes
<1>4. \A j \in 1 .. 1 : Registry!EntryVerifies(tx, i, tx[i].entries[j])
  BY <1>1, <1>3 DEF Registry!IxSucceeds
<1>5. Registry!EntryVerifies(tx, i, tx[i].entries[1])
  BY <1>4
<1>6. [tx[i].claim EXCEPT !.signer = tx[i].claim.signer] \in Attestations
  BY <1>1, <1>5 DEF Registry!EntryVerifies, Registry!Resolved
<1>7. [att EXCEPT !.signer = att.signer] = att
  BY <1>2 DEF Attestation
<1> QED BY <1>1, <1>6, <1>7

\* A gate that opens proves that the vault's members approved.
LEMMA GateMeansApproval ==
  ASSUME NEW tx, Registry!Executes(tx), NEW v,
         Registry!require_squads_governance_cpi(tx, v)
  PROVE  v \in Approving
<1>1. PICK i \in DOMAIN tx :
        tx[i].program = "squads" /\ tx[i].vault = v /\ tx[i].writable
  BY DEF Registry!require_squads_governance_cpi, Registry!Scanned
<1>2. Registry!IxSucceeds(tx, i)
  BY DEF Registry!Executes
<1> QED BY <1>1, <1>2 DEF Registry!IxSucceeds

\* A memo that require_memo_nonce finds is one of the transaction, and in a
\* transaction that takes effect all of them are texts the Memo program took.
LEMMA MemoIsOfTransaction ==
  ASSUME NEW tx, Registry!Executes(tx), NEW nonce,
         Registry!require_memo_nonce(tx, nonce)
  PROVE  nonce \in MemosOf(tx) /\ MemosOf(tx) \subseteq MemoTexts
<1>1. nonce \in MemosOf(tx)
  BY DEF Registry!require_memo_nonce, Registry!Scanned, MemosOf
<1>2. ASSUME NEW j \in DOMAIN tx, tx[j].program = "memo"
      PROVE  tx[j].text \in MemoTexts
  BY <1>2 DEF Registry!Executes, Registry!IxSucceeds
<1> QED BY <1>1, <1>2 DEF MemosOf

LEMMA CallsExecute ==
  ASSUME NEW c \in Calls
  PROVE  c[1] \in Transactions /\ Registry!Executes(c[1])
BY DEF Calls
\* Every step inside a transaction is a step of the escrow, or none at all.
LEMMA TxStepIsStep == [TxNext]_txVars => [Next]_vars
<1> SUFFICES ASSUME [TxNext]_txVars PROVE [Next]_vars
  OBVIOUS
<1>1. ASSUME NEW c \in Calls, TxRequestAdvance(c[1], c[2])
      PROVE  Next
  <2>1. PICK att \in Registry!verify_prev_ed25519(c[1], c[2]) :
          \E k \in Keys, n \in Amounts, nonce \in Nonces :
            RequestAdvance(k, n, nonce, att)
    BY <1>1 DEF TxRequestAdvance
  <2>2. att \in Attestations
    BY <2>1, CallsExecute, VerifiedWasSigned
  <2> QED BY <2>1, <2>2 DEF Next
<1>2. ASSUME NEW c \in Calls, TxClaimAndSettle(c[1])
      PROVE  Next
  BY <1>2 DEF TxClaimAndSettle, Next
<1>3. ASSUME NEW c \in Calls, TxPoolGovernance(c[1])
      PROVE  Next
  BY <1>3 DEF TxPoolGovernance, Next
<1>4. ASSUME NEW c \in Calls, TxRegistry(c[1])
      PROVE  [Next]_vars
  <2>1. CASE \E s \in Signers : \E kind \in {0, 1} :
               Registry!AddAllowedSigner(c[1], s, kind)
    <3>1. PICK s \in Signers : /\ s \notin allowed_signer
                              /\ allowed_signer' = allowed_signer \cup {s}
      BY <2>1 DEF Registry!AddAllowedSigner, Registry!Unlisted
    <3>2. RegistryChange(s)
      BY <1>4, <3>1 DEF TxRegistry, RegistryChange, escrowVarsButSigners
    <3> QED BY <3>2 DEF Next
  <2>2. CASE \E s \in Signers : Registry!RemoveAllowedSigner(c[1], s)
    <3>1. PICK s \in Signers : /\ s \in allowed_signer
                              /\ allowed_signer' = allowed_signer \ {s}
      BY <2>2 DEF Registry!RemoveAllowedSigner, Registry!Listed
    <3>2. RegistryChange(s)
      BY <1>4, <3>1 DEF TxRegistry, RegistryChange, escrowVarsButSigners
    <3> QED BY <3>2 DEF Next
  <2>3. CASE \E v \in RegistryVaults : Registry!SetGovernance(c[1], v)
    BY <1>4, <2>3 DEF TxRegistry, Registry!SetGovernance, escrowVarsButSigners,
                      vars
  <2> QED BY <1>4, <2>1, <2>2, <2>3 DEF TxRegistry
<1>5. CASE OpenRegistry
  BY <1>5 DEF OpenRegistry, Registry!InitRegistry, escrowVarsButSigners, vars
<1>6. CASE UNCHANGED txVars
  BY <1>6 DEF txVars
<1>7. CASE OpenStep
  BY <1>7 DEF Next
<1> QED BY <1>1, <1>2, <1>3, <1>4, <1>5, <1>6, <1>7 DEF TxNext

\* The composition of escrow, registry and introspection helpers implements the
\* escrow's specification, in which an advance rests on a signed attestation,
\* whatever transactions the instructions are put in.
THEOREM ImplementsEscrowHolds == TxSpec => ImplementsEscrow
<1>1. TxInit => Init
  BY DEF TxInit
<1> QED BY <1>1, TxStepIsStep, PTL DEF TxSpec, Spec, ImplementsEscrow

-----------------------------------------------------------------------------
(* Governance. *)

\* Steps outside the governed instructions leave governance's state alone.
LEMMA OpenStepGovernsNothing ==
  OpenStep => /\ pending_params' \in {pending_params, {}}
              /\ UNCHANGED <<skimmed, allowed_signer>>
BY DEF OpenStep, InitPool, Deposit, Withdraw, Liquidate, ExecuteParams,
       DonateToVault, BurnShares, Tick, poolVars, tokenVars, histVars

LEMMA LoanStepGovernsNothing ==
  ASSUME NEW c, TxRequestAdvance(c[1], c[2]) \/ TxClaimAndSettle(c[1])
  PROVE  UNCHANGED <<pending_params, skimmed, allowed_signer>>
<1>1. CASE TxRequestAdvance(c[1], c[2])
  <2>1. PICK k, n, nonce, att : RequestAdvance(k, n, nonce, att)
    BY <1>1 DEF TxRequestAdvance
  <2> QED BY <2>1 DEF RequestAdvance
<1>2. CASE TxClaimAndSettle(c[1])
  <2>1. PICK k, n, memo : ClaimAndSettle(k, n, memo)
    BY <1>2 DEF TxClaimAndSettle
  <2> QED BY <2>1 DEF ClaimAndSettle, histVars
<1> QED BY <1>1, <1>2

LEMMA StepNeedsApproval ==
  ASSUME [TxNext]_txVars
  PROVE  /\ config.bump # 0 /\ RegistryChanges
              => config.governance \in Approving
         /\ pool.bump # 0 /\ PoolGoverned => pool.governance \in Approving
<1>1. ASSUME NEW c \in Calls, TxRequestAdvance(c[1], c[2]) \/ TxClaimAndSettle(c[1]),
             UNCHANGED config
      PROVE  ~RegistryChanges /\ ~PoolGoverned
  BY <1>1, LoanStepGovernsNothing DEF RegistryChanges, PoolGoverned
<1>2. ASSUME NEW c \in Calls, TxPoolGovernance(c[1]), UNCHANGED config
      PROVE  ~RegistryChanges /\ pool.governance \in Approving
  <2>1. PICK v \in Vaults :
          /\ Registry!require_squads_governance_cpi(c[1], v)
          /\ \/ \E p \in Proposals : ProposeParams(v, p)
             \/ \E n \in Amounts : SkimProtocolFees(v, n)
    BY <1>2 DEF TxPoolGovernance
  <2>2. v = pool.governance /\ UNCHANGED allowed_signer
    BY <2>1 DEF ProposeParams, SkimProtocolFees
  <2>3. v \in Approving
    BY <2>1, CallsExecute, GateMeansApproval
  <2> QED BY <1>2, <2>2, <2>3 DEF RegistryChanges
<1>3. ASSUME NEW c \in Calls, TxRegistry(c[1])
      PROVE  ~PoolGoverned /\ config.governance \in Approving
  <2>1. UNCHANGED <<pending_params, skimmed>>
    BY <1>3 DEF TxRegistry, escrowVarsButSigners, poolVars, histVars
  <2>2. Registry!require_squads_governance_cpi(c[1], config.governance)
    BY <1>3 DEF TxRegistry, Registry!AddAllowedSigner, Registry!Governed,
                Registry!RemoveAllowedSigner, Registry!SetGovernance
  <2>3. config.governance \in Approving
    BY <2>2, CallsExecute, GateMeansApproval
  <2> QED BY <2>1, <2>3 DEF PoolGoverned
<1>4. ASSUME OpenStep, UNCHANGED config
      PROVE  ~RegistryChanges /\ ~PoolGoverned
  BY <1>4, OpenStepGovernsNothing DEF RegistryChanges, PoolGoverned
<1>5. ASSUME OpenRegistry
      PROVE  config.bump = 0 /\ ~PoolGoverned
  BY <1>5 DEF OpenRegistry, Registry!InitRegistry, escrowVarsButSigners,
              PoolGoverned, poolVars, histVars
<1>6. ASSUME UNCHANGED txVars
      PROVE  ~RegistryChanges /\ ~PoolGoverned
  BY <1>6 DEF RegistryChanges, PoolGoverned, txVars, vars, poolVars, histVars
<1> QED BY <1>1, <1>2, <1>3, <1>4, <1>5, <1>6 DEF TxNext

\* add/remove_allowed_signer, set_governance, propose_params and
\* skim_protocol_fees have an effect only with the approval of the vault that is
\* in charge at that moment.
THEOREM ApprovedByGovernanceHolds == TxSpec => ApprovedByGovernance
<1>1. [TxNext]_txVars =>
        [/\ config.bump # 0 /\ RegistryChanges
              => config.governance \in Approving
         /\ pool.bump # 0 /\ PoolGoverned
              => pool.governance \in Approving]_txVars
  BY StepNeedsApproval
<1> QED BY <1>1, PTL
        DEF TxSpec, ApprovedByGovernance

-----------------------------------------------------------------------------
(* Repayment. *)

MemosType == memos \in [Keys -> SUBSET MemoTexts]

MemoInv == TypeOK /\ MemosType /\ RepaidByOwnMemo

\* Steps that leave the accounts of every receivable alone.
LEMMA UntouchedKeepsMemo ==
  ASSUME MemoInv, UNCHANGED <<consumed, advance, tombstone, memos>>
  PROVE  MemosType' /\ RepaidByOwnMemo'
BY DEF MemoInv, MemosType, RepaidByOwnMemo, Repaid

LEMMA RequestKeepsMemo ==
  ASSUME MemoInv, NEW k \in Keys, NEW n, NEW nonce, NEW att,
         RequestAdvance(k, n, nonce, att), UNCHANGED memos
  PROVE  MemosType' /\ RepaidByOwnMemo'
<1>1. /\ advance'[k].bump # 0
      /\ UNCHANGED tombstone
      /\ \A j \in Keys \ {k} : advance'[j] = advance[j] /\ consumed'[j] = consumed[j]
  BY DEF MemoInv, TypeOK, RequestAdvance
<1>2. ASSUME NEW j \in Keys, Repaid(j)'
      PROVE  Repaid(j) /\ consumed'[j] = consumed[j]
  BY <1>1, <1>2 DEF Repaid
<1> QED BY <1>2 DEF MemoInv, MemosType, RepaidByOwnMemo

\* The memo that claim_and_settle compares with the nonce in ConsumedPayment is
\* one of this transaction.
LEMMA SettleKeepsMemo ==
  ASSUME MemoInv, NEW tx, Registry!Executes(tx), TxClaimAndSettle(tx)
  PROVE  MemosType' /\ RepaidByOwnMemo'
<1>1. PICK memo \in Nonces, k \in Keys, n \in Amounts :
        /\ Registry!require_memo_nonce(tx, memo)
        /\ ClaimAndSettle(k, n, memo)
        /\ memos' = [memos EXCEPT ![k] = MemosOf(tx)]
  BY DEF TxClaimAndSettle
<1>2. consumed[k].nonce \in MemosOf(tx) /\ MemosOf(tx) \subseteq MemoTexts
  BY <1>1, MemoIsOfTransaction DEF ClaimAndSettle
<1>3. /\ UNCHANGED <<consumed, tombstone>>
      /\ \A j \in Keys \ {k} : advance'[j] = advance[j]
  BY <1>1 DEF MemoInv, TypeOK, ClaimAndSettle
<1>4. /\ MemosType'
      /\ memos'[k] = MemosOf(tx)
      /\ \A j \in Keys \ {k} : memos'[j] = memos[j]
  BY <1>1, <1>2 DEF MemoInv, MemosType
<1>5. ASSUME NEW j \in Keys \ {k}, Repaid(j)'
      PROVE  consumed'[j].nonce \in memos'[j] /\ memos'[j] \subseteq MemoTexts
  <2>1. Repaid(j)
    BY <1>3, <1>5 DEF Repaid
  <2> QED BY <1>3, <1>4, <2>1 DEF MemoInv, RepaidByOwnMemo
<1> QED BY <1>2, <1>3, <1>4, <1>5 DEF RepaidByOwnMemo

LEMMA LiquidateKeepsMemo ==
  ASSUME MemoInv, NEW k \in Keys, Liquidate(k), UNCHANGED memos
  PROVE  MemosType' /\ RepaidByOwnMemo'
<1>1. /\ tombstone'[k].bump = 1
      /\ UNCHANGED consumed
      /\ \A j \in Keys \ {k} :
           advance'[j] = advance[j] /\ tombstone'[j] = tombstone[j]
  BY DEF MemoInv, TypeOK, Liquidate, TombstoneOf
<1>2. ASSUME NEW j \in Keys, Repaid(j)'
      PROVE  Repaid(j)
  BY <1>1, <1>2 DEF Repaid
<1> QED BY <1>1, <1>2 DEF MemoInv, MemosType, RepaidByOwnMemo

LEMMA TxStepKeepsMemo == MemoInv /\ [TxNext]_txVars => MemoInv'
<1> SUFFICES ASSUME MemoInv, [TxNext]_txVars PROVE MemoInv'
  OBVIOUS
<1> DEFINE Kept == MemosType' /\ RepaidByOwnMemo'
<1> USE DEF pdaVars
<1>1. TypeOK'
  BY TxStepIsStep, NextType DEF MemoInv
<1>2. ASSUME NEW c \in Calls, TxRequestAdvance(c[1], c[2]), UNCHANGED memos
      PROVE  Kept
  BY <1>2, RequestKeepsMemo DEF TxRequestAdvance
<1>3. ASSUME NEW c \in Calls, TxClaimAndSettle(c[1])
      PROVE  Kept
  BY <1>3, CallsExecute, SettleKeepsMemo
<1>4. ASSUME NEW c \in Calls, TxPoolGovernance(c[1]), UNCHANGED memos
      PROVE  Kept
  BY <1>4, UntouchedKeepsMemo
     DEF TxPoolGovernance, ProposeParams, SkimProtocolFees
<1>5. ASSUME OpenRegistry \/ \E c \in Calls : TxRegistry(c[1]), UNCHANGED memos
      PROVE  Kept
  BY <1>5, UntouchedKeepsMemo
     DEF OpenRegistry, TxRegistry, escrowVarsButSigners
<1>6. ASSUME OpenStep, UNCHANGED memos
      PROVE  Kept
  <2>1. CASE \E k \in Keys : Liquidate(k)
    BY <1>6, <2>1, LiquidateKeepsMemo
  <2>2. CASE ~\E k \in Keys : Liquidate(k)
    <3>1. UNCHANGED <<consumed, advance, tombstone>>
      BY <1>6, <2>2 DEF OpenStep, InitPool, Deposit, Withdraw, ExecuteParams,
                        DonateToVault, BurnShares, Tick
    <3> QED BY <1>6, <3>1, UntouchedKeepsMemo
  <2> QED BY <2>1, <2>2
<1>7. ASSUME UNCHANGED txVars
      PROVE  Kept
  BY <1>7, UntouchedKeepsMemo DEF txVars, vars
<1> HIDE DEF Kept
<1>8. Kept
  BY <1>2, <1>3, <1>4, <1>5, <1>6, <1>7 DEF TxNext
<1> QED BY <1>1, <1>8 DEF MemoInv, Kept

\* claim_and_settle closes an advance only in a transaction that holds a memo
\* with the nonce that very advance was requested under, whatever other memos
\* stand next to it; a nonce that Memo refuses is never repaid.
THEOREM RepaidByOwnMemoHolds == TxSpec => []RepaidByOwnMemo
<1>1. TxInit => MemoInv
  <2> SUFFICES ASSUME TxInit PROVE MemoInv
    OBVIOUS
  <2>1. TypeOK
    BY InitType DEF TxInit
  <2>2. RepaidByOwnMemo
    BY DEF TxInit, Init, NoConsumed, RepaidByOwnMemo, Repaid
  <2>3. MemosType
    BY DEF TxInit, MemosType
  <2> QED BY <2>1, <2>2, <2>3 DEF MemoInv
<1>2. MemoInv => RepaidByOwnMemo
  BY DEF MemoInv
<1> QED BY <1>1, <1>2, TxStepKeepsMemo, PTL DEF TxSpec
=============================================================================
