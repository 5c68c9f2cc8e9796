---------------------------- MODULE Transactions ----------------------------
(***************************************************************************)
(* The escrow and the attestor registry as the cluster runs them: an       *)
(* instruction that looks at its transaction stands in one, and what       *)
(* CredmeshEscrow takes for granted (an attestation that was really        *)
(* signed, the Squads vault that approved, the memo that was sent) is what *)
(* the introspection helpers read off the transaction.                     *)
(*                                                                         *)
(* A transaction with several CredMesh instructions is several steps; its  *)
(* atomicity only takes behaviours away.                                   *)
(***************************************************************************)
EXTENDS CredmeshEscrow

CONSTANTS
  Transactions,   \* the transactions offered to the cluster
  MAX_IX_SCAN,    \* see IxIntrospection
  MemoTexts,      \* nonces the Memo program takes as a memo
  Approving,      \* vaults whose members approve an execution
  RegistryVaults  \* keys offered to init_registry and set_governance

\* The data of an ed25519 instruction spells out a key and a message.
ASSUME TransactionsAssumption ==
  \A tx \in Transactions : \A i \in DOMAIN tx :
    tx[i].program = "ed25519" => tx[i].claim \in Attestation

VARIABLE config   \* AttestorConfig of the registry

\* History, never read by an action: the memos next to which each receivable's
\* advance was settled.
VARIABLE memos

Registry == INSTANCE AttestorRegistry WITH DefaultKey <- NoSigner

escrowVarsButSigners == <<poolVars, tokenVars, pdaVars, now, histVars>>
txVars == <<vars, config, memos>>

\* The transactions that take effect, with the position of a CredMesh
\* instruction in them.
Calls ==
  UNION {{tx} \X {i \in DOMAIN tx : tx[i].program = "credmesh"} :
           tx \in {t \in Transactions : Registry!Executes(t)}}

\* Every memo of the transaction, found by the scan or not.
MemosOf(tx) == {tx[i].text : i \in {j \in DOMAIN tx : tx[j].program = "memo"}}

TxInit == Init /\ Registry!RegistryInit /\ memos = [k \in Keys |-> {}]

\* request_advance reads the attestation off the instruction before it.
TxRequestAdvance(tx, cur) ==
  \E att \in Registry!verify_prev_ed25519(tx, cur) :
    \E k \in Keys, n \in Amounts, nonce \in Nonces :
      RequestAdvance(k, n, nonce, att)

\* claim_and_settle wants the advance's own nonce as a memo.
TxClaimAndSettle(tx) ==
  \E memo \in Nonces :
    /\ Registry!require_memo_nonce(tx, memo)
    /\ \E k \in Keys, n \in Amounts :
         /\ ClaimAndSettle(k, n, memo)
         /\ memos' = [memos EXCEPT ![k] = MemosOf(tx)]

\* propose_params and skim_protocol_fees want the pool's vault.
TxPoolGovernance(tx) ==
  \E v \in Vaults :
    /\ Registry!require_squads_governance_cpi(tx, v)
    /\ \/ \E p \in Proposals : ProposeParams(v, p)
       \/ \E n \in Amounts : SkimProtocolFees(v, n)

TxRegistry(tx) ==
  /\ \/ \E s \in Signers :
          \/ \E kind \in {0, 1} : Registry!AddAllowedSigner(tx, s, kind)
          \/ Registry!RemoveAllowedSigner(tx, s)
     \/ \E v \in RegistryVaults : Registry!SetGovernance(tx, v)
  /\ UNCHANGED escrowVarsButSigners

OpenRegistry ==
  /\ \E v \in RegistryVaults : Registry!InitRegistry(v)
  /\ UNCHANGED escrowVarsButSigners

TxNext ==
  \/ \E c \in Calls :
       \/ TxRequestAdvance(c[1], c[2]) /\ UNCHANGED <<config, memos>>
       \/ TxClaimAndSettle(c[1]) /\ UNCHANGED config
       \/ TxPoolGovernance(c[1]) /\ UNCHANGED <<config, memos>>
       \/ TxRegistry(c[1]) /\ UNCHANGED memos
  \/ OpenStep /\ UNCHANGED <<config, memos>>
  \/ OpenRegistry /\ UNCHANGED memos

TxSpec == TxInit /\ [][TxNext]_txVars

-----------------------------------------------------------------------------
(* Properties. *)

\* What the helpers let through is what the escrow's own specification allows:
\* an advance rests on a message its signer signed, with the terms of that very
\* message, however the transaction around request_advance is put together, and
\* the registry's instructions only ever flip one whitelist entry.
ImplementsEscrow == Spec

RegistryChanges == <<config, allowed_signer>>' # <<config, allowed_signer>>
PoolGoverned == pending_params' \notin {pending_params, {}} \/ skimmed' # skimmed

\* The whitelist, the registry's governance, the pool's pending parameters and
\* its accrued fees change only while the vault in charge approves: a vault that
\* has been replaced, or is to take over, has no say.
ApprovedByGovernance ==
  [][/\ config.bump # 0 /\ RegistryChanges => config.governance \in Approving
     /\ pool.bump # 0 /\ PoolGoverned => pool.governance \in Approving]_txVars

Repaid(k) ==
  consumed[k].bump # 0 /\ advance[k].bump = 0 /\ tombstone[k].bump = 0

\* A receivable was repaid in a transaction in which a memo spelled out the nonce
\* of its own request, not that of another receivable; and since Memo takes
\* valid texts only, one requested under any other bytes is never repaid.
RepaidByOwnMemo ==
  \A k \in Keys :
    Repaid(k) => consumed[k].nonce \in memos[k] /\ memos[k] \subseteq MemoTexts
=============================================================================
