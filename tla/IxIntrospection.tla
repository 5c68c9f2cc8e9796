-------------------------- MODULE IxIntrospection ---------------------------
(***************************************************************************)
(* ix_introspection.rs: what an instruction learns from the others in its  *)
(* transaction through the instructions sysvar.                            *)
(*                                                                         *)
(* A transaction is a function from 0 .. n - 1 to its top-level            *)
(* instructions, in the sysvar's numbering.  An instruction is a program   *)
(* with the data and accounts the helpers look at: for the ed25519         *)
(* program the signature count, the offsets table and the key and message  *)
(* its data holds; for Memo the text; for Squads one vault and its         *)
(* writable flag.  Byte offsets inside one instruction are left out: the   *)
(* native program fails on the same out-of-range offsets as the helper.    *)
(***************************************************************************)
EXTENDS Naturals

CONSTANTS
  MAX_IX_SCAN,    \* top-level instructions a helper scans, 64
  Attestations,   \* messages, with their key, that really were signed
  MemoTexts,      \* 16-byte strings the Memo program takes: valid UTF-8
  Approving       \* Squads vaults whose members approve an execution

\* The instruction index by which the ed25519 program means "this instruction".
THIS_IX == 65535

-----------------------------------------------------------------------------
(* The programs of the cluster, as far as a transaction depends on them.   *)

\* The instruction that entry index ix of instruction i refers to.
Resolved(ix, i) == IF ix = THIS_IX THEN i ELSE ix

\* The ed25519 program checks each of its `count` entries: the key at one
\* place has signed the message at another.
EntryVerifies(tx, i, entry) ==
  LET pk == Resolved(entry.pk_ix, i)
      msg == Resolved(entry.msg_ix, i)
  IN /\ pk \in DOMAIN tx /\ msg \in DOMAIN tx
     /\ [tx[msg].claim EXCEPT !.signer = tx[pk].claim.signer] \in Attestations

IxSucceeds(tx, i) ==
  /\ tx[i].program = "ed25519" =>
       \A j \in 1 .. tx[i].count : EntryVerifies(tx, i, tx[i].entries[j])
  /\ tx[i].program = "memo" => tx[i].text \in MemoTexts
  /\ tx[i].program = "squads" /\ tx[i].writable => tx[i].vault \in Approving

\* A transaction has an effect only when all its instructions succeed.
Executes(tx) == \A i \in DOMAIN tx : IxSucceeds(tx, i)

-----------------------------------------------------------------------------
(* The helpers.  A result is a set: empty for an error.                    *)

\* Strict equality: neither an empty nor a multi-signature instruction.
OneSignature(ix) == ix.count = 1

\* Mutation: the indices are not compared with the verify instruction.
RefersToItself_unchecked(entry, i) == TRUE

RefersToItself(entry, i) ==
  entry.sig_ix = i /\ entry.pk_ix = i /\ entry.msg_ix = i

\* The key and message that the instruction before instruction `cur` verified.
verify_prev_ed25519(tx, cur) ==
  {tx[prev].claim : prev \in {i \in DOMAIN tx :
     /\ cur = i + 1
     /\ tx[i].program = "ed25519"
     /\ OneSignature(tx[i])
     /\ RefersToItself(tx[i].entries[1], i)}}

Scanned(tx) == {i \in DOMAIN tx : i < MAX_IX_SCAN}

\* Mutation: any memo will do.
require_memo_nonce_any(tx, expected_nonce) ==
  \E i \in Scanned(tx) : tx[i].program = "memo"

require_memo_nonce(tx, expected_nonce) ==
  \E i \in Scanned(tx) :
    tx[i].program = "memo" /\ tx[i].text = expected_nonce

\* Mutation: a Squads instruction that merely mentions the vault counts.
require_squads_governance_cpi_readonly(tx, expected_vault) ==
  \E i \in Scanned(tx) :
    tx[i].program = "squads" /\ tx[i].vault = expected_vault

require_squads_governance_cpi(tx, expected_vault) ==
  \E i \in Scanned(tx) :
    /\ tx[i].program = "squads"
    /\ tx[i].vault = expected_vault
    /\ tx[i].writable
=============================================================================
