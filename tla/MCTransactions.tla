--------------------------- MODULE MCTransactions ---------------------------
(***************************************************************************)
(* Small transactions around the escrow's and the registry's instructions. *)
(***************************************************************************)
EXTENDS MCEscrow, Transactions, Sequences

CONSTANT n3

\* The transaction with these instructions, numbered from 0.
Tx(ixs) == [i \in 0 .. Len(ixs) - 1 |-> ixs[i + 1]]

CredMesh == [program |-> "credmesh"]
Squads(v, writable) == [program |-> "squads", vault |-> v, writable |-> writable]
Memo(text) == [program |-> "memo", text |-> text]
Verify(count, at, att) ==
  [program |-> "ed25519", count |-> count, claim |-> att,
   entries |-> <<[sig_ix |-> at, pk_ix |-> at, msg_ix |-> at],
                 [sig_ix |-> 0, pk_ix |-> 0, msg_ix |-> 0]>>]

\* One attestation at every time, each with its own nonce; n3 is no memo text.
TxAttestations ==
  {Signed(s1, a1, 12, 0, 0, 1, n1), Signed(s1, a1, 12, 0, 1, 1, n2),
   Signed(s1, a1, 12, 0, 2, 1, n3)}

\* A message nobody signed: a longer term than the bridge gave.
Unsigned == Signed(s1, a1, 12, 0, 0, 2, n1)
Genuine == CHOOSE att \in TxAttestations : att.attested_at = 0

OfferedTransactions ==
  {Tx(<<Verify(1, 0, att), CredMesh>>) : att \in TxAttestations}
    \cup
  {Tx(<<Verify(1, 0, Unsigned), CredMesh>>),
   Tx(<<Verify(0, 0, Unsigned), CredMesh>>),
   Tx(<<Verify(1, 2, Unsigned), CredMesh, Verify(1, 2, Genuine)>>),
   Tx(<<Verify(2, 0, Genuine), CredMesh>>),
   Tx(<<Verify(1, 65535, Genuine), CredMesh>>),
   Tx(<<CredMesh, Verify(1, 1, Genuine)>>),
   Tx(<<Memo(n1), CredMesh>>), Tx(<<CredMesh, Memo(n3)>>),
   Tx(<<Memo(n2), CredMesh, Squads(v1, TRUE)>>),
   Tx(<<CredMesh, Memo(n1), CredMesh, Memo(n2), Squads(v1, TRUE)>>),
   Tx(<<Squads(v2, TRUE), CredMesh>>), Tx(<<Squads(v2, FALSE), CredMesh>>)}
=============================================================================
