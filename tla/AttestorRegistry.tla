-------------------------- MODULE AttestorRegistry --------------------------
(***************************************************************************)
(* The credmesh-attestor-registry program: the config account with the     *)
(* vault that governs it, and one AllowedSigner account per whitelisted    *)
(* key.  Every instruction of lib.rs is one action; tx is the transaction  *)
(* it stands in.                                                           *)
(*                                                                         *)
(* AllowedSigner.added_at is an audit trail nobody reads and is left out.  *)
(* AllowedSigner.kind is not kept: add_allowed_signer accepts one value.   *)
(***************************************************************************)
EXTENDS IxIntrospection

CONSTANTS
  Signers,      \* ed25519 keys that may be whitelisted
  Vaults,       \* Squads vault PDAs
  DefaultKey    \* Pubkey::default()

VARIABLES
  config,          \* AttestorConfig; bump = 0 before init_registry
  allowed_signer   \* keys with an AllowedSigner account

registryVars == <<config, allowed_signer>>

\* AttestorKind::from_u8: CreditBridge is the only kind.
AttestorKind == {0}

RegistryInit ==
  /\ config = [bump |-> 0, governance |-> DefaultKey]
  /\ allowed_signer = {}

\* Anyone, once: the config account is created with `init`.
InitRegistry(governance) ==
  /\ config.bump = 0
  /\ governance # DefaultKey
  /\ config' = [bump |-> 1, governance |-> governance]
  /\ UNCHANGED allowed_signer

Governed(tx) ==
  config.bump # 0 /\ require_squads_governance_cpi(tx, config.governance)

\* The AllowedSigner account is created with `init`, which fails on an existing
\* one.
Unlisted(signer) == signer \notin allowed_signer

AddAllowedSigner(tx, signer, kind) ==
  /\ Governed(tx)
  /\ kind \in AttestorKind
  /\ Unlisted(signer)
  /\ allowed_signer' = allowed_signer \cup {signer}
  /\ UNCHANGED config

\* The account at the signer's seeds is loaded, and closed at the end.
Listed(signer) == signer \in allowed_signer

RemoveAllowedSigner(tx, signer) ==
  /\ Governed(tx)
  /\ Listed(signer)
  /\ allowed_signer' = allowed_signer \ {signer}
  /\ UNCHANGED config

SetGovernance(tx, new_governance) ==
  /\ Governed(tx)
  /\ new_governance # DefaultKey
  /\ config' = [config EXCEPT !.governance = new_governance]
  /\ UNCHANGED allowed_signer
=============================================================================
