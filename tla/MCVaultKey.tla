----------------------------- MODULE MCVaultKey -----------------------------
(***************************************************************************)
(* An instance of VaultKey: two processes of a release build and one of a  *)
(* development build.                                                      *)
(***************************************************************************)
EXTENDS VaultKey, TLC

CONSTANTS r1, r2, dev

Symmetric == Permutations(Release)

\* Nothing is said of what follows a clash.
BeforeClash == ~clash
=============================================================================
