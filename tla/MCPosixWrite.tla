----------------------------- MODULE MCPosixWrite -----------------------------
(* Instances of PosixWrite for TLC.                                        *)
EXTENDS PosixWrite, TLC

AnyMode == {"w", "a", "u", "r"}
Symmetry == Permutations(Groups)
=============================================================================
