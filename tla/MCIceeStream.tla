----------------------------- MODULE MCIceeStream -----------------------------
(* Instances of IceeStream for TLC: two writers that send whole steps, two *)
(* that send single variables, and one of two that writes nothing.         *)
EXTENDS IceeStream

Load(parallel, first, second) ==
  [parallel |-> parallel, nvars |-> [w \in 0 .. 1 |-> IF w = 0 THEN first ELSE second]]

SomeLoads == {Load(1, 2, 1), Load(2, 1, 1), Load(2, 2, 0)}
=============================================================================
