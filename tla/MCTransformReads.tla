--------------------------- MODULE MCTransformReads ---------------------------
(* TransformReads for TLC: a stream of two steps with one group, the       *)
(* second step without the second of three variables.                      *)
EXTENDS TransformReads

TwoSteps == <<<<<<0, 1>>>>, <<<<0, 2>>>>>>
OnlyGroup == {0}
SomeCorruptions == {{}, {2}}
=============================================================================
