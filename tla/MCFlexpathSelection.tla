------------------------- MODULE MCFlexpathSelection -------------------------
(***************************************************************************)
(* Arrays, layouts and requests for the runs of FlexpathSelection.         *)
(***************************************************************************)
EXTENDS FlexpathSelection, TLC

(* The array, and the boxes in it.  Only in a dimension of size 4 can a    *)
(* block lie inside a selection and touch neither end of it.               *)
FourByTwo == <<4, 2>>
BoxesIn == {b \in [start : [Dims -> 0 .. 3], count : [Dims -> 1 .. 4]] :
              \A d \in Dims : b.start[d] + b.count[d] <= GlobalDims[d]}

(* The first writer holds any block, the second the middle rows or one     *)
(* corner: gaps and overlaps (ghost cells) included.                       *)
SecondBlocks ==
  {[offset |-> <<1, 0>>, count |-> <<2, 2>>],
   [offset |-> <<3, 1>>, count |-> <<1, 1>>]}
AnyFirstBlock ==
  {(0 :> [offset |-> b.start, count |-> b.count]) @@ (1 :> c) :
     b \in BoxesIn, c \in SecondBlocks}

Request(type, b, i) == [type |-> type, start |-> b.start, count |-> b.count, index |-> i]
AnyBox == [start |-> Zero, count |-> GlobalDims]
BoxRequests == {Request("box", b, 0) : b \in BoxesIn}
WholeRequest == {Request("whole", AnyBox, 0)}
BlockRequests == {Request("block", AnyBox, i) : i \in {0, NumBridges - 1, NumBridges + 1}}
EveryRequest == BoxRequests \cup WholeRequest \cup BlockRequests
                  \cup {Request("points", AnyBox, 0)}
=============================================================================
