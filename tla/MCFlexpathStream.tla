-------------------------- MODULE MCFlexpathStream --------------------------
(***************************************************************************)
(* The needs of the readers for the runs of FlexpathStream: which sets of  *)
(* writers the reads of a step may need.                                   *)
(***************************************************************************)
EXTENDS FlexpathStream

AnySet == [r \in Readers |-> SUBSET Writers]
AllWriters == [r \in Readers |-> {Writers}]
OwnCoordinator == [r \in Readers |-> {{}, {Coordinator(r)}}]
OtherWriter == [r \in Readers |-> {{}, {(r + 1) % NW}}]
=============================================================================
