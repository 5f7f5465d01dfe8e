----------------------------- MODULE MCDataSpaces -----------------------------
(* Instances of DataSpaces for TLC.                                        *)
EXTENDS DataSpaces

(* Every way to call; only a call with a timeout can be retried.           *)
AllCalls == {c \in AnyCall : c.retry => c.timeout}
==============================================================================
