------------------------------ MODULE MCBpStream ------------------------------
(* Instances of BpStream for TLC.                                          *)
EXTENDS BpStream

AppendMode == {"a"}
=============================================================================
