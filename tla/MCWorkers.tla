----------------------------- MODULE MCWorkers ------------------------------
(* The instances of Workers that TLC checks.                               *)
EXTENDS Workers

(* One timeout of each kind.                                               *)
EachMode == {Forever, 0, 2000000}
=============================================================================
