----------------------------- MODULE MCSignals ------------------------------
(* The instances of Signals that TLC checks.                               *)
EXTENDS Signals

TwoSignals == <<"TERM", "INT">>
=============================================================================
