------------------------------- MODULE MCExec -------------------------------
(* The instances of Exec that TLC checks.                                  *)
EXTENDS Exec

Program(stubborn, closes, h) ==
    [stubborn |-> stubborn, closes |-> closes, heir |-> h]

(* A command that may close its descriptors early; commands that survive   *)
(* SIGTERM and leave a descendant, in their process group or out of it.    *)
Closer == {Program(FALSE, TRUE, "no")}
Survivors == {Program(TRUE, FALSE, "group"), Program(TRUE, FALSE, "escaped")}
Ordinary == Closer \cup Survivors
=============================================================================
