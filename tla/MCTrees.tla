------------------------------ MODULE MCTrees -------------------------------
(* A directory with a file and a link to something in the source, and at   *)
(* the root a file, a link elsewhere and a FIFO.                           *)
EXTENDS Trees

Tree == [d |-> "root", f |-> "d", inside |-> "d", g |-> "root", outside |-> "root", fifo |-> "root"]
=============================================================================
