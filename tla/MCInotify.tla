----------------------------- MODULE MCInotify ------------------------------
(* A queue of two events and a buffer for two, so that five events         *)
(* overflow it and one read does not empty it.                             *)
EXTENDS Inotify
=============================================================================
