------------------------------ MODULE MCSqlite ------------------------------
(* Two connections, three statements, calls nested twice.                  *)
EXTENDS Sqlite
=============================================================================
