------------------------------ MODULE MCSocket ------------------------------
EXTENDS Socket

(* A line longer than MaxLine, unless its first byte is read by recv, whose *)
(* end is deciphered together with what is before it.                      *)
const_Stream == <<"x", "x", "LF">>
const_RecordEnds == {1, 3}
=============================================================================
