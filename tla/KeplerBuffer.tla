---------------------------- MODULE KeplerBuffer ----------------------------
(***************************************************************************)
(* How the program builds what is longer than one part: the bytes of a     *)
(* list (ListValue::serialize), the query a script gathers over its lines  *)
(* (fromFile in src/main.cpp).  It has no state.                           *)
(***************************************************************************)
EXTENDS Naturals, Sequences

(* A buffer after each of the parts inserted at its end.                   *)
Buffer(start, parts) ==
  LET buf[n \in 0 .. Len(parts)] == IF n = 0 THEN start ELSE buf[n - 1] \o parts[n]
  IN  buf
=============================================================================
