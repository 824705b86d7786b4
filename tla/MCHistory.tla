----------------------------- MODULE MCHistory -----------------------------
(* The instances of MCKepler with the history variables.                   *)
EXTENDS MCKepler, KeplerHistory
=============================================================================
