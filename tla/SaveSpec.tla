------------------------------ MODULE SaveSpec ------------------------------
(***************************************************************************)
(* What a save file promises, without bytes: it holds the entries that     *)
(* were written whole and at most one key whose entry was cut.  A load     *)
(* restores every whole entry exactly and before anything else; a cut      *)
(* entry can spoil its own key and no other.  Only a cut entry, or a key   *)
(* it has spoiled, can bring the program down.                             *)
(***************************************************************************)
EXTENDS KeplerValues

CONSTANTS
  Null,     (* an entry without a value                                    *)
  Values,   (* what users store                                            *)
  Readable  (* what a load may make of an entry that is cut                *)

VARIABLES
  kv,       (* the value of each key, Nil for no entry                     *)
  entries,  (* the whole entries of the file, Nil for none                 *)
  cut,      (* the key of the entry cut at the end of the file, or Nil     *)
  todo,     (* the keys a save has to write, or a load to read             *)
  phase     (* what is going on                                            *)

saveVars == <<kv, entries, cut, todo, phase>>

None == [k \in Key |-> Nil]
Keys(m) == {k \in Key : m[k] # Nil}

SaveInit == kv = None /\ entries = None /\ cut = Nil /\ todo = {} /\ phase = "idle"

Change == phase = "idle" /\ \E k \in Key, v \in Values \cup {Nil} :
  kv' = [kv EXCEPT ![k] = v] /\ UNCHANGED <<entries, cut, todo, phase>>

BeginSave ==
  /\ phase = "idle" /\ phase' = "saving"
  /\ entries' = None /\ cut' = Nil /\ todo' = Keys(kv)
  /\ UNCHANGED kv

SaveOne(k) ==
  /\ phase = "saving" /\ k \in todo /\ kv[k] \in Values
  /\ entries' = [entries EXCEPT ![k] = kv[k]] /\ todo' = todo \ {k}
  /\ UNCHANGED <<kv, cut, phase>>

EndSave == phase = "saving" /\ todo = {} /\ phase' = "idle" /\ UNCHANGED <<kv, entries, cut, todo>>

(* The end of what was written does not reach the file.  The program may   *)
(* never learn of it, or have died of what caused it.                      *)
Lose ==
  /\ phase = "saving" /\ phase' \in {"idle", "crashed"}
  /\ \A k \in Key : entries'[k] \in {Nil, entries[k]}
  /\ entries' \in [Key -> Values \cup {Nil}]
  /\ cut' \in Key \cup {Nil} /\ (cut' # Nil => entries'[cut'] = Nil)
  /\ todo' = {} /\ kv' \in {kv, None}

BeginLoad ==
  /\ phase = "idle" /\ phase' = "loading"
  /\ todo' = Keys(entries) /\ UNCHANGED <<kv, entries, cut>>

LoadOne(k) ==
  /\ phase = "loading" /\ k \in todo
  /\ kv' = [kv EXCEPT ![k] = entries[k]] /\ todo' = todo \ {k}
  /\ UNCHANGED <<entries, cut, phase>>

(* The value of the cut entry, which nobody wrote; none if the load breaks *)
(* off at it and the key was new.                                          *)
Spoil ==
  /\ phase = "loading" /\ todo = {} /\ cut # Nil
  /\ kv'[cut] \in Readable \/ (kv'[cut] = Null /\ kv[cut] = Nil)
  /\ kv' = [kv EXCEPT ![cut] = kv'[cut]]
  /\ phase' \in {"loading", "idle"} /\ UNCHANGED <<entries, cut, todo>>

EndLoad == phase = "loading" /\ todo = {} /\ phase' = "idle" /\ UNCHANGED <<kv, entries, cut, todo>>

(* The process is killed or brought down, and started again.               *)
Restart ==
  /\ phase # "saving" /\ kv' = None /\ todo' = {} /\ phase' = "idle"
  /\ UNCHANGED <<entries, cut>>

Crash ==
  /\ \/ phase = "idle" /\ \E k \in Key : kv[k] = Null
     \/ phase = "loading" /\ todo = {} /\ cut # Nil
  /\ kv' = None /\ phase' = "crashed" /\ UNCHANGED <<entries, cut, todo>>

SaveNext ==
  \/ Change \/ BeginSave \/ EndSave \/ Lose \/ BeginLoad \/ Spoil \/ EndLoad
  \/ Restart \/ Crash
  \/ \E k \in Key : SaveOne(k) \/ LoadOne(k)

Save == SaveInit /\ [][SaveNext]_saveVars
=============================================================================
