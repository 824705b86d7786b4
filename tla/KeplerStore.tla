---------------------------- MODULE KeplerStore ----------------------------
(***************************************************************************)
(* class Store (include/store.h, src/store.cpp): a map from keys to shared *)
(* pointers.  The value a pointer leads to is a cell of its own, because   *)
(* INCR, DECR, APPEND and PREPEND change it in place through the pointer   *)
(* resolve() hands out, while SET and UPDATE bind the key to a new cell.   *)
(* The operators below are the parts of an action that touch the store.    *)
(***************************************************************************)
EXTENDS KeplerValues

CONSTANTS
  Ref,            (* the addresses cells can have                          *)
  Null            (* the pointer of an entry that never got a value        *)

ASSUME RefAssumption == Nil \notin Ref /\ Null \notin Ref \cup {Nil}

VARIABLES
  map,            (* Store::map_: the cell of each key, Null for an entry  *)
                  (* without a value, Nil for no entry                     *)
  heap            (* the value in each cell, Nil for a cell not in use     *)

store == <<map, heap>>

StoreTypeOK ==
  /\ map \in [Key -> Ref \cup {Nil, Null}]
  /\ heap \in [Ref -> Value \cup {Nil}]

EmptyMap  == [k \in Key |-> Nil]
EmptyHeap == [r \in Ref |-> Nil]

(* What Store::get gives a user: nothing, too, for an entry without value. *)
Contents == [k \in Key |-> IF map[k] \in Ref THEN heap[map[k]] ELSE Nil]

(* Store::contains looks for the entry, Store::rename for its value.       *)
Contains(k) == map[k] # Nil
Has(k)      == map[k] \in Ref

(* Binding the entries as in m; a cell that no entry points to any more is *)
(* destroyed with the last pointer to it.                                  *)
Rebind(m, h) ==
  /\ map' = m
  /\ heap' = [r \in Ref |-> IF \E k \in Key : m[k] = r THEN h[r] ELSE Nil]

(* Store::set: the value evaluate() has just allocated becomes the key's.  *)
Set(k, v) ==
  \E r \in Ref :
    /\ heap[r] = Nil
    /\ Rebind([map EXCEPT ![k] = r], [heap EXCEPT ![r] = v])

(* Store::update.                                                          *)
Update(k, v) == IF Contains(k) THEN Set(k, v) ELSE UNCHANGED store

(* Store::del.                                                             *)
Del(k) == Rebind([map EXCEPT ![k] = Nil], heap)

(* Mutant: the old entry is not erased.                                    *)
RenameKeepsOld(old, new) ==
  IF Has(old)
    THEN Rebind([map EXCEPT ![new] = map[old]], heap)
    ELSE UNCHANGED store

(* Mutant: the old entry is erased after the new one is written.           *)
RenameErasesLast(old, new) ==
  IF Has(old)
    THEN Rebind([map EXCEPT ![new] = map[old], ![old] = Nil], heap)
    ELSE UNCHANGED store

(* Store::rename: the entry moves with its cell.  The old entry is erased  *)
(* before the new one is written, so renaming a key to itself keeps it.    *)
Rename(old, new) ==
  IF Has(old)
    THEN Rebind([map EXCEPT ![old] = Nil, ![new] = map[old]], heap)
    ELSE UNCHANGED store

(* A change through the pointer in the entry of k.                         *)
Mutate(k, v) == heap' = [heap EXCEPT ![map[k]] = v] /\ UNCHANGED map

(* Mutant: the entry is erased before the value is read.                   *)
LeaveNullAlways(k) == Rebind([map EXCEPT ![k] = Null], heap)

(* What is left of map_[key] = ... when the right side throws and the left *)
(* one was evaluated first.                                                *)
LeaveNull(k) ==
  /\ map[k] = Nil
  /\ map' = [map EXCEPT ![k] = Null] /\ UNCHANGED heap

-----------------------------------------------------------------------------
(* Every entry with a value owns its cell, every cell in use has an owner, *)
(* and no entry points to a destroyed cell: what makes a change in place   *)
(* equal to a change of one key's value (the shared pointers of Store).    *)
CellsOwned ==
  /\ \A k1, k2 \in Key : map[k1] \in Ref /\ map[k1] = map[k2] => k1 = k2
  /\ \A k \in Key : map[k] \in Ref => heap[map[k]] # Nil
  /\ \A r \in Ref : heap[r] # Nil => \E k \in Key : map[k] = r
=============================================================================
