--------------------------- MODULE KeplerResolve ---------------------------
(***************************************************************************)
(* Store::resolve checked against what a reader of the manual would draw:  *)
(* the graph whose edges lead from a key to the keys its value names.  The *)
(* store here is any that set and del can build from Bindings.             *)
(***************************************************************************)
EXTENDS KeplerValues

CONSTANT Bindings      (* the values keys are bound to *)

ASSUME BindingsAssumption == Bindings \subseteq Value

VARIABLE kv            (* the value of each key, Nil for none *)

Init == kv = [k \in Key |-> Nil]

Bind(k, v) == kv' = [kv EXCEPT ![k] = v]
Unbind(k)  == kv' = [kv EXCEPT ![k] = Nil]

Next == \E k \in Key : Unbind(k) \/ \E v \in Bindings : Bind(k, v)

Spec == Init /\ [][Next]_kv

-----------------------------------------------------------------------------
(* The keys a value names; those in a list only if the lists are followed. *)
NamedBy(v, inLists) ==
  IF v = Nil THEN {}
  ELSE IF v.type = "IDENTIFIER" THEN {v.val}
  ELSE IF v.type = "LIST" /\ inLists
         THEN {v.val[j].val : j \in {j \in DOMAIN v.val : IsIdent(v.val[j])}}
  ELSE {}

(* The keys that can be reached from k: those in every set of keys that    *)
(* holds k and all that its keys name.                                     *)
Closed(S, inLists) == \A x \in S : NamedBy(kv[x], inLists) \subseteq S
From(k, inLists) ==
  {x \in Key : \A S \in SUBSET Key : k \in S /\ Closed(S, inLists) => x \in S}

(* The keys that can be reached from k in one step or more.                *)
Beyond(k, inLists) == UNION {From(y, inLists) : y \in NamedBy(kv[k], inLists)}

(* A key resolves to a circular reference exactly when a cycle of keys can *)
(* be reached from it: a key met twice on different branches of a list is  *)
(* none, a cycle far below the key is one (Store::resolveRecur_, which     *)
(* keeps the seen keys of each branch apart).                              *)
CircularIffCycle ==
  \A inLists \in BOOLEAN, k \in Key :
    Resolve(kv, k, inLists) = Circular
      <=> \E x \in From(k, inLists) : x \in Beyond(x, inLists)

(* Following aliases alone ends at the one key of the chain that holds a   *)
(* value of its own, or at nothing when the chain ends at a missing key    *)
(* (Store::resolve as INCR, DECR, APPEND and PREPEND call it).             *)
EndsAtValue ==
  \A k \in Key :
    LET r    == Resolve(kv, k, FALSE)
        Ends == {x \in From(k, FALSE) : NamedBy(kv[x], FALSE) = {}}
    IN  r # Circular =>
          \E x \in Key :
            /\ Ends = {x}
            /\ r = IF kv[x] = Nil THEN Missing ELSE Outcome("FOUND", x, kv[x])

(* RESOLVE of a list is the list of what its elements resolve to by        *)
(* themselves: what one element has seen never makes another circular or   *)
(* wrong, and an identifier in it is followed to the end and through the   *)
(* lists of other keys.  Of an element that is a list of its own nothing   *)
(* is said here (Store::resolveRecur_).                                    *)
ListsResolveElementwise ==
  \A k \in Key :
    LET r == Resolve(kv, k, TRUE) IN
    r.at # Nil /\ r.val.type = "LIST" =>
      \A j \in DOMAIN r.val.val :
        LET e == kv[r.at].val[j] IN
        IF IsIdent(e) THEN r.val.val[j] = Resolve(kv, e.val, TRUE).val
                      ELSE e.type # "LIST" => r.val.val[j] = e

-----------------------------------------------------------------------------
(* What the repository says of the program and the program does not do.    *)

(* docs/planning.md: RESOLVE will also recursively find identifiers to     *)
(* resolve within lists.  Then those in a list within a list are resolved  *)
(* as well (Store::resolveRecur_).                                         *)
ListsResolveThroughout ==
  \A k \in Key :
    LET r == Resolve(kv, k, TRUE) IN
    r.at # Nil /\ r.val.type = "LIST" =>
      \A j \in DOMAIN r.val.val :
        LET e == kv[r.at].val[j] IN
        e.type = "LIST" =>
          \A l \in DOMAIN e.val :
            IsIdent(e.val[l]) =>
              r.val.val[j].val[l] = Resolve(kv, e.val[l].val, TRUE).val
=============================================================================
