---------------------------- MODULE KeplerValues ----------------------------
(***************************************************************************)
(* What the other modules talk about: the values a key can hold            *)
(* (include/store_value.h), the commands the parser builds                 *)
(* (include/syntax_tree.h), the validation of a command                    *)
(* (src/command_ast_nodes.cpp) and the resolution of an alias              *)
(* (src/store.cpp).  It has no state.                                      *)
(***************************************************************************)
EXTENDS Integers, Sequences

CONSTANTS
  Key,       (* the identifiers a user may write                           *)
  Str,       (* the contents of string values, which nothing inspects      *)
  Nil,       (* nullptr                                                    *)
  IntMax,    (* the largest int; the smallest is -(IntMax + 1)             *)
  FloatMax   (* the magnitude at which float addition absorbs a 1 (2^24)   *)

ASSUME NumberAssumption == IntMax \in Nat /\ FloatMax \in Nat

-----------------------------------------------------------------------------
(* Values.  Bound: the user nests a list in a list at most once, so that a *)
(* list within a list holds scalars.                                       *)

IntVal     == [type : {"INT"},        val : -(IntMax + 1) .. IntMax]
FloatVal   == [type : {"FLOAT"},      val : -FloatMax .. FloatMax]
StringVal  == [type : {"STRING"},     val : Str]
IdentVal   == [type : {"IDENTIFIER"}, val : Key]
Scalar     == IntVal \cup FloatVal \cup StringVal \cup IdentVal
Item       == Scalar \cup [type : {"LIST"}, val : Seq(Scalar)]
ListVal    == [type : {"LIST"}, val : Seq(Item)]
Value      == Scalar \cup ListVal
Numeric    == IntVal \cup FloatVal

ASSUME NilAssumption ==
  Nil \notin Value /\ Nil \notin Key /\ Nil \notin [Key -> Value \cup {Nil}]

(* Mutant: the sum is not cut to the width of its type.                    *)
IncrUncut(v) == [v EXCEPT !.val = @ + 1]

(* NumericType::incr and decr.  An int wraps at its ends (signed overflow  *)
(* is undefined in C++; the addition g++ emits wraps); a float that is too *)
(* large to tell n from n + 1 keeps its value.                             *)
Incr(v) ==
  [v EXCEPT !.val = IF v.type = "INT"
                      THEN IF @ = IntMax THEN -(IntMax + 1) ELSE @ + 1
                      ELSE IF @ = FloatMax THEN @ ELSE @ + 1]

Decr(v) ==
  [v EXCEPT !.val = IF v.type = "INT"
                      THEN IF @ = -(IntMax + 1) THEN IntMax ELSE @ - 1
                      ELSE IF @ = -FloatMax THEN @ ELSE @ - 1]

Bump(type, v) == IF type = "INCR" THEN Incr(v) ELSE Decr(v)

(* ListValue::append and prepend over the arguments after the key.  Each   *)
(* prepend inserts at the front, so the arguments end up reversed.         *)
Extend(type, v, args) ==
  LET n == Len(args) - 1 IN
  [v EXCEPT !.val =
     IF type = "APPEND" THEN @ \o [j \in 1 .. n |-> args[j + 1]]
                        ELSE [j \in 1 .. n |-> args[n - j + 2]] \o @]

-----------------------------------------------------------------------------
(* Commands.                                                               *)

SystemCommands == {"QUIT", "CLEAR", "BEGIN", "COMMIT", "ROLLBACK"}
PairCommands   == {"SET", "UPDATE", "RENAME"}
KeyCommands    == {"GET", "DELETE", "RESOLVE", "INCR", "DECR", "SEARCH"}
ExtendCommands == {"APPEND", "PREPEND"}
ReportCommands == {"LIST", "STATS"}
FileCommands   == {"SAVE", "LOAD"}

CommandTypes == SystemCommands \cup PairCommands \cup KeyCommands
                \cup ExtendCommands \cup ReportCommands \cup FileCommands

Command ==
  {c \in [type : CommandTypes, args : Seq(Value), opts : SUBSET {"YES", "NO"}] :
     c.type \in ExtendCommands => \A j \in 2 .. Len(c.args) : c.args[j] \in Item}

ASSUME NoCommand == Nil \notin Command

(* Mutant: DELETE overrides ignoresTransac_ too.                           *)
IgnoresTransactionsDelete(c) ==
  c.type \in {"LIST", "SAVE", "LOAD", "SEARCH", "STATS", "DELETE"}

(* ignoresTransac_: run at once even inside a transaction.                 *)
IgnoresTransactions(c) == c.type \in {"LIST", "SAVE", "LOAD", "SEARCH", "STATS"}

IsIdent(v) == v \in IdentVal

(* Mutant: only the first argument of a batch is checked.                  *)
ValidateFirstOnly(c) ==
  LET n == Len(c.args) IN
  /\ c.type \in PairCommands => n >= 2 /\ n % 2 = 0 /\ IsIdent(c.args[1])
  /\ c.type \in KeyCommands => n >= 1 /\ IsIdent(c.args[1])
  /\ c.type \in ExtendCommands => n >= 2 /\ IsIdent(c.args[1])

(* Command::validate and its overrides, over the arguments of a command.   *)
(* Positions count from 1 here, so the even positions of the source are    *)
(* the odd ones.                                                           *)
ValidPairs(args) ==
  /\ Len(args) >= 2
  /\ \A j \in 1 .. Len(args) : j % 2 = 1 => IsIdent(args[j]) /\ j + 1 <= Len(args)

ValidKeys(args) == Len(args) >= 1 /\ \A j \in 1 .. Len(args) : IsIdent(args[j])

ValidExtension(args) == Len(args) >= 2 /\ IsIdent(args[1])

Validate(c) ==
  /\ c.type \in PairCommands => ValidPairs(c.args)
  /\ c.type \in KeyCommands => ValidKeys(c.args)
  /\ c.type \in ExtendCommands => ValidExtension(c.args)

(* The positions a command's loop, at position j, reads as names of keys.  *)
KeyPositions(c, j) ==
  {p \in {j, j + 1} :
     IF p = j THEN c.type \in PairCommands \cup KeyCommands \cup ExtendCommands
              ELSE c.type = "RENAME"}

(* The cast such an argument goes through: SEARCH casts to StringValue,    *)
(* from which IdentifierValue derives.                                     *)
Names(c, v) == IsIdent(v) \/ (c.type = "SEARCH" /\ v \in StringVal)

-----------------------------------------------------------------------------
(* What a resolution ends in.                                              *)
Outcome(o, k, v) == [out |-> o, at |-> k, val |-> v]
Circular         == Outcome("CIRCULAR", Nil, Nil)
Missing          == Outcome("MISSING", Nil, Nil)

(* Mutant: one set of seen keys for all the elements of a list.            *)
ResolveRecurSharedSeen(kv, inLists) ==
  LET R[seen \in SUBSET Key] == [k \in Key |->
        LET v       == kv[k]
            seenK   == seen \cup {k}
            Before(j) == {v.val[l].val : l \in {l \in 1 .. j - 1 : IsIdent(v.val[l])}}
            Elem(j) == IF v.val[j].type = "IDENTIFIER"
                         THEN R[seenK \cup Before(j)][v.val[j].val]
                         ELSE Outcome("FOUND", k, v.val[j])
            elems   == [j \in DOMAIN v.val |-> Elem(j)]
        IN  CASE k \in seen                   -> Circular
              [] k \notin seen /\ v = Nil     -> Missing
              [] k \notin seen /\ v # Nil     ->
                   IF v.type = "IDENTIFIER" THEN R[seenK][v.val]
                   ELSE IF ~(v.type = "LIST" /\ inLists) THEN Outcome("FOUND", k, v)
                   ELSE IF \E j \in DOMAIN elems : elems[j] = Circular THEN Circular
                   ELSE Outcome("FOUND", k,
                          [v EXCEPT !.val = [j \in DOMAIN elems |-> elems[j].val]])]
  IN  R

(* Mutant: an alias is followed once, not to the end of its chain.         *)
ResolveRecurOneHop(kv, inLists) ==
  [seen \in SUBSET Key |-> [k \in Key |->
     IF kv[k] = Nil THEN Missing
     ELSE IF kv[k].type # "IDENTIFIER" THEN Outcome("FOUND", k, kv[k])
     ELSE IF kv[k].val = k THEN Circular
     ELSE IF kv[kv[k].val] = Nil THEN Missing
     ELSE Outcome("FOUND", kv[k].val, kv[kv[k].val])]]

(* Store::resolveRecur_ over the contents kv of a store, as a function of  *)
(* the keys already seen, then of the key looked up.  FOUND carries the    *)
(* key whose entry ends the walk; with inLists a list comes back with its  *)
(* identifiers replaced by what they resolve to (Nil when that is nothing) *)
(* and an element that meets a seen key ends the whole resolution.  Each   *)
(* element starts from its own copy of the parent's seen keys.             *)
ResolveRecur(kv, inLists) ==
  LET R[seen \in SUBSET Key] == [k \in Key |->
        LET v       == kv[k]
            seenK   == seen \cup {k}
            Elem(e) == IF e.type = "IDENTIFIER" THEN R[seenK][e.val]
                                                ELSE Outcome("FOUND", k, e)
            elems   == [j \in DOMAIN v.val |-> Elem(v.val[j])]
        IN  CASE k \in seen                   -> Circular
              [] k \notin seen /\ v = Nil     -> Missing
              [] k \notin seen /\ v # Nil     ->
                   IF v.type = "IDENTIFIER" THEN R[seenK][v.val]
                   ELSE IF ~(v.type = "LIST" /\ inLists) THEN Outcome("FOUND", k, v)
                   ELSE IF \E j \in DOMAIN elems : elems[j] = Circular THEN Circular
                   ELSE Outcome("FOUND", k,
                          [v EXCEPT !.val = [j \in DOMAIN elems |-> elems[j].val]])]
  IN  R

Resolve(kv, k, inLists) == ResolveRecur(kv, inLists)[{}][k]
=============================================================================
