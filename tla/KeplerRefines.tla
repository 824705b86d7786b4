--------------------------- MODULE KeplerRefines ---------------------------
(***************************************************************************)
(* Proofs that compare a state of Kepler with the next: what a RENAME can  *)
(* destroy, and that Kepler implements TxnSpec.                            *)
(***************************************************************************)
EXTENDS KeplerProofs, KeplerRecursion

(* Each operation of the store leaves the keys it is not about alone.      *)
LEMMA SetOnly ==
  ASSUME StoreInv, NEW k \in Key, NEW v \in Value, Set(k, v), NEW l \in Key, l # k
  PROVE  Contents'[l] = Contents[l]
<1> PICK r \in Ref : heap[r] = Nil /\ Rebind([map EXCEPT ![k] = r], [heap EXCEPT ![r] = v])
  BY DEF Set
<1>1. map'[l] = map[l]
  BY DEF Rebind, StoreInv, StoreTypeOK
<1>2. map[l] \in Ref => map[l] # r
  BY DEF StoreInv, StoreTypeOK, CellsOwned
<1>3. map[l] \in Ref => heap'[map[l]] = heap[map[l]]
  BY <1>1, <1>2 DEF Rebind, StoreInv, StoreTypeOK
<1> QED
  BY <1>1, <1>3 DEF Contents

LEMMA UpdateOnly ==
  ASSUME StoreInv, NEW k \in Key, NEW v \in Value, Update(k, v), NEW l \in Key, l # k
  PROVE  Contents'[l] = Contents[l]
<1>1. CASE Contains(k)
  BY <1>1, SetOnly DEF Update
<1>2. CASE ~Contains(k)
  BY <1>2, ContentsFrame DEF Update
<1> QED
  BY <1>1, <1>2

LEMMA DelOnly ==
  ASSUME StoreInv, NEW k \in Key, Del(k), NEW l \in Key, l # k
  PROVE  Contents'[l] = Contents[l]
<1>1. map'[l] = map[l]
  BY DEF Del, Rebind, StoreInv, StoreTypeOK
<1>2. map[l] \in Ref => heap'[map[l]] = heap[map[l]]
  BY <1>1 DEF Del, Rebind, StoreInv, StoreTypeOK
<1> QED
  BY <1>1, <1>2 DEF Contents

LEMMA RenameOnly ==
  ASSUME StoreInv, NEW old \in Key, NEW new \in Key, Rename(old, new),
         NEW l \in Key, l # old, l # new
  PROVE  Contents'[l] = Contents[l]
<1>1. CASE Has(old)
  <2>1. map'[l] = map[l]
    BY <1>1 DEF Rename, Rebind, StoreInv, StoreTypeOK
  <2>2. map[l] \in Ref => heap'[map[l]] = heap[map[l]]
    BY <1>1, <2>1 DEF Rename, Rebind, StoreInv, StoreTypeOK
  <2> QED
    BY <2>1, <2>2 DEF Contents
<1>2. CASE ~Has(old)
  BY <1>2, ContentsFrame DEF Rename
<1> QED
  BY <1>1, <1>2

LEMMA MutateOnly ==
  ASSUME StoreInv, NEW k \in Key, Has(k), NEW v, Mutate(k, v),
         NEW l \in Key, l # k
  PROVE  Contents'[l] = Contents[l]
<1>1. map'[l] = map[l] /\ (map[l] \in Ref => map[l] # map[k])
  BY DEF Mutate, StoreInv, StoreTypeOK, CellsOwned, Has
<1>2. map[l] \in Ref => heap'[map[l]] = heap[map[l]]
  BY <1>1 DEF Mutate, StoreInv, StoreTypeOK
<1> QED
  BY <1>1, <1>2 DEF Contents

-----------------------------------------------------------------------------
(* The only cell a rename can change is the one it takes the new name from.*)
LEMMA RenameDestroys ==
  ASSUME StoreInv, NEW old \in Key, NEW new \in Key, Rename(old, new),
         NEW r \in Ref, heap'[r] # heap[r]
  PROVE  r = map[new] /\ r # map[old]
<1> DEFINE m == [map EXCEPT ![old] = Nil, ![new] = map[old]]
<1>1. Has(old) /\ Rebind(m, heap)
  BY DEF Rename, store
<1>2. heap[r] # Nil /\ \A k \in Key : m[k] # r
  BY <1>1 DEF Rebind, StoreInv, StoreTypeOK
<1>3. PICK k \in Key : map[k] = r
  BY <1>2 DEF StoreInv, CellsOwned
<1>4. map[old] # r
  BY <1>2 DEF StoreInv, StoreTypeOK
<1>5. k = new
  BY <1>2, <1>3, <1>4 DEF StoreInv, StoreTypeOK
<1> QED
  BY <1>3, <1>4, <1>5

(* A RENAME destroys a value only by writing another over it, and only     *)
(* with the user's consent; the value it moves is never lost.              *)
THEOREM RenameIsSafe == Spec => RenameLosesNothing
<1>1. ASSUME IInv, [Next]_vars, Running({"RENAME"}), NEW r \in Ref, heap'[r] # heap[r]
      PROVE  /\ r = map[KeyAt(i + 1)] /\ r # map[KeyAt(i)]
             /\ pc = "ask" \/ "YES" \in cmd.opts
  <2>1. StoreInv /\ pc \in {"exec", "ask"} /\ cmd.type = "RENAME" /\ pc' \notin Stopped
    BY <1>1 DEF Running, IInv
  <2>2. StoreStep \/ AnswerYes
    BY <1>1, <2>1, StoreFrame DEF store, LoadItem, LoadCut, LoadThrows, AtCut
  <2>3. CASE AnswerYes
    <3>1. pc = "ask" /\ NamesKeys /\ Rename(KeyAt(i), KeyAt(i + 1))
      BY <1>1, <2>3 DEF AnswerYes, RenamePair, IInv, ControlInv, Aligned
    <3>2. i \in KeyPositions(cmd, i) /\ i + 1 \in KeyPositions(cmd, i)
      BY <1>1, <2>1 DEF KeyPositions, PairCommands, IInv, ControlInv, ControlTypeOK
    <3>3. KeyAt(i) \in Key /\ KeyAt(i + 1) \in Key
      BY <2>1, <3>1, <3>2 DEF NamesKeys, Names, IsIdent, IdentVal, KeyAt
    <3> QED
      BY <1>1, <2>1, <3>1, <3>3, RenameDestroys
  <2>4. CASE StoreStep
    <3>1. RenameArg
      BY <2>1, <2>4 DEF StoreStep, SetArg, UpdateArg, DelArg, BumpArg, ExtendArgs, Turn,
         ExtendCommands
    <3>2. Turn({"RENAME"}) /\ ~Conflict /\ Rename(KeyAt(i), KeyAt(i + 1))
      BY <3>1 DEF RenameArg, RenamePair
    <3>3. KeyAt(i) \in Key /\ KeyAt(i + 1) \in Key
      BY <1>1, <3>2, TurnNames, Kinds
    <3>4. r = map[KeyAt(i + 1)] /\ r # map[KeyAt(i)]
      BY <1>1, <2>1, <3>2, <3>3, RenameDestroys
    <3>5. "YES" \in cmd.opts
      BY <3>2, <3>4, RefAssumption DEF Conflict, Contains
    <3> QED
      BY <3>4, <3>5
  <2> QED
    BY <2>2, <2>3, <2>4
<1>2. IInv /\ [Next]_vars =>
        [Running({"RENAME"}) =>
           \A r \in Ref : heap'[r] # heap[r] =>
             /\ r = map[KeyAt(i + 1)] /\ r # map[KeyAt(i)]
             /\ pc = "ask" \/ "YES" \in cmd.opts]_vars
  BY <1>1
<1> QED
  BY <1>2, Invariance, PTL DEF Spec, RenameLosesNothing

-----------------------------------------------------------------------------
(* The store holds finitely many keys, so that following aliases ends.     *)

Bound == {k \in Key : map[k] # Nil}

LEMMA BoundGrows ==
  ASSUME IInv, [Next]_vars
  PROVE  Bound' = {} \/ \E k : Bound' \subseteq Bound \cup {k}
<1>1. map \in [Key -> Ref \cup {Nil, Null}]
  BY DEF IInv, StoreInv, StoreTypeOK
<1>2. CASE UNCHANGED map
  BY <1>2 DEF Bound
<1>3. CASE map' = EmptyMap
  BY <1>3 DEF Bound, EmptyMap
<1>4. ASSUME NEW k, NEW v, Set(k, v) \/ Update(k, v) \/ Del(k) \/ UNCHANGED map
      PROVE  Bound' \subseteq Bound \cup {k}
  BY <1>1, <1>4 DEF Set, Update, Del, Rebind, Bound, store
<1>5. ASSUME NEW old, NEW new, Rename(old, new)
      PROVE  Bound' \subseteq Bound \cup {new}
  BY <1>1, <1>5 DEF Rename, Rebind, Bound, store
<1>6. CASE StoreStep
  <2>1. CASE SetArg
    BY <1>4, <2>1 DEF SetArg
  <2>2. CASE UpdateArg
    BY <1>4, <2>2 DEF UpdateArg
  <2>3. CASE DelArg
    BY <1>4, <2>3 DEF DelArg
  <2>4. CASE RenameArg
    BY <1>5, <2>4 DEF RenameArg, RenamePair
  <2>5. CASE BumpArg \/ ExtendArgs
    <3>1. UNCHANGED map
      BY <2>5 DEF BumpArg, ExtendArgs, Mutate
    <3> QED
      BY <1>2, <3>1
  <2> QED
    BY <1>6, <2>1, <2>2, <2>3, <2>4, <2>5 DEF StoreStep
<1>7. CASE AnswerYes
  BY <1>5, <1>7 DEF AnswerYes, RenamePair
<1>8. CASE \E k \in Key : LoadItem(k)
  BY <1>4, <1>8 DEF LoadItem
<1>9. CASE LoadCut
  BY <1>4, <1>9 DEF LoadCut
<1>10. CASE LoadThrows
  <2>1. LeaveNull(cut) => Bound' \subseteq Bound \cup {cut}
    BY <1>1 DEF LeaveNull, Bound
  <2> QED
    BY <1>2, <1>10, <2>1 DEF LoadThrows, store
<1> QED
  BY <1>2, <1>3, <1>6, <1>7, <1>8, <1>9, <1>10, StoreFrame DEF store

FiniteInv == IInv /\ IsFiniteSet(Bound)

LEMMA HoldsFinitely == Spec => []FiniteInv
<1>1. Init => FiniteInv
  <2> SUFFICES ASSUME Init PROVE FiniteInv
    OBVIOUS
  <2>1. Bound = {}
    BY DEF Init, Start, Bound, EmptyMap
  <2> QED
    BY <2>1, InitKeeps, FS_EmptySet DEF FiniteInv
<1>2. FiniteInv /\ [Next]_vars => FiniteInv'
  <2> SUFFICES ASSUME FiniteInv, [Next]_vars PROVE FiniteInv'
    OBVIOUS
  <2>1. IInv'
    BY NextKeeps DEF FiniteInv
  <2>2. IsFiniteSet(Bound')
    BY BoundGrows, FS_EmptySet, FS_AddElement, FS_Subset DEF FiniteInv
  <2> QED
    BY <2>1, <2>2 DEF FiniteInv
<1> QED
  BY <1>1, <1>2, PTL DEF Spec

-----------------------------------------------------------------------------
(* Changes in place.                                                       *)

(* What an INCR, DECR, APPEND or PREPEND does when it changes the store.   *)
LEMMA ChangesTarget ==
  ASSUME IInv, [Next]_vars, Running({"INCR", "DECR"} \cup ExtendCommands), Contents' # Contents
  PROVE  \E t \in Key, v \in Value :
           /\ Target(KeyAt(i), t) /\ Has(t) /\ Mutate(t, v)
           /\ Contents[t].type # "IDENTIFIER" /\ v.type # "IDENTIFIER"
<1>1. /\ pc \in {"exec", "ask"} /\ pc' \notin Stopped
      /\ cmd.type \in {"INCR", "DECR"} \cup ExtendCommands
  BY DEF Running
<1>2. pc = "exec"
  BY <1>1 DEF IInv, ControlInv, Aligned, ExtendCommands
<1>3. StoreStep
  BY <1>1, <1>2, StoreFrame, ContentsFrame DEF AnswerYes, LoadItem, LoadCut, LoadThrows, AtCut
<1>4. \A v \in Numeric \cup ListVal : v.type # "IDENTIFIER" /\ v \in Value /\ v # Nil
  BY NilIsNoValue, NumericIsValue DEF Numeric, IntVal, FloatVal, ListVal
<1>5. CASE BumpArg
  <2>1. PICK t \in Key : /\ Target(KeyAt(i), t) /\ Contents[t] \in Numeric
                         /\ Mutate(t, Bump(cmd.type, Contents[t]))
    BY <1>5 DEF BumpArg
  <2>2. Bump(cmd.type, Contents[t]) \in Numeric
    BY <2>1, BumpIsNumeric
  <2>3. Has(t)
    BY <1>4, <2>1 DEF Contents, Has
  <2> QED
    BY <1>4, <2>1, <2>2, <2>3
<1>6. CASE ExtendArgs
  <2>1. PICK t \in Key : /\ Target(KeyAt(i), t) /\ Contents[t] \in ListVal
                         /\ Mutate(t, Extend(cmd.type, Contents[t], cmd.args))
    BY <1>6 DEF ExtendArgs
  <2>2. Extend(cmd.type, Contents[t], cmd.args) \in ListVal
    <3>1. cmd.type \in ExtendCommands
      BY <1>6 DEF ExtendArgs, Turn
    <3>2. cmd \in Command /\ cmd.args \in Seq(Value) /\ Validate(cmd)
      BY <1>2, ExecutingCommand
    <3>3. Len(cmd.args) >= 1 /\ \A j \in 2 .. Len(cmd.args) : cmd.args[j] \in Item
      BY <3>1, <3>2 DEF Validate, ValidExtension, Command
    <3> QED
      BY <2>1, <3>2, <3>3, ExtendIsList
  <2>3. Has(t)
    BY <1>4, <2>1 DEF Contents, Has
  <2> QED
    BY <1>4, <2>1, <2>2, <2>3
<1> QED
  BY <1>1, <1>3, <1>5, <1>6 DEF StoreStep, SetArg, UpdateArg, DelArg, RenameArg, Turn,
     ExtendCommands

(* An INCR, DECR, APPEND or PREPEND that changes anything changes the one  *)
(* value its key leads to, and every alias of that value sees the change,  *)
(* however long the chain (Store::resolve, the shared pointers).           *)
THEOREM AliasesSeeChanges == Spec => MutationReachesAliases
<1>1. ASSUME FiniteInv, [Next]_vars,
             Running({"INCR", "DECR"} \cup ExtendCommands), Contents' # Contents
      PROVE  LET t == Resolve(Contents, KeyAt(i), FALSE).at IN
             /\ Contents'[t] # Contents[t]
             /\ \A k \in Key \ {t} : Contents'[k] = Contents[k]
             /\ \A k \in Key : Resolve(Contents, k, FALSE).at = t =>
                  Resolve(Contents', k, FALSE) = Outcome("FOUND", t, Contents'[t])
  <2>1. StoreInv /\ IInv
    BY <1>1 DEF FiniteInv, IInv
  <2>2. PICK t \in Key, v \in Value :
          /\ Target(KeyAt(i), t) /\ Has(t) /\ Mutate(t, v)
          /\ Contents[t].type # "IDENTIFIER" /\ v.type # "IDENTIFIER"
    BY <1>1, <2>1, ChangesTarget
  <2>3. Resolve(Contents, KeyAt(i), FALSE).at = t
    <3>1. Resolve(Contents, KeyAt(i), FALSE) = Outcome("FOUND", t, Contents[t])
      BY <2>2 DEF Target
    <3>2. Outcome("FOUND", t, Contents[t]).at = t
      BY DEF Outcome
    <3> QED
      BY <3>1, <3>2
  <2>4. \A l \in Key \ {t} : Contents'[l] = Contents[l]
    BY <2>1, <2>2, MutateOnly
  <2>5. Contents'[t] = v /\ Contents[t] # Nil
    BY <2>1, <2>2 DEF Mutate, Contents, Has, StoreInv, StoreTypeOK, CellsOwned
  <2>6. Contents \in Stores /\ Contents' \in Stores
    <3>1. StoreInv'
      BY <2>1, <2>2, MutateKeeps
    <3>2. Contents \in [Key -> Value \cup {Nil}]
      BY <2>1 DEF StoreInv, StoreTypeOK, Contents
    <3>3. Contents' \in [Key -> Value \cup {Nil}]
      BY <3>1 DEF StoreInv, StoreTypeOK, Contents
    <3> QED
      BY <3>2, <3>3 DEF Stores
  <2>7. Contents'[t] # Contents[t]
    <3>1. SUFFICES ASSUME Contents'[t] = Contents[t] PROVE FALSE
      OBVIOUS
    <3>2. \A k \in Key : Contents'[k] = Contents[k]
      BY <2>4, <3>1
    <3>3. Contents' = Contents
      BY <2>6, <3>2 DEF Stores
    <3> QED
      BY <1>1, <3>3
  <2>8. IsFiniteSet(Held(Contents))
    <3>1. Held(Contents) \subseteq Bound
      BY RefAssumption DEF Held, Contents, Bound
    <3> QED
      BY <1>1, <3>1, FS_Subset DEF FiniteInv
  <2>9. \A k \in Key : Resolve(Contents, k, FALSE).at = t =>
          Resolve(Contents', k, FALSE) = Outcome("FOUND", t, Contents'[t])
    <3>1. v # Nil
      BY NilIsNoValue
    <3>2. PICK kv \in Stores, kv2 \in Stores : kv = Contents /\ kv2 = Contents'
      BY <2>6
    <3>3. /\ IsFiniteSet(Held(kv))
          /\ kv[t] # Nil /\ kv[t].type # "IDENTIFIER"
          /\ kv2[t] # Nil /\ kv2[t].type # "IDENTIFIER"
          /\ \A l \in Key \ {t} : kv2[l] = kv[l]
      BY <2>2, <2>4, <2>5, <2>8, <3>1, <3>2
    <3>4. \A seen \in SUBSET Key, k \in Key :
            ResolveRecur(kv, FALSE)[seen][k].at = t
              => ResolveRecur(kv2, FALSE)[seen][k] = Outcome("FOUND", t, kv2[t])
      BY <3>3, ChangeIsSeen
    <3> QED
      BY <3>2, <3>4 DEF Resolve
  <2> QED
    BY <2>3, <2>4, <2>7, <2>9
<1>2. FiniteInv /\ [Next]_vars =>
        [Running({"INCR", "DECR"} \cup ExtendCommands) /\ Contents' # Contents =>
           LET t == Resolve(Contents, KeyAt(i), FALSE).at IN
           /\ Contents'[t] # Contents[t]
           /\ \A k \in Key \ {t} : Contents'[k] = Contents[k]
           /\ \A k \in Key : Resolve(Contents, k, FALSE).at = t =>
                Resolve(Contents', k, FALSE) = Outcome("FOUND", t, Contents'[t])]_vars
  BY <1>1
<1> QED
  BY <1>2, HoldsFinitely, PTL DEF Spec, MutationReachesAliases

-----------------------------------------------------------------------------
(* Kepler implements TxnSpec, step by step.                                *)

(* The instance of TxnSpec brings its own copies of the definitions of     *)
(* KeplerValues; they are the same sets and predicates.                    *)
LEMMA SameValues == Abstract!Value = Value /\ Abstract!IdentVal = IdentVal
BY DEF Abstract!Value, Abstract!ListVal, Abstract!Item, Abstract!Scalar, Abstract!IntVal,
   Abstract!FloatVal, Abstract!StringVal, Abstract!IdentVal,
   Value, ListVal, Item, Scalar, IntVal, FloatVal, StringVal, IdentVal

LEMMA SameChecks ==
  ASSUME NEW x
  PROVE  /\ Abstract!Validate(x) <=> Validate(x)
         /\ Abstract!IgnoresTransactions(x) <=> IgnoresTransactions(x)
         /\ Abstract!IsIdent(x) <=> IsIdent(x)
BY SameValues DEF Abstract!Validate, Abstract!ValidPairs, Abstract!ValidKeys,
   Abstract!ValidExtension, Abstract!IgnoresTransactions, Abstract!IsIdent,
   Abstract!PairCommands, Abstract!KeyCommands, Abstract!ExtendCommands,
   Validate, ValidPairs, ValidKeys, ValidExtension, IgnoresTransactions, IsIdent,
   PairCommands, KeyCommands, ExtendCommands

LEMMA SameResolve ==
  ASSUME NEW kv, NEW k, NEW inLists
  PROVE  Abstract!Resolve(kv, k, inLists) = Resolve(kv, k, inLists)
BY DEF Abstract!Resolve, Abstract!ResolveRecur, Abstract!Circular, Abstract!Missing,
   Abstract!Outcome, Resolve, ResolveRecur, Circular, Missing, Outcome

AStep == [Abstract!TxnNext]_(Abstract!txnVars)

LEMMA ContentsTyped ==
  ASSUME StoreInv
  PROVE  Contents \in [Key -> Value \cup {Nil}]
BY DEF StoreInv, StoreTypeOK, Contents

(* A step that leaves what TxnSpec sees.                                   *)
LEMMA Stutter ==
  ASSUME UNCHANGED <<store, transac, wal, cmd>>
  PROVE  AStep
<1>1. Contents' = Contents
  BY ContentsFrame
<1> QED
  BY <1>1 DEF AStep, Abstract!txnVars

(* A step of a running command that changes only what it is about.         *)
LEMMA WorkStep ==
  ASSUME StoreInv', cmd # Nil, cmd' \in {cmd, Nil}, UNCHANGED <<transac, wal>>,
         \A k \in Key \ Abstract!About(cmd) : Contents'[k] = Contents[k]
  PROVE  AStep
<1>1. Contents' \in [Key -> Value \cup {Nil}]
  BY DEF StoreInv, StoreTypeOK, Contents
<1>2. Abstract!Work
  BY <1>1, SameValues DEF Abstract!Work
<1> QED
  BY <1>2 DEF AStep, Abstract!TxnNext

(* A step of a running command that changes nothing in the store.          *)
LEMMA QuietWork ==
  ASSUME StoreInv, cmd # Nil, cmd' \in {cmd, Nil}, UNCHANGED <<store, transac, wal>>
  PROVE  AStep
<1>1. StoreInv' /\ Contents' = Contents
  BY StoreUnchanged, ContentsFrame
<1> QED
  BY <1>1, WorkStep

LEMMA EndStep ==
  ASSUME NEW status, Die(status)
  PROVE  AStep
<1>1. Contents' = [k \in Key |-> Nil]
  BY RefAssumption DEF Die, EmptyMap, Contents
<1>2. Abstract!End
  BY <1>1 DEF Abstract!End, Die
<1> QED
  BY <1>2 DEF AStep, Abstract!TxnNext

LEMMA HandlerImplements ==
  ASSUME IInv, SystemStep \/ HandlerStep
  PROVE  AStep
<1> USE DEF IInv, ControlInv, Aligned
<1>1. CASE Quit
  BY <1>1, EndStep DEF Quit
<1>2. CASE Clear \/ Commit \/ QueryDone
  BY <1>2, Stutter DEF Clear, Commit, QueryDone, loop
<1>3. CASE RejectCommand
  <2>1. cmd = Nil /\ cmd' = Nil
    BY <1>3 DEF RejectCommand, Throw
  <2> QED
    BY <1>3, <2>1, Stutter DEF RejectCommand, Throw
<1>4. CASE Begin
  <2>1. Abstract!Open
    BY <1>4, ContentsFrame DEF Begin, Dispatch, loop, Abstract!Open, Abstract!Idle
  <2> QED
    BY <2>1 DEF AStep, Abstract!TxnNext
<1>5. CASE Rollback
  <2>1. Abstract!Discard
    BY <1>5, ContentsFrame DEF Rollback, Dispatch, loop, Abstract!Discard, Abstract!Idle
  <2> QED
    BY <2>1 DEF AStep, Abstract!TxnNext
<1>6. CASE CommitNext
  <2>1. Abstract!RunNext
    BY <1>6, ContentsFrame DEF CommitNext, WalOnlyInTxn, Abstract!RunNext, Abstract!Idle
  <2> QED
    BY <2>1 DEF AStep, Abstract!TxnNext
<1>7. CASE CommitDone
  <2>1. Abstract!Close
    BY <1>7, ContentsFrame DEF CommitDone, loop, Abstract!Close, Abstract!Idle
  <2> QED
    BY <2>1 DEF AStep, Abstract!TxnNext
<1>8. CASE LogCommand
  <2>1. Head(query) \in Commands
    BY <1>8, TakeFirst DEF LogCommand, Dispatch, ControlTypeOK
  <2>2. Abstract!PutOff(Head(query))
    BY <1>8, SameChecks, ContentsFrame DEF LogCommand, Dispatch, loop, Abstract!PutOff,
       Abstract!Idle
  <2> QED
    BY <2>1, <2>2 DEF AStep, Abstract!TxnNext
<1>9. CASE ExecuteNow
  <2>1. Head(query) \in Commands
    BY <1>9, TakeFirst DEF ExecuteNow, Dispatch, ControlTypeOK
  <2>2. Abstract!RunNow(Head(query))
    BY <1>9, SameChecks, ContentsFrame DEF ExecuteNow, Dispatch, Abstract!RunNow, Abstract!Idle
  <2> QED
    BY <2>1, <2>2 DEF AStep, Abstract!TxnNext
<1> QED
  BY <1>1, <1>2, <1>3, <1>4, <1>5, <1>6, <1>7, <1>8, <1>9 DEF SystemStep, HandlerStep

(* The positions a loop reads as keys are among the command's subjects.    *)
LEMMA NamedSubject ==
  ASSUME IInv, pc \in {"exec", "ask"}, NamesKeys, cmd.type # "SEARCH",
         NEW j \in KeyPositions(cmd, i), j <= Len(cmd.args)
  PROVE  j \in Abstract!Subjects(cmd) /\ KeyAt(j) \in Key
<1>1. IsIdent(cmd.args[j])
  BY DEF NamesKeys, Names
<1>2. cmd # Nil /\ cmd.args \in Seq(Value) /\ i \in Nat \ {0} /\ j \in {i, i + 1}
  BY ExecutingCommand DEF KeyPositions, IInv, ControlInv, ControlTypeOK
<1>3. j \in DOMAIN cmd.args
  BY <1>2
<1>4. cmd.type \in {"SET", "UPDATE"} => j % 2 = 1
  BY <1>2 DEF KeyPositions, PairCommands, IInv, ControlInv, Aligned
<1>5. cmd.type \in ExtendCommands => j = 1
  BY <1>2 DEF KeyPositions, ExtendCommands, IInv, ControlInv, Aligned
<1>6. j \in Abstract!Subjects(cmd)
  BY <1>1, <1>3, <1>4, <1>5, SameChecks DEF Abstract!Subjects, Abstract!ExtendCommands,
     ExtendCommands
<1> QED
  BY <1>1, <1>6 DEF IsIdent, IdentVal, KeyAt

(* What a SET, UPDATE, RENAME or DELETE is about.                          *)
LEMMA AboutNamed ==
  ASSUME cmd.type \in PairCommands \cup {"DELETE"}, NEW j \in Abstract!Subjects(cmd)
  PROVE  KeyAt(j) \in Abstract!About(cmd)
<1>1. cmd.type \in Abstract!PairCommands \cup {"DELETE"}
  BY DEF PairCommands, Abstract!PairCommands
<1>2. Abstract!About(cmd) = {cmd.args[n].val : n \in Abstract!Subjects(cmd)}
  BY <1>1 DEF Abstract!About, Abstract!PairCommands, Abstract!ExtendCommands
<1> QED
  BY <1>2 DEF KeyAt

(* What an INCR, DECR, APPEND or PREPEND is about.                         *)
LEMMA AboutTarget ==
  ASSUME cmd.type \in {"INCR", "DECR"} \cup ExtendCommands,
         NEW j \in Abstract!Subjects(cmd), NEW t, Target(KeyAt(j), t)
  PROVE  t \in Abstract!About(cmd)
<1>1. Resolve(Contents, KeyAt(j), FALSE).at = t
  <2>1. Outcome("FOUND", t, Contents[t]).at = t
    BY DEF Outcome
  <2> QED
    BY <2>1, Zenon DEF Target
<1>2. Abstract!Resolve(Contents, cmd.args[j].val, FALSE).at = t
  BY <1>1, SameResolve DEF KeyAt
<1> QED
  BY <1>2 DEF ExtendCommands, Abstract!About, Abstract!PairCommands, Abstract!ExtendCommands

LEMMA StoreStepImplements ==
  ASSUME IInv, StoreStep
  PROVE  AStep
<1>1. StoreInv /\ StoreInv'
  BY StoreStepKeeps DEF IInv
<1>2. cmd # Nil /\ cmd' \in {cmd, Nil} /\ UNCHANGED <<transac, wal>>
  BY ExecutingCommand DEF StoreStep, SetArg, UpdateArg, DelArg, RenameArg, RenamePair,
     BumpArg, ExtendArgs, Turn, InLoop, Advance, Return
<1>3. /\ pc = "exec" /\ NamesKeys /\ i <= Len(cmd.args)
      /\ cmd.type \in {"SET", "UPDATE", "DELETE", "RENAME", "INCR", "DECR"} \cup ExtendCommands
  BY DEF StoreStep, SetArg, UpdateArg, DelArg, RenameArg, BumpArg, ExtendArgs, Turn, InLoop
<1>4. i \in KeyPositions(cmd, i) /\ cmd.type # "SEARCH" /\ i \in Nat
  BY <1>3 DEF KeyPositions, PairCommands, KeyCommands, ExtendCommands, IInv, ControlInv,
     ControlTypeOK
<1>5. i \in Abstract!Subjects(cmd) /\ KeyAt(i) \in Key
  BY <1>3, <1>4, NamedSubject
<1> SUFFICES ASSUME NEW l \in Key \ Abstract!About(cmd)
             PROVE  Contents'[l] = Contents[l]
  BY <1>1, <1>2, WorkStep
<1>6. CASE SetArg \/ UpdateArg
  <2>1. /\ Turn({"SET", "UPDATE"})
        /\ Set(KeyAt(i), cmd.args[i + 1]) \/ Update(KeyAt(i), cmd.args[i + 1])
    BY <1>6 DEF SetArg, UpdateArg, Turn
  <2>2. cmd.type \in PairCommands /\ cmd.args[i + 1] \in Value
    BY <2>1, TurnNames, Kinds
  <2>3. l # KeyAt(i)
    BY <1>5, <2>2, AboutNamed
  <2> QED
    BY <1>1, <1>5, <2>1, <2>2, <2>3, SetOnly, UpdateOnly
<1>7. CASE DelArg
  <2>1. Del(KeyAt(i)) /\ cmd.type = "DELETE"
    BY <1>7 DEF DelArg, Turn
  <2>2. l # KeyAt(i)
    BY <1>5, <2>1, AboutNamed
  <2> QED
    BY <1>1, <1>5, <2>1, <2>2, DelOnly
<1>8. CASE RenameArg
  <2>1. Turn({"RENAME"}) /\ cmd.type = "RENAME" /\ Rename(KeyAt(i), KeyAt(i + 1))
    BY <1>8 DEF RenameArg, RenamePair, Turn
  <2>2. i + 1 <= Len(cmd.args) /\ cmd.type \in PairCommands
    BY <2>1, TurnNames, Kinds
  <2>3. i + 1 \in KeyPositions(cmd, i)
    BY <1>4, <2>1 DEF KeyPositions
  <2>4. i + 1 \in Abstract!Subjects(cmd) /\ KeyAt(i + 1) \in Key
    BY <1>3, <1>4, <2>2, <2>3, NamedSubject
  <2>5. l # KeyAt(i) /\ l # KeyAt(i + 1)
    BY <1>5, <2>2, <2>4, AboutNamed
  <2> QED
    BY <1>1, <1>5, <2>1, <2>4, <2>5, RenameOnly
<1>9. CASE BumpArg
  <2>1. PICK t \in Key : /\ Target(KeyAt(i), t) /\ Contents[t] \in Numeric
                         /\ Mutate(t, Bump(cmd.type, Contents[t]))
    BY <1>9 DEF BumpArg
  <2>2. Has(t)
    BY <2>1, NilIsNoValue, NumericIsValue DEF Contents, Has
  <2>3. Bump(cmd.type, Contents[t]) \in Value
    BY <2>1, BumpIsNumeric, NumericIsValue
  <2>4. cmd.type \in {"INCR", "DECR"}
    BY <1>9 DEF BumpArg, Turn
  <2>5. l # t
    BY <1>5, <2>1, <2>4, AboutTarget
  <2> QED
    BY <1>1, <2>1, <2>2, <2>3, <2>5, MutateOnly
<1>10. CASE ExtendArgs
  <2>1. PICK t \in Key : /\ Target(KeyAt(i), t) /\ Contents[t] \in ListVal
                         /\ Mutate(t, Extend(cmd.type, Contents[t], cmd.args))
    BY <1>10 DEF ExtendArgs
  <2>2. Has(t)
    BY <2>1, NilIsNoValue, NumericIsValue DEF Contents, Has
  <2>3. cmd.type \in ExtendCommands
    BY <1>10 DEF ExtendArgs, Turn
  <2>4. l # t
    BY <1>5, <2>1, <2>3, AboutTarget
  <2> QED
    BY <1>1, <2>1, <2>2, <2>4, MutateOnly
<1> QED
  BY <1>6, <1>7, <1>8, <1>9, <1>10 DEF StoreStep

LEMMA ReportStepImplements ==
  ASSUME IInv, ReportStep
  PROVE  AStep
<1>1. cmd # Nil /\ StoreInv
  BY ExecutingCommand DEF ReportStep, Finish, ReadArg, ResolveArg, SkipBump, SkipExtend,
     CircularKey, Report, RenameRefused, RenameAsk, Turn, InLoop, IInv
<1>2. cmd' \in {cmd, Nil} /\ UNCHANGED <<store, transac, wal>>
  BY DEF ReportStep, Finish, ReadArg, ResolveArg, SkipBump, SkipExtend, CircularKey, Report,
     RenameRefused, RenameAsk, Advance, Return, Throw, loop
<1> QED
  BY <1>1, <1>2, QuietWork

LEMMA FileStepImplements ==
  ASSUME IInv, FileStep \/ SaveLost
  PROVE  AStep
<1>1. cmd # Nil /\ StoreInv /\ StoreInv'
  BY ExecutingCommand, FileStepKeeps DEF FileStep, BadFileName, FileError, AtFileCommand,
     SaveOpen, SaveDone, SaveItem, LoadOpen, LoadDone, LoadItem, LoadCut, LoadThrows, AtCut,
     SaveLost, IInv
<1>2. CASE LoadCut \/ LoadThrows \/ \E k \in Key : LoadItem(k)
  <2>1. cmd.type = "LOAD" /\ UNCHANGED <<transac, wal>> /\ cmd' \in {cmd, Nil}
    BY <1>2 DEF LoadItem, LoadCut, LoadThrows, AtCut, Return, Throw, IInv, ControlInv, Aligned
  <2>2. Abstract!About(cmd) = Key
    BY <2>1, Zenon DEF Abstract!About, Abstract!PairCommands, Abstract!ExtendCommands
  <2> QED
    BY <1>1, <2>1, <2>2, WorkStep
<1>3. CASE ~ (LoadCut \/ LoadThrows \/ \E k \in Key : LoadItem(k))
  <2>1. cmd' \in {cmd, Nil} /\ UNCHANGED <<store, transac, wal>>
    BY <1>3 DEF FileStep, BadFileName, FileError, SaveOpen, SaveDone, SaveItem, LoadOpen,
       LoadDone, SaveLost, Return, Throw
  <2> QED
    BY <1>1, <2>1, QuietWork
<1> QED
  BY <1>2, <1>3

LEMMA AnswerImplements ==
  ASSUME IInv, AnswerYes \/ AnswerNo
  PROVE  AStep
<1>1. /\ pc = "ask" /\ cmd # Nil /\ cmd.type = "RENAME" /\ NamesKeys /\ i + 1 <= Len(cmd.args)
      /\ StoreInv /\ StoreInv' /\ i \in Nat /\ cmd.args \in Seq(Value)
  BY AnswerKeeps, ExecutingCommand DEF AnswerYes, AnswerNo, IInv, ControlInv, ControlTypeOK,
     Aligned
<1>2. CASE AnswerNo
  BY <1>1, <1>2, QuietWork DEF AnswerNo, Return
<1>3. CASE AnswerYes
  <2>1. Rename(KeyAt(i), KeyAt(i + 1)) /\ UNCHANGED <<transac, wal, cmd>>
    BY <1>3 DEF AnswerYes, RenamePair, Advance
  <2>2. i \in KeyPositions(cmd, i) /\ i + 1 \in KeyPositions(cmd, i)
    BY <1>1 DEF KeyPositions, PairCommands
  <2>3. i <= Len(cmd.args)
    BY <1>1
  <2>4. /\ i \in Abstract!Subjects(cmd) /\ i + 1 \in Abstract!Subjects(cmd)
        /\ KeyAt(i) \in Key /\ KeyAt(i + 1) \in Key
    BY <1>1, <2>2, <2>3, NamedSubject
  <2>5. KeyAt(i) \in Abstract!About(cmd) /\ KeyAt(i + 1) \in Abstract!About(cmd)
    BY <1>1, <2>4, AboutNamed DEF PairCommands
  <2>6. \A l \in Key \ Abstract!About(cmd) : Contents'[l] = Contents[l]
    BY <1>1, <2>1, <2>4, <2>5, RenameOnly
  <2> QED
    BY <1>1, <2>1, <2>6, WorkStep
<1> QED
  BY <1>2, <1>3

LEMMA StepImplements ==
  ASSUME IInv, [Next]_vars
  PROVE  AStep
<1>1. CASE UNCHANGED vars \/ Restart \/ \E q \in Queries : Submit(q)
  BY <1>1, Stutter DEF vars, loop, Restart, Submit
<1>2. CASE SystemStep \/ HandlerStep
  BY <1>2, HandlerImplements
<1>3. CASE StoreStep
  BY <1>3, StoreStepImplements
<1>4. CASE ReportStep
  BY <1>4, ReportStepImplements
<1>5. CASE FileStep \/ SaveLost
  BY <1>5, FileStepImplements
<1>6. CASE AnswerYes \/ AnswerNo
  BY <1>6, AnswerImplements
<1>7. CASE CrashStep \/ Kill
  BY <1>7, EndStep DEF CrashStep, NullDeref, ListNull, SaveNull, LoadOverflows, Kill
<1> QED
  BY <1>1, <1>2, <1>3, <1>4, <1>5, <1>6, <1>7 DEF Next, Internal, External

(* Every behaviour of the program, with its loops, cells, prompts, files   *)
(* and exceptions, is one TxnSpec allows.                                  *)
THEOREM Refinement == Spec => KeepsTxnSpec
<1>1. Init => Abstract!TxnInit
  BY RefAssumption DEF Init, Start, EmptyMap, Contents, Abstract!TxnInit
<1>2. IInv /\ [Next]_vars => [Abstract!TxnNext]_(Abstract!txnVars)
  BY StepImplements DEF AStep
<1> QED
  BY <1>1, <1>2, Invariance, PTL DEF Spec, KeepsTxnSpec, Abstract!Txn
=============================================================================
