---------------------------- MODULE KeplerProofs ----------------------------
(***************************************************************************)
(* Proofs about Kepler for every set of keys, cells, commands and queries  *)
(* and every bound; at the end, with its history, what SAVE and LOAD leave *)
(* behind.                                                                 *)
(***************************************************************************)
EXTENDS KeplerHistory, TLAPS

(* The store's part of the invariant, and the rest of the type invariant.  *)
StoreInv == StoreTypeOK /\ CellsOwned

ControlTypeOK ==
  /\ transac \in BOOLEAN
  /\ wal \in Seq(Commands)
  /\ committing \in BOOLEAN
  /\ query \in Seq(Commands)
  /\ cmd \in Commands \cup {Nil}
  /\ i \in Nat \ {0}
  /\ pending \in SUBSET Key
  /\ disk \in [Key -> Value \cup {Nil}] \cup {Nil}
  /\ cut \in Key \cup {Nil}
  /\ pc \in Alive \cup Stopped

(* A SAVE that is writing has cut nothing yet.                             *)
SaveUncut == pc = "save" => cut = Nil

ControlInv ==
  ControlTypeOK /\ WalOnlyInTxn /\ LoggedValidated /\ Aligned /\ SaveUncut

IInv == StoreInv /\ ControlInv

-----------------------------------------------------------------------------
(* Operators of KeplerValues.                                              *)

(* A number that INCR or DECR changes stays a number of its width.         *)
LEMMA BumpIsNumeric ==
  ASSUME NEW type, NEW v \in Numeric
  PROVE  Bump(type, v) \in Numeric
<1>1. CASE v \in IntVal
  BY <1>1, NumberAssumption DEF Bump, Incr, Decr, IntVal, Numeric
<1>2. CASE v \in FloatVal
  BY <1>2, NumberAssumption DEF Bump, Incr, Decr, FloatVal, Numeric
<1> QED
  BY <1>1, <1>2 DEF Numeric

LEMMA NumericIsValue == Numeric \subseteq Value /\ ListVal \subseteq Value
BY DEF Numeric, Value, Scalar

LEMMA NilIsNoValue == Nil \notin Value
BY NilAssumption

(* A list that APPEND or PREPEND extends stays a list.                     *)
LEMMA ExtendIsList ==
  ASSUME NEW type, NEW v \in ListVal, NEW args \in Seq(Value), Len(args) >= 1,
         \A j \in 2 .. Len(args) : args[j] \in Item
  PROVE  Extend(type, v, args) \in ListVal
<1> DEFINE n == Len(args) - 1
           tail == [j \in 1 .. n |-> args[j + 1]]
           rev == [j \in 1 .. n |-> args[n - j + 2]]
<1>1. n \in Nat
  OBVIOUS
<1>2. tail \in Seq(Item)
  <2>1. \A j \in 1 .. n : args[j + 1] \in Item
    OBVIOUS
  <2> QED
    BY <1>1, <2>1
<1>3. rev \in Seq(Item)
  <2>1. \A j \in 1 .. n : args[n - j + 2] \in Item
    OBVIOUS
  <2> QED
    BY <1>1, <2>1
<1>4. v.val \in Seq(Item) /\ v = [type |-> "LIST", val |-> v.val]
  BY DEF ListVal
<1>5. v.val \o tail \in Seq(Item) /\ rev \o v.val \in Seq(Item)
  BY <1>2, <1>3, <1>4
<1>6. Extend(type, v, args) =
        [v EXCEPT !.val = IF type = "APPEND" THEN v.val \o tail ELSE rev \o v.val]
  BY DEF Extend
<1> QED
  BY <1>4, <1>5, <1>6 DEF ListVal

(* The sets of command types do not overlap.                               *)
LEMMA Kinds ==
  /\ PairCommands \cap (KeyCommands \cup ExtendCommands \cup ReportCommands \cup FileCommands) = {}
  /\ KeyCommands \cap (ExtendCommands \cup ReportCommands \cup FileCommands) = {}
  /\ {"SET", "UPDATE", "RENAME"} = PairCommands
  /\ {"GET", "DELETE", "RESOLVE", "INCR", "DECR", "SEARCH"} = KeyCommands
  /\ {"APPEND", "PREPEND"} = ExtendCommands
BY DEF PairCommands, KeyCommands, ExtendCommands, ReportCommands, FileCommands

-----------------------------------------------------------------------------
(* Operators of KeplerStore.                                               *)

(* Binding distinct entries to distinct cells that hold values, and        *)
(* destroying the cells without an owner, keeps the store's invariant.     *)
LEMMA RebindKeeps ==
  ASSUME NEW m \in [Key -> Ref \cup {Nil, Null}], NEW h \in [Ref -> Value \cup {Nil}],
         \A k1, k2 \in Key : m[k1] \in Ref /\ m[k1] = m[k2] => k1 = k2,
         \A k \in Key : m[k] \in Ref => h[m[k]] # Nil,
         Rebind(m, h)
  PROVE  StoreInv'
<1>1. StoreTypeOK'
  BY DEF Rebind, StoreTypeOK
<1>2. \A r \in Ref : heap'[r] # Nil => \E k \in Key : map'[k] = r
  BY DEF Rebind
<1>3. \A k \in Key : map'[k] \in Ref => heap'[map'[k]] # Nil
  BY DEF Rebind
<1> QED
  BY <1>1, <1>2, <1>3 DEF StoreInv, CellsOwned, Rebind

LEMMA SetKeeps ==
  ASSUME StoreInv, NEW k \in Key, NEW v \in Value, Set(k, v)
  PROVE  StoreInv'
<1> PICK r \in Ref : heap[r] = Nil /\ Rebind([map EXCEPT ![k] = r], [heap EXCEPT ![r] = v])
  BY DEF Set
<1> DEFINE m == [map EXCEPT ![k] = r]
           h == [heap EXCEPT ![r] = v]
<1>1. m \in [Key -> Ref \cup {Nil, Null}] /\ h \in [Ref -> Value \cup {Nil}]
  BY DEF StoreInv, StoreTypeOK
<1>2. \A l \in Key : map[l] # r
  BY DEF StoreInv, CellsOwned
<1>3. \A k1, k2 \in Key : m[k1] \in Ref /\ m[k1] = m[k2] => k1 = k2
  BY <1>2 DEF StoreInv, StoreTypeOK, CellsOwned
<1>4. \A l \in Key : m[l] \in Ref => h[m[l]] # Nil
  BY <1>2, NilIsNoValue DEF StoreInv, StoreTypeOK, CellsOwned
<1> HIDE DEF m, h
<1> QED
  BY <1>1, <1>3, <1>4, RebindKeeps DEF m, h

LEMMA UpdateKeeps ==
  ASSUME StoreInv, NEW k \in Key, NEW v \in Value, Update(k, v)
  PROVE  StoreInv'
<1>1. CASE Contains(k)
  BY <1>1, SetKeeps DEF Update
<1>2. CASE ~Contains(k)
  BY <1>2 DEF Update, store, StoreInv, StoreTypeOK, CellsOwned
<1> QED
  BY <1>1, <1>2

LEMMA DelKeeps ==
  ASSUME StoreInv, NEW k \in Key, Del(k)
  PROVE  StoreInv'
<1> DEFINE m == [map EXCEPT ![k] = Nil]
<1>1. m \in [Key -> Ref \cup {Nil, Null}] /\ heap \in [Ref -> Value \cup {Nil}]
  BY DEF StoreInv, StoreTypeOK
<1>2. \A k1, k2 \in Key : m[k1] \in Ref /\ m[k1] = m[k2] => k1 = k2
  BY RefAssumption DEF StoreInv, StoreTypeOK, CellsOwned
<1>3. \A l \in Key : m[l] \in Ref => heap[m[l]] # Nil
  BY RefAssumption DEF StoreInv, StoreTypeOK, CellsOwned
<1>4. Rebind(m, heap)
  BY DEF Del
<1> QED
  BY <1>1, <1>2, <1>3, <1>4, RebindKeeps

LEMMA RenameKeeps ==
  ASSUME StoreInv, NEW old \in Key, NEW new \in Key, Rename(old, new)
  PROVE  StoreInv'
<1> DEFINE m == [map EXCEPT ![old] = Nil, ![new] = map[old]]
<1>1. CASE Has(old)
  <2>1. m \in [Key -> Ref \cup {Nil, Null}] /\ heap \in [Ref -> Value \cup {Nil}]
    BY DEF StoreInv, StoreTypeOK
  <2>2. \A k1, k2 \in Key : m[k1] \in Ref /\ m[k1] = m[k2] => k1 = k2
    BY RefAssumption DEF StoreInv, StoreTypeOK, CellsOwned
  <2>3. \A l \in Key : m[l] \in Ref => heap[m[l]] # Nil
    BY RefAssumption DEF StoreInv, StoreTypeOK, CellsOwned
  <2>4. Rebind(m, heap)
    BY <1>1 DEF Rename
  <2> QED
    BY <2>1, <2>2, <2>3, <2>4, RebindKeeps
<1>2. CASE ~Has(old)
  BY <1>2 DEF Rename, store, StoreInv, StoreTypeOK, CellsOwned
<1> QED
  BY <1>1, <1>2

LEMMA MutateKeeps ==
  ASSUME StoreInv, NEW k \in Key, Has(k), NEW v \in Value, Mutate(k, v)
  PROVE  StoreInv'
<1>1. map[k] \in Ref
  BY DEF Has
<1>2. StoreTypeOK'
  BY <1>1 DEF StoreInv, StoreTypeOK, Mutate
<1>3. CellsOwned'
  BY <1>1, NilIsNoValue DEF StoreInv, StoreTypeOK, CellsOwned, Mutate
<1> QED
  BY <1>2, <1>3 DEF StoreInv

LEMMA LeaveNullKeeps ==
  ASSUME StoreInv, NEW k \in Key, LeaveNull(k)
  PROVE  StoreInv'
BY RefAssumption DEF StoreInv, StoreTypeOK, CellsOwned, LeaveNull

LEMMA EmptyStore ==
  ASSUME map' = EmptyMap, heap' = EmptyHeap
  PROVE  StoreInv'
BY RefAssumption DEF EmptyMap, EmptyHeap, StoreInv, StoreTypeOK, CellsOwned

LEMMA StoreUnchanged ==
  ASSUME StoreInv, UNCHANGED store
  PROVE  StoreInv'
BY DEF store, StoreInv, StoreTypeOK, CellsOwned

-----------------------------------------------------------------------------
(* How a step leaves a command, and the invariant.                         *)

(* What the invariant says of a command that is executing.                 *)
LEMMA ExecutingCommand ==
  ASSUME IInv, pc \in {"exec", "ask", "save", "load"}
  PROVE  /\ cmd # Nil /\ cmd \in Command /\ cmd \in Commands
         /\ cmd.args \in Seq(Value)
         /\ Validate(cmd) /\ cmd.type \notin SystemCommands
<1>1. cmd # Nil
  BY DEF IInv, ControlInv, Aligned
<1>2. cmd \in Commands /\ Validate(cmd) /\ cmd.type \notin SystemCommands
  BY <1>1 DEF IInv, ControlInv, ControlTypeOK, LoggedValidated
<1>3. cmd \in Command /\ cmd.args \in Seq(Value)
  BY <1>2, QueryAssumption DEF Command
<1> QED
  BY <1>1, <1>2, <1>3

LEMMA NoneIsSequence == <<>> \in Seq(Commands)
OBVIOUS

LEMMA OneIsPosition == 1 \in Nat \ {0}
OBVIOUS

(* What the file is whatever happens: it ends after an entry or in one of  *)
(* its own.                                                                *)
FileInv ==
  /\ disk \in [Key -> Value \cup {Nil}] \cup {Nil}
  /\ cut \in Key \cup {Nil}
  /\ cut # Nil => disk # Nil /\ disk[cut] = Nil

LEMMA FileIsSound ==
  ASSUME IInv
  PROVE  FileInv
BY DEF IInv, ControlInv, ControlTypeOK, Aligned, FileInv

LEMMA FileUnchanged ==
  ASSUME IInv, UNCHANGED file
  PROVE  FileInv'
BY FileIsSound DEF file, FileInv

LEMMA ThrowKeeps ==
  ASSUME IInv, Throw, StoreInv', UNCHANGED file
  PROVE  IInv'
<1>1. FileInv'
  BY FileUnchanged
<1>2. ControlTypeOK'
  BY <1>1, NoneIsSequence, OneIsPosition
  DEF IInv, ControlInv, ControlTypeOK, Throw, Alive, FileInv
<1>3. WalOnlyInTxn'
  BY DEF IInv, ControlInv, WalOnlyInTxn, Throw
<1>4. LoggedValidated'
  BY DEF IInv, ControlInv, LoggedValidated, Throw
<1>5. Aligned' /\ SaveUncut'
  BY <1>1 DEF IInv, ControlInv, ControlTypeOK, Aligned, SaveUncut, Throw, FileInv
<1> QED
  BY <1>2, <1>3, <1>4, <1>5 DEF IInv, ControlInv

LEMMA ReturnKeeps ==
  ASSUME IInv, Return, pc \in {"exec", "ask", "save", "load"}, StoreInv', FileInv'
  PROVE  IInv'
<1>1. ControlTypeOK'
  BY DEF IInv, ControlInv, ControlTypeOK, Return, Alive, FileInv
<1>2. WalOnlyInTxn'
  BY DEF IInv, ControlInv, WalOnlyInTxn, Return
<1>3. LoggedValidated'
  BY DEF IInv, ControlInv, LoggedValidated, Return
<1>4. Aligned' /\ SaveUncut'
  BY DEF IInv, ControlInv, ControlTypeOK, Aligned, SaveUncut, Return, FileInv
<1> QED
  BY <1>1, <1>2, <1>3, <1>4 DEF IInv, ControlInv

LEMMA AdvanceKeeps ==
  ASSUME IInv, NEW n \in 1 .. 2, Advance(n), pc \in {"exec", "ask"},
         cmd.type \in KeyCommands \/ (cmd.type \in PairCommands /\ n = 2),
         StoreInv', UNCHANGED file
  PROVE  IInv'
<1>1. ControlTypeOK'
  BY DEF IInv, ControlInv, ControlTypeOK, Advance, Alive, file
<1>2. WalOnlyInTxn' /\ LoggedValidated'
  BY DEF IInv, ControlInv, WalOnlyInTxn, LoggedValidated, Advance
<1>3. cmd # Nil
  BY ExecutingCommand
<1>4. i \in Nat /\ (cmd.type \in PairCommands => i % 2 = 1)
  BY <1>3 DEF IInv, ControlInv, ControlTypeOK, Aligned
<1>5. /\ cmd.type \in PairCommands => (i + n) % 2 = 1
      /\ cmd.type \notin ExtendCommands
  BY <1>4, Kinds
<1>6. Aligned' /\ SaveUncut'
  BY <1>3, <1>5 DEF IInv, ControlInv, Aligned, SaveUncut, Advance, file
<1> QED
  BY <1>1, <1>2, <1>6 DEF IInv, ControlInv

LEMMA DieKeeps ==
  ASSUME NEW status \in Stopped, Die(status), FileInv'
  PROVE  IInv'
<1>1. StoreInv'
  BY EmptyStore DEF Die
<1>2. ControlTypeOK'
  BY NoneIsSequence, OneIsPosition DEF ControlTypeOK, Die, Stopped, Alive, FileInv
<1>3. WalOnlyInTxn'
  BY DEF WalOnlyInTxn, Die
<1>4. LoggedValidated'
  BY DEF LoggedValidated, Die
<1>5. Aligned' /\ SaveUncut'
  BY DEF Aligned, SaveUncut, Die, Stopped, FileInv
<1> QED
  BY <1>1, <1>2, <1>3, <1>4, <1>5 DEF IInv, ControlInv

(* What a turn of a loop may rely on.                                      *)
LEMMA TurnNames ==
  ASSUME IInv, NEW types, Turn(types)
  PROVE  /\ pc = "exec" /\ cmd.type \in types /\ i \in Nat /\ i <= Len(cmd.args)
         /\ cmd.type \in PairCommands =>
              /\ KeyAt(i) \in Key /\ i + 1 <= Len(cmd.args) /\ cmd.args[i + 1] \in Value
         /\ cmd.type = "RENAME" => KeyAt(i + 1) \in Key
         /\ cmd.type \in (KeyCommands \ {"SEARCH"}) \cup ExtendCommands => KeyAt(i) \in Key
<1>1. /\ pc = "exec" /\ cmd.type \in types /\ i \in Nat /\ i <= Len(cmd.args)
      /\ \A j \in KeyPositions(cmd, i) : Names(cmd, cmd.args[j])
  BY DEF Turn, InLoop, NamesKeys, IInv, ControlInv, ControlTypeOK
<1>2. /\ cmd # Nil /\ cmd.args \in Seq(Value) /\ Validate(cmd)
  BY <1>1, ExecutingCommand
<1>3. ASSUME NEW j \in KeyPositions(cmd, i), cmd.type # "SEARCH"
      PROVE  cmd.args[j].val \in Key
  BY <1>1, <1>3 DEF Names, IsIdent, IdentVal
<1>4. CASE cmd.type \in PairCommands
  <2>1. i % 2 = 1 /\ i \in 1 .. Len(cmd.args)
    BY <1>1, <1>2, <1>4 DEF IInv, ControlInv, Aligned
  <2>2. i + 1 <= Len(cmd.args)
    BY <1>2, <1>4, <2>1 DEF Validate, ValidPairs
  <2>3. cmd.args[i + 1] \in Value
    BY <1>2, <2>1, <2>2
  <2>4. i \in KeyPositions(cmd, i) /\ (cmd.type = "RENAME" => i + 1 \in KeyPositions(cmd, i))
    BY <1>4 DEF KeyPositions, PairCommands
  <2>5. cmd.type # "SEARCH" /\ cmd.type \notin KeyCommands \cup ExtendCommands
    BY <1>4 DEF PairCommands, KeyCommands, ExtendCommands
  <2> QED
    BY <1>1, <1>3, <2>2, <2>3, <2>4, <2>5 DEF KeyAt
<1>5. CASE cmd.type \in KeyCommands \cup ExtendCommands
  <2>1. cmd.type \notin PairCommands /\ cmd.type # "RENAME"
    BY <1>5 DEF PairCommands, KeyCommands, ExtendCommands
  <2>2. i \in KeyPositions(cmd, i)
    BY <1>5, <2>1 DEF KeyPositions
  <2>3. "SEARCH" \notin ExtendCommands
    BY DEF ExtendCommands
  <2> QED
    BY <1>1, <1>3, <2>1, <2>2, <2>3 DEF KeyAt
<1> QED
  BY <1>1, <1>4, <1>5 DEF PairCommands

-----------------------------------------------------------------------------
(* The invariant is inductive.                                             *)

LEMMA InitKeeps == Init => IInv
<1> SUFFICES ASSUME Init PROVE IInv
  OBVIOUS
<1>1. StoreInv
  BY RefAssumption DEF Init, Start, EmptyMap, EmptyHeap, StoreInv, StoreTypeOK, CellsOwned
<1>2. ControlTypeOK
  BY NoneIsSequence, OneIsPosition DEF Init, Start, ControlTypeOK, Alive
<1>3. WalOnlyInTxn /\ LoggedValidated /\ Aligned /\ SaveUncut
  BY DEF Init, Start, WalOnlyInTxn, LoggedValidated, Aligned, SaveUncut
<1> QED
  BY <1>1, <1>2, <1>3 DEF IInv, ControlInv

(* A queue of commands taken from at its head.                             *)
LEMMA TakeFirst ==
  ASSUME NEW s \in Seq(Commands), s # <<>>
  PROVE  /\ Head(s) \in Commands /\ Tail(s) \in Seq(Commands)
         /\ Head(s) # Nil
         /\ 1 \in DOMAIN s /\ Head(s) = s[1]
         /\ \A j \in DOMAIN Tail(s) : j + 1 \in DOMAIN s /\ Tail(s)[j] = s[j + 1]
<1>1. Head(s) \in Commands /\ Tail(s) \in Seq(Commands)
  OBVIOUS
<1>2. Head(s) # Nil
  BY <1>1, QueryAssumption, NoCommand
<1>3. 1 \in DOMAIN s /\ Head(s) = s[1]
  OBVIOUS
<1>4. \A j \in DOMAIN Tail(s) : j + 1 \in DOMAIN s /\ Tail(s)[j] = s[j + 1]
  OBVIOUS
<1> QED
  BY <1>1, <1>2, <1>3, <1>4

(* A step outside a command that leaves the store and the file alone.      *)
LEMMA HandlerKeeps ==
  ASSUME IInv,
         \/ \E q \in Queries : Submit(q)
         \/ QueryDone \/ Clear \/ Begin \/ Rollback \/ Commit \/ CommitDone
         \/ CommitNext \/ LogCommand \/ ExecuteNow \/ Restart
  PROVE  IInv'
<1> USE DEF IInv, ControlInv, ControlTypeOK, WalOnlyInTxn, LoggedValidated, Aligned,
            SaveUncut, Alive, Stopped, loop, file
<1>1. StoreInv'
  BY StoreUnchanged DEF Submit, QueryDone, Clear, Begin, Rollback, Commit, CommitDone,
     CommitNext, LogCommand, ExecuteNow, Restart
<1>2. ASSUME NEW q \in Queries, Submit(q) PROVE ControlInv'
  BY <1>2, QueryAssumption DEF Submit
<1>3. CASE QueryDone
  BY <1>1, <1>3 DEF QueryDone
<1>4. CASE Clear
  BY <1>1, <1>4 DEF Clear, Dispatch
<1>5. CASE Begin
  BY <1>1, <1>5 DEF Begin, Dispatch
<1>6. CASE Rollback
  <2> USE <1>6 DEF Rollback, Dispatch
  <2>1. query \in Seq(Commands) /\ query # <<>>
    OBVIOUS
  <2>2. ControlTypeOK'
    BY <2>1, TakeFirst, NoneIsSequence
  <2>3. WalOnlyInTxn' /\ LoggedValidated' /\ Aligned'
    OBVIOUS
  <2> QED
    BY <1>1, <2>2, <2>3
<1>7. CASE Commit
  BY <1>1, <1>7 DEF Commit, Dispatch
<1>8. CASE CommitDone
  BY <1>1, <1>8 DEF CommitDone
<1>9. CASE CommitNext
  <2> USE <1>9 DEF CommitNext
  <2>1. wal \in Seq(Commands) /\ wal # <<>>
    OBVIOUS
  <2>2. ControlTypeOK'
    BY <2>1, TakeFirst
  <2>3. WalOnlyInTxn'
    OBVIOUS
  <2>4. Validate(Head(wal)) /\ Logged(Head(wal)) /\ Head(wal).type \notin SystemCommands
    BY <2>1, TakeFirst DEF Logged
  <2>5. LoggedValidated'
    BY <2>1, <2>4, TakeFirst
  <2>6. Aligned'
    BY <2>1, TakeFirst
  <2> QED
    BY <1>1, <2>2, <2>3, <2>5, <2>6
<1>10. CASE LogCommand
  <2> USE <1>10 DEF LogCommand, Dispatch
  <2>1. query \in Seq(Commands) /\ query # <<>>
    OBVIOUS
  <2>2. ControlTypeOK'
    BY <2>1, TakeFirst
  <2>3. WalOnlyInTxn' /\ Aligned'
    OBVIOUS
  <2>4. Validate(Head(query)) /\ Logged(Head(query))
    BY DEF Logged
  <2>5. \A j \in DOMAIN wal' : wal'[j] = Head(query) \/ (j \in DOMAIN wal /\ wal'[j] = wal[j])
    BY <2>1, TakeFirst
  <2>6. LoggedValidated'
    BY <2>4, <2>5
  <2> QED
    BY <1>1, <2>2, <2>3, <2>6
<1>11. CASE ExecuteNow
  <2> USE <1>11 DEF ExecuteNow, Dispatch
  <2>1. query \in Seq(Commands) /\ query # <<>>
    OBVIOUS
  <2>2. ControlTypeOK'
    BY <2>1, TakeFirst
  <2>3. WalOnlyInTxn'
    OBVIOUS
  <2>4. LoggedValidated'
    OBVIOUS
  <2>5. Aligned'
    BY <2>1, TakeFirst
  <2> QED
    BY <1>1, <2>2, <2>3, <2>4, <2>5
<1>12. CASE Restart
  BY <1>1, <1>12 DEF Restart
<1> QED
  BY <1>1, <1>2, <1>3, <1>4, <1>5, <1>6, <1>7, <1>8, <1>9, <1>10, <1>11, <1>12

(* A turn of a loop that changes the store.                                *)
LEMMA StoreStepKeeps ==
  ASSUME IInv, StoreStep
  PROVE  IInv'
<1>0. StoreInv
  BY DEF IInv
<1>1. CASE SetArg
  <2>1. Turn({"SET"}) /\ Set(KeyAt(i), cmd.args[i + 1]) /\ Advance(2) /\ UNCHANGED file
    BY <1>1 DEF SetArg
  <2>2. /\ pc = "exec" /\ cmd.type \in PairCommands
        /\ KeyAt(i) \in Key /\ cmd.args[i + 1] \in Value
    BY <2>1, TurnNames, Kinds
  <2>3. StoreInv'
    BY <1>0, <2>1, <2>2, SetKeeps
  <2> QED
    BY <2>1, <2>2, <2>3, AdvanceKeeps
<1>2. CASE UpdateArg
  <2>1. Turn({"UPDATE"}) /\ Update(KeyAt(i), cmd.args[i + 1]) /\ Advance(2) /\ UNCHANGED file
    BY <1>2 DEF UpdateArg
  <2>2. /\ pc = "exec" /\ cmd.type \in PairCommands
        /\ KeyAt(i) \in Key /\ cmd.args[i + 1] \in Value
    BY <2>1, TurnNames, Kinds
  <2>3. StoreInv'
    BY <1>0, <2>1, <2>2, UpdateKeeps
  <2> QED
    BY <2>1, <2>2, <2>3, AdvanceKeeps
<1>3. CASE DelArg
  <2>1. Turn({"DELETE"}) /\ Del(KeyAt(i)) /\ Advance(1) /\ UNCHANGED file
    BY <1>3 DEF DelArg
  <2>2. pc = "exec" /\ KeyAt(i) \in Key /\ cmd.type = "DELETE"
    BY <2>1, TurnNames, Kinds
  <2>3. StoreInv'
    BY <1>0, <2>1, <2>2, DelKeeps
  <2>4. cmd.type \in KeyCommands
    BY <2>2, Kinds
  <2> QED
    BY <2>1, <2>2, <2>3, <2>4, AdvanceKeeps
<1>4. CASE RenameArg
  <2>1. /\ Turn({"RENAME"}) /\ Rename(KeyAt(i), KeyAt(i + 1)) /\ Advance(2)
        /\ UNCHANGED file
    BY <1>4 DEF RenameArg, RenamePair
  <2>2. /\ pc = "exec" /\ cmd.type \in PairCommands
        /\ KeyAt(i) \in Key /\ KeyAt(i + 1) \in Key
    BY <2>1, TurnNames, Kinds
  <2>3. StoreInv'
    BY <1>0, <2>1, <2>2, RenameKeeps
  <2> QED
    BY <2>1, <2>2, <2>3, AdvanceKeeps
<1>5. CASE BumpArg
  <2>1. Turn({"INCR", "DECR"}) /\ Advance(1) /\ UNCHANGED file
    BY <1>5 DEF BumpArg
  <2>2. PICK t \in Key : Contents[t] \in Numeric /\ Mutate(t, Bump(cmd.type, Contents[t]))
    BY <1>5 DEF BumpArg
  <2>3. Has(t)
    BY <2>2, NilIsNoValue, NumericIsValue DEF Contents, Has
  <2>4. Bump(cmd.type, Contents[t]) \in Value
    BY <2>2, BumpIsNumeric, NumericIsValue
  <2>5. StoreInv'
    BY <1>0, <2>2, <2>3, <2>4, MutateKeeps
  <2>6. pc = "exec" /\ cmd.type \in {"INCR", "DECR"}
    BY <2>1, TurnNames
  <2>7. cmd.type \in KeyCommands
    BY <2>6, Kinds
  <2> QED
    BY <2>1, <2>5, <2>6, <2>7, AdvanceKeeps
<1>6. CASE ExtendArgs
  <2>1. Turn(ExtendCommands) /\ Return /\ UNCHANGED file
    BY <1>6 DEF ExtendArgs
  <2>2. PICK t \in Key : /\ Contents[t] \in ListVal
                         /\ Mutate(t, Extend(cmd.type, Contents[t], cmd.args))
    BY <1>6 DEF ExtendArgs
  <2>3. Has(t)
    BY <2>2, NilIsNoValue, NumericIsValue DEF Contents, Has
  <2>4. pc = "exec" /\ cmd.type \in ExtendCommands
    BY <2>1, TurnNames
  <2>5. cmd \in Command /\ cmd.args \in Seq(Value) /\ Validate(cmd)
    BY <2>4, ExecutingCommand
  <2>6. Len(cmd.args) >= 1
    BY <2>4, <2>5 DEF Validate, ValidExtension
  <2>7. \A j \in 2 .. Len(cmd.args) : cmd.args[j] \in Item
    BY <2>4, <2>5 DEF Command
  <2>8. Extend(cmd.type, Contents[t], cmd.args) \in Value
    BY <2>2, <2>5, <2>6, <2>7, ExtendIsList, NumericIsValue
  <2>9. StoreInv'
    BY <1>0, <2>2, <2>3, <2>8, MutateKeeps
  <2> QED
    BY <2>1, <2>4, <2>9, FileUnchanged, ReturnKeeps
<1> QED
  BY <1>1, <1>2, <1>3, <1>4, <1>5, <1>6 DEF StoreStep

(* The user's answer to RENAME.                                            *)
LEMMA AnswerKeeps ==
  ASSUME IInv, AnswerYes \/ AnswerNo
  PROVE  IInv'
<1>1. pc = "ask"
  BY DEF AnswerYes, AnswerNo
<1>2. CASE AnswerYes
  <2>1. Rename(KeyAt(i), KeyAt(i + 1)) /\ Advance(2) /\ UNCHANGED file
    BY <1>2 DEF AnswerYes, RenamePair
  <2>2. cmd.type = "RENAME" /\ cmd.type \in PairCommands /\ NamesKeys
    BY <1>1, Kinds DEF IInv, ControlInv, Aligned
  <2>3. i \in KeyPositions(cmd, i) /\ i + 1 \in KeyPositions(cmd, i)
    BY <2>2 DEF KeyPositions, PairCommands, IInv, ControlInv, ControlTypeOK
  <2>4. KeyAt(i) \in Key /\ KeyAt(i + 1) \in Key
    BY <2>2, <2>3 DEF NamesKeys, Names, IsIdent, IdentVal, KeyAt
  <2>5. StoreInv'
    BY <2>1, <2>4, RenameKeeps DEF IInv
  <2> QED
    BY <1>1, <2>1, <2>2, <2>5, AdvanceKeeps
<1>3. CASE AnswerNo
  <2>1. Return /\ UNCHANGED <<store, file>>
    BY <1>3 DEF AnswerNo
  <2>2. StoreInv'
    BY <2>1, StoreUnchanged DEF IInv
  <2> QED
    BY <1>1, <2>1, <2>2, FileUnchanged, ReturnKeeps
<1> QED
  BY <1>2, <1>3

(* A step of a command that leaves the store and the file alone.           *)
LEMMA ReportStepKeeps ==
  ASSUME IInv, ReportStep
  PROVE  IInv'
<1>1. CASE Finish \/ Report \/ RenameRefused \/ SkipExtend
  <2>1. pc = "exec" /\ Return /\ UNCHANGED <<store, file>>
    BY <1>1 DEF Finish, Report, RenameRefused, SkipExtend, Turn, InLoop
  <2>2. StoreInv'
    BY <2>1, StoreUnchanged DEF IInv
  <2> QED
    BY <2>1, <2>2, FileUnchanged, ReturnKeeps
<1>2. CASE ReadArg \/ SkipBump \/ (ResolveArg /\ Advance(1))
  <2>1. /\ Turn({"GET", "SEARCH", "INCR", "DECR", "RESOLVE"}) /\ Advance(1)
        /\ UNCHANGED <<store, file>>
    BY <1>2 DEF ReadArg, SkipBump, ResolveArg, Turn
  <2>2. StoreInv'
    BY <2>1, StoreUnchanged DEF IInv
  <2>3. pc = "exec" /\ cmd.type \in {"GET", "SEARCH", "INCR", "DECR", "RESOLVE"}
    BY <2>1, TurnNames
  <2>4. cmd.type \in KeyCommands
    BY <2>3, Kinds
  <2> QED
    BY <2>1, <2>2, <2>3, <2>4, AdvanceKeeps
<1>3. CASE CircularKey \/ (ResolveArg /\ Throw)
  BY <1>3, ThrowKeeps, StoreUnchanged DEF CircularKey, ResolveArg, IInv
<1>4. CASE RenameAsk
  <2>1. /\ Turn({"RENAME"}) /\ pc' = "ask"
        /\ UNCHANGED <<store, transac, wal, committing, query, loop, file>>
    BY <1>4 DEF RenameAsk
  <2>2. StoreInv'
    BY <2>1, StoreUnchanged DEF IInv
  <2>3. /\ pc = "exec" /\ cmd.type = "RENAME" /\ i + 1 <= Len(cmd.args)
    BY <2>1, TurnNames, Kinds
  <2>4. NamesKeys'
    BY <2>1 DEF Turn, NamesKeys, loop
  <2>5. ControlTypeOK' /\ WalOnlyInTxn' /\ LoggedValidated'
    BY <2>1 DEF IInv, ControlInv, ControlTypeOK, WalOnlyInTxn, LoggedValidated, loop, file,
       Alive
  <2>6. Aligned' /\ SaveUncut'
    BY <2>1, <2>3, <2>4 DEF IInv, ControlInv, Aligned, SaveUncut, loop, file
  <2> QED
    BY <2>2, <2>5, <2>6 DEF IInv, ControlInv
<1>5. ResolveArg => Throw \/ Advance(1)
  BY DEF ResolveArg
<1> QED
  BY <1>1, <1>2, <1>3, <1>4, <1>5 DEF ReportStep

(* What a file or a store has entries for.                                 *)
LEMMA EntriesAreKeys ==
  ASSUME NEW kv
  PROVE  Entries(kv) \subseteq Key
BY DEF Entries

(* A file cut short holds some of what was written, and ends in nothing    *)
(* that it holds.                                                          *)
LEMMA CutKeepsFile ==
  ASSUME IInv, CutFile, pc = "save"
  PROVE  FileInv'
<1>1. disk \in [Key -> Value \cup {Nil}]
  BY DEF IInv, ControlInv, ControlTypeOK, Aligned
<1>2. CASE disk' = Nil /\ cut' = Nil
  BY <1>2 DEF FileInv
<1>3. ASSUME NEW kept \in SUBSET Entries(disk),
             disk' = [k \in Key |-> IF k \in kept THEN disk[k] ELSE Nil],
             cut' \in {Nil} \cup ((Entries(disk) \cup pending) \ kept) \cup ({Torn} \ kept)
      PROVE  FileInv'
  <2>1. disk' \in [Key -> Value \cup {Nil}] /\ disk' # Nil
    BY <1>1, <1>3, NilAssumption
  <2>2. cut' \in Key \cup {Nil} /\ cut' \notin kept
    BY <1>1, <1>3, NilAssumption, FileAssumption
    DEF Entries, IInv, ControlInv, ControlTypeOK
  <2> QED
    BY <1>3, <2>1, <2>2 DEF FileInv
<1> QED
  BY <1>2, <1>3 DEF CutFile

(* The entry in which the file ends.                                       *)
LEMMA CutIsKey ==
  ASSUME IInv, AtCut
  PROVE  cut \in Key
BY DEF IInv, ControlInv, ControlTypeOK, AtCut

(* SAVE and LOAD, with the failures of the file system.                    *)
LEMMA FileStepKeeps ==
  ASSUME IInv, FileStep \/ SaveLost
  PROVE  IInv'
<1> USE DEF IInv, ControlInv
<1>1. CASE BadFileName \/ FileError
  BY <1>1, ThrowKeeps, StoreUnchanged DEF BadFileName, FileError
<1>2. CASE SaveDone \/ LoadDone
  <2>1. pc \in {"save", "load"} /\ Return /\ UNCHANGED <<store, file>>
    BY <1>2 DEF SaveDone, LoadDone
  <2>2. StoreInv'
    BY <2>1, StoreUnchanged
  <2> QED
    BY <2>1, <2>2, FileUnchanged, ReturnKeeps
<1>3. CASE SaveOpen
  <2> USE <1>3 DEF SaveOpen, AtFileCommand
  <2>1. cmd # Nil /\ ~Logged(cmd)
    BY ExecutingCommand DEF Logged, IgnoresTransactions
  <2>2. ~committing
    BY <2>1 DEF LoggedValidated
  <2>3. Empty \in [Key -> Value \cup {Nil}] /\ Empty # Nil
    BY NilAssumption DEF Empty
  <2>4. StoreInv' /\ UNCHANGED map
    BY StoreUnchanged DEF store
  <2>5. ControlTypeOK'
    BY <2>3 DEF ControlTypeOK, Alive
  <2>6. WalOnlyInTxn' /\ LoggedValidated'
    BY DEF WalOnlyInTxn, LoggedValidated
  <2>7. \A k \in pending' : Contains(k)'
    BY <2>4 DEF Contains
  <2>8. Aligned' /\ SaveUncut'
    BY <2>1, <2>2, <2>3, <2>7 DEF Aligned, SaveUncut
  <2> QED
    BY <2>4, <2>5, <2>6, <2>8
<1>4. ASSUME NEW k \in Key, SaveItem(k) PROVE IInv'
  <2> USE <1>4 DEF SaveItem
  <2>1. cmd.type = "SAVE" /\ cmd # Nil /\ disk # Nil /\ \A l \in pending : Contains(l)
    BY DEF Aligned
  <2>2. Contents[k] \in Value \cup {Nil}
    BY DEF StoreInv, StoreTypeOK, Contents
  <2>3. disk \in [Key -> Value \cup {Nil}]
    BY <2>1 DEF ControlTypeOK
  <2>4. disk' \in [Key -> Value \cup {Nil}]
    BY <2>2, <2>3
  <2>5. disk' # Nil
    BY <2>4, NilAssumption
  <2>6. StoreInv' /\ UNCHANGED map
    BY StoreUnchanged DEF store
  <2>7. ControlTypeOK'
    BY <2>4 DEF ControlTypeOK
  <2>8. WalOnlyInTxn' /\ LoggedValidated'
    BY DEF WalOnlyInTxn, LoggedValidated
  <2>9. \A l \in pending' : Contains(l)'
    BY <2>1, <2>6 DEF Contains
  <2>10. Aligned' /\ SaveUncut'
    BY <2>1, <2>5, <2>9 DEF Aligned, SaveUncut
  <2> QED
    BY <2>6, <2>7, <2>8, <2>10
<1>5. CASE SaveLost
  <2>1. pc = "save" /\ CutFile /\ Return /\ UNCHANGED store
    BY <1>5 DEF SaveLost
  <2> QED
    BY <2>1, StoreUnchanged, CutKeepsFile, ReturnKeeps
<1>6. CASE LoadOpen
  <2> USE <1>6 DEF LoadOpen, AtFileCommand, file
  <2>1. cmd # Nil /\ ~Logged(cmd)
    BY ExecutingCommand DEF Logged, IgnoresTransactions
  <2>2. ~committing
    BY <2>1 DEF LoggedValidated
  <2>3. StoreInv'
    BY StoreUnchanged
  <2>4. ControlTypeOK'
    BY EntriesAreKeys DEF ControlTypeOK, Alive
  <2>5. WalOnlyInTxn' /\ LoggedValidated'
    BY DEF WalOnlyInTxn, LoggedValidated
  <2>6. Entries(disk)' = Entries(disk)
    BY DEF Entries
  <2>7. Aligned' /\ SaveUncut'
    BY <2>1, <2>2, <2>6 DEF Aligned, SaveUncut
  <2> QED
    BY <2>3, <2>4, <2>5, <2>7
<1>7. ASSUME NEW k \in Key, LoadItem(k) PROVE IInv'
  <2> USE <1>7 DEF LoadItem, file
  <2>1. cmd.type = "LOAD" /\ cmd # Nil /\ disk # Nil /\ pending \subseteq Entries(disk)
    BY DEF Aligned
  <2>2. disk[k] \in Value
    BY <2>1 DEF ControlTypeOK, Entries
  <2>3. StoreInv'
    BY <2>2, SetKeeps
  <2>4. ControlTypeOK'
    BY DEF ControlTypeOK
  <2>5. WalOnlyInTxn' /\ LoggedValidated'
    BY DEF WalOnlyInTxn, LoggedValidated
  <2>6. Entries(disk)' = Entries(disk)
    BY DEF Entries
  <2>7. Aligned' /\ SaveUncut'
    BY <2>1, <2>6 DEF Aligned, SaveUncut
  <2> QED
    BY <2>3, <2>4, <2>5, <2>7
<1>8. CASE LoadCut
  <2>1. PICK v \in Unwritten : Set(cut, v)
    BY <1>8 DEF LoadCut
  <2>2. AtCut /\ pc = "load" /\ Return /\ UNCHANGED file
    BY <1>8 DEF LoadCut, AtCut
  <2>3. cut \in Key /\ v \in Value
    BY <2>2, CutIsKey, FileAssumption
  <2>4. StoreInv'
    BY <2>1, <2>3, SetKeeps
  <2> QED
    BY <2>2, <2>4, FileUnchanged, ReturnKeeps
<1>9. CASE LoadThrows
  <2>1. AtCut /\ (UNCHANGED store \/ LeaveNull(cut)) /\ Throw /\ UNCHANGED file
    BY <1>9 DEF LoadThrows
  <2>2. StoreInv'
    BY <2>1, CutIsKey, StoreUnchanged, LeaveNullKeeps
  <2> QED
    BY <2>1, <2>2, ThrowKeeps
<1> QED
  BY <1>1, <1>2, <1>3, <1>4, <1>5, <1>6, <1>7, <1>8, <1>9 DEF FileStep

(* The end of the process.                                                 *)
LEMMA EndKeeps ==
  ASSUME IInv, Quit \/ CrashStep \/ Kill
  PROVE  IInv'
<1>1. CASE Quit \/ NullDeref \/ ListNull \/ LoadOverflows
  BY <1>1, FileUnchanged, DieKeeps
  DEF Quit, NullDeref, ListNull, LoadOverflows, Stopped
<1>2. CASE SaveNull
  BY <1>2, CutKeepsFile, DieKeeps DEF SaveNull, Stopped
<1>3. CASE Kill
  BY <1>3, CutKeepsFile, FileUnchanged, DieKeeps DEF Kill, Stopped
<1> QED
  BY <1>1, <1>2, <1>3 DEF CrashStep

(* Every step keeps the invariant.                                         *)
LEMMA NextKeeps ==
  ASSUME IInv, [Next]_vars
  PROVE  IInv'
<1>1. CASE UNCHANGED vars
  <2>1. StoreInv'
    BY <1>1, StoreUnchanged DEF vars, IInv
  <2>2. ControlInv'
    BY <1>1 DEF vars, store, loop, file, IInv, ControlInv, ControlTypeOK, WalOnlyInTxn,
       LoggedValidated, Aligned, SaveUncut, NamesKeys, Entries, Contains
  <2> QED
    BY <2>1, <2>2 DEF IInv
<1>2. CASE Next
  <2>1. CASE RejectCommand
    BY <2>1, ThrowKeeps, StoreUnchanged DEF RejectCommand, IInv
  <2>2. CASE SystemStep \/ HandlerStep \/ Restart \/ \E q \in Queries : Submit(q)
    BY <2>1, <2>2, HandlerKeeps, EndKeeps DEF SystemStep, HandlerStep
  <2>3. CASE StoreStep
    BY <2>3, StoreStepKeeps
  <2>4. CASE ReportStep
    BY <2>4, ReportStepKeeps
  <2>5. CASE FileStep \/ SaveLost
    BY <2>5, FileStepKeeps
  <2>6. CASE AnswerYes \/ AnswerNo
    BY <2>6, AnswerKeeps
  <2>7. CASE CrashStep \/ Kill
    BY <2>7, EndKeeps
  <2> QED
    BY <1>2, <2>2, <2>3, <2>4, <2>5, <2>6, <2>7 DEF Next, Internal, External
<1> QED
  BY <1>1, <1>2

-----------------------------------------------------------------------------
(* The theorems about single states.                                       *)

(* The strengthened invariant: the types, the ownership of the cells, the  *)
(* log and the loops support each other, none is inductive alone.          *)
THEOREM Invariance == Spec => []IInv
<1>1. Init => IInv
  BY InitKeeps
<1>2. IInv /\ [Next]_vars => IInv'
  BY NextKeeps
<1> QED
  BY <1>1, <1>2, PTL DEF Spec

(* Every variable keeps its type: what SET, INCR, APPEND, LOAD and the     *)
(* rest put in a cell is a value, and the log holds commands.              *)
THEOREM TypeCorrect == Spec => []TypeOK
<1>1. IInv => TypeOK
  BY DEF IInv, StoreInv, ControlInv, ControlTypeOK, TypeOK
<1> QED
  BY <1>1, Invariance, PTL

(* No two entries of Store::map_ ever share a cell and none dangles.       *)
THEOREM StoreOwnsCells == Spec => []CellsOwned
<1>1. IInv => CellsOwned
  BY DEF IInv, StoreInv
<1> QED
  BY <1>1, Invariance, PTL

(* The log is empty whenever no transaction is open.                       *)
THEOREM LogNeedsTransaction == Spec => []WalOnlyInTxn
<1>1. IInv => WalOnlyInTxn
  BY DEF IInv, ControlInv
<1> QED
  BY <1>1, Invariance, PTL

(* What runs or waits to run has been validated, and what runs in an open  *)
(* transaction is a command that ignores transactions.                     *)
THEOREM OnlyValidatedRuns == Spec => []LoggedValidated
<1>1. IInv => LoggedValidated
  BY DEF IInv, ControlInv
<1> QED
  BY <1>1, Invariance, PTL

(* The loops of the commands, of SAVE and of LOAD stay in step.            *)
THEOREM LoopsAligned == Spec => []Aligned
<1>1. IInv => Aligned
  BY DEF IInv, ControlInv
<1> QED
  BY <1>1, Invariance, PTL

-----------------------------------------------------------------------------
(* The theorems about steps.                                               *)

(* The steps that may change the store.                                    *)
LEMMA StoreFrame ==
  ASSUME [Next]_vars, ~ UNCHANGED store
  PROVE  \/ StoreStep \/ AnswerYes
         \/ (\E k \in Key : LoadItem(k)) \/ LoadCut \/ LoadThrows
         \/ pc' \in Stopped /\ map' = EmptyMap
<1>1. CASE SystemStep \/ HandlerStep
  BY <1>1 DEF SystemStep, HandlerStep, Quit, Clear, Begin, Rollback, Commit, CommitNext,
     CommitDone, QueryDone, RejectCommand, LogCommand, ExecuteNow, Die, Stopped
<1>2. CASE ReportStep
  BY <1>2 DEF ReportStep, Finish, ReadArg, ResolveArg, SkipBump, SkipExtend, CircularKey,
     Report, RenameRefused, RenameAsk
<1>3. CASE FileStep \/ SaveLost
  BY <1>3 DEF FileStep, BadFileName, FileError, SaveOpen, SaveDone, SaveItem, LoadOpen,
     LoadDone, SaveLost
<1>4. CASE CrashStep \/ Kill
  BY <1>4 DEF CrashStep, NullDeref, ListNull, SaveNull, LoadOverflows, Kill, Die, Stopped
<1>5. CASE AnswerNo \/ Restart \/ \E q \in Queries : Submit(q)
  BY <1>5 DEF AnswerNo, Restart, Submit
<1>6. CASE UNCHANGED vars
  BY <1>6 DEF vars
<1> QED
  BY <1>1, <1>2, <1>3, <1>4, <1>5, <1>6 DEF Next, Internal, External

LEMMA ContentsFrame ==
  ASSUME UNCHANGED store
  PROVE  Contents' = Contents
BY DEF store, Contents

(* Between BEGIN and COMMIT only a LOAD changes what the store holds.      *)
THEOREM Isolation == Spec => TxnIsolation
<1>1. ASSUME IInv, [Next]_vars, transac, ~committing, Contents' # Contents
      PROVE  pc = "load" \/ pc' \in Stopped
  <2>1. \/ StoreStep \/ AnswerYes
        \/ (\E k \in Key : LoadItem(k)) \/ LoadCut \/ LoadThrows
        \/ pc' \in Stopped
    BY <1>1, StoreFrame, ContentsFrame
  <2>2. ~StoreStep
    <3>1. SUFFICES ASSUME StoreStep PROVE FALSE
      OBVIOUS
    <3>2. /\ pc = "exec"
          /\ cmd.type \in {"SET", "UPDATE", "DELETE", "RENAME", "INCR", "DECR"} \cup ExtendCommands
      BY <3>1 DEF StoreStep, SetArg, UpdateArg, DelArg, RenameArg, BumpArg, ExtendArgs,
         Turn, InLoop
    <3>3. IgnoresTransactions(cmd)
      BY <1>1, <3>2, ExecutingCommand DEF IInv, ControlInv, LoggedValidated
    <3> QED
      BY <3>2, <3>3 DEF IgnoresTransactions, ExtendCommands
  <2>3. ~AnswerYes
    <3>1. SUFFICES ASSUME AnswerYes PROVE FALSE
      OBVIOUS
    <3>2. pc = "ask" /\ cmd.type = "RENAME"
      BY <1>1, <3>1 DEF AnswerYes, IInv, ControlInv, Aligned
    <3>3. IgnoresTransactions(cmd)
      BY <1>1, <3>2, ExecutingCommand DEF IInv, ControlInv, LoggedValidated
    <3> QED
      BY <3>2, <3>3 DEF IgnoresTransactions
  <2> QED
    BY <2>1, <2>2, <2>3 DEF LoadItem, LoadCut, LoadThrows, AtCut
<1>2. IInv /\ [Next]_vars =>
        [transac /\ ~committing /\ Contents' # Contents => pc = "load" \/ pc' \in Stopped]_vars
  BY <1>1
<1> QED
  BY <1>2, Invariance, PTL DEF Spec, TxnIsolation

(* A validated command names keys wherever it reads the name of a key,     *)
(* except the second name of a RENAME.                                     *)
LEMMA OnlyRenameMisnames ==
  ASSUME IInv, InLoop, ~NamesKeys
  PROVE  cmd.type = "RENAME" /\ ~IsIdent(cmd.args[i + 1])
<1>1. pc = "exec" /\ i \in Nat /\ i <= Len(cmd.args)
  BY DEF InLoop, IInv, ControlInv, ControlTypeOK
<1>2. cmd # Nil /\ cmd.args \in Seq(Value) /\ Validate(cmd)
  BY <1>1, ExecutingCommand
<1>3. ASSUME cmd.type \in PairCommands \cup KeyCommands \cup ExtendCommands
      PROVE  IsIdent(cmd.args[i])
  <2>1. Len(cmd.args) \in Nat
    BY <1>2
  <2>2. CASE cmd.type \in PairCommands
    <3>1. i % 2 = 1 /\ i \in 1 .. Len(cmd.args)
      BY <1>1, <1>2, <2>1, <2>2 DEF IInv, ControlInv, Aligned
    <3> QED
      BY <1>2, <2>2, <3>1 DEF Validate, ValidPairs
  <2>3. CASE cmd.type \in KeyCommands
    <3>1. i \in 1 .. Len(cmd.args)
      BY <1>1, <1>2, <2>1 DEF IInv, ControlInv, ControlTypeOK
    <3> QED
      BY <1>2, <2>3, <3>1 DEF Validate, ValidKeys
  <2>4. CASE cmd.type \in ExtendCommands
    BY <1>2, <2>4 DEF Validate, ValidExtension, IInv, ControlInv, Aligned
  <2> QED
    BY <1>3, <2>2, <2>3, <2>4
<1>4. PICK p \in KeyPositions(cmd, i) : ~IsIdent(cmd.args[p])
  BY DEF NamesKeys, Names
<1>5. p # i
  BY <1>3, <1>4 DEF KeyPositions
<1> QED
  BY <1>1, <1>4, <1>5 DEF KeyPositions

(* The steps in which the process ends.                                    *)
LEMMA StopFrame ==
  ASSUME Next, pc' \in Stopped
  PROVE  Quit \/ CrashStep \/ Kill
<1> USE DEF Stopped
<1>1. CASE SystemStep \/ HandlerStep
  BY <1>1 DEF SystemStep, HandlerStep, Clear, Begin, Rollback, Commit, CommitNext,
     CommitDone, QueryDone, RejectCommand, LogCommand, ExecuteNow, Dispatch, Throw
<1>2. CASE StoreStep
  BY <1>2 DEF StoreStep, SetArg, UpdateArg, DelArg, RenameArg, RenamePair, BumpArg,
     ExtendArgs, Advance, Return
<1>3. CASE ReportStep
  BY <1>3 DEF ReportStep, Finish, ReadArg, ResolveArg, SkipBump, SkipExtend,
     CircularKey, Report, RenameRefused, RenameAsk, Advance, Return, Throw
<1>4. CASE FileStep \/ SaveLost
  BY <1>4 DEF FileStep, BadFileName, FileError, SaveOpen, SaveDone, SaveItem,
     LoadOpen, LoadDone, LoadItem, LoadCut, LoadThrows, SaveLost, Return, Throw
<1>5. CASE Restart \/ AnswerYes \/ AnswerNo \/ \E q \in Queries : Submit(q)
  BY <1>5 DEF Restart, AnswerYes, AnswerNo, Submit, RenamePair, Advance, Return
<1> QED
  BY <1>1, <1>2, <1>3, <1>4, <1>5 DEF Next, Internal, External

-----------------------------------------------------------------------------
(* What SAVE and LOAD leave behind.                                        *)

(* What a LOAD has done so far, in a state: the entries read are in the    *)
(* store, the others are not, and nothing else has changed.                *)
LoadSoFar ==
  pc = "load" =>
    \A k \in Key :
      Contents[k] = IF k \in Entries(disk) \ pending THEN disk[k] ELSE began[k]

(* Only a LOAD that threw leaves an entry without a value.                 *)
NullsFailed == \A k \in Key : map[k] = Null => k \in failed

(* The properties are not inductive: a LOAD that is about to open the file *)
(* must not have changed the store yet, and a SAVE that writes must still  *)
(* have before it what it opened the file with.                            *)
HistInv ==
  /\ IInv /\ LoadSoFar /\ NoMixedSave /\ NullsFailed
  /\ pc = "exec" /\ cmd.type \in FileCommands => Contents = began
  /\ pc = "save" => Contents = saved

(* Set binds one key to a value of its own and leaves the others alone: no *)
(* cell in use is handed out again.                                        *)
LEMMA SetContents ==
  ASSUME StoreInv, NEW k \in Key, NEW v \in Value, Set(k, v)
  PROVE  Contents' = [Contents EXCEPT ![k] = v]
<1>1. PICK r \in Ref : heap[r] = Nil /\ Rebind([map EXCEPT ![k] = r], [heap EXCEPT ![r] = v])
  BY DEF Set
<1>2. map' = [map EXCEPT ![k] = r]
  BY <1>1 DEF Rebind
<1>3. map \in [Key -> Ref \cup {Nil, Null}] /\ heap \in [Ref -> Value \cup {Nil}]
  BY DEF StoreInv, StoreTypeOK
<1>4. \A l \in Key : map[l] # r
  BY <1>1 DEF StoreInv, CellsOwned
<1>5. heap' = [s \in Ref |-> IF \E l \in Key : map'[l] = s THEN [heap EXCEPT ![r] = v][s] ELSE Nil]
  BY <1>1 DEF Rebind
<1>6. heap'[map'[k]] = v /\ map'[k] \in Ref
  BY <1>2, <1>3, <1>5
<1>7. ASSUME NEW l \in Key \ {k}, map[l] \in Ref
      PROVE  heap'[map'[l]] = heap[map[l]] /\ map'[l] = map[l]
  <2>1. map'[l] = map[l] /\ map[l] # r
    BY <1>2, <1>3, <1>4, <1>7
  <2>2. heap'[map'[l]] = [heap EXCEPT ![r] = v][map[l]]
    BY <1>5, <1>7, <2>1
  <2>. QED BY <1>3, <1>7, <2>1, <2>2
<1>8. \A l \in Key : Contents'[l] = [Contents EXCEPT ![k] = v][l]
  <2>1. Contents'[k] = v
    BY <1>6 DEF Contents
  <2>2. ASSUME NEW l \in Key \ {k} PROVE Contents'[l] = Contents[l]
    BY <1>2, <1>3, <1>7, <2>2 DEF Contents
  <2>. QED BY <2>1, <2>2 DEF Contents
<1>. QED BY <1>8 DEF Contents

-----------------------------------------------------------------------------
(* Where no file is open and none is about to be, nothing is claimed.      *)
LEMMA Quiet ==
  ASSUME HistInv, IInv', NullsFailed', NoMixedSave', pc' \notin {"exec", "save", "load"}
  PROVE  HistInv'
BY DEF HistInv, LoadSoFar

LEMMA SameFile ==
  ASSUME NoMixedSave, Remember, UNCHANGED file, pc = "save" \/ pc' # "save"
  PROVE  NoMixedSave'
BY DEF NoMixedSave, Remember, file

(* What a cut leaves of the file it had.                                   *)
LEMMA CutSave ==
  ASSUME IInv, NoMixedSave, Remember, CutFile, pc = "save"
  PROVE  NoMixedSave'
<1>1. saved' = saved /\ disk # Nil
  BY DEF Remember, IInv, ControlInv, Aligned
<1>2. CASE disk' = Nil
  BY <1>2 DEF NoMixedSave
<1>3. ASSUME NEW kept \in SUBSET Entries(disk),
             disk' = [k \in Key |-> IF k \in kept THEN disk[k] ELSE Nil]
      PROVE  NoMixedSave'
  BY <1>1, <1>3 DEF NoMixedSave
<1>. QED BY <1>2, <1>3 DEF CutFile

(* A turn of the loop of a command that works on no file.                  *)
LEMMA OtherTurn ==
  ASSUME HistInv, IInv', NullsFailed', Remember, UNCHANGED <<file, cmd>>, pc' = "exec",
         cmd.type \notin FileCommands
  PROVE  HistInv'
BY SameFile DEF HistInv, LoadSoFar

(* A command starts with the store it remembers.                           *)
LEMMA CommandStarts ==
  ASSUME HistInv, IInv', NullsFailed', Remember, UNCHANGED <<store, file>>, pc' = "exec",
         cmd = Nil
  PROVE  HistInv'
<1>1. cmd' # Nil
  BY DEF IInv, ControlInv, Aligned
<1>2. began' = Contents /\ Contents' = Contents
  BY <1>1, ContentsFrame DEF Remember
<1>. QED BY <1>2, SameFile DEF HistInv, LoadSoFar

(* The steps that end the process.                                         *)
LEMMA EndHistory ==
  ASSUME HistInv, IInv', NullsFailed', Remember, Quit \/ CrashStep \/ Kill
  PROVE  HistInv'
<1>1. pc' \in Stopped
  BY DEF Quit, CrashStep, NullDeref, ListNull, SaveNull, LoadOverflows, Kill, Die, Stopped
<1>2. UNCHANGED file \/ (pc = "save" /\ CutFile)
  BY DEF Quit, CrashStep, NullDeref, ListNull, SaveNull, LoadOverflows, Kill
<1>3. NoMixedSave'
  BY <1>1, <1>2, SameFile, CutSave DEF HistInv, Stopped
<1>. QED BY <1>1, <1>3, Quiet DEF Stopped

LEMMA HandlerHistory ==
  ASSUME HistInv, IInv', NullsFailed', Remember,
         SystemStep \/ HandlerStep \/ Restart \/ \E q \in Queries : Submit(q)
  PROVE  HistInv'
<1>1. pc = "dispatch" \/ pc = "commit" => cmd = Nil
  BY DEF HistInv, IInv, ControlInv, Aligned
<1>2. CASE CommitNext
  BY <1>1, <1>2, CommandStarts DEF CommitNext
<1>3. CASE ExecuteNow
  BY <1>1, <1>3, CommandStarts DEF ExecuteNow, Dispatch
<1>4. CASE Quit
  BY <1>4, EndHistory
<1>5. ASSUME UNCHANGED file, pc' \notin {"exec", "save", "load"} PROVE HistInv'
  BY <1>5, SameFile, Quiet DEF HistInv
<1>6. CASE Clear \/ Begin \/ Rollback \/ Commit \/ CommitDone
  BY <1>5, <1>6 DEF Clear, Begin, Rollback, Commit, CommitDone, Dispatch
<1>7. CASE QueryDone \/ RejectCommand \/ LogCommand
  BY <1>5, <1>7 DEF QueryDone, RejectCommand, LogCommand, Dispatch, Throw
<1>8. CASE Restart \/ \E q \in Queries : Submit(q)
  BY <1>5, <1>8 DEF Restart, Submit
<1>. QED
  BY <1>2, <1>3, <1>4, <1>6, <1>7, <1>8 DEF SystemStep, HandlerStep

(* The loops over arguments that are keys or pairs.                        *)
LEMMA LoopHistory ==
  ASSUME HistInv, IInv', NullsFailed', Remember,
         StoreStep \/ ReportStep \/ AnswerYes \/ AnswerNo
  PROVE  HistInv'
<1> USE DEF FileCommands, ExtendCommands, KeyCommands, PairCommands
<1>1. pc = "ask" => cmd.type = "RENAME"
  BY DEF HistInv, IInv, ControlInv, Aligned
<1>2. CASE SetArg \/ UpdateArg \/ DelArg \/ BumpArg \/ RenameArg \/ AnswerYes
  <2>1. cmd.type \notin FileCommands
    BY <1>1, <1>2 DEF SetArg, UpdateArg, DelArg, BumpArg, RenameArg, AnswerYes, Turn
  <2>2. UNCHANGED <<file, cmd>> /\ pc' = "exec"
    BY <1>2 DEF SetArg, UpdateArg, DelArg, BumpArg, RenameArg, AnswerYes, RenamePair, Advance
  <2>. QED BY <2>1, <2>2, OtherTurn
<1>3. CASE ReadArg \/ SkipBump \/ (ResolveArg /\ pc' = "exec")
  <2>1. cmd.type \notin FileCommands
    BY <1>3 DEF ReadArg, SkipBump, ResolveArg, Turn
  <2>2. UNCHANGED <<file, cmd>> /\ pc' = "exec"
    BY <1>3 DEF ReadArg, SkipBump, ResolveArg, Advance, Throw
  <2>. QED BY <2>1, <2>2, OtherTurn
<1>4. ASSUME UNCHANGED file, pc' \notin {"exec", "save", "load"} PROVE HistInv'
  BY <1>4, SameFile, Quiet DEF HistInv
<1>5. CASE ExtendArgs \/ SkipExtend \/ Finish \/ Report \/ RenameRefused \/ AnswerNo
  BY <1>4, <1>5 DEF ExtendArgs, SkipExtend, Finish, Report, RenameRefused, AnswerNo, Return
<1>6. CASE CircularKey \/ RenameAsk \/ (ResolveArg /\ pc' # "exec")
  BY <1>4, <1>6 DEF CircularKey, RenameAsk, ResolveArg, Throw, Advance
<1>. QED
  BY <1>2, <1>3, <1>5, <1>6 DEF StoreStep, ReportStep

(* A LOAD that reads an entry.                                             *)
LEMMA LoadItemContents ==
  ASSUME IInv, NEW k \in Key, LoadItem(k)
  PROVE  k \in Entries(disk) /\ Contents' = [Contents EXCEPT ![k] = disk[k]]
<1>1. /\ pc = "load" /\ k \in pending /\ Set(k, disk[k])
  BY DEF LoadItem
<1>2. /\ disk # Nil /\ pending \subseteq Entries(disk) /\ StoreInv
      /\ disk \in [Key -> Value \cup {Nil}] \cup {Nil}
  BY <1>1 DEF IInv, ControlInv, ControlTypeOK, Aligned
<1>3. disk[k] \in Value
  BY <1>1, <1>2 DEF Entries
<1>. QED BY <1>1, <1>2, <1>3, SetContents

LEMMA FileHistory ==
  ASSUME HistInv, IInv', NullsFailed', Remember, FileStep \/ SaveLost
  PROVE  HistInv'
<1>1. IInv /\ LoadSoFar /\ NoMixedSave
  BY DEF HistInv
<1>2. CASE BadFileName \/ FileError \/ SaveDone \/ LoadDone \/ LoadCut \/ LoadThrows
  <2>1. UNCHANGED file /\ pc' \notin {"exec", "save", "load"}
    BY <1>2 DEF BadFileName, FileError, SaveDone, LoadDone, LoadCut, LoadThrows, Throw,
       Return
  <2>. QED BY <1>1, <2>1, SameFile, Quiet
<1>3. CASE SaveOpen
  <2>1. pc = "exec" /\ pc' = "save" /\ disk' = Empty /\ UNCHANGED store
    BY <1>3 DEF SaveOpen, AtFileCommand
  <2>2. saved' = Contents /\ Contents' = Contents
    BY <2>1, ContentsFrame DEF Remember
  <2>3. NoMixedSave'
    BY <2>1 DEF NoMixedSave, Empty
  <2>. QED BY <2>1, <2>2, <2>3 DEF HistInv, LoadSoFar
<1>4. CASE SaveLost
  <2>1. pc = "save" /\ CutFile /\ pc' \notin {"exec", "save", "load"}
    BY <1>4 DEF SaveLost, Return
  <2>. QED BY <1>1, <2>1, CutSave, Quiet
<1>5. CASE \E k \in Key : SaveItem(k)
  <2>1. PICK k \in Key : SaveItem(k)
    BY <1>5
  <2>2. pc = "save" /\ pc' = "save" /\ UNCHANGED store /\ disk' = [disk EXCEPT ![k] = Contents[k]]
    BY <2>1 DEF SaveItem
  <2>3. saved' = saved /\ Contents' = Contents /\ Contents = saved
    BY <2>2, ContentsFrame DEF Remember, HistInv
  <2>4. disk \in [Key -> Value \cup {Nil}] /\ disk # Nil
    BY <1>1, <2>2 DEF IInv, ControlInv, ControlTypeOK, Aligned
  <2>5. NoMixedSave'
    BY <1>1, <2>2, <2>3, <2>4 DEF NoMixedSave
  <2>. QED BY <2>2, <2>3, <2>5 DEF HistInv, LoadSoFar
<1>6. CASE LoadOpen
  <2>1. /\ pc = "exec" /\ pc' = "load" /\ UNCHANGED <<store, file, cmd>>
        /\ pending' = Entries(disk) /\ cmd.type = "LOAD"
    BY <1>6 DEF LoadOpen, AtFileCommand
  <2>2. Contents = began /\ cmd # Nil
    BY <2>1, ExecutingCommand DEF HistInv, FileCommands
  <2>3. began' = began /\ Contents' = Contents
    BY <2>1, <2>2, ContentsFrame DEF Remember
  <2>4. LoadSoFar'
    BY <2>1, <2>2, <2>3 DEF LoadSoFar, Entries, file
  <2>5. NoMixedSave'
    BY <1>1, <2>1, SameFile
  <2>. QED BY <2>1, <2>4, <2>5 DEF HistInv
<1>7. CASE \E k \in Key : LoadItem(k)
  <2>1. PICK k \in Key : LoadItem(k)
    BY <1>7
  <2>2. /\ pc = "load" /\ pc' = "load" /\ k \in pending /\ pending' = pending \ {k}
        /\ UNCHANGED <<file, cmd>>
    BY <2>1 DEF LoadItem
  <2>3. k \in Entries(disk) /\ Contents' = [Contents EXCEPT ![k] = disk[k]]
    BY <1>1, <2>1, LoadItemContents
  <2>4. began' = began
    BY <1>1, <2>2, ExecutingCommand DEF Remember
  <2>5. \A l \in Key : Contents'[l] = IF l = k THEN disk[k] ELSE Contents[l]
    BY <2>3 DEF Contents
  <2>6. Entries(disk)' = Entries(disk)
    BY <2>2 DEF Entries, file
  <2>7. LoadSoFar'
    BY <1>1, <2>2, <2>3, <2>4, <2>5, <2>6 DEF LoadSoFar, file
  <2>8. NoMixedSave'
    BY <1>1, <2>2, SameFile
  <2>. QED BY <2>2, <2>7, <2>8 DEF HistInv
<1>. QED
  BY <1>2, <1>3, <1>4, <1>5, <1>6, <1>7 DEF FileStep

-----------------------------------------------------------------------------
(* Entries without a value: nothing but a LOAD that throws leaves one.     *)

LEMMA SetLeavesNone ==
  ASSUME StoreInv, NEW k, NEW v, Set(k, v), NEW l \in Key, map'[l] = Null
  PROVE  map[l] = Null
<1>1. PICK r \in Ref : map' = [map EXCEPT ![k] = r]
  BY DEF Set, Rebind
<1>. QED BY <1>1, RefAssumption DEF StoreInv, StoreTypeOK

LEMMA DelLeavesNone ==
  ASSUME StoreInv, NEW k, Del(k), NEW l \in Key, map'[l] = Null
  PROVE  map[l] = Null
BY RefAssumption DEF Del, Rebind, StoreInv, StoreTypeOK

LEMMA RenameLeavesNone ==
  ASSUME StoreInv, NEW old, NEW new, Rename(old, new), NEW l \in Key, map'[l] = Null
  PROVE  map[l] = Null
<1>1. CASE Has(old)
  <2>1. map' = [map EXCEPT ![old] = Nil, ![new] = map[old]] /\ map[old] # Null
    BY <1>1, RefAssumption DEF Rename, Has, Rebind
  <2>. QED BY <2>1, RefAssumption DEF StoreInv, StoreTypeOK
<1>2. CASE ~Has(old)
  BY <1>2 DEF Rename, store
<1>. QED BY <1>1, <1>2

LEMMA NextLeavesNulls ==
  ASSUME IInv, NullsFailed, Next, Remember
  PROVE  NullsFailed'
<1>1. StoreInv
  BY DEF IInv
<1>2. CASE pc' \in Stopped
  <2>1. map' = EmptyMap
    BY <1>2, StopFrame
    DEF Quit, CrashStep, NullDeref, ListNull, SaveNull, LoadOverflows, Kill, Die
  <2>. QED BY <2>1, RefAssumption DEF EmptyMap, NullsFailed
<1>3. CASE pc' \notin Stopped /\ LoadThrows
  <2>1. failed' = failed \cup {cut} /\ (UNCHANGED store \/ LeaveNull(cut))
    BY <1>3 DEF LoadThrows, AtCut, Throw, Remember
  <2>2. \A k \in Key \ {cut} : map'[k] = map[k]
    BY <1>1, <2>1 DEF StoreInv, StoreTypeOK, LeaveNull, store
  <2>. QED BY <2>1, <2>2 DEF NullsFailed
<1>4. CASE pc' \notin Stopped /\ ~LoadThrows
  <2>1. failed \subseteq failed'
    BY <1>4 DEF Remember
  <2>2. \/ UNCHANGED store \/ StoreStep \/ AnswerYes
        \/ (\E k \in Key : LoadItem(k)) \/ LoadCut
    BY <1>4, StoreFrame
  <2>3. ASSUME NEW l \in Key, map'[l] = Null PROVE map[l] = Null
    <3>1. CASE UNCHANGED store \/ BumpArg \/ ExtendArgs
      BY <2>3, <3>1 DEF store, BumpArg, ExtendArgs, Mutate
    <3>2. CASE SetArg \/ UpdateArg \/ (\E k \in Key : LoadItem(k)) \/ LoadCut
      BY <1>1, <2>3, <3>2, SetLeavesNone DEF SetArg, UpdateArg, Update, LoadItem, LoadCut,
         store
    <3>3. CASE DelArg
      BY <1>1, <2>3, <3>3, DelLeavesNone DEF DelArg
    <3>4. CASE RenameArg \/ AnswerYes
      BY <1>1, <2>3, <3>4, RenameLeavesNone DEF RenameArg, AnswerYes, RenamePair
    <3>. QED BY <2>2, <3>1, <3>2, <3>3, <3>4 DEF StoreStep
  <2>. QED BY <2>1, <2>3 DEF NullsFailed
<1>. QED BY <1>2, <1>3, <1>4

-----------------------------------------------------------------------------
(* The theorems about what SAVE and LOAD leave.                            *)

LEMMA NextHistory == HistInv /\ [HistoryNext]_hvars => HistInv'
<1> SUFFICES ASSUME HistInv, [HistoryNext]_hvars PROVE HistInv'
  OBVIOUS
<1>1. IInv'
  BY NextKeeps DEF HistInv, HistoryNext, hvars
<1>2. CASE HistoryNext
  <2>1. NullsFailed'
    BY <1>2, NextLeavesNulls DEF HistInv, HistoryNext
  <2>. QED
    BY <1>1, <1>2, <2>1, HandlerHistory, LoopHistory, FileHistory, EndHistory
    DEF HistoryNext, Next, Internal, External
<1>3. CASE UNCHANGED hvars
  <2>1. Contents' = Contents
    BY <1>3, ContentsFrame DEF hvars, vars
  <2>2. UNCHANGED <<map, pc, cmd, pending, disk, began, saved, failed>>
    BY <1>3 DEF hvars, vars, loop, store, file
  <2>. QED
    BY <1>1, <2>1, <2>2 DEF HistInv, LoadSoFar, NoMixedSave, NullsFailed, Entries
<1>. QED BY <1>2, <1>3

(* The steps a LOAD takes that the process survives.                       *)
LEMMA LoadFrame ==
  ASSUME Next, pc = "load", pc' \notin Stopped
  PROVE  (\E k \in Key : LoadItem(k)) \/ LoadDone \/ LoadCut \/ LoadThrows
<1>1. ~SystemStep /\ ~HandlerStep
  BY DEF SystemStep, HandlerStep, Quit, Clear, Begin, Rollback, Commit, CommitNext,
     CommitDone, QueryDone, RejectCommand, LogCommand, ExecuteNow, Dispatch
<1>2. ~StoreStep /\ ~ReportStep
  BY DEF StoreStep, SetArg, UpdateArg, DelArg, RenameArg, BumpArg, ExtendArgs,
     ReportStep, Finish, ReadArg, ResolveArg, SkipBump, SkipExtend, CircularKey,
     Report, RenameRefused, RenameAsk, Turn, InLoop
<1>3. ~CrashStep /\ ~Kill
  BY DEF CrashStep, NullDeref, ListNull, SaveNull, LoadOverflows, Kill, Die, Stopped
<1>4. /\ ~BadFileName /\ ~FileError /\ ~SaveOpen /\ ~SaveDone /\ ~SaveLost /\ ~LoadOpen
      /\ ~ \E k \in Key : SaveItem(k)
  BY DEF BadFileName, FileError, SaveOpen, SaveDone, SaveLost, LoadOpen, SaveItem,
     AtFileCommand
<1>5. ~AnswerYes /\ ~AnswerNo /\ ~Restart /\ ~ \E q \in Queries : Submit(q)
  BY DEF AnswerYes, AnswerNo, Restart, Submit, Stopped
<1>. QED
  BY <1>1, <1>2, <1>3, <1>4, <1>5 DEF Next, Internal, External, FileStep

(* The strengthened invariant: what a LOAD or a SAVE that is under way     *)
(* still relies on, and where the entries without a value come from        *)
(* (Store::loadFromFile, Store::saveToFile).                               *)
THEOREM History == HistorySpec => []HistInv
<1>1. HistoryInit => HistInv
  BY InitKeeps, RefAssumption
  DEF HistoryInit, Init, Start, EmptyMap, HistInv, LoadSoFar, NoMixedSave, NullsFailed
<1>. QED BY <1>1, NextHistory, PTL DEF HistorySpec

(* Whatever becomes of a LOAD that the process survives, it has merged the *)
(* entries it read whole into the store and touched nothing else, but for  *)
(* the key of the entry in which the file ends; and where it ends with an  *)
(* exception, there neither (Store::loadFromFile).                         *)
THEOREM LoadsMerge == HistorySpec => LoadMerges
<1>1. ASSUME HistInv, HistoryNext, pc = "load", pc' \notin Stopped,
             NEW k \in Key, k = cut => pc' # "dispatch"
      PROVE  Contents'[k] = IF k \in Entries(disk) \ pending' THEN disk[k] ELSE began[k]
  <2>1. IInv /\ StoreInv /\ ~committing
    BY <1>1 DEF HistInv, IInv, ControlInv, Aligned
  <2>2. Contents[k] = IF k \in Entries(disk) \ pending THEN disk[k] ELSE began[k]
    BY <1>1 DEF HistInv, LoadSoFar
  <2>3. (\E l \in Key : LoadItem(l)) \/ LoadDone \/ LoadCut \/ LoadThrows
    BY <1>1, LoadFrame DEF HistoryNext
  <2>4. CASE \E l \in Key : LoadItem(l)
    <3>1. PICK l \in Key : LoadItem(l)
      BY <2>4
    <3>2. l \in Entries(disk) /\ Contents' = [Contents EXCEPT ![l] = disk[l]]
      BY <2>1, <3>1, LoadItemContents
    <3>3. Contents'[k] = IF k = l THEN disk[l] ELSE Contents[k]
      BY <3>2 DEF Contents
    <3>4. pending' = pending \ {l}
      BY <3>1 DEF LoadItem
    <3>. QED BY <2>2, <3>2, <3>3, <3>4
  <2>5. CASE LoadDone
    <3>1. UNCHANGED store /\ pending = {} /\ pending' = {}
      BY <2>5 DEF LoadDone, Return
    <3>. QED BY <2>2, <3>1, ContentsFrame
  <2>6. CASE LoadCut
    <3>1. pending = {} /\ pending' = {} /\ pc' = "dispatch"
      BY <2>1, <2>6 DEF LoadCut, AtCut, Return
    <3>2. PICK v \in Unwritten : Set(cut, v)
      BY <2>6 DEF LoadCut
    <3>3. Contents' = [Contents EXCEPT ![cut] = v]
      BY <2>1, <2>6, <3>2, CutIsKey, FileAssumption, SetContents DEF LoadCut
    <3>4. Contents'[k] = Contents[k]
      BY <1>1, <3>1, <3>3
    <3>. QED BY <2>2, <3>1, <3>4
  <2>7. CASE LoadThrows
    <3>1. pending = {} /\ pending' = {} /\ (UNCHANGED store \/ LeaveNull(cut))
      BY <2>7 DEF LoadThrows, AtCut, Throw
    <3>2. Contents'[k] = Contents[k]
      <4>1. CASE LeaveNull(cut)
        BY <2>1, <4>1, RefAssumption DEF LeaveNull, Contents, StoreInv, StoreTypeOK
      <4>. QED BY <3>1, <4>1, ContentsFrame
    <3>. QED BY <2>2, <3>1, <3>2
  <2>. QED BY <2>3, <2>4, <2>5, <2>6, <2>7
<1>2. HistInv /\ [HistoryNext]_hvars =>
        [pc = "load" /\ pc' \notin Stopped =>
           \A k \in Key : (k = cut => pc' # "dispatch") =>
             Contents'[k] = IF k \in Entries(disk) \ pending' THEN disk[k]
                                                             ELSE began[k]]_hvars
  BY <1>1
<1>. QED BY <1>2, History, PTL DEF HistorySpec, LoadMerges

(* Every entry of the file is one the store had when the last SAVE opened  *)
(* it, wherever that SAVE was cut short and whatever ran since             *)
(* (Store::saveToFile).                                                    *)
THEOREM SavesNeverMix == HistorySpec => []NoMixedSave
<1>1. HistInv => NoMixedSave
  BY DEF HistInv
<1>. QED BY <1>1, History, PTL

(* A command brings the program down only where a RENAME names no          *)
(* identifier, where a LIST or a SAVE meets the entry a LOAD that threw    *)
(* left without a value, or where a LOAD meets a file that ends within an  *)
(* entry (command_ast_nodes.cpp, Store::loadFromFile).                     *)
THEOREM CrashesAreExplained == HistorySpec => CrashesHaveCause
<1>1. ASSUME HistInv, HistoryNext, pc' = "crashed", pc # "crashed"
      PROVE  /\ cmd # Nil
             /\ \/ cmd.type = "RENAME" /\ ~IsIdent(cmd.args[i + 1])
                \/ cmd.type \in {"LIST", "SAVE"} /\ \E k \in failed : Contents[k] = Nil
                \/ cmd.type = "LOAD" /\ cut # Nil
  <2>1. IInv /\ NullsFailed
    BY <1>1 DEF HistInv
  <2>2. CrashStep
    BY <1>1, StopFrame DEF HistoryNext, Stopped, Quit, Kill, Die
  <2>3. pc \in {"exec", "ask", "save", "load"} /\ cmd # Nil
    BY <2>1, <2>2, ExecutingCommand
    DEF CrashStep, NullDeref, ListNull, SaveNull, LoadOverflows, InLoop, AtCut
  <2>4. ASSUME NEW k \in Key, map[k] = Null
        PROVE  k \in failed /\ Contents[k] = Nil
    BY <2>1, <2>4, RefAssumption DEF NullsFailed, Contents
  <2>5. CASE NullDeref
    BY <2>1, <2>3, <2>5, OnlyRenameMisnames DEF NullDeref
  <2>6. CASE ListNull
    BY <2>3, <2>4, <2>6 DEF ListNull
  <2>7. CASE SaveNull
    BY <2>1, <2>3, <2>4, <2>7
    DEF SaveNull, IInv, ControlInv, ControlTypeOK, Aligned
  <2>8. CASE LoadOverflows
    BY <2>1, <2>3, <2>8 DEF LoadOverflows, AtCut, IInv, ControlInv, Aligned
  <2>. QED BY <2>2, <2>5, <2>6, <2>7, <2>8 DEF CrashStep
<1>2. HistInv /\ [HistoryNext]_hvars =>
        [pc' = "crashed" /\ pc # "crashed" =>
           /\ cmd # Nil
           /\ \/ cmd.type = "RENAME" /\ ~IsIdent(cmd.args[i + 1])
              \/ cmd.type \in {"LIST", "SAVE"} /\ \E k \in failed : Contents[k] = Nil
              \/ cmd.type = "LOAD" /\ cut # Nil]_hvars
  BY <1>1
<1>. QED BY <1>2, History, PTL DEF HistorySpec, CrashesHaveCause
=============================================================================
