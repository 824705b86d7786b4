------------------------------- MODULE Kepler -------------------------------
(***************************************************************************)
(* The running program: Handler::handleQuery (src/handler.cpp), the        *)
(* Environment with its write-ahead log (include/environment.h), every     *)
(* command's execute (src/command_ast_nodes.cpp) and the save file as the  *)
(* program leaves it on disk.                                              *)
(*                                                                         *)
(* One query is handled at a time, but not in one step: a batch command is *)
(* a loop over its arguments that an exception can leave half way, RENAME  *)
(* waits for the user in the middle, SAVE and LOAD go item by item, and    *)
(* the process can be killed between any two steps.                        *)
(***************************************************************************)
EXTENDS KeplerStore, FiniteSets

CONSTANTS
  Commands,   (* the commands the user may write                           *)
  Queries,    (* the lines the user may enter, as the parser leaves them   *)
  Torn,       (* any key with null characters in it, which nobody can type *)
  Unwritten,  (* what the reading of an entry that is cut may come to      *)
  MaxWal,     (* bound: no more is logged once the log is this long        *)
  MaxLen      (* bound: no list is extended once one is this long          *)

ASSUME QueryAssumption == Commands \subseteq Command /\ Queries \subseteq Seq(Commands)
ASSUME FileAssumption == Torn \in Key /\ Unwritten \subseteq Value
ASSUME BoundAssumption == MaxWal \in Nat /\ MaxLen \in Nat

VARIABLES
  transac,    (* EnvironmentInterface::transac_                            *)
  wal,        (* Environment::wal_                                         *)
  committing, (* executeAllWAL is running                                  *)
  query,      (* the commands of Parser::nodes not dispatched yet          *)
  cmd,        (* the command executing, Nil for none                       *)
  i,          (* the argument its loop has reached                         *)
  pending,    (* the keys a SAVE has still to write or a LOAD to read      *)
  disk,       (* the whole entries of the default save file, Nil for no    *)
              (* file that begins with the header                          *)
  cut,        (* the key, as a LOAD reads it, of the entry in which the    *)
              (* file ends; Nil if it ends after one                       *)
  pc          (* where the program is                                      *)

loop == <<cmd, i, pending>>
file == <<disk, cut>>
vars == <<store, transac, wal, committing, query, loop, file, pc>>

Alive   == {"idle", "dispatch", "commit", "exec", "ask", "save", "load"}
Stopped == {"exited", "crashed", "killed"}
Working == Alive \ {"idle", "ask"}

Empty == [k \in Key |-> Nil]

TypeOK ==
  /\ StoreTypeOK
  /\ transac \in BOOLEAN
  /\ wal \in Seq(Commands)
  /\ committing \in BOOLEAN
  /\ query \in Seq(Commands)
  /\ cmd \in Commands \cup {Nil}
  /\ i \in Nat \ {0}
  /\ pending \in SUBSET Key
  /\ disk \in [Key -> Value \cup {Nil}] \cup {Nil}
  /\ cut \in Key \cup {Nil}
  /\ pc \in Alive \cup Stopped

Start ==
  /\ map = EmptyMap /\ heap = EmptyHeap
  /\ transac = FALSE /\ wal = <<>> /\ committing = FALSE
  /\ query = <<>> /\ cmd = Nil /\ i = 1 /\ pending = {}

Init == Start /\ disk = Nil /\ cut = Nil /\ pc = "idle"

-----------------------------------------------------------------------------
(* How a step leaves a command.                                            *)

(* The end of execute: back to executeAllWAL or to handleQuery.            *)
Return ==
  /\ cmd' = Nil /\ i' = 1 /\ pending' = {}
  /\ pc' = IF committing THEN "commit" ELSE "dispatch"
  /\ UNCHANGED <<transac, wal, committing, query>>

(* An exception: main catches it, and the rest of the line is lost.  What  *)
(* has been logged, and the transaction, are left as they are.             *)
Throw ==
  /\ cmd' = Nil /\ i' = 1 /\ pending' = {}
  /\ query' = <<>> /\ committing' = FALSE /\ pc' = "idle"
  /\ UNCHANGED <<transac, wal>>

(* Mutant: a loop over pairs steps to the next argument.                   *)
AdvanceByOne(n) ==
  /\ i' = i + 1
  /\ pc' = "exec"
  /\ UNCHANGED <<transac, wal, committing, query, cmd, pending>>

(* The next turn of a loop over the arguments.                             *)
Advance(n) ==
  /\ i' = i + n
  /\ pc' = "exec"
  /\ UNCHANGED <<transac, wal, committing, query, cmd, pending>>

(* The end of the process: only the file is left.                          *)
Die(status) ==
  /\ map' = EmptyMap /\ heap' = EmptyHeap
  /\ transac' = FALSE /\ wal' = <<>> /\ committing' = FALSE
  /\ query' = <<>> /\ cmd' = Nil /\ i' = 1 /\ pending' = {}
  /\ pc' = status

-----------------------------------------------------------------------------
(* The user enters a line.                                                 *)

Logged(c) == c.type \notin SystemCommands /\ ~IgnoresTransactions(c)

Bounded(q) ==
  /\ Len(wal) >= MaxWal => \A j \in DOMAIN q : ~Logged(q[j])
  /\ (\E k \in Key : Contents[k] \in ListVal /\ Len(Contents[k].val) >= MaxLen)
       => \A j \in DOMAIN q : q[j].type \notin ExtendCommands

Submit(q) ==
  /\ pc = "idle" /\ Bounded(q)
  /\ query' = q /\ pc' = "dispatch"
  /\ UNCHANGED <<store, transac, wal, committing, loop, file>>

(* The loop of Handler::handleQuery.                                       *)
QueryDone ==
  /\ pc = "dispatch" /\ query = <<>>
  /\ pc' = "idle"
  /\ UNCHANGED <<store, transac, wal, committing, query, loop, file>>

RejectCommand ==
  /\ pc = "dispatch" /\ query # <<>> /\ ~Validate(Head(query))
  /\ Throw
  /\ UNCHANGED <<store, file>>

Dispatch(types) ==
  /\ pc = "dispatch" /\ query # <<>>
  /\ Head(query).type \in types /\ Validate(Head(query))

Quit == Dispatch({"QUIT"}) /\ Die("exited") /\ UNCHANGED file

Clear ==
  /\ Dispatch({"CLEAR"})
  /\ query' = Tail(query)
  /\ UNCHANGED <<store, transac, wal, committing, loop, file, pc>>

Begin ==
  /\ Dispatch({"BEGIN"})
  /\ query' = Tail(query) /\ transac' = TRUE
  /\ UNCHANGED <<store, wal, committing, loop, file, pc>>

(* Mutant: the log is not cleared.                                         *)
RollbackKeepsWal ==
  /\ Dispatch({"ROLLBACK"})
  /\ query' = Tail(query) /\ transac' = FALSE
  /\ UNCHANGED <<store, wal, committing, loop, file, pc>>

Rollback ==
  /\ Dispatch({"ROLLBACK"})
  /\ query' = Tail(query) /\ wal' = <<>> /\ transac' = FALSE
  /\ UNCHANGED <<store, committing, loop, file, pc>>

(* COMMIT enters executeAllWAL, which takes each logged command off the    *)
(* log before it executes it; only when the log is empty is the            *)
(* transaction over.                                                       *)
Commit ==
  /\ Dispatch({"COMMIT"})
  /\ query' = Tail(query) /\ committing' = TRUE /\ pc' = "commit"
  /\ UNCHANGED <<store, transac, wal, loop, file>>

(* Mutant: the log is a stack.                                             *)
CommitLast ==
  /\ pc = "commit" /\ wal # <<>>
  /\ cmd' = wal[Len(wal)] /\ wal' = SubSeq(wal, 1, Len(wal) - 1) /\ pc' = "exec"
  /\ UNCHANGED <<store, transac, committing, query, i, pending, file>>

(* Mutant: the command is not taken off the log.                           *)
CommitPeek ==
  /\ pc = "commit" /\ wal # <<>>
  /\ cmd' = Head(wal) /\ pc' = "exec"
  /\ UNCHANGED <<store, transac, wal, committing, query, i, pending, file>>

CommitNext ==
  /\ pc = "commit" /\ wal # <<>>
  /\ cmd' = Head(wal) /\ wal' = Tail(wal) /\ pc' = "exec"
  /\ UNCHANGED <<store, transac, committing, query, i, pending, file>>

CommitDone ==
  /\ pc = "commit" /\ wal = <<>>
  /\ transac' = FALSE /\ committing' = FALSE /\ pc' = "dispatch"
  /\ UNCHANGED <<store, wal, query, loop, file>>

(* Mutant: a command is logged before it is validated.                     *)
LogUnvalidated ==
  /\ pc = "dispatch" /\ query # <<>> /\ Head(query).type \notin SystemCommands
  /\ transac /\ ~IgnoresTransactions(Head(query))
  /\ wal' = Append(wal, Head(query)) /\ query' = Tail(query)
  /\ UNCHANGED <<store, transac, committing, loop, file, pc>>

LogCommand ==
  /\ Dispatch(CommandTypes \ SystemCommands)
  /\ transac /\ ~IgnoresTransactions(Head(query))
  /\ wal' = Append(wal, Head(query)) /\ query' = Tail(query)
  /\ UNCHANGED <<store, transac, committing, loop, file, pc>>

ExecuteNow ==
  /\ Dispatch(CommandTypes \ SystemCommands)
  /\ ~transac \/ IgnoresTransactions(Head(query))
  /\ cmd' = Head(query) /\ query' = Tail(query) /\ pc' = "exec"
  /\ UNCHANGED <<store, transac, wal, committing, i, pending, file>>

-----------------------------------------------------------------------------
(* The loops over the arguments.                                           *)

InLoop == pc = "exec" /\ i <= Len(cmd.args)

(* The argument at position j, read as an identifier.                      *)
KeyAt(j) == cmd.args[j].val

NamesKeys == \A j \in KeyPositions(cmd, i) : Names(cmd, cmd.args[j])

(* The loop's turn of a command of one of these types.                     *)
Turn(types) == InLoop /\ cmd.type \in types /\ NamesKeys

(* A null IdentifierValueSP is dereferenced.                               *)
NullDeref == InLoop /\ ~NamesKeys /\ Die("crashed") /\ UNCHANGED file

Finish ==
  /\ pc = "exec" /\ i > Len(cmd.args)
  /\ cmd.type \in PairCommands \cup KeyCommands
  /\ Return
  /\ UNCHANGED <<store, file>>

SetArg ==
  /\ Turn({"SET"})
  /\ Set(KeyAt(i), cmd.args[i + 1])
  /\ Advance(2) /\ UNCHANGED file

UpdateArg ==
  /\ Turn({"UPDATE"})
  /\ Update(KeyAt(i), cmd.args[i + 1])
  /\ Advance(2) /\ UNCHANGED file

DelArg ==
  /\ Turn({"DELETE"})
  /\ Del(KeyAt(i))
  /\ Advance(1) /\ UNCHANGED file

(* GET and SEARCH only print.                                              *)
ReadArg ==
  /\ Turn({"GET", "SEARCH"})
  /\ Advance(1) /\ UNCHANGED <<store, file>>

(* RESOLVE only prints, but a circular reference ends the command.         *)
ResolveArg ==
  /\ Turn({"RESOLVE"})
  /\ IF Resolve(Contents, KeyAt(i), TRUE) = Circular THEN Throw ELSE Advance(1)
  /\ UNCHANGED <<store, file>>

(* INCR and DECR change the number an alias leads to, in place.            *)
Target(k, t) == Resolve(Contents, k, FALSE) = Outcome("FOUND", t, Contents[t])

(* Mutant: the key itself gets the new number.                             *)
BumpNamed ==
  /\ Turn({"INCR", "DECR"})
  /\ \E t \in Key :
       /\ Target(KeyAt(i), t) /\ Contents[t] \in Numeric
       /\ Set(KeyAt(i), Bump(cmd.type, Contents[t]))
  /\ Advance(1) /\ UNCHANGED file

BumpArg ==
  /\ Turn({"INCR", "DECR"})
  /\ \E t \in Key :
       /\ Target(KeyAt(i), t) /\ Contents[t] \in Numeric
       /\ Mutate(t, Bump(cmd.type, Contents[t]))
  /\ Advance(1) /\ UNCHANGED file

(* Nothing to bump: the key, or what it leads to, is missing or no number. *)
SkipBump ==
  /\ Turn({"INCR", "DECR"})
  /\ Resolve(Contents, KeyAt(i), FALSE) # Circular
  /\ ~ \E t \in Key : Target(KeyAt(i), t) /\ Contents[t] \in Numeric
  /\ Advance(1) /\ UNCHANGED <<store, file>>

CircularKey ==
  /\ Turn({"INCR", "DECR"} \cup ExtendCommands)
  /\ Resolve(Contents, KeyAt(i), FALSE) = Circular
  /\ Throw /\ UNCHANGED <<store, file>>

(* Mutant: the key itself gets the longer list.                            *)
ExtendNamed ==
  /\ Turn(ExtendCommands)
  /\ \E t \in Key :
       /\ Target(KeyAt(i), t) /\ Contents[t] \in ListVal
       /\ Set(KeyAt(i), Extend(cmd.type, Contents[t], cmd.args))
  /\ Return /\ UNCHANGED file

(* APPEND and PREPEND resolve the key once and then cannot fail.           *)
ExtendArgs ==
  /\ Turn(ExtendCommands)
  /\ \E t \in Key :
       /\ Target(KeyAt(i), t) /\ Contents[t] \in ListVal
       /\ Mutate(t, Extend(cmd.type, Contents[t], cmd.args))
  /\ Return /\ UNCHANGED file

SkipExtend ==
  /\ Turn(ExtendCommands)
  /\ Resolve(Contents, KeyAt(i), FALSE) # Circular
  /\ ~ \E t \in Key : Target(KeyAt(i), t) /\ Contents[t] \in ListVal
  /\ Return /\ UNCHANGED <<store, file>>

(* LIST and STATS only print.  LIST reads every entry's value without a    *)
(* look whether it has one.                                                *)
Report ==
  /\ pc = "exec" /\ cmd.type \in ReportCommands
  /\ cmd.type = "LIST" => \A k \in Key : map[k] # Null
  /\ Return /\ UNCHANGED <<store, file>>

ListNull ==
  /\ pc = "exec" /\ cmd.type = "LIST" /\ \E k \in Key : map[k] = Null
  /\ Die("crashed") /\ UNCHANGED file

-----------------------------------------------------------------------------
(* RENAME asks before it overwrites, unless an option answers for it.      *)

Conflict == Contains(KeyAt(i + 1)) /\ "YES" \notin cmd.opts

RenamePair == Rename(KeyAt(i), KeyAt(i + 1)) /\ Advance(2)

RenameArg ==
  /\ Turn({"RENAME"}) /\ ~Conflict
  /\ RenamePair /\ UNCHANGED file

RenameRefused ==
  /\ Turn({"RENAME"}) /\ Conflict /\ "NO" \in cmd.opts
  /\ Return /\ UNCHANGED <<store, file>>

RenameAsk ==
  /\ Turn({"RENAME"}) /\ Conflict /\ "NO" \notin cmd.opts
  /\ pc' = "ask"
  /\ UNCHANGED <<store, transac, wal, committing, query, loop, file>>

(* Everything but a line that begins with another letter than y is a yes,  *)
(* the empty line and the end of the input included.                       *)
AnswerYes == pc = "ask" /\ RenamePair /\ UNCHANGED file
AnswerNo  == pc = "ask" /\ Return /\ UNCHANGED <<store, file>>

-----------------------------------------------------------------------------
(* SAVE and LOAD.  A file name given as an argument is always refused:     *)
(* getFilename_ casts the node of the argument to the type of its value.   *)

AtFileCommand(t) == pc = "exec" /\ cmd.type = t

BadFileName ==
  /\ \E t \in FileCommands : AtFileCommand(t)
  /\ cmd.args # <<>>
  /\ Throw /\ UNCHANGED <<store, file>>

(* The file does not open, or does not begin with the header.              *)
FileError ==
  /\ \E t \in FileCommands : AtFileCommand(t)
  /\ cmd.args = <<>>
  /\ Throw /\ UNCHANGED <<store, file>>

Entries(kv) == {k \in Key : kv[k] # Nil}

(* Mutant: the file is opened without emptying it.                         *)
SaveOpenKeeps ==
  /\ AtFileCommand("SAVE") /\ cmd.args = <<>>
  /\ disk' = (IF disk = Nil THEN Empty ELSE disk) /\ cut' = Nil
  /\ pending' = {k \in Key : Contains(k)} /\ pc' = "save"
  /\ UNCHANGED <<store, transac, wal, committing, query, cmd, i>>

(* Opening the file for writing empties it.                                *)
SaveOpen ==
  /\ AtFileCommand("SAVE") /\ cmd.args = <<>>
  /\ disk' = Empty /\ cut' = Nil
  /\ pending' = {k \in Key : Contains(k)} /\ pc' = "save"
  /\ UNCHANGED <<store, transac, wal, committing, query, cmd, i>>

SaveItem(k) ==
  /\ pc = "save" /\ k \in pending /\ map[k] # Null
  /\ disk' = [disk EXCEPT ![k] = Contents[k]] /\ pending' = pending \ {k}
  /\ UNCHANGED <<store, transac, wal, committing, query, cmd, i, cut, pc>>

(* Of what was written the file keeps the beginning, cut at any byte.  The *)
(* entry it ends in is read under its key, or under a torn one.  Bound:    *)
(* Torn is not the key of a whole entry and of the cut one.                *)
CutFile ==
  \/ disk' = Nil /\ cut' = Nil
  \/ \E kept \in SUBSET Entries(disk) :
       LET lost == (Entries(disk) \cup pending) \ kept IN
       /\ disk' = [k \in Key |-> IF k \in kept THEN disk[k] ELSE Nil]
       /\ cut' \in {Nil} \cup lost \cup (IF lost = {} THEN {} ELSE {Torn} \ kept)

(* A write fails: the stream writes no more, and nobody looks at it.       *)
SaveLost ==
  /\ pc = "save" /\ \A k \in pending : map[k] # Null
  /\ CutFile /\ Return /\ UNCHANGED store

(* The value of an entry without one is dereferenced.                      *)
SaveNull ==
  /\ pc = "save" /\ \E k \in pending : map[k] = Null
  /\ CutFile /\ Die("crashed")

SaveDone ==
  /\ pc = "save" /\ pending = {}
  /\ Return /\ UNCHANGED <<store, file>>

LoadOpen ==
  /\ AtFileCommand("LOAD") /\ cmd.args = <<>> /\ disk # Nil
  /\ pending' = Entries(disk) /\ pc' = "load"
  /\ UNCHANGED <<store, transac, wal, committing, query, cmd, i, file>>

(* Mutant: a key the store does not hold is not loaded.                    *)
LoadItemUpdates(k) ==
  /\ pc = "load" /\ k \in pending
  /\ Update(k, disk[k]) /\ pending' = pending \ {k}
  /\ UNCHANGED <<transac, wal, committing, query, cmd, i, file, pc>>

LoadItem(k) ==
  /\ pc = "load" /\ k \in pending
  /\ Set(k, disk[k]) /\ pending' = pending \ {k}
  /\ UNCHANGED <<transac, wal, committing, query, cmd, i, file, pc>>

LoadDone ==
  /\ pc = "load" /\ pending = {} /\ cut = Nil
  /\ Return /\ UNCHANGED <<store, file>>

(* The entry the file ends in comes last, and nobody looks at the state of *)
(* the stream: a value nobody wrote is stored under its key,               *)
AtCut == pc = "load" /\ pending = {} /\ cut # Nil

LoadCut ==
  /\ AtCut
  /\ \E v \in Unwritten : Set(cut, v)
  /\ Return /\ UNCHANGED file

(* or fromFile throws, for a type that is none or for want of memory.      *)
(* C++11 leaves open which side of map_[key] = fromFile(fp) is evaluated   *)
(* first: a new key may be left without a value.                           *)
LoadThrows ==
  /\ AtCut
  /\ UNCHANGED store \/ LeaveNull(cut)
  /\ Throw /\ UNCHANGED file

(* or it reads a list in a list in a list, until the stack is full.        *)
LoadOverflows == AtCut /\ Die("crashed") /\ UNCHANGED file

-----------------------------------------------------------------------------
(* The process.                                                            *)

(* What a SAVE has written may still be on its way to the file.            *)
Kill ==
  /\ pc \in Alive /\ Die("killed")
  /\ IF pc = "save" THEN CutFile ELSE UNCHANGED file

Restart ==
  /\ pc \in Stopped /\ pc' = "idle"
  /\ UNCHANGED <<store, transac, wal, committing, query, loop, file>>

SystemStep == Quit \/ Clear \/ Begin \/ Rollback \/ Commit \/ CommitNext \/ CommitDone
HandlerStep == QueryDone \/ RejectCommand \/ LogCommand \/ ExecuteNow
StoreStep ==
  \/ SetArg \/ UpdateArg \/ DelArg \/ RenameArg
  \/ BumpArg \/ ExtendArgs
ReportStep ==
  \/ Finish \/ ReadArg \/ ResolveArg \/ SkipBump \/ SkipExtend \/ CircularKey
  \/ Report \/ RenameRefused \/ RenameAsk
CrashStep == NullDeref \/ ListNull \/ SaveNull \/ LoadOverflows
FileStep ==
  \/ BadFileName \/ FileError
  \/ SaveOpen \/ SaveDone \/ \E k \in Key : SaveItem(k)
  \/ LoadOpen \/ LoadDone \/ LoadCut \/ LoadThrows \/ \E k \in Key : LoadItem(k)

(* What the program does by itself.                                        *)
Internal ==
  SystemStep \/ HandlerStep \/ StoreStep \/ ReportStep \/ FileStep \/ CrashStep

(* What the user, the file system and the operating system do.             *)
External ==
  \/ \E q \in Queries : Submit(q)
  \/ AnswerYes \/ AnswerNo \/ SaveLost \/ Kill \/ Restart

Next == Internal \/ External

Spec == Init /\ [][Next]_vars

(* The program runs as long as it has something to do; nobody has to type, *)
(* to answer, to kill or to restart it.                                    *)
FairSpec == Spec /\ WF_vars(Internal)

-----------------------------------------------------------------------------
(* Properties.                                                             *)

(* Commands wait in the log only while a transaction is open, so that a    *)
(* COMMIT outside a transaction runs nothing (environment.h, COMMIT and    *)
(* ROLLBACK, and the exceptions that leave a COMMIT half way).             *)
WalOnlyInTxn == wal # <<>> => transac

(* What execute relies on: whatever runs, and whatever waits in the log to *)
(* run, was accepted by validate().  The log holds no command that a       *)
(* transaction lets run in real time, and in an open transaction nothing   *)
(* else runs before COMMIT (handler.cpp, syntax_tree.h).                   *)
LoggedValidated ==
  /\ \A j \in DOMAIN wal : Validate(wal[j]) /\ Logged(wal[j])
  /\ cmd # Nil => Validate(cmd) /\ cmd.type \notin SystemCommands
  /\ committing /\ cmd # Nil => Logged(cmd)
  /\ transac /\ ~committing /\ cmd # Nil => IgnoresTransactions(cmd)

(* The loops over pairs stay on the first element of a pair, a command is  *)
(* executing exactly when the program is inside one's execute, no file is  *)
(* touched during a COMMIT, what SAVE and LOAD still have to do is there   *)
(* to be done, and the entry a file ends in is none of its whole ones      *)
(* (the loops of command_ast_nodes.cpp and store.cpp).                     *)
Aligned ==
  /\ cmd # Nil <=> pc \in {"exec", "ask", "save", "load"}
  /\ IF cmd = Nil THEN i = 1
     ELSE /\ cmd.type \in PairCommands => i % 2 = 1
          /\ cmd.type \in ExtendCommands => i = 1
  /\ committing => pc \in {"commit", "exec", "ask"}
  /\ pc = "commit" => committing
  /\ pc = "ask" => cmd.type = "RENAME" /\ i + 1 <= Len(cmd.args) /\ NamesKeys
  /\ pc = "save" => cmd.type = "SAVE" /\ disk # Nil /\ \A k \in pending : Contains(k)
  /\ pc = "load" => cmd.type = "LOAD" /\ disk # Nil /\ pending \subseteq Entries(disk)
  /\ cut # Nil => disk # Nil /\ disk[cut] = Nil

Running(types) == pc \in {"exec", "ask"} /\ cmd.type \in types /\ pc' \notin Stopped

(* An INCR, DECR, APPEND or PREPEND that changes anything changes one      *)
(* value: the one its key leads to through aliases.  Every alias of it     *)
(* still leads there and so sees it changed, and no other key's own value  *)
(* changes (IncrementCommand, AppendCommand, the shared pointers of the    *)
(* store, Store::resolve).                                                 *)
MutationReachesAliases ==
  [][Running({"INCR", "DECR"} \cup ExtendCommands) /\ Contents' # Contents =>
       LET t == Resolve(Contents, KeyAt(i), FALSE).at IN
       /\ Contents'[t] # Contents[t]
       /\ \A k \in Key \ {t} : Contents'[k] = Contents[k]
       /\ \A k \in Key : Resolve(Contents, k, FALSE).at = t =>
            Resolve(Contents', k, FALSE) = Outcome("FOUND", t, Contents'[t])]_vars

(* A RENAME destroys a value only by writing another one over it, and only *)
(* with the user's consent, by option or by answer; the value it moves is  *)
(* never lost, not even when a key is renamed to itself (RenameCommand,    *)
(* Store::rename).                                                         *)
RenameLosesNothing ==
  [][Running({"RENAME"}) =>
       \A r \in Ref : heap'[r] # heap[r] =>
         /\ r = map[KeyAt(i + 1)] /\ r # map[KeyAt(i)]
         /\ pc = "ask" \/ "YES" \in cmd.opts]_vars

(* Between BEGIN and COMMIT the store changes only by what a LOAD, which   *)
(* is not logged, reads (Handler::handleQuery, BeginCommand).              *)
TxnIsolation ==
  [][transac /\ ~committing /\ Contents' # Contents
       => pc = "load" \/ pc' \in Stopped]_vars

(* The program keeps the promise of TxnSpec: a logged command is run at    *)
(* most once, in the order of logging, or discarded, a command changes no  *)
(* key but those it is about, and nothing but commands changes the store.  *)
Abstract ==
  INSTANCE TxnSpec WITH kv <- Contents, open <- transac, log <- wal, active <- cmd
KeepsTxnSpec == Abstract!Txn

(* The work a line starts ends, unless the user is asked or the program    *)
(* stops: the loops over arguments, over the log and over the entries of a *)
(* file do, replays that throw half way and logs that are replayed again   *)
(* included (Handler::handleQuery, Environment::executeAllWAL).            *)
QueryCompletes == pc \in Working ~> pc \notin Working

-----------------------------------------------------------------------------
(* What the repository says of the program and the program does not do.    *)

(* include/syntax_tree.h: execute() may assume the node validated.  Then   *)
(* no validated command brings the program down (RenameCommand::validate). *)
ValidatedNeverCrashes == pc # "crashed"
=============================================================================
