--------------------------- MODULE KeplerHistory ---------------------------
(***************************************************************************)
(* Kepler with a memory of what the store was when a command, a            *)
(* transaction or a save began, for the properties that compare a state to *)
(* an earlier one.  The history variables change nothing in the program.   *)
(***************************************************************************)
EXTENDS Kepler

VARIABLES
  began,      (* the contents when the running command began               *)
  origin,     (* the contents when the open transaction began, with what a *)
              (* LOAD has read since                                       *)
  saved,      (* the contents when the last SAVE opened the file           *)
  failed      (* the keys at which a LOAD of this process threw            *)

hvars == <<vars, began, origin, saved, failed>>

HistoryInit ==
  Init /\ began = Empty /\ origin = Empty /\ saved = Empty /\ failed = {}

Remember ==
  /\ began' = IF cmd' = Nil THEN Empty ELSE IF cmd = Nil THEN Contents ELSE began
  /\ origin' = IF ~transac' THEN Empty
               ELSE IF ~transac THEN Contents
               ELSE IF pc = "load"
                 THEN [k \in Key |-> IF Contents'[k] = Contents[k] THEN origin[k]
                                                                   ELSE Contents'[k]]
               ELSE origin
  /\ saved' = IF pc # "save" /\ pc' = "save" THEN Contents ELSE saved
  /\ failed' = IF pc' \in Stopped THEN {}
               ELSE IF pc = "load" /\ pc' = "idle" THEN failed \cup {cut}
               ELSE failed

HistoryNext == Next /\ Remember

HistorySpec == HistoryInit /\ [][HistoryNext]_hvars

-----------------------------------------------------------------------------
(* At every step of a LOAD the process survives, an exception included, a  *)
(* key holds what the file has for it if its entry has been read whole,    *)
(* and what it held before the LOAD if not; none is lost.  Only a LOAD     *)
(* that ends without an exception may differ, and only at the key of the   *)
(* entry in which the file ends: there it stores a value nobody wrote      *)
(* (Store::loadFromFile).                                                  *)
LoadMerges ==
  [][pc = "load" /\ pc' \notin Stopped =>
       \A k \in Key : (k = cut => pc' # "dispatch") =>
         Contents'[k] = IF k \in Entries(disk) \ pending' THEN disk[k]
                                                         ELSE began[k]]_hvars

(* Of the commands validate() accepts three can bring the program down: a  *)
(* RENAME to a name that is no identifier, a LIST or SAVE after a LOAD in  *)
(* the same process threw at a key where a GET still finds nothing, and a  *)
(* LOAD of a file that ends within an entry (command_ast_nodes.cpp,        *)
(* Store::saveToFile, Store::loadFromFile, ListValue::deserialize).        *)
CrashesHaveCause ==
  [][pc' = "crashed" /\ pc # "crashed" =>
       /\ cmd # Nil
       /\ \/ cmd.type = "RENAME" /\ ~IsIdent(cmd.args[i + 1])
          \/ cmd.type \in {"LIST", "SAVE"} /\ \E k \in failed : Contents[k] = Nil
          \/ cmd.type = "LOAD" /\ cut # Nil]_hvars

(* The file never mixes two saves: every entry in it is one the store had  *)
(* when the last SAVE opened it, however that SAVE ended                   *)
(* (Store::saveToFile).                                                    *)
NoMixedSave ==
  disk # Nil => \A k \in Key : disk[k] \in {Nil, saved[k]}

(* README.md: transactions and ACID.  A transaction that is still open has *)
(* left no trace in the store (CommitCommand, Handler::handleQuery).       *)
OpenTxnLeavesNoTrace == transac /\ ~committing => Contents = origin

(* The message of RenameCommand: no changes made to the store.             *)
DeclinedRenameChangesNothing ==
  [][AnswerNo \/ RenameRefused => Contents = began]_hvars
=============================================================================
