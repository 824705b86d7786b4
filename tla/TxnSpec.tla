------------------------------ MODULE TxnSpec ------------------------------
(***************************************************************************)
(* What KeplerKV promises of commands and transactions, without lines,     *)
(* loops, cells, prompts or files: commands run one at a time; while a     *)
(* transaction is open the ones that respect transactions are put off, and *)
(* each is later run at most once, in the order it was given, or           *)
(* discarded; a running command changes the keys it is about, and nothing  *)
(* else ever changes a key.                                                *)
(***************************************************************************)
EXTENDS KeplerValues

CONSTANT Commands   (* the commands a user may give *)

VARIABLES
  kv,       (* the value of each key, Nil for none                         *)
  open,     (* whether a transaction is open                               *)
  log,      (* the commands put off                                        *)
  active    (* the command running, Nil for none                           *)

txnVars == <<kv, open, log, active>>

TxnInit ==
  /\ kv = [k \in Key |-> Nil]
  /\ open = FALSE /\ log = <<>> /\ active = Nil

(* The positions of a command's arguments that say what it is about.       *)
Subjects(c) ==
  {j \in DOMAIN c.args :
     /\ IsIdent(c.args[j])
     /\ c.type \in {"SET", "UPDATE"} => j % 2 = 1
     /\ c.type \in ExtendCommands => j = 1}

(* The keys the command may change, given what the store holds: INCR,      *)
(* DECR, APPEND and PREPEND follow aliases, the others do not.             *)
About(c) ==
  CASE c.type \in PairCommands \cup {"DELETE"}         -> {c.args[j].val : j \in Subjects(c)}
    [] c.type \in {"INCR", "DECR"} \cup ExtendCommands ->
         {Resolve(kv, c.args[j].val, FALSE).at : j \in Subjects(c)}
    [] c.type = "LOAD"                                 -> Key
    [] OTHER                                           -> {}

Idle == active = Nil /\ UNCHANGED kv

Open == Idle /\ open' = TRUE /\ UNCHANGED <<log, active>>

PutOff(c) ==
  /\ Idle /\ open /\ Validate(c) /\ ~IgnoresTransactions(c)
  /\ log' = Append(log, c) /\ UNCHANGED <<open, active>>

RunNow(c) ==
  /\ Idle /\ Validate(c) /\ (open => IgnoresTransactions(c))
  /\ active' = c /\ UNCHANGED <<open, log>>

RunNext ==
  /\ Idle /\ open /\ log # <<>>
  /\ active' = Head(log) /\ log' = Tail(log) /\ UNCHANGED open

Close == Idle /\ log = <<>> /\ open' = FALSE /\ UNCHANGED <<log, active>>

Discard == Idle /\ log' = <<>> /\ open' = FALSE /\ UNCHANGED active

(* A running command does some of its work, and may be over by that.       *)
Work ==
  /\ active # Nil /\ active' \in {active, Nil}
  /\ kv' \in [Key -> Value \cup {Nil}]
  /\ \A k \in Key \ About(active) : kv'[k] = kv[k]
  /\ UNCHANGED <<open, log>>

(* The process ends; nothing in memory is left.                            *)
End == kv' = [k \in Key |-> Nil] /\ open' = FALSE /\ log' = <<>> /\ active' = Nil

TxnNext ==
  \/ Open \/ RunNext \/ Close \/ Discard \/ Work \/ End
  \/ \E c \in Commands : PutOff(c) \/ RunNow(c)

Txn == TxnInit /\ [][TxnNext]_txnVars
=============================================================================
