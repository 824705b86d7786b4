------------------------------ MODULE MCKepler ------------------------------
(* Small instances of Kepler for TLC: what the user may type in each run.  *)
EXTENDS Kepler, TLC

CONSTANTS a, b, c

Cmd(t, args)        == [type |-> t, args |-> args, opts |-> {}]
CmdWith(t, args, o) == [type |-> t, args |-> args, opts |-> {o}]
Id(k) == [type |-> "IDENTIFIER", val |-> k]
IntOf(n) == [type |-> "INT", val |-> n]
FloatOf(n) == [type |-> "FLOAT", val |-> n]
StringOf(s) == [type |-> "STRING", val |-> s]
ListOf(items) == [type |-> "LIST", val |-> items]

Symmetry == Permutations(Ref)
KeySymmetry == Permutations(Ref) \cup Permutations(Key)

CommandsIn(queries) == UNION {{q[j] : j \in DOMAIN q} : q \in queries}
OneByOne(commands) == {<<x>> : x \in commands}

(* Numbers, and lists with aliases in them, changed through aliases.       *)
StoreCommands ==
  UNION {{Cmd("SET", <<Id(k), IntOf(0)>>), Cmd("SET", <<Id(k), FloatOf(0)>>),
          Cmd("SET", <<Id(k), ListOf(<<>>)>>), Cmd("DELETE", <<Id(k)>>),
          Cmd("INCR", <<Id(k)>>), Cmd("DECR", <<Id(k)>>), Cmd("RESOLVE", <<Id(k)>>),
          Cmd("PREPEND", <<Id(k), FloatOf(1), ListOf(<<>>)>>)} : k \in Key}
  \cup UNION {{Cmd("SET", <<Id(k), Id(l)>>), Cmd("UPDATE", <<Id(k), Id(l)>>),
               Cmd("RENAME", <<Id(k), Id(l)>>), Cmd("INCR", <<Id(k), Id(l)>>),
               CmdWith("RENAME", <<Id(k), Id(l), Id(l), Id(k)>>, "YES"),
               Cmd("APPEND", <<Id(k), Id(l)>>)} : k, l \in Key}
StoreQueries == OneByOne(StoreCommands)

(* Transactions, with commands that throw, ask or crash when they run, and *)
(* with files saved and loaded in the middle.                              *)
TxnCommands ==
  {Cmd(t, <<>>) : t \in {"BEGIN", "COMMIT", "ROLLBACK", "QUIT", "CLEAR", "LIST", "STATS",
                         "SAVE", "LOAD"}}
  \cup {Cmd("SET", <<Id(a), FloatOf(1), Id(b), Id(b)>>), Cmd("SET", <<Id(a)>>),
        Cmd("INCR", <<Id(a), Id(b)>>), Cmd("RESOLVE", <<Id(a), Id(b)>>),
        Cmd("GET", <<Id(a), IntOf(0)>>),
        Cmd("RENAME", <<Id(a), Id(b)>>), CmdWith("RENAME", <<Id(b), Id(a)>>, "NO"),
        Cmd("RENAME", <<Id(a), IntOf(0)>>),
        Cmd("SEARCH", <<StringOf(a)>>), Cmd("SEARCH", <<Id(a)>>), Cmd("LOAD", <<StringOf(a)>>)}
TxnQueries ==
  OneByOne(TxnCommands)
  \cup {<<Cmd("BEGIN", <<>>), Cmd("INCR", <<Id(a), Id(b)>>), Cmd("COMMIT", <<>>)>>}
(* A cut entry may come to a number.                                       *)
TxnMisread == {FloatOf(1)}

(* A cut entry may come to an alias of a torn key.                         *)
Misread == {Id(Torn)}

(* Files: what is saved, loaded, killed and restarted.                     *)
FileCommandSet ==
  {Cmd(t, <<>>) : t \in {"BEGIN", "COMMIT", "SAVE", "LOAD", "LIST"}}
  \cup {Cmd("SAVE", <<Id(a)>>), Cmd("LOAD", <<StringOf(a)>>),
        Cmd("RENAME", <<Id(a), IntOf(0)>>), Cmd("GET", <<Id(a), IntOf(0)>>),
        Cmd("SET", <<Id(a), IntOf(0)>>), Cmd("SET", <<Id(b), IntOf(0)>>),
        Cmd("DELETE", <<Id(b)>>)}
FileQueries == OneByOne(FileCommandSet)

(* A transaction whose second command is a circular reference.             *)
ClaimCommands ==
  {Cmd("BEGIN", <<>>), Cmd("COMMIT", <<>>), Cmd("SET", <<Id(a), IntOf(0)>>),
   Cmd("SET", <<Id(b), Id(b)>>), Cmd("RESOLVE", <<Id(b)>>), Cmd("INCR", <<Id(a)>>),
   Cmd("RENAME", <<Id(a), IntOf(0)>>), Cmd("RENAME", <<Id(a), Id(c), Id(b), Id(c)>>)}
ClaimQueries == OneByOne(ClaimCommands)
=============================================================================
