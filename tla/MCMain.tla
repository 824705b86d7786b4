------------------------------- MODULE MCMain -------------------------------
(* Inputs of three kinds: one line of any characters, or one \s command    *)
(* with any short tail of brackets and digits, of delimiters, quotation    *)
(* marks, dashes, points and letters, or of semicolons; a few lines        *)
(* that rename, set and quit, with and without a newline at the end; and   *)
(* scripts of one or two files, some of which cannot be opened.            *)
EXTENDS KeplerGrammar, TLC

WordsToCmd ==
  (<<"s">> :> "SET") @@ (<<"r", "n">> :> "RENAME") @@ (<<"q">> :> "QUIT")

YesOption == {<<"s">>}
NoOption  == {<<"n">>}
TooBig    == {<<"1", "1">>}

Set    == <<"\\", "s">>
Ask    == <<"\\", "r", "n", " ", "s", " ", "n">>
AskYes == Ask \o <<" ", "-", "-", "s">>
Leave  == <<"\\", "q">>
Plain  == <<"n">>

InputOf(lines, newline) ==
  [script |-> FALSE,
   files |-> <<[opens |-> TRUE, short |-> FALSE, lines |-> lines, newline |-> newline]>>]

AnyLine == UNION {[1 .. k -> Char] : k \in 0 .. 3}
Tails   == UNION {[1 .. k -> {"[", "]", "1", ";"}] : k \in 0 .. 6}
          \cup UNION {[1 .. k -> {"[", ",", "-", "'", "s", ".", ";"}] : k \in 0 .. 4}
Listing == {Set \o <<" ">> \o t : t \in Tails}

Dialogs == UNION {[1 .. k -> {Ask, AskYes, Plain, Set, Leave, <<>>}] : k \in 0 .. 3}

OneLine == {InputOf(<<l>>, TRUE) : l \in AnyLine \cup Listing}
Talks   == {InputOf(d, b) : d \in Dialogs, b \in BOOLEAN}

(* No file ends with an empty line that no newline ends.                   *)
Real(p) ==
  LET file == p.files[1] IN
  ~file.newline => file.lines # <<>> /\ file.lines[Len(file.lines)] # <<>>

ScriptLines == {Set, Plain, Set \o <<";">>, <<";">>, <<"1", ";">>, Set \o <<";">> \o Set \o <<";">>,
                Leave \o <<";">>}
Script == [opens : {TRUE}, short : {FALSE}, newline : {TRUE},
           lines : UNION {[1 .. k -> ScriptLines] : k \in 0 .. 2}]
Long   == [opens : {TRUE}, short : {FALSE}, newline : {TRUE}, lines : [1 .. 3 -> ScriptLines]]
Broken == [opens : {TRUE}, short : {TRUE}, newline : {TRUE}, lines : {<<>>}]
          \cup [opens : {FALSE}, short : {FALSE}, newline : {TRUE}, lines : {<<>>}]

Scripts ==
  [script : {TRUE},
   files : {<<>>} \cup {<<a>> : a \in Long} \cup {<<a, b>> : a \in Script, b \in Script \cup Broken}]

AllPrograms == OneLine \cup {p \in Talks : Real(p)} \cup Scripts

Matrix ==
  {InputOf(<<Set \o <<" ">> \o t>>, TRUE) : t \in [1 .. 8 -> {"[", "]", "1"}]}
TwoPerLine == [script : {TRUE}, files : {<<a>> : a \in Script}]
=============================================================================
