--------------------------- MODULE KeplerGrammar ---------------------------
(***************************************************************************)
(* What the lines of the input mean to whoever writes them, and what the   *)
(* program makes of them: the arguments of a command written out again,    *)
(* the lines of a script gathered up to the next semicolon.                *)
(***************************************************************************)
EXTENDS KeplerMain, KeplerBuffer

(* The commands of the query at hand: the nodes of the last one stay until *)
(* the parser starts.                                                      *)
Built == IF pc \in {"parse", "run"} THEN DOMAIN nodes ELSE {}

(* How the ends of a list are written, when only values count and when     *)
(* brackets count too.                                                     *)
Silent   == [open |-> <<>>, close |-> <<>>]
Opening  == [type |-> "LIST_START"]
Closing  == [type |-> "LIST_END"]
Brackets == [open |-> <<Opening>>, close |-> <<Closing>>]

(* What an argument can be, in which lists are nested at most d deep.      *)
Nested[d \in Nat] ==
  IF d = 0 THEN Token ELSE Token \cup [type : {"LIST"}, items : Seq(Nested[d - 1])]

(* Such an argument as it is written, from left to right.                  *)
Spelled(b) ==
  LET text[d \in Nat] == [v \in Nested[d] |->
        IF v.type = "LIST"
          THEN Buffer(b.open, [j \in DOMAIN v.items |-> text[d - 1][v.items[j]]])[Len(v.items)]
               \o b.close
          ELSE <<v>>]
  IN  text

(* No argument nests more lists than the query has tokens.                 *)
Texts(b, vs) == [j \in DOMAIN vs |-> Spelled(b)[Len(tokens)][vs[j]]]
Args(b, c)   == Buffer(<<>>, Texts(b, c.args))[Len(c.args)]

(* The tokens that stand for values and, if b counts them, for brackets.   *)
IsLeaf(t) == t.type \in {"IDENTIFIER", "STRING", "NUMBER"}
Part(b, t) ==
  CASE IsLeaf(t) -> <<t>>
    [] t.type = "LIST_START" -> b.open
    [] t.type = "LIST_END" -> b.close
    [] OTHER -> <<>>

(* Those among the tokens that follow the token at p, one by one.          *)
After(b, p) == Buffer(<<>>, [j \in 1 .. Len(tokens) - p |-> Part(b, tokens[p + j])])

(* Those of the statement a command begins.                                *)
EndOf(p) ==
  CHOOSE j \in p + 1 .. Len(tokens) :
    tokens[j].type = "END" /\ \A k \in p + 1 .. j - 1 : tokens[k].type # "END"
Source(b, c) == After(b, c.at)[EndOf(c.at) - 1 - c.at]

Depth(s, j) == Cardinality({k \in 1 .. j : s[k] = Opening})
               - Cardinality({k \in 1 .. j : s[k] = Closing})

Balanced(s) == Depth(s, Len(s)) = 0 /\ \A j \in DOMAIN s : Depth(s, j) >= 0

(* A list within a list is the last of its elements.                       *)
InnerListsLast(s) ==
  \A j \in DOMAIN s : s[j] = Closing /\ Depth(s, j) > 0 => s[j + 1] = Closing

-----------------------------------------------------------------------------
(* Every value of a statement that is parsed without an exception becomes  *)
(* an argument of its command, or an element of one, once and in order,    *)
(* whatever the brackets around it (parseCommand_, parseValue_,            *)
(* parseList_).                                                            *)
NoValueLost == \A j \in Built : Args(Silent, nodes[j]) = Source(Silent, nodes[j])

ReadsBack(c) == Args(Brackets, c) = Source(Brackets, c)

(* Lists that hold a list only as their last element are parsed as they    *)
(* are written; parseList_ leaves every closing bracket where it is, and   *)
(* the lists around it all end at the first.                               *)
ListsReadBack ==
  \A j \in Built :
    Balanced(Source(Brackets, nodes[j])) /\ InnerListsLast(Source(Brackets, nodes[j]))
      => ReadsBack(nodes[j])

(* The lines read so far in which a query ends.                            *)
Semicolons(l) == {p \in DOMAIN l : l[p] = SEMICOLON}
Ending == {j \in 1 .. n : Semicolons(Lines[j]) # {}}

(* The line in which the k-th query of the file ends.                      *)
EndLine(k) == IF k = 0 THEN 0 ELSE Kth(Ending, k)

(* The text of the lines that follow line a, one by one, a space for each  *)
(* newline; of a line in which a query ends, what its first semicolon ends.*)
LinesAfter(a) == Buffer(<<>>, [j \in 1 .. Len(Lines) - a |-> Lines[a + j] \o <<WHITESPACE>>])
Cut(l) == SubSeq(l, 1, (CHOOSE p \in Semicolons(l) : \A r \in Semicolons(l) : p <= r) - 1)

(* The query that ends in the line with the k-th end: the lines since the  *)
(* last one that ended a query, and of its own what is in front of its     *)
(* first semicolon.  What follows that semicolon in its line is dropped.   *)
QueryOf(k) ==
  LET a == EndLine(k - 1)
      z == EndLine(k)
  IN  LinesAfter(a)[z - 1 - a] \o Cut(Lines[z])

(* A script hands over one query for each line with a semicolon: the lines *)
(* since the last such line, joined, up to the first semicolon in it; the  *)
(* rest of that line is dropped.  Nothing of a statement that failed, or   *)
(* of the file before, gets into the next query, and while the program     *)
(* reads the buffer holds the lines since the last one with a semicolon    *)
(* (fromFile()).                                                           *)
GivenMatchesFile ==
  program.script /\ pc \in {"read", "lex", "parse", "run"} =>
    LET last == EndLine(Cardinality(Ending)) IN
    /\ given = [k \in 1 .. Cardinality(Ending) |-> QueryOf(k)]
    /\ pc = "read" => query = LinesAfter(last)[n - last]

-----------------------------------------------------------------------------
(* What the manual says and the program does not do.                       *)

(* docs/manual.md: lists of several dimensions are supported.  Then lists  *)
(* with matching brackets are parsed as they are written (parseList_).     *)
MatrixReadsBack ==
  \A j \in Built : Balanced(Source(Brackets, nodes[j])) => ReadsBack(nodes[j])

(* docs/manual.md: several commands can be given at once, separated by     *)
(* semicolons.  Then a script hands over a query for each semicolon        *)
(* (fromFile()).                                                           *)
SemicolonsSeparate ==
  program.script /\ pc = "read" =>
    Len(given) = Cardinality(UNION {{j} \X Semicolons(Lines[j]) : j \in 1 .. n})
=============================================================================
