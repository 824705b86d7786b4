----------------------------- MODULE KeplerMain -----------------------------
(***************************************************************************)
(* The way of the input into the program (src/main.cpp, the first lines of *)
(* Handler::handleQuery): interactive() hands over a line of the standard  *)
(* input at a time, which RENAME reads too when it asks; fromFile() cuts   *)
(* script files at semicolons.  What is handed over goes through the Lexer *)
(* and the Parser, which both keep what they made of the last query.  What *)
(* the commands then do is the module Kepler; here they only end, ask for  *)
(* an answer, quit or bring the process down.                              *)
(***************************************************************************)
EXTENDS KeplerParser, FiniteSets

CONSTANT Programs     (* the command lines and inputs the program may get *)

(* A file, or the standard input: whether it opens, whether its name is    *)
(* shorter than the extension that is cut off it, its lines and whether    *)
(* the last of them ends with a newline.  A program in interactive mode    *)
(* has one file, the standard input.                                       *)
File == [opens : BOOLEAN, short : BOOLEAN, lines : Seq(Seq(Char)), newline : BOOLEAN]

ASSUME ProgramAssumption ==
  /\ Programs \subseteq [script : BOOLEAN, files : Seq(File)]
  /\ \A p \in Programs :
       ~p.script => /\ Len(p.files) = 1 /\ p.files[1].opens
                    /\ p.files[1].lines = <<>> => p.files[1].newline

VARIABLES
  program,     (* what main was started with                               *)
  f,           (* the file that is read                                    *)
  n,           (* the lines read of it                                     *)
  query,       (* input of interactive(), query of fromFile()              *)
  eof,         (* the standard input has nothing more to give              *)
  asks,        (* the questions RENAMEs handed over so far may still ask   *)
  pc,          (* where the program is                                     *)
  given,       (* history: the queries of this file handed over            *)
  answers      (* history: the lines that went to RENAME as answers, one   *)
               (* past the last for an answer read at the end              *)

main == <<program, f, n, query, eof, asks, pc, given, answers>>
vars == <<lexer, parser, main>>

Lines   == program.files[f].lines
Newline == program.files[f].newline

Init ==
  /\ program \in Programs
  /\ line = <<>> /\ it = 1 /\ tokens = <<>>
  /\ tt = 1 /\ nodes = <<>> /\ command = NullCommand /\ lists = <<>>
  /\ f = 1 /\ n = 0 /\ query = <<>> /\ eof = FALSE /\ asks = 0
  /\ pc = (IF program.script THEN "open" ELSE "read")
  /\ given = <<>> /\ answers = {}

-----------------------------------------------------------------------------
(* The start of handleQuery.  An empty query leaves no tokens and no       *)
(* commands.  Bound: the history ends once a line is handed over again and *)
(* again at the end of the input.                                          *)
HandOver(q) ==
  /\ query' = q
  /\ Tokenize(q)
  /\ IF q = <<>> THEN StartParse /\ pc' = "run"
                 ELSE UNCHANGED parser /\ pc' = "lex"
  /\ given' = IF Len(given) > Len(Lines) + 1 THEN given ELSE Append(given, q)

(* interactive(): std::getline takes a line; the last one, when no newline *)
(* ends it, is taken together with the end of the input.                   *)
Interactive == pc = "read" /\ ~program.script

ReadInput ==
  /\ Interactive /\ ~eof /\ n < Len(Lines)
  /\ HandOver(Lines[n + 1]) /\ n' = n + 1
  /\ eof' = (n + 1 = Len(Lines) /\ ~Newline)
  /\ UNCHANGED <<program, f, asks, answers>>

(* Mutant: the end of the input leaves the last line in the buffer.        *)
ReadEndKeeps ==
  /\ Interactive /\ ~eof /\ n = Len(Lines)
  /\ HandOver(query) /\ eof' = TRUE
  /\ UNCHANGED <<program, f, n, asks, answers>>

(* The first call that finds nothing empties the buffer.                   *)
ReadEnd ==
  /\ Interactive /\ ~eof /\ n = Len(Lines)
  /\ HandOver(<<>>) /\ eof' = TRUE
  /\ UNCHANGED <<program, f, n, asks, answers>>

(* A stream that knows of its end does not touch the buffer: whatever is   *)
(* in it is handed over again, for ever.                                   *)
ReadAgain ==
  /\ Interactive /\ eof
  /\ HandOver(query)
  /\ UNCHANGED <<program, f, n, eof, asks, answers>>

(* fromFile(): a file that is not a .kep file is warned about and read all *)
(* the same; one that does not open, or whose name has no place for an     *)
(* extension, ends the program with an exception.                          *)
OpenFile ==
  /\ pc = "open" /\ f <= Len(program.files)
  /\ program.files[f].opens /\ ~program.files[f].short
  /\ n' = 0 /\ query' = <<>> /\ pc' = "read" /\ given' = <<>>
  /\ UNCHANGED <<lexer, parser, program, f, eof, asks, answers>>

AbortOpen ==
  /\ pc = "open" /\ f <= Len(program.files)
  /\ ~program.files[f].opens \/ program.files[f].short
  /\ pc' = "aborted"
  /\ UNCHANGED <<lexer, parser, program, f, n, query, eof, asks, given, answers>>

ScriptsDone ==
  /\ pc = "open" /\ f > Len(program.files)
  /\ pc' = "exited"
  /\ UNCHANGED <<lexer, parser, program, f, n, query, eof, asks, given, answers>>

InScript == pc = "read" /\ program.script

(* A line without a semicolon goes into the query, with a space.           *)
ContinueQuery ==
  /\ InScript /\ n < Len(Lines) /\ SEMICOLON \notin {Lines[n + 1][p] : p \in DOMAIN Lines[n + 1]}
  /\ query' = query \o Lines[n + 1] \o <<WHITESPACE>> /\ n' = n + 1
  /\ UNCHANGED <<lexer, parser, program, f, eof, asks, pc, given, answers>>

(* The first semicolon of a line ends the query; the rest is dropped.      *)
EndQuery ==
  /\ InScript /\ n < Len(Lines)
  /\ \E p \in DOMAIN Lines[n + 1] :
       /\ Lines[n + 1][p] = SEMICOLON /\ \A r \in 1 .. p - 1 : Lines[n + 1][r] # SEMICOLON
       /\ HandOver(query \o SubSeq(Lines[n + 1], 1, p - 1))
  /\ n' = n + 1
  /\ UNCHANGED <<program, f, eof, asks, answers>>

(* A query that no semicolon has ended is dropped with the file.           *)
FileEnd ==
  /\ InScript /\ n = Len(Lines)
  /\ f' = f + 1 /\ pc' = "open"
  /\ UNCHANGED <<lexer, parser, program, n, query, eof, asks, given, answers>>

-----------------------------------------------------------------------------
(* handleQuery.                                                            *)

Lexing ==
  /\ pc = "lex" /\ LexToken
  /\ UNCHANGED <<parser, main>>

Lexed ==
  /\ pc = "lex" /\ LexEnd /\ StartParse
  /\ pc' = "parse"
  /\ UNCHANGED <<program, f, n, query, eof, asks, given, answers>>

Parsing ==
  /\ pc = "parse" /\ ParseToken
  /\ UNCHANGED <<lexer, main>>

(* Back in the loop that reads, which in a script starts the next query.   *)
BackToInput ==
  /\ query' = (IF program.script THEN <<>> ELSE query) /\ pc' = "read"
  /\ UNCHANGED <<program, f, n, eof, given, answers>>

(* Mutant: after an exception the query is not started anew.               *)
CaughtKeepsQuery ==
  /\ pc = "parse" /\ SyntaxError
  /\ pc' = "read"
  /\ UNCHANGED <<lexer, parser, program, f, n, query, eof, asks, given, answers>>

Caught ==
  /\ pc = "parse" /\ SyntaxError
  /\ BackToInput /\ UNCHANGED <<lexer, parser, asks>>

(* A RENAME without an option may ask about each of its pairs.             *)
Questions ==
  {a \in (1 .. Len(nodes)) \X (1 .. Len(tokens)) :
     LET c == nodes[a[1]] IN
     c.type = "RENAME" /\ c.opts = {} /\ 2 * a[2] <= Len(c.args)}

Parsed ==
  /\ pc = "parse" /\ ParseDone
  /\ pc' = "run" /\ asks' = (IF eof THEN asks ELSE asks + Cardinality(Questions))
  /\ UNCHANGED <<lexer, parser, program, f, n, query, eof, given, answers>>

Running(types) == pc = "run" /\ \E j \in DOMAIN nodes : nodes[j].type \in types

(* RENAME reads its answer, now or when COMMIT replays it: the next line   *)
(* of the input, or its end.                                               *)
Prompt ==
  /\ Running({"RENAME", "COMMIT"}) /\ ~program.script /\ asks > 0 /\ ~eof
  /\ asks' = asks - 1
  /\ answers' = answers \cup {n + 1}
  /\ n' = (IF n < Len(Lines) THEN n + 1 ELSE n)
  /\ eof' = (n' = Len(Lines) /\ (n = n' \/ ~Newline))
  /\ UNCHANGED <<lexer, parser, program, f, query, pc, given>>

(* The commands are done, or one of them threw an exception.               *)
Executed ==
  /\ pc = "run" /\ (nodes # <<>> => nodes[1].type # "QUIT")
  /\ BackToInput /\ UNCHANGED <<lexer, parser, asks>>

Quit ==
  /\ Running({"QUIT"}) /\ pc' = "exited"
  /\ UNCHANGED <<lexer, parser, program, f, n, query, eof, asks, given, answers>>

(* A command dereferences a null pointer (NullDeref of Kepler, and the     *)
(* commands that meet an entry without a value after a broken LOAD).       *)
Abort ==
  /\ Running({"RENAME", "COMMIT", "LIST", "SAVE"}) /\ pc' = "aborted"
  /\ UNCHANGED <<lexer, parser, program, f, n, query, eof, asks, given, answers>>

Next ==
  \/ ReadInput \/ ReadEnd \/ ReadAgain
  \/ OpenFile \/ AbortOpen \/ ScriptsDone \/ ContinueQuery \/ EndQuery \/ FileEnd
  \/ Lexing \/ Lexed \/ Parsing \/ Caught \/ Parsed
  \/ Prompt \/ Executed \/ Quit \/ Abort

(* The program takes its next step as long as it has one.                  *)
Spec == Init /\ [][Next]_vars /\ WF_vars(Next)

-----------------------------------------------------------------------------
(* The tokens' own bounds: it and tt never leave the text and the tokens   *)
(* they walk over, in any of the nested loops (lexer.cpp, parser.cpp).     *)
MainTypeOK ==
  /\ program \in [script : BOOLEAN, files : Seq(File)]
  /\ LexerTypeOK
  /\ tt \in Nat \ {0} /\ (pc = "parse" => tt <= Len(tokens) + 1)
  /\ f \in 1 .. Len(program.files) + 1 /\ n \in Nat /\ asks \in Nat
  /\ query \in Seq(Char) /\ eof \in BOOLEAN
  /\ pc \in {"open", "read", "lex", "parse", "run", "exited", "aborted"}
  /\ given \in Seq(Seq(Char)) /\ answers \subseteq Nat

(* The tokens at which the commands parsed so far begin.                   *)
Begun ==
  [j \in 1 .. Len(nodes) + (IF command = NullCommand THEN 0 ELSE 1) |->
     IF j <= Len(nodes) THEN nodes[j].at ELSE command.at]

(* The commands parsed so far are those of this query and no other, each   *)
(* exactly once and in the order written: nodes and tokens outlive a query *)
(* and one that was refused leaves both half filled (Parser::parse,        *)
(* Lexer::tokenize).                                                       *)
EveryCommandOnce ==
  pc # "lex" =>
    /\ \A j, k \in DOMAIN Begun : j < k => Begun[j] < Begun[k]
    /\ {Begun[j] : j \in DOMAIN Begun}
         = {k \in DOMAIN tokens : k < tt /\ tokens[k].type = "COMMAND"}

(* The k-th number of S, from below.                                       *)
Kth(S, k) == CHOOSE j \in {j \in S : Cardinality({l \in S : l <= j}) = k} : TRUE

LinesAt(S) == [k \in 1 .. Cardinality(S) |-> Lines[Kth(S, k)]]

(* The lines of the input that were queries.                               *)
QueryLines == LinesAt(1 .. n \ answers)

(* Every line of the input is handed over once, in order, or answers a     *)
(* RENAME; no answer is executed as a query too.  Only at the end of the   *)
(* input does something come again: the empty line, or the last query if   *)
(* its line, or an answer, ran into the end (interactive(), RenameCommand::*)
(* execute).                                                               *)
HandledOnce ==
  ~program.script =>
    LET q == QueryLines IN
    /\ Len(q) <= Len(given) /\ SubSeq(given, 1, Len(q)) = q
    /\ \A k \in Len(q) + 1 .. Len(given) :
         /\ eof
         /\ \/ given[k] = <<>>
            \/ /\ q # <<>> /\ given[k] = q[Len(q)]
               /\ ~Newline \/ Len(Lines) + 1 \in answers

(* Whatever the input, the lexer, the parser and the loops around them get *)
(* to its end: a script is done, an input is read up, or the program has   *)
(* stopped (main, interactive, fromFile).                                  *)
InputConsumed == <>(pc \in {"exited", "aborted"} \/ (~program.script /\ eof))
=============================================================================
