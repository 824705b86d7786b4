----------------------------- MODULE KeplerLexer -----------------------------
(***************************************************************************)
(* class Lexer (src/lexer.cpp, include/token.h): a line of characters is   *)
(* cut into tokens from left to right.  A token is kept as its type and    *)
(* the stretch of the line it stands for; its value, the text of that      *)
(* stretch, is looked up where it matters.  Each action is one turn of the *)
(* loop of tokenize with the whole lex function it calls.                  *)
(***************************************************************************)
EXTENDS Integers, Sequences

CONSTANTS
  Letters,     (* isalpha                                                  *)
  Digits,      (* isdigit                                                  *)
  Others       (* the characters that can begin no token                   *)

VARIABLES
  line,        (* the query that is read                                   *)
  it,          (* Lexer::it_                                               *)
  tokens       (* Lexer::tokens                                            *)

lexer == <<line, it, tokens>>

WHITESPACE   == " "
BACKSLASH    == "\\"
SINGLE_QUOTE == "'"
DOUBLE_QUOTE == "\""
UNDERSCORE   == "_"
COMMA        == ","
SEMICOLON    == ";"
DASH         == "-"
PLUS         == "+"
PERIOD       == "."

Marks  == {COMMA, SEMICOLON, "[", "]"}
Quotes == {SINGLE_QUOTE, DOUBLE_QUOTE}
Signs  == {PLUS, DASH}
Extra  == {WHITESPACE, BACKSLASH, UNDERSCORE, PERIOD}
Char   == Letters \cup Digits \cup Others \cup Marks \cup Quotes \cup Signs \cup Extra

ASSUME CharAssumption ==
  /\ "" \notin Char
  /\ Letters \cap Digits = {} /\ Others \cap (Letters \cup Digits) = {}
  /\ (Letters \cup Digits \cup Others) \cap (Marks \cup Quotes \cup Signs \cup Extra) = {}

IdentChars  == Letters \cup Digits \cup {UNDERSCORE}
NumberChars == Digits \cup Signs \cup {PERIOD}
WordChars   == Char \ {WHITESPACE, SEMICOLON}

(* peek_ and peekNext_: past the end there is only the null character.     *)
At(p) == IF p <= Len(line) THEN line[p] ELSE ""

(* Where a run of characters of S that begins at p ends.                   *)
Ends(p, q, S) == (\A r \in p .. q - 1 : line[r] \in S) /\ At(q) \notin S

(* Digits, a sign in front of them and one point.                          *)
NumberBody(p, q) ==
  \A r \in p .. q - 1 :
    /\ line[r] \in NumberChars
    /\ line[r] \in Signs => r = p
    /\ line[r] = PERIOD => \A s \in p .. r - 1 : line[s] # PERIOD

MarkType(c) ==
  CASE c = COMMA -> "DELIMITER" [] c = SEMICOLON -> "END"
    [] c = "[" -> "LIST_START" [] c = "]" -> "LIST_END"

TokenTypes == {"COMMAND", "IDENTIFIER", "NUMBER", "STRING", "OPTION", "DELIMITER",
               "LIST_START", "LIST_END", "END", "UNKNOWN"}
Token == [type : TokenTypes, first : Nat \ {0}, last : Nat]

Text(t) == SubSeq(line, t.first, t.last)

LexerTypeOK == line \in Seq(Char) /\ it \in 1 .. Len(line) + 1 /\ tokens \in Seq(Token)

-----------------------------------------------------------------------------
(* The token of the characters from it up to, not including, q.            *)
Push(type, q) ==
  /\ tokens' = Append(tokens, [type |-> type, first |-> it, last |-> q - 1])
  /\ it' = q
  /\ UNCHANGED line

Stops == it + 1 .. Len(line) + 1

(* Mutant: two characters are skipped.                                     *)
SkipTwo == At(it) = WHITESPACE /\ it' = it + 2 /\ UNCHANGED <<line, tokens>>

SkipSpace == At(it) = WHITESPACE /\ it' = it + 1 /\ UNCHANGED <<line, tokens>>

LexMark == At(it) \in Marks /\ Push(MarkType(At(it)), it + 1)

(* Mutant: a command ends at a space only.                                 *)
LexCommandToSpace ==
  At(it) = BACKSLASH /\ \E q \in Stops : Ends(it, q, Char \ {WHITESPACE}) /\ Push("COMMAND", q)

LexCommand ==
  At(it) = BACKSLASH /\ \E q \in Stops : Ends(it, q, WordChars) /\ Push("COMMAND", q)

LexIdentifier ==
  /\ At(it) \in Letters \cup {UNDERSCORE}
  /\ \E q \in Stops : Ends(it, q, IdentChars) /\ Push("IDENTIFIER", q)

(* A second sign or a second point ends the token and spoils it.           *)
LexNumber ==
  /\ At(it) \in Digits \cup {PLUS, PERIOD}
  /\ \E q \in Stops :
       /\ NumberBody(it, q)
       /\ q <= Len(line) => ~NumberBody(it, q + 1)
       /\ Push(IF At(q) \in NumberChars THEN "UNKNOWN" ELSE "NUMBER", q)

(* Mutant: the closing mark is skipped without a look whether it is there. *)
LexStringPast ==
  /\ At(it) \in Quotes
  /\ \E q \in Stops : Ends(it + 1, q, Char \ {At(it)}) /\ Push("STRING", q + 1)

(* A quotation mark without its partner takes the rest of the line and     *)
(* makes it unknown, unless it is the last character: then the mark is     *)
(* compared with itself and passes for a string.                           *)
LexString ==
  /\ At(it) \in Quotes
  /\ \E q \in Stops :
       /\ Ends(it + 1, q, Char \ {At(it)})
       /\ IF q <= Len(line) THEN Push("STRING", q + 1)
          ELSE Push(IF it = Len(line) THEN "STRING" ELSE "UNKNOWN", q)

LexOption ==
  /\ At(it) = DASH /\ At(it + 1) = DASH
  /\ \E q \in it + 2 .. Len(line) + 1 : Ends(it + 2, q, WordChars) /\ Push("OPTION", q)

(* A single minus sign is never read as a number: the test for what may    *)
(* follow it looks at the sign itself.                                     *)
LexUnknown ==
  /\ At(it) \in Others \/ (At(it) = DASH /\ At(it + 1) # DASH)
  /\ Push("UNKNOWN", it + 1)

LexToken ==
  \/ SkipSpace \/ LexMark \/ LexCommand \/ LexIdentifier \/ LexNumber
  \/ LexString \/ LexOption \/ LexUnknown

(* The start of tokenize, and its end: every line ends a statement.        *)
Tokenize(q) == line' = q /\ it' = 1 /\ tokens' = <<>>

LexEnd == it > Len(line) /\ line # <<>> /\ Push("END", it)

-----------------------------------------------------------------------------
(* Nothing of a line is lost or read twice: the tokens follow each other   *)
(* without overlap, and whatever has been passed is part of one of them or *)
(* a space, stray signs and unclosed strings included (Lexer::tokenize and *)
(* the lex functions, which each move the iterator themselves).            *)
TokensTile ==
  /\ \A j, k \in DOMAIN tokens : j < k => tokens[j].last < tokens[k].first
  /\ \A j \in DOMAIN tokens : tokens[j].last < it
  /\ \A p \in 1 .. Len(line) : p < it =>
       \/ line[p] = WHITESPACE
       \/ \E j \in DOMAIN tokens : tokens[j].first <= p /\ p <= tokens[j].last

(* No command, option, name or number swallows the end of its statement:   *)
(* a semicolon that is not inside quotation marks is a token END, which is *)
(* what keeps the statements of a line apart (docs/manual.md, lexCommand_, *)
(* lexOption_).                                                            *)
SemicolonsEndStatements ==
  \A p \in 1 .. Len(line) : p < it /\ line[p] = SEMICOLON =>
    \E j \in DOMAIN tokens :
      /\ tokens[j].first <= p /\ p <= tokens[j].last
      /\ tokens[j].type = "END" \/ line[tokens[j].first] \in Quotes
=============================================================================
