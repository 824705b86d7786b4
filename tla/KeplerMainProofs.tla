-------------------------- MODULE KeplerMainProofs --------------------------
(***************************************************************************)
(* Proofs about the way of the input into the program: types, the tokens   *)
(* as a tiling of the line, the semicolons as the ends of statements, the  *)
(* commands as those of the query at hand, the lines of an input as what   *)
(* interactive() hands over.                                               *)
(***************************************************************************)
EXTENDS KeplerMain, KeplerInduction, SequenceTheorems

-----------------------------------------------------------------------------
(* The lexer.                                                              *)

(* The semicolon is none of the characters that go into other tokens.      *)
LEMMA SemicolonApart ==
  /\ SEMICOLON \notin {WHITESPACE, UNDERSCORE, DASH, PLUS, PERIOD, COMMA, "[", "]", ""}
  /\ SEMICOLON \in Marks
BY Zenon DEF SEMICOLON, WHITESPACE, UNDERSCORE, DASH, PLUS, PERIOD, COMMA, Marks

(* The end of the line is no character.                                    *)
LEMMA NoChar ==
  /\ "" \notin Marks \cup Quotes \cup Signs \cup Extra \cup Others \cup Digits
  /\ "" # WHITESPACE /\ "" # DASH
BY CharAssumption DEF Char, Signs, Extra

(* Every turn of the loop of tokenize skips a space or makes a token of    *)
(* the characters it passes, and passes a semicolon only as an END or      *)
(* inside quotation marks.                                                 *)
LEMMA LexPushes ==
  ASSUME LexerTypeOK, LexToken
  PROVE  \/ SkipSpace
         \/ \E type \in TokenTypes, q \in it + 1 .. Len(line) + 1 :
              /\ Push(type, q)
              /\ \A p \in it .. q - 1 : line[p] = SEMICOLON => type = "END" \/ line[it] \in Quotes
<1> USE DEF LexerTypeOK, At
<1>1. CASE SkipSpace
  BY <1>1
<1>2. CASE LexMark
  <2>1. it <= Len(line) /\ line[it] \in Marks
    BY <1>2, NoChar DEF LexMark
  <2>2. MarkType(At(it)) \in TokenTypes /\ (line[it] = SEMICOLON => MarkType(At(it)) = "END")
    BY <2>1, SemicolonApart DEF MarkType, Marks, TokenTypes
  <2>3. Push(MarkType(At(it)), it + 1)
    BY <1>2 DEF LexMark
  <2>. QED BY <2>1, <2>2, <2>3
<1>3. CASE LexCommand
  <2>1. PICK q \in Stops : Ends(it, q, WordChars) /\ Push("COMMAND", q)
    BY <1>3 DEF LexCommand
  <2>2. \A p \in it .. q - 1 : line[p] # SEMICOLON
    BY <2>1 DEF Ends, WordChars
  <2>. QED BY <2>1, <2>2 DEF Stops, TokenTypes
<1>4. CASE LexIdentifier
  <2>1. PICK q \in Stops : Ends(it, q, IdentChars) /\ Push("IDENTIFIER", q)
    BY <1>4 DEF LexIdentifier
  <2>2. SEMICOLON \notin IdentChars
    BY CharAssumption, SemicolonApart DEF IdentChars
  <2>3. \A p \in it .. q - 1 : line[p] # SEMICOLON
    BY <2>1, <2>2 DEF Ends
  <2>. QED BY <2>1, <2>3 DEF Stops, TokenTypes
<1>5. CASE LexNumber
  <2>1. PICK q \in Stops :
          /\ NumberBody(it, q)
          /\ Push(IF At(q) \in NumberChars THEN "UNKNOWN" ELSE "NUMBER", q)
    BY <1>5 DEF LexNumber
  <2>2. SEMICOLON \notin NumberChars
    BY CharAssumption, SemicolonApart DEF NumberChars, Signs
  <2>3. \A p \in it .. q - 1 : line[p] # SEMICOLON
    BY <2>1, <2>2 DEF NumberBody
  <2>. QED BY <2>1, <2>3 DEF Stops, TokenTypes
<1>6. CASE LexString
  <2>1. PICK q \in Stops :
          IF q <= Len(line) THEN Push("STRING", q + 1)
          ELSE Push(IF it = Len(line) THEN "STRING" ELSE "UNKNOWN", q)
    BY <1>6 DEF LexString
  <2>2. line[it] \in Quotes
    BY <1>6, NoChar DEF LexString
  <2>3. CASE q <= Len(line)
    <3>1. Push("STRING", q + 1) /\ q + 1 \in it + 1 .. Len(line) + 1
      BY <2>1, <2>3 DEF Stops
    <3>. QED BY <2>2, <3>1 DEF TokenTypes
  <2>4. CASE q > Len(line)
    <3>1. Push(IF it = Len(line) THEN "STRING" ELSE "UNKNOWN", q) /\ q \in it + 1 .. Len(line) + 1
      BY <2>1, <2>4 DEF Stops
    <3>. QED BY <2>2, <3>1 DEF TokenTypes
  <2>. QED BY <2>3, <2>4 DEF Stops
<1>7. CASE LexOption
  <2>1. PICK q \in it + 2 .. Len(line) + 1 : Ends(it + 2, q, WordChars) /\ Push("OPTION", q)
    BY <1>7 DEF LexOption
  <2>2. line[it] = DASH /\ line[it + 1] = DASH
    BY <1>7, NoChar DEF LexOption
  <2>3. \A p \in it .. q - 1 : line[p] # SEMICOLON
    <3> TAKE p \in it .. q - 1
    <3>1. CASE p \in {it, it + 1}
      BY <2>2, <3>1, SemicolonApart
    <3>2. CASE p \in it + 2 .. q - 1
      BY <2>1, <3>2 DEF Ends, WordChars
    <3>. QED BY <2>1, <3>1, <3>2
  <2>. QED BY <2>1, <2>3 DEF TokenTypes
<1>8. CASE LexUnknown
  <2>1. Push("UNKNOWN", it + 1) /\ it <= Len(line) /\ line[it] # SEMICOLON
    BY <1>8, CharAssumption, SemicolonApart, NoChar DEF LexUnknown
  <2>. QED BY <2>1 DEF TokenTypes
<1>. QED
  BY <1>1, <1>2, <1>3, <1>4, <1>5, <1>6, <1>7, <1>8 DEF LexToken

LexerInv == LexerTypeOK /\ TokensTile /\ SemicolonsEndStatements

(* A token of the characters up to q, of which it may take no semicolon    *)
(* unless it is an END or begins with a quotation mark.                    *)
LEMMA PushKeeps ==
  ASSUME LexerInv, NEW type \in TokenTypes, NEW q \in it .. Len(line) + 1, Push(type, q),
         \A p \in it .. q - 1 : line[p] = SEMICOLON => type = "END" \/ line[it] \in Quotes
  PROVE  LexerInv'
<1> DEFINE t == [type |-> type, first |-> it, last |-> q - 1]
<1>1. /\ line' = line /\ it' = q /\ tokens' = Append(tokens, t)
      /\ line \in Seq(Char) /\ it \in 1 .. Len(line) + 1 /\ tokens \in Seq(Token)
  BY DEF LexerInv, LexerTypeOK, Push
<1>2. t \in Token
  BY <1>1 DEF Token
<1>3. /\ Len(tokens') = Len(tokens) + 1 /\ tokens' \in Seq(Token)
      /\ tokens'[Len(tokens) + 1] = t
      /\ \A j \in 1 .. Len(tokens) : tokens'[j] = tokens[j]
  BY <1>1, <1>2
<1>4. DOMAIN tokens = 1 .. Len(tokens) /\ DOMAIN tokens' = 1 .. Len(tokens) + 1
  BY <1>1, <1>3
<1>5. \A j \in DOMAIN tokens : tokens[j].last < it /\ tokens[j].last \in Nat
  <2>1. \A j \in DOMAIN tokens : tokens[j].last < it
    BY DEF LexerInv, TokensTile
  <2>2. \A j \in DOMAIN tokens : tokens[j] \in Token
    BY <1>1, <1>4
  <2>. QED BY <2>1, <2>2 DEF Token
<1>6. t.first = it /\ t.last = q - 1 /\ t.type = type
  OBVIOUS
<1>7. LexerTypeOK'
  BY <1>1, <1>3 DEF LexerTypeOK
<1>8. TokensTile'
  <2>1. \A j, k \in DOMAIN tokens' : j < k => tokens'[j].last < tokens'[k].first
    <3> TAKE j, k \in DOMAIN tokens'
    <3> HAVE j < k
    <3>1. CASE k \in DOMAIN tokens
      BY <1>3, <1>4, <3>1 DEF LexerInv, TokensTile
    <3>2. CASE k = Len(tokens) + 1
      <4>1. j \in DOMAIN tokens
        BY <1>4, <3>2, <1>1
      <4>. QED BY <4>1, <1>3, <1>4, <1>5, <1>6, <3>2
    <3>. QED BY <1>4, <3>1, <3>2, <1>1
  <2>2. \A j \in DOMAIN tokens' : tokens'[j].last < it'
    <3> TAKE j \in DOMAIN tokens'
    <3>1. CASE j \in DOMAIN tokens
      BY <1>1, <1>3, <1>4, <1>5, <3>1
    <3>2. CASE j = Len(tokens) + 1
      BY <1>1, <1>3, <1>6, <3>2
    <3>. QED BY <1>4, <3>1, <3>2, <1>1
  <2>3. ASSUME NEW p \in 1 .. Len(line), p < q
        PROVE  \/ line[p] = WHITESPACE
               \/ \E j \in DOMAIN tokens' : tokens'[j].first <= p /\ p <= tokens'[j].last
    <3>1. CASE p < it
      BY <1>3, <1>4, <3>1, <2>3 DEF LexerInv, TokensTile
    <3>2. CASE p >= it
      <4>1. Len(tokens) + 1 \in DOMAIN tokens'
        BY <1>1, <1>4
      <4>2. t.first <= p /\ p <= t.last
        BY <1>1, <1>6, <3>2, <2>3
      <4>. QED BY <1>3, <4>1, <4>2
    <3>. QED BY <3>1, <3>2, <1>1
  <2>. QED BY <1>1, <2>1, <2>2, <2>3 DEF TokensTile
<1>9. SemicolonsEndStatements'
  <2>1. ASSUME NEW p \in 1 .. Len(line), p < q, line[p] = SEMICOLON
        PROVE  \E j \in DOMAIN tokens' :
                 /\ tokens'[j].first <= p /\ p <= tokens'[j].last
                 /\ tokens'[j].type = "END" \/ line[tokens'[j].first] \in Quotes
    <3>1. CASE p < it
      BY <1>3, <1>4, <3>1, <2>1 DEF LexerInv, SemicolonsEndStatements
    <3>2. CASE p >= it
      <4>1. type = "END" \/ line[it] \in Quotes
        BY <1>1, <2>1, <3>2
      <4>2. Len(tokens) + 1 \in DOMAIN tokens'
        BY <1>1, <1>4
      <4>3. t.first <= p /\ p <= t.last /\ (t.type = "END" \/ line[t.first] \in Quotes)
        BY <1>1, <1>6, <3>2, <2>1, <4>1
      <4>. QED BY <1>3, <4>2, <4>3
    <3>. QED BY <3>1, <3>2, <1>1
  <2>. QED BY <1>1, <2>1 DEF SemicolonsEndStatements
<1>. QED BY <1>7, <1>8, <1>9 DEF LexerInv

LEMMA LexTokenKeeps == LexerInv /\ LexToken => LexerInv'
<1> SUFFICES ASSUME LexerInv, LexToken PROVE LexerInv'
  OBVIOUS
<1>0. line \in Seq(Char) /\ it \in 1 .. Len(line) + 1 /\ tokens \in Seq(Token) /\ LexerTypeOK
  BY DEF LexerInv, LexerTypeOK
<1>1. CASE SkipSpace
  <2>1. it <= Len(line) /\ line[it] = WHITESPACE /\ it' = it + 1 /\ UNCHANGED <<line, tokens>>
    BY <1>0, <1>1, NoChar DEF SkipSpace, At
  <2>2. LexerTypeOK'
    BY <1>0, <2>1 DEF LexerTypeOK
  <2>3. \A j \in DOMAIN tokens : tokens[j].last < it /\ tokens[j].last \in Nat
    <3>1. \A j \in DOMAIN tokens : tokens[j].last < it
      BY DEF LexerInv, TokensTile
    <3>2. \A j \in DOMAIN tokens : tokens[j] \in Token
      BY <1>0
    <3>. QED BY <3>1, <3>2 DEF Token
  <2>4. TokensTile'
    BY <1>0, <2>1, <2>3 DEF LexerInv, TokensTile
  <2>5. SemicolonsEndStatements'
    <3>1. \A p \in 1 .. Len(line) : p < it' /\ line[p] = SEMICOLON => p < it
      <4>1. line[it] # SEMICOLON
        BY <2>1, SemicolonApart
      <4>. QED BY <1>0, <2>1, <4>1
    <3>. QED BY <2>1, <3>1 DEF LexerInv, SemicolonsEndStatements
  <2>. QED BY <2>2, <2>4, <2>5 DEF LexerInv
<1>2. CASE ~SkipSpace
  <2>1. PICK type \in TokenTypes, q \in it + 1 .. Len(line) + 1 :
          /\ Push(type, q)
          /\ \A p \in it .. q - 1 : line[p] = SEMICOLON => type = "END" \/ line[it] \in Quotes
    BY <1>0, <1>2, LexPushes
  <2>2. q \in it .. Len(line) + 1
    BY <1>0, <2>1
  <2>. QED BY <2>1, <2>2, PushKeeps
<1>. QED BY <1>1, <1>2

LEMMA LexEndKeeps == LexerInv /\ LexEnd => LexerInv'
<1> SUFFICES ASSUME LexerInv, LexEnd PROVE LexerInv'
  OBVIOUS
<1>1. line \in Seq(Char) /\ it \in 1 .. Len(line) + 1 /\ "END" \in TokenTypes /\ Push("END", it)
  BY DEF LexerInv, LexerTypeOK, LexEnd, TokenTypes
<1>2. it \in it .. Len(line) + 1 /\ it .. it - 1 = {}
  BY <1>1
<1>. QED BY <1>1, <1>2, PushKeeps

LEMMA TokenizeKeeps == ASSUME NEW q \in Seq(Char), Tokenize(q) PROVE LexerInv'
<1>1. line' = q /\ it' = 1 /\ tokens' = <<>> /\ tokens' \in Seq(Token) /\ Len(q) \in Nat
  BY DEF Tokenize
<1>2. DOMAIN tokens' = {} /\ LexerTypeOK'
  BY <1>1 DEF LexerTypeOK
<1>3. TokensTile' /\ SemicolonsEndStatements'
  BY <1>1, <1>2 DEF TokensTile, SemicolonsEndStatements
<1>. QED BY <1>2, <1>3 DEF LexerInv

LEMMA LexerUnchanged == LexerInv /\ UNCHANGED lexer => LexerInv'
BY DEF LexerInv, LexerTypeOK, TokensTile, SemicolonsEndStatements, lexer
-----------------------------------------------------------------------------
(* Types and tiles of the whole program.  A file is open while the program *)
(* reads or handles a query, and the parser's nodes are a sequence.        *)
InFile == {"read", "lex", "parse", "run"}

MainInv ==
  /\ MainTypeOK /\ LexerInv
  /\ pc \in InFile => f \in DOMAIN program.files
  /\ \E S : nodes \in Seq(S)

LEMMA LinesTyped ==
  ASSUME MainInv, pc \in InFile
  PROVE  /\ Lines \in Seq(Seq(Char)) /\ Len(Lines) \in Nat
         /\ \A j \in 1 .. Len(Lines) : Lines[j] \in Seq(Char)
<1>1. program.files \in Seq(File) /\ f \in DOMAIN program.files
  BY DEF MainInv, MainTypeOK
<1>2. program.files[f] \in File
  BY <1>1
<1>. QED BY <1>2 DEF File, Lines

LEMMA HandOverTyped ==
  ASSUME MainInv, NEW q \in Seq(Char), HandOver(q)
  PROVE  /\ LexerInv' /\ query' \in Seq(Char) /\ pc' \in {"run", "lex"}
         /\ given' \in Seq(Seq(Char)) /\ tt' \in Nat \ {0} /\ \E S : nodes' \in Seq(S)
<1>1. LexerInv'
  BY TokenizeKeeps DEF HandOver
<1>2. query' \in Seq(Char) /\ given' \in Seq(Seq(Char)) /\ pc' \in {"run", "lex"}
  BY DEF HandOver, MainInv, MainTypeOK
<1>3. tt' \in Nat \ {0}
  <2>1. CASE q = <<>>
    BY <2>1 DEF HandOver, StartParse
  <2>2. CASE q # <<>>
    BY <2>2 DEF HandOver, parser, MainInv, MainTypeOK
  <2>. QED BY <2>1, <2>2
<1>4. \E S : nodes' \in Seq(S)
  <2>1. CASE q = <<>>
    BY <2>1 DEF HandOver, StartParse
  <2>2. CASE q # <<>>
    BY <2>2 DEF HandOver, parser, MainInv
  <2>. QED BY <2>1, <2>2
<1>. QED BY <1>1, <1>2, <1>3, <1>4

(* The number of questions is a number.                                    *)
LEMMA QuestionsCounted == ASSUME MainInv PROVE Cardinality(Questions) \in Nat
<1>1. Len(nodes) \in Nat /\ Len(tokens) \in Nat
  BY DEF MainInv, MainTypeOK, LexerTypeOK
<1>2. IsFiniteSet(1 .. Len(nodes)) /\ IsFiniteSet(1 .. Len(tokens))
  BY <1>1, FS_Interval
<1>3. IsFiniteSet((1 .. Len(nodes)) \X (1 .. Len(tokens)))
  BY <1>2, FS_Product
<1>4. Questions \subseteq (1 .. Len(nodes)) \X (1 .. Len(tokens))
  BY DEF Questions
<1>. QED BY <1>3, <1>4, FS_Subset, FS_CardinalityType

(* What a token does to the parser.                                        *)
LEMMA ParseTyped ==
  ASSUME MainInv, ParseToken
  PROVE  /\ tt' \in {tt, tt + 1} /\ (tt' = tt + 1 => tt <= Len(tokens))
         /\ \E S : nodes' \in Seq(S)
<1> USE DEF Next1, InCommand
<1>1. PICK S : nodes \in Seq(S)
  BY DEF MainInv
<1>2. tt \in Nat \ {0} /\ Len(tokens) \in Nat
  BY DEF MainInv, MainTypeOK, LexerTypeOK
<1>3. CASE SkipToken
  BY <1>1, <1>2, <1>3 DEF SkipToken
<1>4. CASE StartCommand
  BY <1>1, <1>2, <1>4 DEF StartCommand
<1>5. CASE EndCommand
  <2>1. nodes' = Append(nodes, command) /\ tt' = tt
    BY <1>5 DEF EndCommand
  <2>2. nodes \in Seq(S \cup {command}) /\ command \in S \cup {command}
    BY <1>1
  <2>3. nodes' \in Seq(S \cup {command})
    BY <2>1, <2>2
  <2>. QED BY <1>2, <2>1, <2>3
<1>6. CASE Ignore
  BY <1>1, <1>2, <1>6 DEF Ignore
<1>7. CASE SetOption
  BY <1>1, <1>2, <1>7 DEF SetOption
<1>8. CASE AddLeaf
  BY <1>1, <1>2, <1>8 DEF AddLeaf
<1>9. CASE OpenList
  BY <1>1, <1>2, <1>9 DEF OpenList
<1>10. CASE CloseList
  BY <1>1, <1>2, <1>10 DEF CloseList
<1>. QED
  BY <1>3, <1>4, <1>5, <1>6, <1>7, <1>8, <1>9, <1>10 DEF ParseToken

LEMMA InitMain == Init => MainInv
<1> SUFFICES ASSUME Init PROVE MainInv
  OBVIOUS
<1>1. program \in [script : BOOLEAN, files : Seq(File)] /\ (~program.script => Len(program.files) = 1)
  BY ProgramAssumption DEF Init
<1>2. line \in Seq(Char) /\ it = 1 /\ tokens \in Seq(Token) /\ Len(line) = 0 /\ Len(tokens) = 0
      /\ nodes \in Seq({})
  BY DEF Init
<1>3. LexerInv
  BY <1>2 DEF LexerInv, LexerTypeOK, TokensTile, SemicolonsEndStatements
<1>4. MainTypeOK
  <2>1. f \in 1 .. Len(program.files) + 1
    BY <1>1 DEF Init
  <2>2. LexerTypeOK /\ tt = 1
    BY <1>3 DEF LexerInv, Init
  <2>3. pc \in {"open", "read"}
    BY DEF Init
  <2>4. pc # "parse"
    BY <2>3
  <2>5. n \in Nat /\ asks \in Nat /\ answers \subseteq Nat /\ tt \in Nat \ {0}
    BY DEF Init
  <2>6. eof \in BOOLEAN
    BY Zenon DEF Init
  <2>7. query \in Seq(Char) /\ given \in Seq(Seq(Char))
    BY DEF Init
  <2>. QED BY <1>1, <2>1, <2>2, <2>3, <2>4, <2>5, <2>6, <2>7 DEF MainTypeOK
<1>5. pc \in InFile => f \in DOMAIN program.files
  BY <1>1 DEF Init, InFile
<1>. QED BY <1>2, <1>3, <1>4, <1>5 DEF MainInv

(* A step that hands a query over.                                         *)
LEMMA HandOverKeeps ==
  ASSUME MainInv, pc = "read", NEW q \in Seq(Char), HandOver(q),
         UNCHANGED <<program, f, asks, answers>>, n' \in Nat, eof' \in BOOLEAN
  PROVE  MainInv'
<1>1. /\ LexerInv' /\ query' \in Seq(Char) /\ pc' \in {"run", "lex"}
      /\ given' \in Seq(Seq(Char)) /\ tt' \in Nat \ {0} /\ \E S : nodes' \in Seq(S)
  BY HandOverTyped
<1>2. LexerTypeOK'
  BY <1>1 DEF LexerInv
<1>3. f' \in DOMAIN program'.files
  BY DEF MainInv, InFile
<1>4. MainTypeOK'
  BY <1>1, <1>2 DEF MainInv, MainTypeOK
<1>. QED BY <1>1, <1>3, <1>4 DEF MainInv

(* A step that leaves what has been read and made of it alone.             *)
LEMMA MainKeeps ==
  ASSUME MainInv, UNCHANGED <<lexer, parser, program>>,
         f' \in 1 .. Len(program.files) + 1, n' \in Nat, asks' \in Nat, eof' \in BOOLEAN,
         query' \in Seq(Char), given' \in Seq(Seq(Char)), answers' \subseteq Nat,
         pc' \in {"open", "read", "lex", "parse", "run", "exited", "aborted"},
         pc' = "parse" => pc = "parse",
         pc' \in InFile => f' \in DOMAIN program.files
  PROVE  MainInv'
<1>1. LexerInv'
  BY LexerUnchanged DEF MainInv
<1>2. LexerTypeOK'
  BY <1>1 DEF LexerInv
<1>3. MainTypeOK'
  BY <1>2 DEF MainInv, MainTypeOK, lexer, parser
<1>4. \E S : nodes' \in Seq(S)
  BY DEF MainInv, parser
<1>. QED BY <1>1, <1>3, <1>4 DEF MainInv

LEMMA NextMain == MainInv /\ [Next]_vars => MainInv'
<1> SUFFICES ASSUME MainInv, [Next]_vars PROVE MainInv'
  OBVIOUS
<1>0. /\ MainTypeOK /\ LexerInv /\ (pc \in InFile => f \in DOMAIN program.files)
      /\ program.files \in Seq(File)
  BY DEF MainInv, MainTypeOK
<1>1. CASE ReadInput
  <2>1. n \in Nat /\ pc = "read" /\ pc \in InFile
    BY <1>0, <1>1 DEF ReadInput, Interactive, InFile, MainTypeOK
  <2>2. Lines[n + 1] \in Seq(Char) /\ HandOver(Lines[n + 1])
    BY <1>1, <2>1, LinesTyped DEF ReadInput
  <2>. QED BY <1>1, <2>1, <2>2, HandOverKeeps DEF ReadInput
<1>2. CASE ReadEnd
  <2>1. <<>> \in Seq(Char) /\ n \in Nat
    BY <1>0 DEF MainTypeOK
  <2>. QED BY <1>2, <2>1, HandOverKeeps DEF ReadEnd, Interactive
<1>3. CASE ReadAgain
  <2>1. query \in Seq(Char) /\ n \in Nat /\ eof \in BOOLEAN
    BY <1>0 DEF MainTypeOK
  <2>. QED BY <1>3, <2>1, HandOverKeeps DEF ReadAgain, Interactive
<1>4. CASE OpenFile
  <2>1. f \in DOMAIN program.files
    BY <1>0, <1>4 DEF OpenFile, MainTypeOK
  <2>. QED BY <1>0, <1>4, <2>1, MainKeeps DEF OpenFile, MainTypeOK
<1>5. CASE AbortOpen
  BY <1>0, <1>5, MainKeeps DEF AbortOpen, MainTypeOK, InFile
<1>6. CASE ScriptsDone
  BY <1>0, <1>6, MainKeeps DEF ScriptsDone, MainTypeOK, InFile
<1>7. CASE ContinueQuery
  <2>1. pc = "read" /\ f \in DOMAIN program.files /\ n \in Nat /\ n + 1 \in 1 .. Len(Lines)
    BY <1>0, <1>7, LinesTyped DEF ContinueQuery, InScript, InFile, MainTypeOK
  <2>2. Lines[n + 1] \in Seq(Char) /\ query \in Seq(Char) /\ <<WHITESPACE>> \in Seq(Char)
    BY <1>0, <2>1, LinesTyped DEF MainTypeOK, InFile, Char, Extra
  <2>3. query' \in Seq(Char)
    BY <1>7, <2>2 DEF ContinueQuery
  <2>. QED BY <1>0, <1>7, <2>1, <2>3, MainKeeps DEF ContinueQuery, MainTypeOK
<1>8. CASE EndQuery
  <2>1. pc = "read" /\ n \in Nat /\ n + 1 \in 1 .. Len(Lines) /\ eof' = eof /\ eof \in BOOLEAN
    BY <1>0, <1>8, LinesTyped DEF EndQuery, InScript, InFile, MainTypeOK
  <2>2. Lines[n + 1] \in Seq(Char) /\ query \in Seq(Char)
    BY <1>0, <2>1, LinesTyped DEF MainTypeOK, InFile
  <2>3. PICK p \in DOMAIN Lines[n + 1] : HandOver(query \o SubSeq(Lines[n + 1], 1, p - 1))
    BY <1>8 DEF EndQuery
  <2>4. SubSeq(Lines[n + 1], 1, p - 1) \in Seq(Char)
    BY <2>2
  <2>5. query \o SubSeq(Lines[n + 1], 1, p - 1) \in Seq(Char)
    BY <2>2, <2>4
  <2>6. UNCHANGED <<program, f, asks, answers>> /\ n' \in Nat
    BY <1>8, <2>1 DEF EndQuery
  <2>7. eof' \in BOOLEAN
    BY <2>1
  <2>. QED BY <2>1, <2>3, <2>5, <2>6, <2>7, HandOverKeeps
<1>9. CASE FileEnd
  <2>1. f \in DOMAIN program.files
    BY <1>0, <1>9 DEF FileEnd, InScript, InFile
  <2>2. f' \in 1 .. Len(program.files) + 1
    BY <1>0, <1>9, <2>1 DEF FileEnd
  <2>. QED BY <1>0, <1>9, <2>2, MainKeeps DEF FileEnd, MainTypeOK, InFile
<1>10. CASE Lexing
  <2>1. LexerInv'
    BY <1>0, <1>10, LexTokenKeeps DEF Lexing
  <2>2. LexerTypeOK' /\ pc = "lex" /\ UNCHANGED <<parser, main>>
    BY <1>10, <2>1 DEF Lexing, LexerInv
  <2>3. MainTypeOK'
    BY <1>0, <2>2 DEF MainTypeOK, parser, main
  <2>. QED BY <1>0, <2>1, <2>2, <2>3 DEF MainInv, parser, main
<1>11. CASE Lexed
  <2>1. LexerInv' /\ LexerTypeOK'
    BY <1>0, <1>11, LexEndKeeps DEF Lexed, LexerInv
  <2>2. tt' = 1 /\ nodes' = <<>> /\ pc = "lex" /\ pc' = "parse"
        /\ UNCHANGED <<program, f, n, query, eof, asks, given, answers>>
    BY <1>11 DEF Lexed, StartParse
  <2>3. Len(tokens') \in Nat
    BY <2>1 DEF LexerTypeOK
  <2>4. MainTypeOK'
    BY <1>0, <2>1, <2>2, <2>3 DEF MainTypeOK
  <2>5. \E S : nodes' \in Seq(S)
    BY <2>2
  <2>. QED BY <1>0, <2>1, <2>2, <2>4, <2>5 DEF MainInv, InFile
<1>12. CASE Parsing
  <2>1. pc = "parse" /\ UNCHANGED <<lexer, main>>
    BY <1>12 DEF Parsing
  <2>2. /\ tt' \in {tt, tt + 1} /\ (tt' = tt + 1 => tt <= Len(tokens))
        /\ \E S : nodes' \in Seq(S)
    BY <1>12, ParseTyped DEF Parsing
  <2>3. LexerInv' /\ LexerTypeOK'
    BY <1>0, <2>1, LexerUnchanged DEF LexerInv
  <2>4. tt \in Nat \ {0} /\ tt <= Len(tokens) + 1 /\ Len(tokens) \in Nat
    BY <1>0, <2>1 DEF MainTypeOK, LexerTypeOK
  <2>5. tt' \in Nat \ {0} /\ tt' <= Len(tokens') + 1
    BY <2>1, <2>2, <2>4 DEF lexer
  <2>6. MainTypeOK'
    BY <1>0, <2>1, <2>3, <2>5 DEF MainTypeOK, main
  <2>. QED BY <1>0, <2>1, <2>2, <2>3, <2>6 DEF MainInv, main
<1>13. CASE Caught
  <2>1. query' \in Seq(Char) /\ pc = "parse"
    BY <1>0, <1>13 DEF Caught, BackToInput, MainTypeOK
  <2>. QED BY <1>0, <1>13, <2>1, MainKeeps DEF Caught, BackToInput, MainTypeOK, InFile
<1>14. CASE Parsed
  <2>1. asks' \in Nat /\ pc = "parse"
    BY <1>0, <1>14, QuestionsCounted DEF Parsed, MainTypeOK
  <2>. QED BY <1>0, <1>14, <2>1, MainKeeps DEF Parsed, MainTypeOK, InFile
<1>15. CASE Prompt
  <2>1. /\ n \in Nat /\ asks \in Nat /\ asks > 0 /\ pc = "run" /\ asks' = asks - 1
        /\ n' = (IF n < Len(Lines) THEN n + 1 ELSE n) /\ answers' = answers \cup {n + 1}
        /\ answers \subseteq Nat
    BY <1>0, <1>15 DEF Prompt, Running, MainTypeOK
  <2>2. n' \in Nat /\ asks' \in Nat /\ answers' \subseteq Nat
    BY <2>1
  <2>3. eof' \in BOOLEAN
    BY <1>15 DEF Prompt
  <2>. QED BY <1>0, <1>15, <2>1, <2>2, <2>3, MainKeeps DEF Prompt, MainTypeOK, InFile
<1>16. CASE Executed
  <2>1. query' \in Seq(Char) /\ pc = "run"
    BY <1>0, <1>16 DEF Executed, BackToInput, MainTypeOK
  <2>. QED BY <1>0, <1>16, <2>1, MainKeeps DEF Executed, BackToInput, MainTypeOK, InFile
<1>17. CASE Quit
  BY <1>0, <1>17, MainKeeps DEF Quit, Running, MainTypeOK, InFile
<1>18. CASE Abort
  BY <1>0, <1>18, MainKeeps DEF Abort, Running, MainTypeOK, InFile
<1>19. CASE UNCHANGED vars
  BY <1>0, <1>19, MainKeeps DEF vars, main, MainTypeOK
<1>. QED
  BY <1>1, <1>2, <1>3, <1>4, <1>5, <1>6, <1>7, <1>8, <1>9, <1>10, <1>11, <1>12, <1>13,
     <1>14, <1>15, <1>16, <1>17, <1>18, <1>19 DEF Next

(* MainTypeOK holds: whatever the input, no iterator of the lexer or the   *)
(* parser leaves the text and the tokens it walks over.                    *)
THEOREM IteratorsInBounds == Spec => []MainTypeOK
<1>1. MainInv => MainTypeOK
  BY DEF MainInv
<1>. QED BY <1>1, InitMain, NextMain, PTL DEF Spec

(* TokensTile holds: of no line of any length is a character lost or read  *)
(* twice.                                                                  *)
THEOREM LinesTiled == Spec => []TokensTile
<1>1. MainInv => TokensTile
  BY DEF MainInv, LexerInv
<1>. QED BY <1>1, InitMain, NextMain, PTL DEF Spec

(* SemicolonsEndStatements holds: no token swallows the end of its         *)
(* statement, whatever the characters in front of it.                      *)
THEOREM StatementsApart == Spec => []SemicolonsEndStatements
<1>1. MainInv => SemicolonsEndStatements
  BY DEF MainInv, LexerInv
<1>. QED BY <1>1, InitMain, NextMain, PTL DEF Spec

-----------------------------------------------------------------------------
(* The commands parsed are those of the query at hand.  A command being    *)
(* built is a record, which its arguments and options do not move to       *)
(* another token.                                                          *)
OnceInv ==
  /\ MainInv /\ EveryCommandOnce
  /\ command # NullCommand =>
       \E t, k, args, opts : command = [type |-> t, at |-> k, args |-> args, opts |-> opts]

(* A command is not the null pointer.                                      *)
LEMMA CommandNotNull ==
  ASSUME NEW t, NEW k, NEW args, NEW opts
  PROVE  [type |-> t, at |-> k, args |-> args, opts |-> opts] # NullCommand
<1>1. DOMAIN [type |-> t, at |-> k, args |-> args, opts |-> opts] = {"type", "at", "args", "opts"}
  OBVIOUS
<1>2. DOMAIN NullCommand = {}
  BY DEF NullCommand
<1>. QED BY <1>1, <1>2

(* What is not a command may be passed by.                                 *)
LEMMA PassedBy ==
  ASSUME OnceInv, pc # "lex", tokens' = tokens, Begun' = Begun,
         tt' = tt \/ (tt' = tt + 1 /\ tokens[tt].type # "COMMAND")
  PROVE  EveryCommandOnce'
<1>1. tt \in Nat \ {0} /\ Len(tokens) \in Nat /\ DOMAIN tokens = 1 .. Len(tokens)
  BY DEF OnceInv, MainInv, MainTypeOK, LexerTypeOK
<1>2. /\ \A j, k \in DOMAIN Begun : j < k => Begun[j] < Begun[k]
      /\ {Begun[j] : j \in DOMAIN Begun}
           = {k \in DOMAIN tokens : k < tt /\ tokens[k].type = "COMMAND"}
  BY DEF OnceInv, EveryCommandOnce
<1>3. {k \in DOMAIN tokens : k < tt /\ tokens[k].type = "COMMAND"}
        = {k \in DOMAIN tokens' : k < tt' /\ tokens'[k].type = "COMMAND"}
  BY <1>1
<1>. QED BY <1>2, <1>3 DEF EveryCommandOnce

(* A query that was just handed over has no commands yet.                  *)
LEMMA NoneYet ==
  ASSUME StartParse, DOMAIN tokens' \subseteq Nat \ {0}
  PROVE  EveryCommandOnce' /\ command' = NullCommand
<1>1. nodes' = <<>> /\ command' = NullCommand /\ tt' = 1
  BY DEF StartParse
<1>2. DOMAIN Begun' = {}
  BY <1>1 DEF Begun
<1>3. {k \in DOMAIN tokens' : k < tt' /\ tokens'[k].type = "COMMAND"} = {}
  BY <1>1
<1>. QED BY <1>1, <1>2, <1>3 DEF EveryCommandOnce

LEMMA HandOverOnce ==
  ASSUME OnceInv, MainInv', NEW q, HandOver(q)
  PROVE  OnceInv'
<1>1. DOMAIN tokens' \subseteq Nat \ {0}
  BY DEF MainInv, MainTypeOK, LexerTypeOK
<1>2. CASE q = <<>>
  BY <1>1, <1>2, NoneYet DEF HandOver, OnceInv
<1>3. CASE q # <<>>
  BY <1>3 DEF HandOver, OnceInv, parser, EveryCommandOnce
<1>. QED BY <1>2, <1>3

(* Where nothing is lexed or parsed, the commands stay.                    *)
LEMMA OnceKeeps ==
  ASSUME OnceInv, MainInv', UNCHANGED <<lexer, parser>>, pc # "lex"
  PROVE  OnceInv'
<1>1. Begun' = Begun /\ tokens' = tokens /\ tt' = tt
  BY DEF Begun, parser, lexer
<1>2. EveryCommandOnce'
  BY <1>1, PassedBy
<1>. QED BY <1>2 DEF OnceInv, parser

(* The argument or option that a token adds leaves the command where it    *)
(* began.                                                                  *)
LEMMA CommandStays ==
  ASSUME OnceInv, command # NullCommand, pc # "lex", nodes' = nodes, tokens' = tokens,
         \/ command' = command
         \/ \E v : command' = [command EXCEPT !.args = v] \/ command' = [command EXCEPT !.opts = v],
         tt' = tt \/ (tt' = tt + 1 /\ tokens[tt].type # "COMMAND"), MainInv'
  PROVE  OnceInv'
<1>1. PICK t, k, args, opts : command = [type |-> t, at |-> k, args |-> args, opts |-> opts]
  BY DEF OnceInv
<1>2. \E a, o : command' = [type |-> t, at |-> k, args |-> a, opts |-> o]
  BY <1>1
<1>3. PICK a, o : command' = [type |-> t, at |-> k, args |-> a, opts |-> o]
  BY <1>2
<1>4. command' # NullCommand
  BY <1>3, CommandNotNull
<1>5. command'.at = command.at
  BY <1>1, <1>3
<1>6. Begun' = Begun
  BY <1>4, <1>5 DEF Begun
<1>7. EveryCommandOnce'
  BY <1>6, PassedBy
<1>. QED BY <1>3, <1>7 DEF OnceInv

LEMMA ParsingOnce ==
  ASSUME OnceInv, MainInv', Parsing
  PROVE  OnceInv'
<1> USE DEF Next1, InCommand, Tok
<1>0. pc # "lex" /\ tokens' = tokens /\ ParseToken
  BY DEF Parsing, lexer
<1>1. PICK S : nodes \in Seq(S)
  BY DEF OnceInv, MainInv
<1>2. /\ tt \in Nat \ {0} /\ Len(nodes) \in Nat /\ Len(tokens) \in Nat
      /\ DOMAIN tokens = 1 .. Len(tokens)
  <2>1. tt \in Nat \ {0} /\ tokens \in Seq(Token)
    BY DEF OnceInv, MainInv, MainTypeOK, LexerTypeOK
  <2>. QED BY <1>1, <2>1
<1>3. CASE SkipToken
  <2>1. Begun' = Begun
    BY <1>3 DEF SkipToken, Begun
  <2>2. EveryCommandOnce'
    BY <1>0, <1>3, <2>1, PassedBy DEF SkipToken
  <2>. QED BY <1>3, <2>2 DEF SkipToken, OnceInv
<1>4. CASE StartCommand
  <2>1. /\ command = NullCommand /\ nodes' = nodes /\ tt' = tt + 1 /\ tt <= Len(tokens)
        /\ tokens[tt].type = "COMMAND"
        /\ command' = [type |-> mapToCmd[Word(Tok)], at |-> tt, args |-> <<>>, opts |-> {}]
    BY <1>4 DEF StartCommand
  <2>2. command' # NullCommand /\ command'.at = tt
    BY <2>1, CommandNotNull
  <2>3. DOMAIN Begun = 1 .. Len(nodes) /\ DOMAIN Begun' = 1 .. Len(nodes) + 1
    BY <1>2, <2>1, <2>2 DEF Begun
  <2>4. \A j \in 1 .. Len(nodes) : Begun'[j] = Begun[j]
    BY <1>2, <2>1, <2>2 DEF Begun
  <2>5. Begun'[Len(nodes) + 1] = tt
    BY <1>2, <2>1, <2>2 DEF Begun
  <2>6. /\ \A j, k \in DOMAIN Begun : j < k => Begun[j] < Begun[k]
        /\ {Begun[j] : j \in DOMAIN Begun}
             = {k \in DOMAIN tokens : k < tt /\ tokens[k].type = "COMMAND"}
    BY <1>0 DEF OnceInv, EveryCommandOnce
  <2>7. \A j \in DOMAIN Begun : Begun[j] \in DOMAIN tokens /\ Begun[j] < tt
    BY <2>6
  <2>8. \A j, k \in DOMAIN Begun' : j < k => Begun'[j] < Begun'[k]
    BY <1>2, <2>3, <2>4, <2>5, <2>6, <2>7
  <2>9. {Begun'[j] : j \in DOMAIN Begun'} = {Begun[j] : j \in DOMAIN Begun} \cup {tt}
    BY <1>2, <2>3, <2>4, <2>5
  <2>10. {k \in DOMAIN tokens' : k < tt' /\ tokens'[k].type = "COMMAND"}
           = {k \in DOMAIN tokens : k < tt /\ tokens[k].type = "COMMAND"} \cup {tt}
    BY <1>0, <1>2, <2>1
  <2>11. EveryCommandOnce'
    BY <2>6, <2>8, <2>9, <2>10 DEF EveryCommandOnce
  <2>. QED BY <2>1, <2>11 DEF OnceInv
<1>5. CASE EndCommand
  <2>1. /\ command # NullCommand /\ command' = NullCommand
        /\ nodes' = Append(nodes, command) /\ tt' = tt
    BY <1>5 DEF EndCommand
  <2>2. /\ nodes' \in Seq(S \cup {command}) /\ Len(nodes') = Len(nodes) + 1
        /\ nodes'[Len(nodes) + 1] = command
        /\ \A j \in 1 .. Len(nodes) : nodes'[j] = nodes[j]
    BY <1>1, <2>1
  <2>3. Begun' = Begun
    BY <1>2, <2>1, <2>2 DEF Begun
  <2>4. EveryCommandOnce'
    BY <1>0, <2>1, <2>3, PassedBy
  <2>. QED BY <2>1, <2>4 DEF OnceInv
<1>6. CASE Ignore
  BY <1>0, <1>6, CommandStays DEF Ignore
<1>7. CASE SetOption
  BY <1>0, <1>7, CommandStays DEF SetOption
<1>8. CASE AddLeaf
  BY <1>0, <1>8, CommandStays DEF AddLeaf, Add
<1>9. CASE OpenList
  BY <1>0, <1>9, CommandStays DEF OpenList
<1>10. CASE CloseList
  BY <1>0, <1>10, CommandStays DEF CloseList, Add
<1>. QED
  BY <1>0, <1>3, <1>4, <1>5, <1>6, <1>7, <1>8, <1>9, <1>10 DEF ParseToken

LEMMA NextOnce == OnceInv /\ [Next]_vars => OnceInv'
<1> SUFFICES ASSUME OnceInv, [Next]_vars PROVE OnceInv'
  OBVIOUS
<1>0. MainInv'
  BY NextMain DEF OnceInv
<1>1. CASE ReadInput
  BY <1>0, <1>1, HandOverOnce DEF ReadInput
<1>2. CASE ReadEnd
  BY <1>0, <1>2, HandOverOnce DEF ReadEnd
<1>3. CASE ReadAgain
  BY <1>0, <1>3, HandOverOnce DEF ReadAgain
<1>4. CASE EndQuery
  BY <1>0, <1>4, HandOverOnce DEF EndQuery
<1>5. CASE Lexing
  BY <1>0, <1>5 DEF Lexing, OnceInv, EveryCommandOnce, parser, main
<1>6. CASE Lexed
  <2>1. DOMAIN tokens' \subseteq Nat \ {0}
    BY <1>0 DEF MainInv, MainTypeOK, LexerTypeOK
  <2>. QED BY <1>0, <1>6, <2>1, NoneYet DEF Lexed, OnceInv
<1>7. CASE Parsing
  BY <1>0, <1>7, ParsingOnce
<1>8. CASE OpenFile \/ AbortOpen \/ ScriptsDone \/ ContinueQuery \/ FileEnd
  BY <1>0, <1>8, OnceKeeps
  DEF OpenFile, AbortOpen, ScriptsDone, ContinueQuery, FileEnd, InScript
<1>9. CASE Caught \/ Parsed \/ Prompt \/ Executed \/ Quit \/ Abort
  BY <1>0, <1>9, OnceKeeps DEF Caught, Parsed, Prompt, Executed, Quit, Abort, Running
<1>10. CASE UNCHANGED vars
  BY <1>0, <1>10, OnceKeeps DEF vars, main, OnceInv, EveryCommandOnce, parser
<1>. QED
  BY <1>1, <1>2, <1>3, <1>4, <1>5, <1>6, <1>7, <1>8, <1>9, <1>10 DEF Next

LEMMA InitOnce == Init => OnceInv
<1> SUFFICES ASSUME Init PROVE OnceInv
  OBVIOUS
<1>1. nodes = <<>> /\ command = NullCommand /\ tt = 1 /\ DOMAIN tokens = {}
  BY DEF Init
<1>2. DOMAIN Begun = {}
  BY <1>1 DEF Begun
<1>3. EveryCommandOnce
  BY <1>1, <1>2 DEF EveryCommandOnce
<1>. QED BY <1>1, <1>3, InitMain DEF OnceInv

(* EveryCommandOnce holds: however queries follow each other, and whichever*)
(* of them are refused half-way, the commands to execute are those of the  *)
(* query at hand, each once and in order.                                  *)
THEOREM CommandsOfTheQuery == Spec => []EveryCommandOnce
<1>1. OnceInv => EveryCommandOnce
  BY DEF OnceInv
<1>. QED BY <1>1, InitOnce, NextOnce, PTL DEF Spec

-----------------------------------------------------------------------------
(* Numbers from below.                                                     *)

Below(S, j) == {l \in S : l <= j}
Pick(A) == CHOOSE j \in A : TRUE

LEMMA KthIsPick ==
  ASSUME NEW S, NEW k
  PROVE  Kth(S, k) = Pick({j \in S : Cardinality(Below(S, j)) = k})
BY DEF Kth, Pick, Below

LEMMA PickOnly == ASSUME NEW x PROVE Pick({x}) = x
BY DEF Pick

LEMMA Counted ==
  ASSUME NEW m \in Nat, NEW S \in SUBSET (1 .. m)
  PROVE  /\ IsFiniteSet(S) /\ Cardinality(S) \in 0 .. m
         /\ Cardinality(S \cup {m + 1}) = Cardinality(S) + 1
<1>1. IsFiniteSet(1 .. m) /\ Cardinality(1 .. m) = m
  BY FS_Interval
<1>2. IsFiniteSet(S) /\ Cardinality(S) <= m
  BY <1>1, FS_Subset
<1>3. m + 1 \notin S
  OBVIOUS
<1>4. Cardinality(S \cup {m + 1}) = Cardinality(S) + 1
  BY <1>2, <1>3, FS_AddElement
<1>. QED BY <1>2, <1>4, FS_CardinalityType

(* A number above all of S comes last and moves none of the others.        *)
LEMMA KthWithLast ==
  ASSUME NEW m \in Nat, NEW S \in SUBSET (1 .. m)
  PROVE  /\ \A k \in 1 .. Cardinality(S) : Kth(S \cup {m + 1}, k) = Kth(S, k)
         /\ Kth(S \cup {m + 1}, Cardinality(S) + 1) = m + 1
<1> DEFINE T == S \cup {m + 1}
           c == Cardinality(S)
<1>1. c \in Nat /\ Cardinality(T) = c + 1 /\ IsFiniteSet(S)
  BY Counted
<1>2. \A j \in S : j \in 1 .. m /\ Below(T, j) = Below(S, j)
  BY DEF Below
<1>3. Below(T, m + 1) = T
  <2>1. \A l \in T : l <= m + 1
    OBVIOUS
  <2>. QED BY <2>1 DEF Below
<1>4. ASSUME NEW j \in S
      PROVE  Cardinality(Below(S, j)) \in 0 .. c
  <2>1. Below(S, j) \subseteq S
    BY DEF Below
  <2>. QED BY <1>1, <2>1, FS_Subset, FS_CardinalityType
<1>5. \A j \in S : Cardinality(Below(T, j)) = Cardinality(Below(S, j))
  BY <1>2
<1>6. Cardinality(Below(T, m + 1)) = c + 1
  BY <1>1, <1>3
<1>7. \A j : j \in T <=> j \in S \/ j = m + 1
  OBVIOUS
<1> HIDE DEF T, c
<1>8. ASSUME NEW k \in 1 .. c
      PROVE  Kth(T, k) = Kth(S, k)
  <2>1. \A j : j \in T /\ Cardinality(Below(T, j)) = k <=> j \in S /\ Cardinality(Below(S, j)) = k
    <3>1. k # c + 1
      BY <1>1
    <3>2. Cardinality(Below(T, m + 1)) # k
      BY <1>6, <3>1
    <3>. QED BY Zenon, <1>5, <1>7, <3>2
  <2>2. {j \in T : Cardinality(Below(T, j)) = k} = {j \in S : Cardinality(Below(S, j)) = k}
    BY <2>1
  <2>. QED BY <2>2, KthIsPick
<1>9. Kth(T, c + 1) = m + 1
  <2>1. \A j : j \in T /\ Cardinality(Below(T, j)) = c + 1 <=> j = m + 1
    <3>1. \A j \in S : Cardinality(Below(S, j)) # c + 1
      BY <1>1, <1>4
    <3>. QED BY Zenon, <1>5, <1>6, <1>7, <3>1
  <2>2. {j \in T : Cardinality(Below(T, j)) = c + 1} = {m + 1}
    BY <2>1
  <2>. QED BY <2>2, KthIsPick, PickOnly
<1>. QED BY <1>8, <1>9 DEF T, c

-----------------------------------------------------------------------------
(* The next line becomes the last of the queries.                          *)
LEMMA QueryLinesGrow ==
  ASSUME n \in Nat, answers \subseteq 1 .. n, n' = n + 1, UNCHANGED <<program, f, answers>>
  PROVE  QueryLines' = Append(QueryLines, Lines[n + 1])
<1> DEFINE S == 1 .. n \ answers
           c == Cardinality(S)
<1>1. S \in SUBSET (1 .. n) /\ (1 .. n \ answers)' = S \cup {n + 1}
  OBVIOUS
<1>2. c \in Nat /\ Cardinality(S \cup {n + 1}) = c + 1
  BY <1>1, Counted
<1>3. /\ \A k \in 1 .. c : Kth(S \cup {n + 1}, k) = Kth(S, k)
      /\ Kth(S \cup {n + 1}, c + 1) = n + 1
  BY <1>1, KthWithLast
<1>4. Lines' = Lines
  BY DEF Lines
<1> DEFINE Q == QueryLines
<1>5. Q = [k \in 1 .. c |-> Lines[Kth(S, k)]]
  BY DEF QueryLines, LinesAt
<1>6. QueryLines' = [k \in 1 .. c + 1 |-> Lines[Kth(S \cup {n + 1}, k)]]
  BY <1>1, <1>2, <1>4 DEF QueryLines, LinesAt
<1> HIDE DEF S, c, Q
<1>7. Q \in Seq({Q[k] : k \in 1 .. c}) /\ Len(Q) = c
  BY <1>2, <1>5
<1>8. Append(Q, Lines[n + 1]) = [k \in 1 .. c + 1 |-> IF k <= c THEN Q[k] ELSE Lines[n + 1]]
  BY <1>2, <1>7
<1>9. \A k \in 1 .. c + 1 :
        Lines[Kth(S \cup {n + 1}, k)] = IF k <= c THEN Q[k] ELSE Lines[n + 1]
  <2>1. ASSUME NEW k \in 1 .. c PROVE Lines[Kth(S \cup {n + 1}, k)] = Q[k]
    BY <1>3, <1>5
  <2>2. Lines[Kth(S \cup {n + 1}, c + 1)] = Lines[n + 1]
    BY <1>3
  <2>3. \A k \in 1 .. c + 1 : IF k <= c THEN k \in 1 .. c ELSE k = c + 1
    BY <1>2
  <2>. QED BY <2>1, <2>2, <2>3
<1>. QED BY <1>6, <1>8, <1>9 DEF Q

LEMMA QueryLinesCounted ==
  ASSUME n \in Nat
  PROVE  /\ Len(QueryLines) \in 0 .. n
         /\ \E S : QueryLines \in Seq(S)
<1> DEFINE S == 1 .. n \ answers
           c == Cardinality(S)
<1>1. c \in 0 .. n
  BY Counted
<1>2. QueryLines = [k \in 1 .. c |-> Lines[Kth(S, k)]]
  BY DEF QueryLines, LinesAt
<1> HIDE DEF S, c
<1>3. QueryLines \in Seq({QueryLines[k] : k \in 1 .. c}) /\ Len(QueryLines) = c
  BY <1>1, <1>2
<1>. QED BY <1>1, <1>3

LEMMA QueryLinesStay ==
  ASSUME UNCHANGED <<program, f>>, (1 .. n \ answers)' = 1 .. n \ answers
  PROVE  QueryLines' = QueryLines
<1>1. Lines' = Lines
  BY DEF Lines
<1>. QED BY <1>1 DEF QueryLines, LinesAt

-----------------------------------------------------------------------------
(* The invariant of interactive().  Before the end of the input what was   *)
(* handed over is what was read and did not go to a question, and the      *)
(* buffer holds its last line.  At the end the buffer is what comes again. *)

Repeats(q) ==
  \/ q = <<>>
  \/ /\ QueryLines # <<>> /\ q = QueryLines[Len(QueryLines)]
     /\ ~Newline \/ Len(Lines) + 1 \in answers

Fed ==
  /\ given = QueryLines
  /\ QueryLines # <<>> => query = QueryLines[Len(QueryLines)]
  /\ pc # "read" => QueryLines # <<>>

Ended ==
  /\ Len(QueryLines) <= Len(given) /\ SubSeq(given, 1, Len(QueryLines)) = QueryLines
  /\ \A k \in Len(QueryLines) + 1 .. Len(given) : Repeats(given[k])
  /\ Repeats(query)

Reading ==
  /\ pc # "open" /\ n <= Len(Lines)
  /\ answers \subseteq 1 .. n \cup (IF eof THEN {Len(Lines) + 1} ELSE {})
  /\ IF eof THEN Ended ELSE Fed

InputInv == MainInv /\ (~program.script => Reading)

LEMMA WholeSeq ==
  ASSUME NEW S, NEW q \in Seq(S)
  PROVE  SubSeq(q, 1, Len(q)) = q
OBVIOUS

(* A sequence that begins with q still does when it grows.                 *)
LEMMA OneMore ==
  ASSUME NEW S, NEW g \in Seq(S), NEW x, NEW T, NEW q \in Seq(T),
         Len(q) <= Len(g), SubSeq(g, 1, Len(q)) = q
  PROVE  /\ Len(q) <= Len(Append(g, x)) /\ SubSeq(Append(g, x), 1, Len(q)) = q
         /\ \A k \in Len(q) + 1 .. Len(Append(g, x)) :
              \/ k \in Len(q) + 1 .. Len(g) /\ Append(g, x)[k] = g[k]
              \/ Append(g, x)[k] = x
<1>1. g \in Seq(S \cup {x}) /\ Append(g, x) \in Seq(S \cup {x}) /\ Len(Append(g, x)) = Len(g) + 1
  OBVIOUS
<1>2. \A k \in 1 .. Len(g) : Append(g, x)[k] = g[k]
  OBVIOUS
<1>3. Append(g, x)[Len(g) + 1] = x
  OBVIOUS
<1>4. SubSeq(Append(g, x), 1, Len(q)) = SubSeq(g, 1, Len(q))
  BY <1>1, <1>2
<1>5. ASSUME NEW k \in Len(q) + 1 .. Len(Append(g, x))
      PROVE  k \in Len(q) + 1 .. Len(g) \/ k = Len(g) + 1
  BY <1>1
<1>6. \A k \in Len(q) + 1 .. Len(g) : k \in 1 .. Len(g)
  OBVIOUS
<1>. QED BY <1>1, <1>2, <1>3, <1>4, <1>5, <1>6

LEMMA ReadingHandled == InputInv => HandledOnce
<1> SUFFICES ASSUME InputInv, ~program.script PROVE HandledOnce
  BY DEF HandledOnce
<1>1. PICK S : QueryLines \in Seq(S)
  BY QueryLinesCounted DEF InputInv, MainInv, MainTypeOK
<1>2. CASE eof
  BY <1>2 DEF InputInv, Reading, Ended, Repeats, HandledOnce
<1>3. CASE ~eof
  <2>1. given = QueryLines
    BY <1>3 DEF InputInv, Reading, Fed
  <2>2. SubSeq(QueryLines, 1, Len(QueryLines)) = QueryLines /\ Len(QueryLines) \in Nat
    BY <1>1, WholeSeq
  <2>. QED BY <2>1, <2>2 DEF HandledOnce
<1>. QED BY <1>2, <1>3

LEMMA InitInput == Init => InputInv
<1> SUFFICES ASSUME Init, ~program.script PROVE Reading
  BY InitMain DEF InputInv
<1>1. n = 0 /\ answers = {} /\ pc = "read" /\ eof = FALSE /\ given = <<>>
  BY DEF Init
<1>2. Len(QueryLines) = 0 /\ \E S : QueryLines \in Seq(S)
  BY <1>1, QueryLinesCounted
<1>3. QueryLines = <<>>
  BY <1>2
<1>4. Len(Lines) \in Nat
  BY <1>1, InitMain, LinesTyped DEF InFile
<1>. QED BY <1>1, <1>3, <1>4 DEF Reading, Fed

(* A step that reads nothing, while there is something to read or not.     *)
LEMMA ReadingKept ==
  ASSUME InputInv, ~program.script, UNCHANGED <<program, f, n, eof, query, given, answers>>,
         pc' # "open", pc = "read" => pc' = "read"
  PROVE  Reading'
<1>1. Reading
  BY DEF InputInv
<1>2. QueryLines' = QueryLines /\ Lines' = Lines /\ Newline' = Newline
  BY QueryLinesStay DEF Lines, Newline
<1>3. CASE eof
  BY <1>1, <1>2, <1>3 DEF Reading, Ended, Repeats
<1>4. CASE ~eof
  BY <1>1, <1>2, <1>4 DEF Reading, Fed
<1>. QED BY <1>3, <1>4

(* A line is read and handed over: it is the last of the queries.          *)
LEMMA ReadInputReads ==
  ASSUME InputInv, ReadInput
  PROVE  Reading'
<1>1. /\ ~program.script /\ pc = "read" /\ ~eof /\ n < Len(Lines) /\ HandOver(Lines[n + 1])
      /\ n' = n + 1 /\ eof' = (n + 1 = Len(Lines) /\ ~Newline)
      /\ UNCHANGED <<program, f, answers>>
  BY DEF ReadInput, Interactive
<1>2. n \in Nat /\ Len(Lines) \in Nat
  BY <1>1, LinesTyped DEF InputInv, MainInv, MainTypeOK, InFile
<1>3. answers \subseteq 1 .. n /\ given = QueryLines
  BY <1>1 DEF InputInv, Reading, Fed
<1>4. PICK S : QueryLines \in Seq(S) /\ Len(QueryLines) <= n
  BY <1>2, QueryLinesCounted
<1>5. QueryLines' = Append(QueryLines, Lines[n + 1])
  BY <1>1, <1>2, <1>3, QueryLinesGrow
<1>6. given' = QueryLines'
  <2>1. ~(Len(given) > Len(Lines) + 1)
    BY <1>1, <1>2, <1>3, <1>4
  <2>. QED BY <1>1, <1>3, <1>5, <2>1 DEF HandOver
<1>7. /\ Len(QueryLines') = Len(QueryLines) + 1 /\ QueryLines' # <<>>
      /\ QueryLines'[Len(QueryLines')] = Lines[n + 1]
      /\ SubSeq(QueryLines', 1, Len(QueryLines')) = QueryLines'
      /\ Len(QueryLines') \in Nat
  <2>1. QueryLines \in Seq(S \cup {Lines[n + 1]})
    BY <1>4
  <2>2. QueryLines' \in Seq(S \cup {Lines[n + 1]})
    BY <1>5, <2>1
  <2>. QED BY <1>4, <1>5, <2>1, <2>2, WholeSeq
<1>8. query' = Lines[n + 1] /\ pc' # "open"
  BY <1>1 DEF HandOver
<1>9. Lines' = Lines /\ Newline' = Newline
  BY <1>1 DEF Lines, Newline
<1>10. n' <= Len(Lines') /\ answers' \subseteq 1 .. n'
  BY <1>1, <1>2, <1>3, <1>9
<1>11. CASE eof'
  <2>1. Repeats(query)'
    BY <1>1, <1>7, <1>8, <1>9, <1>11 DEF Repeats
  <2>2. Ended'
    BY <1>6, <1>7, <2>1 DEF Ended
  <2>. QED BY <1>8, <1>10, <1>11, <2>2 DEF Reading
<1>12. CASE ~eof'
  <2>1. Fed'
    BY <1>6, <1>7, <1>8 DEF Fed
  <2>. QED BY <1>8, <1>10, <1>12, <2>1 DEF Reading
<1>. QED BY <1>11, <1>12

(* What comes at and after the end of the input.                           *)
LEMMA EndReads ==
  ASSUME InputInv, ReadEnd \/ ReadAgain
  PROVE  Reading'
<1>1. PICK q \in {<<>>, query} : HandOver(q) /\ (q = <<>> \/ eof)
  BY DEF ReadEnd, ReadAgain
<1>2. /\ ~program.script /\ pc = "read" /\ UNCHANGED <<program, f, n, answers>> /\ eof' = TRUE
      /\ answers' \subseteq 1 .. n' \cup (IF eof THEN {Len(Lines) + 1} ELSE {})
  BY DEF ReadEnd, ReadAgain, Interactive, InputInv, Reading
<1>3. QueryLines' = QueryLines /\ Lines' = Lines /\ Newline' = Newline
  BY <1>2, QueryLinesStay DEF Lines, Newline
<1>4. PICK S : QueryLines \in Seq(S)
  BY QueryLinesCounted DEF InputInv, MainInv, MainTypeOK
<1>5. given \in Seq(Seq(Char))
  BY DEF InputInv, MainInv, MainTypeOK
<1>6. /\ Len(QueryLines) <= Len(given) /\ SubSeq(given, 1, Len(QueryLines)) = QueryLines
      /\ \A k \in Len(QueryLines) + 1 .. Len(given) : Repeats(given[k])
  <2>1. CASE eof
    BY <1>2, <2>1 DEF InputInv, Reading, Ended
  <2>2. CASE ~eof
    <3>1. given = QueryLines
      BY <1>2, <2>2 DEF InputInv, Reading, Fed
    <3>. QED BY <1>4, <3>1, WholeSeq
  <2>. QED BY <2>1, <2>2
<1>7. Repeats(q) /\ query' = q
  BY <1>1, <1>2 DEF HandOver, InputInv, Reading, Ended, Repeats
<1>8. \A x : Repeats(x) => Repeats(x)'
  BY <1>2, <1>3 DEF Repeats
<1>9. given' \in {given, Append(given, q)}
  BY <1>1 DEF HandOver
<1>10. /\ Len(QueryLines) <= Len(given') /\ SubSeq(given', 1, Len(QueryLines)) = QueryLines
       /\ \A k \in Len(QueryLines) + 1 .. Len(given') : Repeats(given'[k])
  <2>1. CASE given' = given
    BY <1>6, <2>1
  <2>2. CASE given' = Append(given, q)
    BY <1>4, <1>5, <1>6, <1>7, <2>2, OneMore
  <2>. QED BY <1>9, <2>1, <2>2
<1>11. Ended'
  BY <1>3, <1>7, <1>8, <1>10 DEF Ended
<1>12. n' <= Len(Lines') /\ pc' # "open"
  BY <1>1, <1>2, <1>3 DEF HandOver, InputInv, Reading
<1>. QED BY <1>2, <1>3, <1>11, <1>12 DEF Reading

(* A question takes a line that is then none of the queries.               *)
LEMMA PromptReads ==
  ASSUME InputInv, Prompt
  PROVE  Reading'
<1>1. /\ ~program.script /\ pc = "run" /\ ~eof /\ UNCHANGED <<program, f, query, pc, given>>
      /\ answers' = answers \cup {n + 1}
      /\ n' = (IF n < Len(Lines) THEN n + 1 ELSE n)
      /\ eof' = (n' = Len(Lines) /\ (n = n' \/ ~Newline))
  BY DEF Prompt, Running
<1>2. n \in Nat /\ Len(Lines) \in Nat /\ n <= Len(Lines)
  BY <1>1, LinesTyped DEF InputInv, MainInv, MainTypeOK, InFile, Reading
<1>3. answers \subseteq 1 .. n /\ Fed /\ QueryLines # <<>>
  BY <1>1 DEF InputInv, Reading, Fed
<1>4. (1 .. n \ answers)' = 1 .. n \ answers
  BY <1>1, <1>2, <1>3
<1>5. QueryLines' = QueryLines /\ Lines' = Lines /\ Newline' = Newline
  BY <1>1, <1>4, QueryLinesStay DEF Lines, Newline
<1>6. PICK S : QueryLines \in Seq(S)
  BY <1>2, QueryLinesCounted
<1>7. n' <= Len(Lines') /\ answers' \subseteq 1 .. n' \cup (IF eof' THEN {Len(Lines') + 1} ELSE {})
  <2>1. CASE n < Len(Lines)
    <3>1. n' = n + 1 /\ answers' \subseteq 1 .. n'
      BY <1>1, <1>2, <1>3, <2>1
    <3>. QED BY <1>2, <1>5, <2>1, <3>1
  <2>2. CASE n = Len(Lines)
    <3>0. n' = n
      BY <1>1, <1>2, <2>2
    <3>1. answers' \subseteq 1 .. n' \cup {Len(Lines) + 1}
      BY <1>1, <1>3, <2>2, <3>0
    <3>2. eof' = TRUE
      BY <1>1, <1>2, <2>2, <3>0
    <3>. QED BY <1>2, <1>5, <2>2, <3>0, <3>1, <3>2
  <2>. QED BY <1>2, <2>1, <2>2
<1>8. CASE eof'
  <2>1. ~Newline' \/ Len(Lines') + 1 \in answers'
    BY <1>1, <1>2, <1>5, <1>8
  <2>2. Repeats(query)'
    BY <1>1, <1>3, <1>5, <2>1 DEF Repeats, Fed
  <2>3. Len(QueryLines) \in Nat /\ SubSeq(QueryLines, 1, Len(QueryLines)) = QueryLines
    BY <1>6, WholeSeq
  <2>4. Ended'
    BY <1>1, <1>3, <1>5, <2>2, <2>3 DEF Ended, Fed
  <2>. QED BY <1>1, <1>7, <1>8, <2>4 DEF Reading
<1>9. CASE ~eof'
  <2>1. Fed'
    BY <1>1, <1>3, <1>5 DEF Fed
  <2>. QED BY <1>1, <1>7, <1>9, <2>1 DEF Reading
<1>. QED BY <1>8, <1>9

LEMMA NextInput == InputInv /\ [Next]_vars => InputInv'
<1> SUFFICES ASSUME InputInv, [Next]_vars, ~program'.script PROVE Reading'
  BY NextMain DEF InputInv
<1>1. program' = program /\ ~program.script
  BY DEF Next, vars, main, ReadInput, ReadEnd, ReadAgain, OpenFile, AbortOpen, ScriptsDone,
         ContinueQuery, EndQuery, FileEnd, Lexing, Lexed, Parsing, Caught, Parsed, Prompt,
         Executed, Quit, Abort, BackToInput
<1>2. pc # "open"
  BY <1>1 DEF InputInv, Reading
<1>3. CASE ReadInput
  BY <1>3, ReadInputReads
<1>4. CASE ReadEnd \/ ReadAgain
  BY <1>4, EndReads
<1>5. CASE OpenFile \/ AbortOpen \/ ScriptsDone \/ ContinueQuery \/ EndQuery \/ FileEnd
  BY <1>1, <1>2, <1>5
  DEF OpenFile, AbortOpen, ScriptsDone, ContinueQuery, EndQuery, FileEnd, InScript
<1>6. CASE Lexing \/ Lexed \/ Parsing \/ Parsed
  BY <1>1, <1>2, <1>6, ReadingKept DEF Lexing, Lexed, Parsing, Parsed, main
<1>7. CASE Caught \/ Executed
  BY <1>1, <1>7, ReadingKept DEF Caught, Executed, BackToInput
<1>8. CASE Quit \/ Abort
  BY <1>1, <1>2, <1>8, ReadingKept DEF Quit, Abort, Running
<1>9. CASE Prompt
  BY <1>9, PromptReads
<1>10. CASE UNCHANGED vars
  BY <1>1, <1>2, <1>10, ReadingKept DEF vars, main
<1>. QED BY <1>3, <1>4, <1>5, <1>6, <1>7, <1>8, <1>9, <1>10 DEF Next

(* HandledOnce holds: of no input, however long, whichever of its lines    *)
(* answer a RENAME, is a line executed twice or lost before the end        *)
(* (interactive, RenameCommand::execute).                                  *)
THEOREM LinesHandledOnce == Spec => []HandledOnce
<1>. QED BY InitInput, NextInput, ReadingHandled, PTL DEF Spec
=============================================================================
