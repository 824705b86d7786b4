------------------------ MODULE KeplerGrammarProofs ------------------------
(***************************************************************************)
(* Proofs about what the program makes of what is written: the queries of  *)
(* a script as its lines, gathered up to the first semicolon of the line   *)
(* in which they end, and the arguments of a command as the values, and    *)
(* the lists, of its statement.                                            *)
(***************************************************************************)
EXTENDS KeplerGrammar, KeplerMainProofs

-----------------------------------------------------------------------------
(* Scripts.  Between two queries the buffer is empty, so the last query    *)
(* ends in the last line read.                                             *)

LastLine == EndLine(Cardinality(Ending))

Scripted ==
  /\ n <= Len(Lines) /\ LastLine \in 0 .. n
  /\ given = [k \in 1 .. Cardinality(Ending) |-> QueryOf(k)]
  /\ IF pc = "read" THEN query = LinesAfter(LastLine)[n - LastLine] ELSE LastLine = n

GivenInv == MainInv /\ (program.script /\ pc \in InFile => Scripted)

LEMMA GivenFollows == GivenInv => GivenMatchesFile
BY DEF GivenInv, Scripted, GivenMatchesFile, InFile, LastLine

LEMMA LinesAfterSteps ==
  ASSUME MainInv, pc \in InFile, NEW a \in 0 .. Len(Lines)
  PROVE  /\ LinesAfter(a)[0] = <<>>
         /\ \A m \in 1 .. Len(Lines) - a :
              LinesAfter(a)[m] = LinesAfter(a)[m - 1] \o (Lines[a + m] \o <<WHITESPACE>>)
         /\ \A m \in 0 .. Len(Lines) - a : LinesAfter(a)[m] \in Seq(Char)
<1> DEFINE parts == [j \in 1 .. Len(Lines) - a |-> Lines[a + j] \o <<WHITESPACE>>]
<1>1. Len(Lines) \in Nat /\ \A j \in 1 .. Len(Lines) : Lines[j] \in Seq(Char)
  BY LinesTyped
<1>2. WHITESPACE \in Char
  BY DEF Char, Extra
<1>3. \A j \in 1 .. Len(Lines) - a : Lines[a + j] \o <<WHITESPACE>> \in Seq(Char)
  BY <1>1, <1>2
<1>4. parts \in Seq(Seq(Char)) /\ Len(parts) = Len(Lines) - a
  BY <1>1, <1>3
<1>5. \A j \in 1 .. Len(Lines) - a : parts[j] = Lines[a + j] \o <<WHITESPACE>>
  OBVIOUS
<1>6. LinesAfter(a) = Buffer(<<>>, parts)
  BY DEF LinesAfter
<1> HIDE DEF parts
<1>7. Len(parts) \in Nat /\ <<>> \in Seq(Char)
  BY <1>1, <1>4
<1>8. Filled(LinesAfter(a), <<>>, parts)
  BY <1>6, <1>7, BufferSteps
<1>9. \A m \in 0 .. Len(parts) : LinesAfter(a)[m] \in Seq(Char)
  BY <1>4, <1>6, <1>7, BufferGrows
<1>. QED BY <1>4, <1>5, <1>8, <1>9 DEF Filled

(* As long as no line is read, everything stays.                           *)
LEMMA LinesStay ==
  ASSUME UNCHANGED <<program, f>>
  PROVE  /\ Lines' = Lines /\ \A a : LinesAfter(a)' = LinesAfter(a)
         /\ n' = n => Ending' = Ending /\ \A k : EndLine(k)' = EndLine(k) /\ QueryOf(k)' = QueryOf(k)
<1>1. Lines' = Lines
  BY DEF Lines
<1>2. \A a : LinesAfter(a)' = LinesAfter(a)
  BY <1>1 DEF LinesAfter
<1>3. ASSUME n' = n
      PROVE  Ending' = Ending /\ \A k : EndLine(k)' = EndLine(k) /\ QueryOf(k)' = QueryOf(k)
  <2>1. Ending' = Ending
    BY <1>1, <1>3 DEF Ending
  <2>2. \A k : EndLine(k)' = EndLine(k)
    BY <2>1 DEF EndLine
  <2>. QED BY <1>1, <1>2, <2>1, <2>2 DEF QueryOf
<1>. QED BY <1>1, <1>2, <1>3

(* A step that reads no line and hands nothing over.                       *)
LEMMA ScriptedKept ==
  ASSUME Scripted, UNCHANGED <<program, f, n, given>>, n \in Nat,
         pc = "read" => pc' = "read" /\ query' = query,
         pc # "read" /\ pc' = "read" => query' = <<>>,
         MainInv, pc \in InFile
  PROVE  Scripted'
<1>1. /\ Lines' = Lines /\ Ending' = Ending /\ LastLine' = LastLine
      /\ \A k : QueryOf(k)' = QueryOf(k) /\ LinesAfter(k)' = LinesAfter(k)
  BY LinesStay DEF LastLine
<1>2. given' = [k \in 1 .. Cardinality(Ending)' |-> QueryOf(k)']
  BY <1>1 DEF Scripted
<1>3. ASSUME pc # "read", pc' = "read"
      PROVE  query' = LinesAfter(LastLine)[n - LastLine]
  <2>1. LastLine = n /\ n - n = 0 /\ n \in 0 .. Len(Lines)
    BY <1>3, LinesTyped DEF Scripted
  <2>. QED BY <1>3, <2>1, LinesAfterSteps
<1>4. IF pc' = "read" THEN query' = LinesAfter(LastLine)[n - LastLine] ELSE LastLine = n
  BY <1>3 DEF Scripted
<1>. QED BY <1>1, <1>2, <1>4 DEF Scripted

LEMMA EndingGrows ==
  ASSUME n \in Nat, n' = n + 1, UNCHANGED <<program, f>>
  PROVE  Ending' = IF Semicolons(Lines[n + 1]) = {} THEN Ending ELSE Ending \cup {n + 1}
<1>1. Lines' = Lines /\ 1 .. n' = (1 .. n) \cup {n + 1}
  BY LinesStay
<1>2. Ending' = {j \in (1 .. n) \cup {n + 1} : Semicolons(Lines[j]) # {}}
  BY <1>1 DEF Ending, Semicolons
<1>. QED BY <1>2 DEF Ending

LEMMA Associates ==
  ASSUME NEW S, NEW u \in Seq(S), NEW v \in Seq(S), NEW w \in Seq(S)
  PROVE  u \o v \o w = u \o (v \o w)
BY ConcatAssociative

LEMMA AppendIs ==
  ASSUME NEW S, NEW g \in Seq(S), NEW x
  PROVE  Append(g, x) = [k \in 1 .. Len(g) + 1 |-> IF k <= Len(g) THEN g[k] ELSE x]
<1>1. g \in Seq(S \cup {x}) /\ x \in S \cup {x} /\ Len(g) \in Nat
  OBVIOUS
<1>2. /\ Append(g, x) \in Seq(S \cup {x}) /\ Len(Append(g, x)) = Len(g) + 1
      /\ \A k \in 1 .. Len(g) : Append(g, x)[k] = g[k]
      /\ Append(g, x)[Len(g) + 1] = x
  BY <1>1
<1>3. PICK h : h = Append(g, x)
  OBVIOUS
<1>4. h \in Seq(S \cup {x}) /\ Len(h) = Len(g) + 1
  BY <1>2, <1>3
<1>5. h = [k \in 1 .. Len(g) + 1 |-> h[k]]
  BY <1>4
<1>6. \A k \in 1 .. Len(g) + 1 : h[k] = IF k <= Len(g) THEN g[k] ELSE x
  BY <1>1, <1>2, <1>3
<1>. QED BY <1>3, <1>5, <1>6

LEMMA ContinueKeeps ==
  ASSUME GivenInv, ContinueQuery
  PROVE  Scripted'
<1>1. /\ pc = "read" /\ program.script /\ n < Len(Lines)
      /\ SEMICOLON \notin {Lines[n + 1][p] : p \in DOMAIN Lines[n + 1]}
      /\ query' = query \o Lines[n + 1] \o <<WHITESPACE>> /\ n' = n + 1
      /\ UNCHANGED <<program, f, pc, given>>
  BY DEF ContinueQuery, InScript
<1>2. MainInv /\ Scripted /\ pc \in InFile /\ n \in Nat /\ Len(Lines) \in Nat
      /\ Lines[n + 1] \in Seq(Char)
  BY <1>1, LinesTyped DEF GivenInv, MainInv, MainTypeOK, InFile
<1>3. Ending' = Ending /\ Lines' = Lines
  <2>1. Semicolons(Lines[n + 1]) = {}
    BY <1>1 DEF Semicolons
  <2>. QED BY <1>1, <1>2, <2>1, EndingGrows, LinesStay
<1>4. /\ LastLine' = LastLine /\ \A a : LinesAfter(a)' = LinesAfter(a)
      /\ \A k : EndLine(k)' = EndLine(k)
  BY <1>1, <1>3, LinesStay DEF LastLine, EndLine
<1>5. \A k : QueryOf(k)' = QueryOf(k)
  BY <1>3, <1>4 DEF QueryOf
<1>6. given' = [k \in 1 .. Cardinality(Ending)' |-> QueryOf(k)']
  BY <1>1, <1>2, <1>3, <1>5 DEF Scripted
<1>7. LastLine \in 0 .. n /\ query = LinesAfter(LastLine)[n - LastLine]
  BY <1>1, <1>2 DEF Scripted
<1>8. query' = LinesAfter(LastLine)[n + 1 - LastLine]
  <2>1. PICK a \in 0 .. n : a = LastLine
    BY <1>7
  <2>2. /\ a \in 0 .. Len(Lines) /\ n + 1 - a \in 1 .. Len(Lines) - a /\ (n + 1 - a) - 1 = n - a
        /\ a + (n + 1 - a) = n + 1
    BY <1>1, <1>2
  <2>3. LinesAfter(a)[n + 1 - a] = query \o (Lines[n + 1] \o <<WHITESPACE>>)
    BY <1>2, <1>7, <2>1, <2>2, LinesAfterSteps
  <2>4. query \in Seq(Char) /\ <<WHITESPACE>> \in Seq(Char)
    BY <1>2 DEF MainInv, MainTypeOK, Char, Extra
  <2>5. query \o Lines[n + 1] \o <<WHITESPACE>> = query \o (Lines[n + 1] \o <<WHITESPACE>>)
    <3>1. PICK u, v, w : u = query /\ v = Lines[n + 1] /\ w = <<WHITESPACE>>
      OBVIOUS
    <3>2. u \in Seq(Char) /\ v \in Seq(Char) /\ w \in Seq(Char)
      BY <1>2, <2>4, <3>1
    <3>3. u \o v \o w = u \o (v \o w)
      BY <3>2, Associates
    <3>. QED BY <3>1, <3>3
  <2>. QED BY <1>1, <2>1, <2>3, <2>5
<1>9. n' <= Len(Lines') /\ LastLine' \in 0 .. n' /\ n' - LastLine' = n + 1 - LastLine
  BY <1>1, <1>2, <1>3, <1>4, <1>7
<1>10. query' = LinesAfter(LastLine)'[n' - LastLine']
  BY <1>4, <1>8, <1>9
<1>. QED BY <1>1, <1>4, <1>6, <1>9, <1>10 DEF Scripted

(* A query ends: it is the text since the last one.                        *)
LEMMA EndKeeps ==
  ASSUME GivenInv, EndQuery
  PROVE  Scripted'
<1>1. /\ pc = "read" /\ program.script /\ n < Len(Lines) /\ n' = n + 1
      /\ UNCHANGED <<program, f>>
  BY DEF EndQuery, InScript
<1>2. MainInv /\ Scripted /\ pc \in InFile /\ n \in Nat /\ Len(Lines) \in Nat
      /\ Lines[n + 1] \in Seq(Char)
  BY <1>1, LinesTyped DEF GivenInv, MainInv, MainTypeOK, InFile
<1>3. PICK p \in DOMAIN Lines[n + 1] :
        /\ Lines[n + 1][p] = SEMICOLON /\ \A r \in 1 .. p - 1 : Lines[n + 1][r] # SEMICOLON
        /\ HandOver(query \o SubSeq(Lines[n + 1], 1, p - 1))
  BY DEF EndQuery
<1>4. Semicolons(Lines[n + 1]) # {} /\ Cut(Lines[n + 1]) = SubSeq(Lines[n + 1], 1, p - 1)
  <2> DEFINE l == Lines[n + 1]
  <2>1. DOMAIN l = 1 .. Len(l) /\ Len(l) \in Nat
    BY <1>2
  <2>2. \A q \in Semicolons(l) : q \in 1 .. Len(l) /\ l[q] = SEMICOLON
    BY <2>1 DEF Semicolons
  <2>3. p \in Semicolons(l) /\ \A q \in Semicolons(l) : p <= q
    <3>1. p \in Semicolons(l)
      BY <1>3 DEF Semicolons
    <3>2. ASSUME NEW q \in Semicolons(l) PROVE p <= q
      BY <1>3, <2>1, <2>2
    <3>. QED BY <3>1, <3>2
  <2>4. \A q \in Semicolons(l) : (\A r \in Semicolons(l) : q <= r) => q = p
    BY <2>1, <2>2, <2>3
  <2> HIDE DEF l
  <2>5. (CHOOSE q \in Semicolons(l) : \A r \in Semicolons(l) : q <= r) = p
    BY <2>3, <2>4
  <2>. QED BY <2>3, <2>5 DEF Cut, l
<1>5. PICK E, c : E = Ending /\ c = Cardinality(Ending)
  OBVIOUS
<1>6. E \in SUBSET (1 .. n) /\ c = Cardinality(E) /\ c \in 0 .. n
  <2>1. E \in SUBSET (1 .. n)
    BY <1>5 DEF Ending
  <2>. QED BY <1>2, <1>5, <2>1, Counted
<1>7. Ending' = E \cup {n + 1} /\ Cardinality(Ending') = c + 1
  <2>1. Ending' = E \cup {n + 1}
    BY <1>1, <1>2, <1>4, <1>5, EndingGrows
  <2>. QED BY <1>2, <1>6, <2>1, Counted
<1>8. /\ \A k \in 0 .. c : EndLine(k)' = EndLine(k)
      /\ EndLine(c + 1)' = n + 1
  <2>1. /\ \A k \in 1 .. c : Kth(E \cup {n + 1}, k) = Kth(E, k)
        /\ Kth(E \cup {n + 1}, c + 1) = n + 1
    BY <1>2, <1>6, KthWithLast
  <2>2. c + 1 # 0 /\ \A k \in 0 .. c : k = 0 \/ k \in 1 .. c
    BY <1>6
  <2>3. \A k : EndLine(k)' = IF k = 0 THEN 0 ELSE Kth(E \cup {n + 1}, k)
    BY <1>7 DEF EndLine
  <2>4. \A k : EndLine(k) = IF k = 0 THEN 0 ELSE Kth(E, k)
    BY <1>5 DEF EndLine
  <2>. QED BY <2>1, <2>2, <2>3, <2>4
<1>9. Lines' = Lines /\ \A a : LinesAfter(a)' = LinesAfter(a)
  BY <1>1, LinesStay
<1>10. \A k \in 1 .. c : QueryOf(k)' = QueryOf(k)
  <2> SUFFICES ASSUME NEW k \in 1 .. c PROVE QueryOf(k)' = QueryOf(k)
    OBVIOUS
  <2>1. k \in 0 .. c /\ k - 1 \in 0 .. c
    BY <1>6
  <2>. QED BY <1>8, <1>9, <2>1 DEF QueryOf
<1>11. LastLine = EndLine(c) /\ LastLine' = n + 1 /\ LastLine \in 0 .. n
  BY <1>2, <1>5, <1>7, <1>8 DEF LastLine, Scripted
<1>12. QueryOf(c + 1)' = query \o Cut(Lines[n + 1])
  <2>1. c \in 0 .. c /\ (c + 1) - 1 = c /\ n + 1 - 1 - LastLine = n - LastLine
    BY <1>2, <1>6, <1>11
  <2>2. EndLine(c)' = LastLine /\ query = LinesAfter(LastLine)[n - LastLine]
    BY <1>1, <1>2, <1>8, <1>11, <2>1 DEF Scripted
  <2>3. EndLine((c + 1) - 1)' = LastLine /\ EndLine(c + 1)' = n + 1
    BY <1>8, <2>1, <2>2
  <2>4. PICK a, z : a = EndLine((c + 1) - 1)' /\ z = EndLine(c + 1)'
    OBVIOUS
  <2>5. QueryOf(c + 1)' = LinesAfter(a)'[z - 1 - a] \o Cut(Lines'[z])
    BY <2>4 DEF QueryOf
  <2>6. a = LastLine /\ z = n + 1 /\ z - 1 - a = n - LastLine
    <3>1. a = LastLine /\ z = n + 1
      BY <2>3, <2>4
    <3>2. a \in 0 .. n
      BY <1>11, <3>1
    <3>3. z - 1 - a = n - a
      BY <1>2, <3>1, <3>2
    <3>. QED BY <3>1, <3>2, <3>3
  <2>7. LinesAfter(a)'[z - 1 - a] = query
    BY <1>9, <2>2, <2>6
  <2>. QED BY <1>9, <2>5, <2>6, <2>7
<1>13. given' = [k \in 1 .. c + 1 |-> QueryOf(k)']
  <2>1. given = [k \in 1 .. c |-> QueryOf(k)] /\ given \in Seq(Seq(Char))
    BY <1>2, <1>5 DEF Scripted, MainInv, MainTypeOK
  <2>2. Len(given) = c
    BY <1>6, <2>1
  <2>3. PICK q : q = QueryOf(c + 1)'
    OBVIOUS
  <2>4. given' = Append(given, q)
    <3>1. ~(Len(given) > Len(Lines) + 1)
      BY <1>1, <1>2, <1>6, <2>2
    <3>. QED BY <1>3, <1>4, <1>12, <2>3, <3>1 DEF HandOver
  <2>5. PICK g : g = given
    OBVIOUS
  <2>6. g \in Seq(Seq(Char)) /\ Len(g) = c /\ \A k \in 1 .. c : g[k] = QueryOf(k)'
    BY <1>10, <2>1, <2>2, <2>5
  <2>7. Append(g, q) = [k \in 1 .. c + 1 |-> IF k <= c THEN g[k] ELSE q]
    BY <2>6, AppendIs
  <2>8. \A k \in 1 .. c + 1 : (IF k <= c THEN g[k] ELSE q) = QueryOf(k)'
    <3>1. \A k \in 1 .. c + 1 : IF k <= c THEN k \in 1 .. c ELSE k = c + 1
      BY <1>6
    <3>. QED BY <2>3, <2>6, <3>1
  <2>. QED BY <2>4, <2>5, <2>7, <2>8
<1>14. pc' # "read"
  BY <1>3 DEF HandOver
<1>15. n' <= Len(Lines') /\ LastLine' \in 0 .. n' /\ LastLine' = n'
  BY <1>1, <1>2, <1>9, <1>11
<1>16. given' = [k \in 1 .. Cardinality(Ending)' |-> QueryOf(k)']
  BY <1>7, <1>13
<1>. QED BY <1>14, <1>15, <1>16 DEF Scripted

LEMMA NoneAfter ==
  MainInv /\ pc \in InFile => Len(Lines) \in Nat /\ LinesAfter(0)[0] = <<>>
<1> SUFFICES ASSUME MainInv, pc \in InFile
             PROVE  Len(Lines) \in Nat /\ LinesAfter(0)[0] = <<>>
  OBVIOUS
<1>1. Len(Lines) \in Nat /\ 0 \in 0 .. Len(Lines)
  BY LinesTyped
<1>. QED BY <1>1, LinesAfterSteps

LEMMA OpenKeeps ==
  ASSUME MainInv', OpenFile
  PROVE  Scripted'
<1>1. n' = 0 /\ query' = <<>> /\ pc' = "read" /\ given' = <<>>
  BY DEF OpenFile
<1>2. Len(Lines') \in Nat /\ LinesAfter(0)'[0] = <<>>
  <2>1. (MainInv /\ pc \in InFile => Len(Lines) \in Nat /\ LinesAfter(0)[0] = <<>>)'
    BY NoneAfter, PTL
  <2>2. pc' \in InFile
    BY <1>1 DEF InFile
  <2>. QED BY <2>1, <2>2
<1>3. Ending' = {} /\ Cardinality(Ending') = 0
  <2>1. Ending' = {}
    BY <1>1 DEF Ending
  <2>. QED BY <2>1, FS_EmptySet
<1>4. LastLine' = 0
  BY <1>3 DEF LastLine, EndLine
<1>5. given' = [k \in 1 .. Cardinality(Ending)' |-> QueryOf(k)']
  BY <1>1, <1>3
<1>. QED BY <1>1, <1>2, <1>4, <1>5 DEF Scripted

LEMMA NextGiven == GivenInv /\ [Next]_vars => GivenInv'
<1> SUFFICES ASSUME GivenInv, [Next]_vars, program'.script, pc' \in InFile PROVE Scripted'
  BY NextMain DEF GivenInv
<1>1. program' = program /\ program.script
  BY DEF Next, vars, main, ReadInput, ReadEnd, ReadAgain, OpenFile, AbortOpen, ScriptsDone,
         ContinueQuery, EndQuery, FileEnd, Lexing, Lexed, Parsing, Caught, Parsed, Prompt,
         Executed, Quit, Abort, BackToInput
<1>2. MainInv /\ n \in Nat /\ MainInv'
  BY NextMain DEF GivenInv, MainInv, MainTypeOK
<1>3. ASSUME pc \in InFile PROVE Scripted
  BY <1>1, <1>3 DEF GivenInv
<1>4. CASE ReadInput \/ ReadEnd \/ ReadAgain \/ Prompt
  BY <1>1, <1>4 DEF ReadInput, ReadEnd, ReadAgain, Interactive, Prompt
<1>5. CASE AbortOpen \/ ScriptsDone \/ FileEnd \/ Quit \/ Abort
  BY <1>5 DEF AbortOpen, ScriptsDone, FileEnd, Quit, Abort, InFile
<1>6. CASE OpenFile
  BY <1>2, <1>6, OpenKeeps
<1>7. CASE ContinueQuery
  BY <1>7, ContinueKeeps
<1>8. CASE EndQuery
  BY <1>8, EndKeeps
<1>9. CASE Lexing \/ Lexed \/ Parsing \/ Parsed
  <2>1. pc \in InFile /\ pc # "read" /\ pc' # "read" /\ UNCHANGED <<program, f, n, given>>
    BY <1>9 DEF Lexing, Lexed, Parsing, Parsed, main, InFile
  <2>. QED BY <1>2, <1>3, <2>1, ScriptedKept
<1>10. CASE Caught \/ Executed
  <2>1. pc \in InFile /\ pc # "read" /\ query' = <<>> /\ UNCHANGED <<program, f, n, given>>
    BY <1>1, <1>10 DEF Caught, Executed, BackToInput, InFile
  <2>. QED BY <1>2, <1>3, <2>1, ScriptedKept
<1>11. CASE UNCHANGED vars
  <2>1. pc' = pc /\ query' = query /\ UNCHANGED <<program, f, n, given>>
    BY <1>11 DEF vars, main
  <2>. QED BY <1>2, <1>3, <2>1, ScriptedKept
<1>. QED BY <1>4, <1>5, <1>6, <1>7, <1>8, <1>9, <1>10, <1>11 DEF Next

LEMMA InitGiven == Init => GivenInv
<1> SUFFICES ASSUME Init PROVE program.script => pc \notin InFile
  BY InitMain DEF GivenInv
<1>. QED BY DEF Init, InFile

(* GivenMatchesFile holds: of scripts of any number and length, a query is *)
(* made of the lines since the last one with a semicolon and of its own    *)
(* line up to the first semicolon, whatever the query before it came to    *)
(* (fromFile()).                                                           *)
THEOREM ScriptsGiven == Spec => []GivenMatchesFile
<1>. QED BY InitGiven, NextGiven, GivenFollows, PTL DEF Spec


-----------------------------------------------------------------------------
(* Arguments as they are written.                                          *)

(* What an argument can be, given what the elements of a list can be.      *)
Wrapped(S) == Token \cup [type : {"LIST"}, items : Seq(S)]

LEMMA NestedSteps == Nested[0] = Token /\ \A d \in Nat : Nested[d + 1] = Wrapped(Nested[d])
<1> DEFINE For(e, i) == e[0] = Token /\ \A m \in 1 .. i : e[m] = Wrapped(e[m - 1])
           G == {i \in Nat : \E e : For(e, i)}
           F(i) == CHOOSE e : For(e, i)
           g == [i \in Nat |-> F(i)[i]]
           Sol(e) == e = [d \in Nat |-> IF d = 0 THEN Token ELSE Wrapped(e[d - 1])]
<1>1. 0 \in G
  <2>1. For([i \in {0} |-> Token], 0)
    OBVIOUS
  <2>. QED BY <2>1
<1>2. ASSUME NEW i \in Nat, i \in G
      PROVE  i + 1 \in G
  <2>1. PICK e : For(e, i)
    BY <1>2
  <2> DEFINE h == [m \in 0 .. i + 1 |-> IF m <= i THEN e[m] ELSE Wrapped(e[i])]
  <2>2. ASSUME NEW m \in 1 .. i + 1
        PROVE  h[m] = Wrapped(h[m - 1])
    <3>1. CASE m <= i
      <4>1. m \in 1 .. i /\ h[m] = e[m] /\ h[m - 1] = e[m - 1]
        BY <3>1
      <4> HIDE DEF h
      <4>. QED BY <2>1, <4>1
    <3>2. CASE m = i + 1
      <4>1. h[m] = Wrapped(e[i]) /\ h[m - 1] = e[i]
        BY <3>2
      <4> HIDE DEF h
      <4>. QED BY <4>1
    <3>. QED BY <3>1, <3>2
  <2>3. h[0] = Token
    BY <2>1
  <2>4. For(h, i + 1)
    BY <2>2, <2>3
  <2> HIDE DEF h
  <2>. QED BY <2>4
<1>3. \A i \in Nat : For(F(i), i)
  <2>1. \A i \in Nat : i \in G
    <3> HIDE DEF G
    <3>. QED BY <1>1, <1>2, NumberInduction
  <2>2. \A i \in Nat : \E e : For(e, i)
    BY <2>1
  <2> HIDE DEF For
  <2>. QED BY <2>2
<1>4. ASSUME NEW i \in Nat, NEW e, NEW h, For(e, i), For(h, i)
      PROVE  e[i] = h[i]
  <2> DEFINE U == {m \in Nat : m <= i => e[m] = h[m]}
  <2>1. 0 \in U
    BY <1>4
  <2>2. ASSUME NEW m \in Nat, m \in U
        PROVE  m + 1 \in U
    <3> SUFFICES ASSUME m + 1 <= i PROVE e[m + 1] = h[m + 1]
      OBVIOUS
    <3>1. m + 1 \in 1 .. i /\ (m + 1) - 1 = m /\ e[m] = h[m]
      BY <2>2
    <3>2. e[m + 1] = Wrapped(e[(m + 1) - 1]) /\ h[m + 1] = Wrapped(h[(m + 1) - 1])
      BY <1>4, <3>1
    <3>. QED BY <3>1, <3>2
  <2>3. i \in U
    <3> HIDE DEF U
    <3>. QED BY <2>1, <2>2, NumberInduction
  <2>. QED BY <2>3
<1>5. \A i \in Nat : g[i] = F(i)[i]
  OBVIOUS
<1> HIDE DEF F, g
<1>6. g[0] = Token
  BY <1>3, <1>5
<1>7. ASSUME NEW i \in Nat
      PROVE  g[i + 1] = Wrapped(g[i])
  <2>1. For(F(i + 1), i + 1) /\ For(F(i), i)
    BY <1>3
  <2>2. For(F(i + 1), i)
    BY <2>1
  <2>3. F(i + 1)[i] = F(i)[i]
    <3> HIDE DEF For
    <3>. QED BY <1>4, <2>1, <2>2
  <2>4. F(i + 1)[i + 1] = Wrapped(F(i + 1)[(i + 1) - 1]) /\ (i + 1) - 1 = i
    BY <2>1
  <2>. QED BY <1>5, <2>3, <2>4
<1>8. Sol(g)
  <2>1. \A d \in Nat : g[d] = IF d = 0 THEN Token ELSE Wrapped(g[d - 1])
    <3>1. ASSUME NEW d \in Nat, d # 0 PROVE g[d] = Wrapped(g[d - 1])
      <4>1. d - 1 \in Nat /\ (d - 1) + 1 = d
        BY <3>1
      <4>2. g[(d - 1) + 1] = Wrapped(g[d - 1])
        BY <1>7, <4>1
      <4>. QED BY <4>1, <4>2
    <3>. QED BY <1>6, <3>1
  <2>. QED BY <2>1 DEF g
<1>9. Nested = CHOOSE e : Sol(e)
  BY DEF Nested, Wrapped
<1>10. Sol(Nested)
  <2> HIDE DEF Sol
  <2>. QED BY <1>8, <1>9
<1>11. \A d \in Nat : Nested[d] = IF d = 0 THEN Token ELSE Wrapped(Nested[d - 1])
  <2> DEFINE N == Nested
  <2> HIDE DEF N
  <2>1. Sol(N)
    BY <1>10 DEF N
  <2>2. \A d \in Nat : N[d] = IF d = 0 THEN Token ELSE Wrapped(N[d - 1])
    BY <2>1
  <2>. QED BY <2>2 DEF N
<1>. QED BY <1>11

(* A level of the function that spells arguments, given the one below.     *)
Level(b, d, t) ==
  [v \in Nested[d] |->
     IF v.type = "LIST"
       THEN Buffer(b.open, [j \in DOMAIN v.items |-> t[v.items[j]]])[Len(v.items)] \o b.close
       ELSE <<v>>]

LEMMA SpelledSteps ==
  ASSUME NEW b
  PROVE  \A d \in Nat : Spelled(b)[d] = Level(b, d, Spelled(b)[d - 1])
<1> DEFINE For(e, i) == \A m \in 0 .. i : e[m] = Level(b, m, e[m - 1])
           G == {i \in Nat : \E e : For(e, i)}
           F(i) == CHOOSE e : For(e, i)
           g == [i \in Nat |-> F(i)[i]]
           Sol(e) == e = [d \in Nat |-> Level(b, d, e[d - 1])]
<1>1. \A s, t : Level(b, 0, s) = Level(b, 0, t)
  <2>1. \A v \in Nested[0] : v.type # "LIST"
    <3>1. \A v \in Token : v.type # "LIST"
      BY DEF Token, TokenTypes
    <3>. QED BY <3>1, NestedSteps
  <2>. QED BY <2>1 DEF Level
<1>2. 0 \in G
  <2> DEFINE h == [i \in {0} |-> Level(b, 0, b)]
  <2>1. h[0] = Level(b, 0, b)
    OBVIOUS
  <2> HIDE DEF h
  <2>2. For(h, 0)
    <3>1. ASSUME NEW m \in 0 .. 0 PROVE h[m] = Level(b, m, h[m - 1])
      <4>1. m = 0
        OBVIOUS
      <4>2. h[0] = Level(b, 0, h[0 - 1])
        BY <1>1, <2>1
      <4>. QED BY <4>1, <4>2
    <3>. QED BY <3>1
  <2>. QED BY <2>2
<1>3. ASSUME NEW i \in Nat, i \in G
      PROVE  i + 1 \in G
  <2>1. PICK e : For(e, i)
    BY <1>3
  <2> DEFINE h == [m \in 0 .. i + 1 |-> IF m <= i THEN e[m] ELSE Level(b, i + 1, e[i])]
  <2>2. ASSUME NEW m \in 0 .. i + 1
        PROVE  h[m] = Level(b, m, h[m - 1])
    <3>1. CASE m = 0
      <4>1. h[0] = e[0] /\ e[0] = Level(b, 0, e[0 - 1])
        BY <2>1
      <4> HIDE DEF h
      <4>2. Level(b, 0, e[0 - 1]) = Level(b, 0, h[0 - 1])
        BY <1>1
      <4>. QED BY <3>1, <4>1, <4>2
    <3>2. CASE m \in 1 .. i
      <4>1. m \in 0 .. i /\ h[m] = e[m] /\ h[m - 1] = e[m - 1]
        BY <3>2
      <4> HIDE DEF h
      <4>. QED BY <2>1, <4>1
    <3>3. CASE m = i + 1
      <4>1. h[m] = Level(b, i + 1, e[i]) /\ h[m - 1] = e[i]
        BY <3>3
      <4> HIDE DEF h
      <4>. QED BY <3>3, <4>1
    <3>. QED BY <3>1, <3>2, <3>3
  <2>3. For(h, i + 1)
    BY <2>2
  <2> HIDE DEF h
  <2>. QED BY <2>3
<1>4. \A i \in Nat : For(F(i), i)
  <2>1. \A i \in Nat : i \in G
    <3> HIDE DEF G
    <3>. QED BY <1>2, <1>3, NumberInduction
  <2>2. \A i \in Nat : \E e : For(e, i)
    BY <2>1
  <2> HIDE DEF For
  <2>. QED BY <2>2
<1>5. ASSUME NEW i \in Nat, NEW e, NEW h, For(e, i), For(h, i)
      PROVE  e[i] = h[i]
  <2> DEFINE U == {m \in Nat : m <= i => e[m] = h[m]}
  <2>1. 0 \in U
    <3>1. e[0] = Level(b, 0, e[0 - 1]) /\ h[0] = Level(b, 0, h[0 - 1])
      BY <1>5
    <3>2. Level(b, 0, e[0 - 1]) = Level(b, 0, h[0 - 1])
      BY <1>1
    <3>. QED BY <3>1, <3>2
  <2>2. ASSUME NEW m \in Nat, m \in U
        PROVE  m + 1 \in U
    <3> SUFFICES ASSUME m + 1 <= i PROVE e[m + 1] = h[m + 1]
      OBVIOUS
    <3>1. m + 1 \in 0 .. i /\ (m + 1) - 1 = m /\ e[m] = h[m]
      BY <2>2
    <3>2. e[m + 1] = Level(b, m + 1, e[(m + 1) - 1]) /\ h[m + 1] = Level(b, m + 1, h[(m + 1) - 1])
      BY <1>5, <3>1
    <3>. QED BY <3>1, <3>2
  <2>3. i \in U
    <3> HIDE DEF U
    <3>. QED BY <2>1, <2>2, NumberInduction
  <2>. QED BY <2>3
<1>6. \A i \in Nat : g[i] = F(i)[i]
  OBVIOUS
<1> HIDE DEF F, g
<1>7. ASSUME NEW d \in Nat
      PROVE  g[d] = Level(b, d, g[d - 1])
  <2>1. CASE d = 0
    <3>1. F(0)[0] = Level(b, 0, F(0)[0 - 1])
      BY <1>4
    <3>2. Level(b, 0, F(0)[0 - 1]) = Level(b, 0, g[0 - 1])
      BY <1>1
    <3>. QED BY <1>6, <2>1, <3>1, <3>2
  <2>2. CASE d # 0
    <3>1. d - 1 \in Nat /\ d \in 0 .. d
      BY <2>2
    <3>2. For(F(d), d) /\ For(F(d - 1), d - 1)
      BY <1>4, <3>1
    <3>3. For(F(d), d - 1)
      BY <3>2
    <3>4. F(d)[d - 1] = F(d - 1)[d - 1]
      <4> HIDE DEF For
      <4>. QED BY <1>5, <3>1, <3>2, <3>3
    <3>5. F(d)[d] = Level(b, d, F(d)[d - 1])
      BY <3>1, <3>2
    <3>. QED BY <1>6, <3>1, <3>4, <3>5
  <2>. QED BY <2>1, <2>2
<1>8. Sol(g)
  <2>1. g = [d \in Nat |-> g[d]]
    BY DEF g
  <2>. QED BY <1>7, <2>1
<1> DEFINE T == Spelled(b)
<1>9. T = CHOOSE e : Sol(e)
  BY DEF Spelled, Level
<1> HIDE DEF T
<1>10. Sol(T)
  <2> HIDE DEF Sol
  <2>. QED BY <1>8, <1>9
<1>11. \A d \in Nat : T[d] = Level(b, d, T[d - 1])
  BY <1>10
<1>. QED BY <1>11 DEF T

(* The tokens and brackets an argument is written with.                    *)
Piece == Token \cup {Opening, Closing}
Written(b) == b.open \in Seq(Piece) /\ b.close \in Seq(Piece)

LEMMA BothWritten == Written(Silent) /\ Written(Brackets)
BY DEF Written, Silent, Brackets, Piece

(* A token is written as itself, a list as its elements between its ends.  *)
LEMMA SpelledEach ==
  ASSUME NEW b, NEW d \in Nat
  PROVE  /\ \A v \in Token : v \in Nested[d] /\ Spelled(b)[d][v] = <<v>>
         /\ \A items \in Seq(Nested[d]) :
              /\ List(items) \in Nested[d + 1]
              /\ Spelled(b)[d + 1][List(items)] = Joined(b.open, Spelled(b)[d], items) \o b.close
         /\ \A v \in Nested[d + 1] : v \in Token \/ \E items \in Seq(Nested[d]) : v = List(items)
<1>1. Token \subseteq Nested[d]
  <2>1. d = 0 \/ (d - 1 \in Nat /\ (d - 1) + 1 = d)
    OBVIOUS
  <2>2. d - 1 \in Nat => Nested[(d - 1) + 1] = Wrapped(Nested[d - 1])
    BY NestedSteps
  <2>. QED BY <2>1, <2>2, NestedSteps DEF Wrapped
<1>2. Nested[d + 1] = Wrapped(Nested[d])
  BY NestedSteps
<1>3. /\ Spelled(b)[d] = Level(b, d, Spelled(b)[d - 1])
      /\ Spelled(b)[d + 1] = Level(b, d + 1, Spelled(b)[d])
  <2>1. d + 1 \in Nat /\ (d + 1) - 1 = d
    OBVIOUS
  <2>2. Spelled(b)[d + 1] = Level(b, d + 1, Spelled(b)[(d + 1) - 1])
    BY <2>1, SpelledSteps
  <2>3. Spelled(b)[d] = Level(b, d, Spelled(b)[d - 1])
    BY SpelledSteps
  <2>. QED BY <2>1, <2>2, <2>3
<1>4. \A v \in Token : v.type # "LIST"
  BY DEF Token, TokenTypes
<1>5. ASSUME NEW v \in Token PROVE Spelled(b)[d][v] = <<v>>
  BY <1>1, <1>3, <1>4 DEF Level
<1>6. ASSUME NEW items \in Seq(Nested[d])
      PROVE  /\ List(items) \in Nested[d + 1]
             /\ Spelled(b)[d + 1][List(items)] = Joined(b.open, Spelled(b)[d], items) \o b.close
  <2>1. List(items) \in Nested[d + 1]
    BY <1>2 DEF Wrapped, List
  <2>2. List(items).type = "LIST" /\ List(items).items = items
    BY DEF List
  <2>. QED BY <1>3, <2>1, <2>2 DEF Level, Joined, Mapped
<1>7. ASSUME NEW v \in Nested[d + 1], v \notin Token
      PROVE  \E items \in Seq(Nested[d]) : v = List(items)
  <2>1. v \in [type : {"LIST"}, items : Seq(Nested[d])]
    BY <1>2, <1>7 DEF Wrapped
  <2>. QED BY <2>1 DEF List
<1>. QED BY <1>1, <1>5, <1>6, <1>7

LEMMA SpelledTyped ==
  ASSUME NEW b, Written(b)
  PROVE  \A d \in Nat : \A v \in Nested[d] : Spelled(b)[d][v] \in Seq(Piece)
<1> DEFINE G == {d \in Nat : \A v \in Nested[d] : Spelled(b)[d][v] \in Seq(Piece)}
<1>1. \A v \in Token : <<v>> \in Seq(Piece)
  BY DEF Piece
<1>2. 0 \in G
  <2>1. \A v \in Token : Spelled(b)[0][v] = <<v>>
    BY SpelledEach
  <2>. QED BY <1>1, <2>1, NestedSteps
<1>3. ASSUME NEW d \in Nat, d \in G PROVE d + 1 \in G
  <2> SUFFICES ASSUME NEW v \in Nested[d + 1] PROVE Spelled(b)[d + 1][v] \in Seq(Piece)
    OBVIOUS
  <2>1. CASE v \in Token
    <3>1. d + 1 \in Nat
      OBVIOUS
    <3>2. Spelled(b)[d + 1][v] = <<v>>
      BY <2>1, <3>1, SpelledEach
    <3>. QED BY <1>1, <2>1, <3>2
  <2>2. CASE v \notin Token
    <3>1. PICK items \in Seq(Nested[d]) : v = List(items)
      BY <2>2, SpelledEach
    <3>2. Spelled(b)[d + 1][v] = Joined(b.open, Spelled(b)[d], items) \o b.close
      BY <3>1, SpelledEach
    <3>3. b.open \in Seq(Piece) /\ b.close \in Seq(Piece)
      BY DEF Written
    <3>4. PICK j : j = Joined(b.open, Spelled(b)[d], items)
      OBVIOUS
    <3>5. j \in Seq(Piece)
      BY <1>3, <3>3, <3>4, JoinedTyped
    <3>. QED BY <3>2, <3>3, <3>4, <3>5
  <2>. QED BY <2>1, <2>2
<1>4. \A d \in Nat : d \in G
  <2> HIDE DEF G
  <2>. QED BY <1>2, <1>3, NumberInduction
<1>. QED BY <1>4

(* How deep the nesting may be does not change how an argument is written. *)
LEMMA SpelledSame ==
  ASSUME NEW b
  PROVE  \A d \in Nat : \A v \in Nested[d] :
           v \in Nested[d + 1] /\ Spelled(b)[d + 1][v] = Spelled(b)[d][v]
<1> DEFINE For(d, v) == v \in Nested[d + 1] /\ Spelled(b)[d + 1][v] = Spelled(b)[d][v]
           G == {d \in Nat : \A v \in Nested[d] : For(d, v)}
<1>1. ASSUME NEW d \in Nat, NEW v \in Token PROVE For(d, v)
  <2>1. d + 1 \in Nat
    OBVIOUS
  <2>. QED BY <2>1, SpelledEach
<1>2. 0 \in G
  <2>1. \A v \in Nested[0] : For(0, v)
    BY <1>1, NestedSteps
  <2>. QED BY <2>1
<1>3. ASSUME NEW d \in Nat, d \in G PROVE d + 1 \in G
  <2> SUFFICES ASSUME NEW v \in Nested[d + 1] PROVE For(d + 1, v)
    OBVIOUS
  <2>0. d + 1 \in Nat
    OBVIOUS
  <2>1. CASE v \in Token
    BY <1>1, <2>0, <2>1
  <2>2. CASE v \notin Token
    <3>1. PICK items \in Seq(Nested[d]) : v = List(items)
      BY <2>2, SpelledEach
    <3>2. \A u \in Nested[d] : u \in Nested[d + 1] /\ Spelled(b)[d + 1][u] = Spelled(b)[d][u]
      BY <1>3
    <3>3. items \in Seq(Nested[d + 1])
      BY <3>2
    <3>4. Joined(b.open, Spelled(b)[d + 1], items) = Joined(b.open, Spelled(b)[d], items)
      BY <3>2, JoinedSame
    <3>5. Spelled(b)[d + 1][v] = Joined(b.open, Spelled(b)[d], items) \o b.close
      BY <3>1, SpelledEach
    <3>6. /\ v \in Nested[(d + 1) + 1]
          /\ Spelled(b)[(d + 1) + 1][v] = Joined(b.open, Spelled(b)[d + 1], items) \o b.close
      BY <2>0, <3>1, <3>3, SpelledEach
    <3>. QED BY <3>4, <3>5, <3>6
  <2>. QED BY <2>1, <2>2
<1>4. \A d \in Nat : d \in G
  <2> HIDE DEF G
  <2>. QED BY <1>2, <1>3, NumberInduction
<1>. QED BY <1>4

LEMMA NestedGrows ==
  ASSUME NEW d \in Nat, NEW e \in Nat, d <= e
  PROVE  Nested[d] \subseteq Nested[e] /\ Seq(Nested[d]) \subseteq Seq(Nested[e])
<1> DEFINE G == {i \in Nat : d <= i => Nested[d] \subseteq Nested[i]}
<1>1. 0 \in G
  OBVIOUS
<1>2. ASSUME NEW i \in Nat, i \in G PROVE i + 1 \in G
  <2> SUFFICES ASSUME d <= i + 1 PROVE Nested[d] \subseteq Nested[i + 1]
    OBVIOUS
  <2>1. CASE d = i + 1
    BY <2>1
  <2>2. CASE d <= i
    <3>1. Nested[d] \subseteq Nested[i]
      BY <1>2, <2>2
    <3>2. Nested[i] \subseteq Nested[i + 1]
      BY SpelledSame
    <3>. QED BY <3>1, <3>2
  <2>. QED BY <2>1, <2>2
<1>3. e \in G
  <2> HIDE DEF G
  <2>. QED BY <1>1, <1>2, NumberInduction
<1>4. Nested[d] \subseteq Nested[e]
  BY <1>3
<1>. QED BY <1>4

LEMMA PiecesGroup ==
  \A u, v, w \in Seq(Piece) : (u \o v) \o w = u \o (v \o w)
BY Associates

(* What the lists that are open, and the arguments before them, have been  *)
(* written with so far.                                                    *)
Run(b, d, vs)        == Joined(<<>>, Spelled(b)[d], vs)
Opened(b, d)         == [l \in Seq(Nested[d]) |-> b.open \o Run(b, d, l)]
Pend(b, d, args, ls) == Joined(Run(b, d, args), Opened(b, d), ls)

LEMMA PendTyped ==
  ASSUME NEW b, Written(b), NEW d \in Nat, NEW args \in Seq(Nested[d]),
         NEW ls \in Seq(Seq(Nested[d]))
  PROVE  /\ Run(b, d, args) \in Seq(Piece) /\ Pend(b, d, args, ls) \in Seq(Piece)
         /\ \A l \in Seq(Nested[d]) : /\ Run(b, d, l) \in Seq(Piece)
                                      /\ Opened(b, d)[l] = b.open \o Run(b, d, l)
                                      /\ Opened(b, d)[l] \in Seq(Piece)
<1>1. \A v \in Nested[d] : Spelled(b)[d][v] \in Seq(Piece)
  BY SpelledTyped
<1>2. ASSUME NEW l \in Seq(Nested[d]) PROVE Run(b, d, l) \in Seq(Piece)
  <2>1. <<>> \in Seq(Piece)
    OBVIOUS
  <2>. QED BY <1>1, <2>1, JoinedTyped DEF Run
<1>3. b.open \in Seq(Piece)
  BY DEF Written
<1>4. \A l \in Seq(Nested[d]) : /\ Opened(b, d)[l] = b.open \o Run(b, d, l)
                                /\ Opened(b, d)[l] \in Seq(Piece)
  BY <1>2, <1>3 DEF Opened
<1>5. Pend(b, d, args, ls) \in Seq(Piece)
  BY <1>2, <1>4, JoinedTyped DEF Pend
<1>. QED BY <1>2, <1>4, <1>5

LEMMA LastApart ==
  ASSUME NEW S, NEW ls \in Seq(S), ls # <<>>
  PROVE  /\ Outer(ls) \in Seq(S) /\ Len(Outer(ls)) = Len(ls) - 1 /\ Len(ls) \in Nat \ {0}
         /\ ls[Len(ls)] \in S /\ ls = Append(Outer(ls), ls[Len(ls)])
         /\ \A j \in 1 .. Len(ls) - 1 : Outer(ls)[j] = ls[j]
         /\ \A x \in S : [ls EXCEPT ![Len(ls)] = x] = Append(Outer(ls), x)
<1>1. Len(ls) \in Nat \ {0} /\ ls[Len(ls)] \in S
  OBVIOUS
<1>2. PICK e : e = Len(ls) - 1
  OBVIOUS
<1>3. /\ Outer(ls) \in Seq(S) /\ Len(Outer(ls)) = Len(ls) - 1
      /\ \A j \in 1 .. Len(ls) - 1 : Outer(ls)[j] = ls[j]
  <2>1. 1 \in Int /\ e \in Nat /\ e - 1 + 1 = e /\ \A j \in 1 .. e : ls[j] \in S /\ 1 + j - 1 = j
    BY <1>1, <1>2
  <2>2. /\ SubSeq(ls, 1, e) \in Seq(S)
        /\ Len(SubSeq(ls, 1, e)) = IF 1 <= e THEN e - 1 + 1 ELSE 0
        /\ \A j \in 1 .. e - 1 + 1 : SubSeq(ls, 1, e)[j] = ls[1 + j - 1]
    BY <2>1, SubSeqProperties
  <2>3. Len(SubSeq(ls, 1, e)) = e /\ \A j \in 1 .. e : SubSeq(ls, 1, e)[j] = ls[j]
    BY <2>1, <2>2
  <2>. QED BY <1>2, <2>2, <2>3 DEF Outer
<1>4. ASSUME NEW x \in S PROVE [ls EXCEPT ![Len(ls)] = x] = Append(Outer(ls), x)
  <2>1. PICK o, u, w : o = Outer(ls) /\ u = Append(o, x) /\ w = [ls EXCEPT ![Len(ls)] = x]
    OBVIOUS
  <2>2. /\ u \in Seq(S) /\ Len(u) = Len(ls) /\ u[Len(ls)] = x
        /\ \A j \in 1 .. Len(ls) - 1 : u[j] = ls[j]
    BY <1>1, <1>3, <2>1
  <2>3. /\ w \in Seq(S) /\ Len(w) = Len(ls) /\ w[Len(ls)] = x
        /\ \A j \in 1 .. Len(ls) - 1 : w[j] = ls[j]
    BY <1>1, <2>1
  <2>4. \A j \in 1 .. Len(ls) : u[j] = w[j]
    <3>1. \A j \in 1 .. Len(ls) : j = Len(ls) \/ j \in 1 .. Len(ls) - 1
      BY <1>1
    <3>. QED BY <2>2, <2>3, <3>1
  <2>5. u = w
    BY <2>2, <2>3, <2>4, SeqEqual
  <2>. QED BY <2>1, <2>5
<1>5. ls = [ls EXCEPT ![Len(ls)] = ls[Len(ls)]]
  BY <1>1
<1>. QED BY <1>1, <1>3, <1>4, <1>5

LEMMA PendSteps ==
  ASSUME NEW b, Written(b), NEW d \in Nat, NEW args \in Seq(Nested[d]),
         NEW ls \in Seq(Seq(Nested[d])), NEW l \in Seq(Nested[d])
  PROVE  Pend(b, d, args, Append(ls, l)) = Pend(b, d, args, ls) \o (b.open \o Run(b, d, l))
<1>1. Opened(b, d)[l] = b.open \o Run(b, d, l)
  BY PendTyped
<1>2. PICK Q, g, st : Q = Seq(Nested[d]) /\ g = Opened(b, d) /\ st = Run(b, d, args)
  OBVIOUS
<1>3. ls \in Seq(Q) /\ l \in Q
  BY <1>2
<1>4. Joined(st, g, Append(ls, l)) = Joined(st, g, ls) \o g[l]
  BY <1>3, JoinedSteps
<1>. QED BY <1>1, <1>2, <1>4 DEF Pend

LEMMA PendEmpty ==
  ASSUME NEW b, NEW d, NEW args
  PROVE  Pend(b, d, args, <<>>) = Run(b, d, args) /\ Run(b, d, <<>>) = <<>>
BY JoinedEmpty DEF Pend, Run

LEMMA RunAdds ==
  ASSUME NEW b, NEW d \in Nat, NEW args \in Seq(Nested[d]), NEW v \in Nested[d]
  PROVE  Run(b, d, Append(args, v)) = Run(b, d, args) \o Spelled(b)[d][v]
<1>1. PICK Q, g, st : Q = Nested[d] /\ g = Spelled(b)[d] /\ st = <<>>
  OBVIOUS
<1>2. args \in Seq(Q) /\ v \in Q
  BY <1>1
<1>3. Joined(st, g, Append(args, v)) = Joined(st, g, args) \o g[v]
  BY <1>2, JoinedSteps
<1>. QED BY <1>1, <1>3 DEF Run

(* A new value, a list begun, a list ended.                                *)
LEMMA PendAdds ==
  ASSUME NEW b, NEW d \in Nat, NEW args \in Seq(Nested[d]), NEW v \in Nested[d]
  PROVE  Pend(b, d, Append(args, v), <<>>) = Pend(b, d, args, <<>>) \o Spelled(b)[d][v]
<1>1. Run(b, d, Append(args, v)) = Run(b, d, args) \o Spelled(b)[d][v]
  BY RunAdds
<1>2. /\ Pend(b, d, Append(args, v), <<>>) = Run(b, d, Append(args, v))
        /\ Pend(b, d, args, <<>>) = Run(b, d, args)
  BY PendEmpty
<1>. QED BY <1>1, <1>2

LEMMA PendAddsWithin ==
  ASSUME NEW b, Written(b), NEW d \in Nat, NEW args \in Seq(Nested[d]),
         NEW ls \in Seq(Seq(Nested[d])), ls # <<>>, NEW v \in Nested[d]
  PROVE  Pend(b, d, args, [ls EXCEPT ![Len(ls)] = Append(@, v)])
           = Pend(b, d, args, ls) \o Spelled(b)[d][v]
<1>1. PICK l, o : l = ls[Len(ls)] /\ o = Outer(ls)
  OBVIOUS
<1>2. l \in Seq(Nested[d]) /\ o \in Seq(Seq(Nested[d])) /\ ls = Append(o, l)
  BY <1>1, LastApart
<1>3. PICK m : m = Append(l, v)
  OBVIOUS
<1>4. m \in Seq(Nested[d])
  BY <1>2, <1>3
<1>5. [ls EXCEPT ![Len(ls)] = Append(@, v)] = Append(o, m)
  <2>1. [ls EXCEPT ![Len(ls)] = Append(@, v)] = [ls EXCEPT ![Len(ls)] = m]
    BY <1>1, <1>3
  <2>2. [ls EXCEPT ![Len(ls)] = m] = Append(o, m)
    <3>1. PICK Q : Q = Seq(Nested[d])
      OBVIOUS
    <3>2. ls \in Seq(Q) /\ m \in Q
      BY <1>4, <3>1
    <3>3. [ls EXCEPT ![Len(ls)] = m] = Append(Outer(ls), m)
      BY <3>2, LastApart
    <3>. QED BY <1>1, <3>3
  <2>. QED BY <2>1, <2>2
<1>6. PICK p, r, s, op : /\ p = Pend(b, d, args, o) /\ r = Run(b, d, l)
                         /\ s = Spelled(b)[d][v] /\ op = b.open
  OBVIOUS
<1>7. /\ p \in Seq(Piece) /\ r \in Seq(Piece) /\ s \in Seq(Piece) /\ op \in Seq(Piece)
  BY <1>2, <1>6, PendTyped, SpelledTyped DEF Written
<1>8. Pend(b, d, args, Append(o, l)) = p \o (op \o r)
  BY <1>2, <1>6, PendSteps
<1>9. Pend(b, d, args, Append(o, m)) = p \o (op \o (r \o s))
  <2>1. Run(b, d, m) = r \o s
    BY <1>2, <1>3, <1>6, RunAdds
  <2>2. Pend(b, d, args, Append(o, m)) = Pend(b, d, args, o) \o (b.open \o Run(b, d, m))
    BY <1>2, <1>4, PendSteps
  <2>. QED BY <1>6, <2>1, <2>2
<1>10. (p \o (op \o r)) \o s = p \o (op \o (r \o s))
  <2>1. PICK x : x = op \o r
    OBVIOUS
  <2>2. x \in Seq(Piece)
    BY <1>7, <2>1
  <2>3. (p \o x) \o s = p \o (x \o s)
    BY <1>7, <2>2, PiecesGroup
  <2>4. (op \o r) \o s = op \o (r \o s)
    BY <1>7, PiecesGroup
  <2>. QED BY <2>1, <2>3, <2>4
<1>. QED BY <1>2, <1>5, <1>6, <1>8, <1>9, <1>10

LEMMA PendOpens ==
  ASSUME NEW b, Written(b), NEW d \in Nat, NEW args \in Seq(Nested[d]),
         NEW ls \in Seq(Seq(Nested[d]))
  PROVE  Pend(b, d, args, Append(ls, <<>>)) = Pend(b, d, args, ls) \o b.open
<1>1. <<>> \in Seq(Nested[d])
  OBVIOUS
<1>2. Pend(b, d, args, Append(ls, <<>>)) = Pend(b, d, args, ls) \o (b.open \o Run(b, d, <<>>))
  BY <1>1, PendSteps
<1>3. b.open \o <<>> = b.open
  BY DEF Written
<1>. QED BY <1>2, <1>3, PendEmpty

LEMMA PendCloses ==
  ASSUME NEW b, Written(b), NEW d \in Nat, NEW args \in Seq(Nested[d + 1]),
         NEW ls \in Seq(Seq(Nested[d + 1])), ls # <<>>, ls[Len(ls)] \in Seq(Nested[d])
  PROVE  Pend(b, d + 1, args, Outer(ls)) \o Spelled(b)[d + 1][List(ls[Len(ls)])]
           = Pend(b, d + 1, args, ls) \o b.close
<1>1. PICK l, o : l = ls[Len(ls)] /\ o = Outer(ls)
  OBVIOUS
<1>2. /\ l \in Seq(Nested[d]) /\ l \in Seq(Nested[d + 1])
      /\ o \in Seq(Seq(Nested[d + 1])) /\ ls = Append(o, l) /\ d + 1 \in Nat
  BY <1>1, LastApart
<1>3. PICK p, r, op, cl : /\ p = Pend(b, d + 1, args, o) /\ r = Run(b, d + 1, l)
                          /\ op = b.open /\ cl = b.close
  OBVIOUS
<1>4. p \in Seq(Piece) /\ r \in Seq(Piece) /\ op \in Seq(Piece) /\ cl \in Seq(Piece)
  BY <1>2, <1>3, PendTyped DEF Written
<1>5. Pend(b, d + 1, args, Append(o, l)) = p \o (op \o r)
  BY <1>2, <1>3, PendSteps
<1>6. Spelled(b)[d + 1][List(l)] = op \o (r \o cl)
  <2>1. Spelled(b)[d + 1][List(l)] = Joined(op, Spelled(b)[d], l) \o cl
    BY <1>2, <1>3, SpelledEach
  <2>2. PICK Q, g, h : Q = Nested[d] /\ g = Spelled(b)[d] /\ h = Spelled(b)[d + 1]
    OBVIOUS
  <2>3. l \in Seq(Q) /\ \A v \in Q : g[v] \in Seq(Piece) /\ g[v] = h[v]
    BY <1>2, <2>2, SpelledTyped, SpelledSame
  <2>4. Joined(op, g, l) = op \o Joined(<<>>, g, l)
    BY <1>4, <2>3, JoinedTyped
  <2>5. Joined(<<>>, g, l) = Joined(<<>>, h, l)
    BY <2>3, JoinedSame
  <2>6. r = Joined(<<>>, h, l)
    BY <1>3, <2>2 DEF Run
  <2>7. (op \o r) \o cl = op \o (r \o cl)
    BY <1>4, PiecesGroup
  <2>. QED BY <2>1, <2>2, <2>4, <2>5, <2>6, <2>7
<1>7. (p \o (op \o r)) \o cl = p \o (op \o (r \o cl))
  <2>1. PICK x : x = op \o r
    OBVIOUS
  <2>2. x \in Seq(Piece)
    BY <1>4, <2>1
  <2>3. (p \o x) \o cl = p \o (x \o cl)
    BY <1>4, <2>2, PiecesGroup
  <2>4. (op \o r) \o cl = op \o (r \o cl)
    BY <1>4, PiecesGroup
  <2>. QED BY <2>1, <2>3, <2>4
<1>. QED BY <1>1, <1>2, <1>3, <1>5, <1>6, <1>7

-----------------------------------------------------------------------------
(* The parser.  In the lists that are open no list is nested deeper than   *)
(* the tokens that were read since allow.                                  *)
Deep(e, args, ls) ==
  /\ args \in Seq(Nested[e]) /\ ls \in Seq(Seq(Nested[e])) /\ Len(ls) <= e
  /\ \A j \in 1 .. Len(ls) : ls[j] \in Seq(Nested[e - j])

LEMMA DeepIn ==
  ASSUME NEW e \in Nat, NEW d \in Nat, e <= d, NEW args, NEW ls, Deep(e, args, ls)
  PROVE  /\ args \in Seq(Nested[d]) /\ ls \in Seq(Seq(Nested[d])) /\ Len(ls) \in 0 .. d
         /\ \A j \in 1 .. Len(ls) : ls[j] \in Seq(Nested[d - j])
<1>1. Seq(Nested[e]) \subseteq Seq(Nested[d])
  BY NestedGrows
<1>2. args \in Seq(Nested[d]) /\ ls \in Seq(Seq(Nested[d]))
  BY <1>1 DEF Deep
<1>3. Len(ls) \in Nat /\ Len(ls) <= e
  BY DEF Deep
<1>4. ASSUME NEW j \in 1 .. Len(ls) PROVE ls[j] \in Seq(Nested[d - j])
  <2>1. e - j \in Nat /\ d - j \in Nat /\ e - j <= d - j
    BY <1>3
  <2>2. Seq(Nested[e - j]) \subseteq Seq(Nested[d - j])
    BY <2>1, NestedGrows
  <2>. QED BY <2>2 DEF Deep
<1>. QED BY <1>2, <1>3, <1>4

LEMMA DeepGrows ==
  ASSUME NEW e \in Nat, NEW args, NEW ls, Deep(e, args, ls)
  PROVE  Deep(e + 1, args, ls) /\ Deep(e + 1, args, Append(ls, <<>>))
<1>1. /\ e + 1 \in Nat /\ args \in Seq(Nested[e + 1]) /\ ls \in Seq(Seq(Nested[e + 1]))
      /\ \A j \in 1 .. Len(ls) : ls[j] \in Seq(Nested[e + 1 - j])
  <2>1. e + 1 \in Nat /\ e <= e + 1
    OBVIOUS
  <2>. QED BY <2>1, DeepIn
<1>2. Len(ls) \in Nat /\ Len(ls) <= e
  BY DEF Deep
<1>3. PICK os : os = Append(ls, <<>>)
  OBVIOUS
<1>4. /\ os \in Seq(Seq(Nested[e + 1])) /\ Len(os) = Len(ls) + 1
      /\ os[Len(ls) + 1] = <<>> /\ \A j \in 1 .. Len(ls) : os[j] = ls[j]
  <2>1. PICK Q : Q = Seq(Nested[e + 1])
    OBVIOUS
  <2>2. ls \in Seq(Q) /\ <<>> \in Q
    BY <1>1, <2>1
  <2>. QED BY <1>3, <2>1, <2>2, AppendProperties
<1>5. ASSUME NEW j \in 1 .. Len(os) PROVE os[j] \in Seq(Nested[e + 1 - j])
  <2>1. CASE j = Len(ls) + 1
    <3>1. <<>> \in Seq(Nested[e + 1 - j])
      OBVIOUS
    <3>. QED BY <1>4, <2>1, <3>1
  <2>2. CASE j \in 1 .. Len(ls)
    BY <1>1, <1>4, <2>2
  <2>. QED BY <1>2, <1>4, <2>1, <2>2
<1>. QED BY <1>1, <1>2, <1>3, <1>4, <1>5 DEF Deep

(* A value goes to the command or to the innermost of the lists.           *)
LEMMA DeepAdds ==
  ASSUME NEW e \in Nat, NEW args, NEW ls, Deep(e, args, ls), NEW v \in Nested[e - Len(ls)]
  PROVE  /\ ls = <<>> => Deep(e, Append(args, v), <<>>)
         /\ ls # <<>> => Deep(e, args, [ls EXCEPT ![Len(ls)] = Append(@, v)])
<1>1. Len(ls) \in Nat /\ Len(ls) <= e /\ e - Len(ls) \in Nat /\ e - Len(ls) <= e
  BY DEF Deep
<1>2. v \in Nested[e]
  BY <1>1, NestedGrows
<1>3. ASSUME ls = <<>> PROVE Deep(e, Append(args, v), <<>>)
  <2>1. Append(args, v) \in Seq(Nested[e])
    BY <1>2 DEF Deep
  <2>2. <<>> \in Seq(Seq(Nested[e])) /\ Len(<<>>) = 0 /\ 1 .. 0 = {}
    OBVIOUS
  <2>. QED BY <2>1, <2>2 DEF Deep
<1>4. ASSUME ls # <<>> PROVE Deep(e, args, [ls EXCEPT ![Len(ls)] = Append(@, v)])
  <2>1. PICK i, l, m, os : /\ i = Len(ls) /\ l = ls[i] /\ m = Append(l, v)
                           /\ os = [ls EXCEPT ![i] = m]
    OBVIOUS
  <2>2. i \in 1 .. Len(ls) /\ Len(ls) = i
    BY <1>4, <2>1 DEF Deep
  <2>3. l \in Seq(Nested[e - i])
    BY <2>1, <2>2 DEF Deep
  <2>4. m \in Seq(Nested[e - i])
    <3>1. PICK Q : Q = Nested[e - i]
      OBVIOUS
    <3>2. v \in Q
      BY <2>1, <3>1
    <3>3. l \in Seq(Q)
      BY <2>3, <3>1
    <3>4. Append(l, v) \in Seq(Q)
      BY <3>2, <3>3
    <3>. QED BY <2>1, <3>1, <3>4
  <2>5. m \in Seq(Nested[e])
    <3>1. Seq(Nested[e - i]) \subseteq Seq(Nested[e])
      BY <1>1, <2>1, NestedGrows
    <3>. QED BY <2>4, <3>1
  <2>6. /\ os \in Seq(Seq(Nested[e])) /\ Len(os) = Len(ls)
        /\ os[i] = m /\ \A j \in 1 .. Len(ls) : j # i => os[j] = ls[j]
    <3>1. PICK Q : Q = Seq(Nested[e])
      OBVIOUS
    <3>2. ls \in Seq(Q) /\ m \in Q
      BY <2>5, <3>1 DEF Deep
    <3>3. /\ os \in Seq(Q) /\ Len(os) = Len(ls)
          /\ os[i] = m /\ \A j \in 1 .. Len(ls) : j # i => os[j] = ls[j]
      BY <2>1, <2>2, <3>2
    <3>. QED BY <3>1, <3>3
  <2>7. \A j \in 1 .. Len(os) : os[j] \in Seq(Nested[e - j])
    BY <2>4, <2>6 DEF Deep
  <2>8. Deep(e, args, os)
    BY <1>1, <2>6, <2>7 DEF Deep
  <2>9. os = [ls EXCEPT ![Len(ls)] = Append(@, v)]
    BY <2>1
  <2>. QED BY <2>8, <2>9
<1>. QED BY <1>3, <1>4

(* A list that ends becomes an element of the one around it.               *)
LEMMA DeepCloses ==
  ASSUME NEW e \in Nat, NEW args, NEW ls, Deep(e, args, ls), ls # <<>>
  PROVE  /\ Deep(e, args, Outer(ls)) /\ Len(Outer(ls)) = Len(ls) - 1
         /\ List(ls[Len(ls)]) \in Nested[e - Len(Outer(ls))]
<1>1. PICK Q : Q = Seq(Nested[e])
  OBVIOUS
<1>2. ls \in Seq(Q)
  BY <1>1 DEF Deep
<1>3. /\ Outer(ls) \in Seq(Q) /\ Len(Outer(ls)) = Len(ls) - 1 /\ Len(ls) \in Nat \ {0}
      /\ \A j \in 1 .. Len(ls) - 1 : Outer(ls)[j] = ls[j]
  BY <1>2, LastApart
<1>4. Len(ls) <= e /\ Len(ls) \in 1 .. Len(ls)
  BY <1>3 DEF Deep
<1>5. Deep(e, args, Outer(ls))
  <2>1. \A j \in 1 .. Len(ls) - 1 : j \in 1 .. Len(ls)
    BY <1>3
  <2>2. \A j \in 1 .. Len(ls) - 1 : Outer(ls)[j] \in Seq(Nested[e - j])
    BY <1>3, <2>1 DEF Deep
  <2>3. Len(ls) - 1 <= e
    BY <1>3, <1>4
  <2>. QED BY <1>1, <1>3, <2>2, <2>3 DEF Deep
<1>6. List(ls[Len(ls)]) \in Nested[e - Len(Outer(ls))]
  <2>1. PICK i : i = e - Len(ls)
    OBVIOUS
  <2>2. i \in Nat /\ e - Len(Outer(ls)) = i + 1
    BY <1>3, <1>4, <2>1
  <2>3. ls[Len(ls)] \in Seq(Nested[i])
    BY <1>4, <2>1 DEF Deep
  <2>. QED BY <2>2, <2>3, SpelledEach
<1>. QED BY <1>3, <1>5, <1>6

(* What the tokens after one say, token by token.                          *)
LEMMA AfterSteps ==
  ASSUME NEW b, Written(b), LexerTypeOK, NEW p \in 1 .. Len(tokens)
  PROVE  /\ After(b, p)[0] = <<>>
         /\ \A i \in 1 .. Len(tokens) - p :
              After(b, p)[i] = After(b, p)[i - 1] \o Part(b, tokens[p + i])
         /\ \A i \in 0 .. Len(tokens) - p : After(b, p)[i] \in Seq(Piece)
<1> DEFINE parts == [j \in 1 .. Len(tokens) - p |-> Part(b, tokens[p + j])]
<1>1. Len(tokens) \in Nat /\ \A j \in 1 .. Len(tokens) : tokens[j] \in Token
  BY DEF LexerTypeOK
<1>2. ASSUME NEW t \in Token PROVE Part(b, t) \in Seq(Piece)
  <2>1. <<t>> \in Seq(Piece) /\ <<>> \in Seq(Piece)
    BY DEF Piece
  <2>. QED BY <2>1 DEF Part, Written
<1>3. \A j \in 1 .. Len(tokens) - p : p + j \in 1 .. Len(tokens)
  BY <1>1
<1>4. \A j \in 1 .. Len(tokens) - p : Part(b, tokens[p + j]) \in Seq(Piece)
  BY <1>1, <1>2, <1>3
<1>5. parts \in Seq(Seq(Piece)) /\ Len(parts) = Len(tokens) - p
  BY <1>1, <1>4
<1>6. \A j \in 1 .. Len(tokens) - p : parts[j] = Part(b, tokens[p + j])
  OBVIOUS
<1>7. After(b, p) = Buffer(<<>>, parts)
  BY DEF After
<1> HIDE DEF parts
<1>8. Len(parts) \in Nat /\ <<>> \in Seq(Piece)
  BY <1>1, <1>5
<1>9. Filled(After(b, p), <<>>, parts)
  BY <1>7, <1>8, BufferSteps
<1>10. \A i \in 0 .. Len(parts) : After(b, p)[i] \in Seq(Piece)
  BY <1>5, <1>7, <1>8, BufferGrows
<1>. QED BY <1>5, <1>6, <1>9, <1>10 DEF Filled

(* What the tokens since the command began say, and what the parser has    *)
(* made of them.                                                           *)
Past(b) == After(b, command.at)[tt - 1 - command.at]
Made(b) == Pend(b, Len(tokens), command.args, lists)

Framed ==
  IF command = NullCommand THEN lists = <<>>
  ELSE /\ command.at \in 1 .. tt - 1
       /\ \A k \in command.at + 1 .. tt - 1 : tokens[k].type # "END"
       /\ Deep(tt - 1, command.args, lists)

Building == OnceInv /\ pc = "parse" /\ Framed /\ command # NullCommand

GoesOn ==
  /\ command' # NullCommand /\ command'.at = command.at
  /\ nodes' = nodes /\ tokens' = tokens /\ Framed'

LEMMA BuildingTyped ==
  ASSUME Building
  PROVE  /\ LexerTypeOK /\ Len(tokens) \in Nat /\ tt \in Nat \ {0}
         /\ tt - 1 \in Nat /\ tt - 1 <= Len(tokens)
         /\ command.at \in 1 .. tt - 1 /\ command.at \in 1 .. Len(tokens)
         /\ command.args \in Seq(Nested[Len(tokens)])
         /\ lists \in Seq(Seq(Nested[Len(tokens)]))
         /\ Len(lists) \in Nat
         /\ Deep(tt - 1, command.args, lists)
         /\ \A k \in command.at + 1 .. tt - 1 : tokens[k].type # "END"
<1>1. /\ LexerTypeOK /\ Len(tokens) \in Nat /\ tt \in Nat \ {0}
      /\ tt - 1 \in Nat /\ tt - 1 <= Len(tokens)
  BY DEF Building, OnceInv, MainInv, MainTypeOK, LexerTypeOK
<1>2. /\ command.at \in 1 .. tt - 1 /\ Deep(tt - 1, command.args, lists)
      /\ \A k \in command.at + 1 .. tt - 1 : tokens[k].type # "END"
  BY DEF Building, Framed
<1>3. /\ command.args \in Seq(Nested[Len(tokens)])
      /\ lists \in Seq(Seq(Nested[Len(tokens)])) /\ Len(lists) \in 0 .. Len(tokens)
  BY <1>1, <1>2, DeepIn
<1>. QED BY <1>1, <1>2, <1>3

LEMMA PastSteps ==
  ASSUME Building, NEW b, Written(b), tokens' = tokens, command'.at = command.at
  PROVE  /\ Past(b) \in Seq(Piece) /\ Made(b) \in Seq(Piece)
         /\ tt' = tt => Past(b)' = Past(b)
         /\ tt' = tt + 1 /\ tt <= Len(tokens) => Past(b)' = Past(b) \o Part(b, Tok)
<1>1. /\ LexerTypeOK /\ Len(tokens) \in Nat /\ tt - 1 \in Nat /\ tt - 1 <= Len(tokens)
      /\ command.at \in 1 .. tt - 1 /\ command.at \in 1 .. Len(tokens) /\ tt \in Nat
  BY BuildingTyped
<1>2. PICK a : a = command.at
  OBVIOUS
<1>3. a \in 1 .. Len(tokens) /\ a \in 1 .. tt - 1
  BY <1>1, <1>2
<1>4. /\ \A i \in 1 .. Len(tokens) - a :
           After(b, a)[i] = After(b, a)[i - 1] \o Part(b, tokens[a + i])
      /\ \A i \in 0 .. Len(tokens) - a : After(b, a)[i] \in Seq(Piece)
  BY <1>1, <1>3, AfterSteps
<1>5. Past(b) = After(b, a)[tt - 1 - a] /\ After(b, a)' = After(b, a)
  BY <1>2 DEF Past, After
<1>6. Past(b)' = After(b, a)[tt' - 1 - a]
  BY <1>2, <1>5 DEF Past, After
<1>7. Past(b) \in Seq(Piece)
  <2>1. tt - 1 - a \in 0 .. Len(tokens) - a
    BY <1>1, <1>3
  <2>. QED BY <1>4, <1>5, <2>1
<1>8. ASSUME tt' = tt + 1, tt <= Len(tokens) PROVE Past(b)' = Past(b) \o Part(b, Tok)
  <2>1. /\ tt - a \in 1 .. Len(tokens) - a /\ a + (tt - a) = tt
        /\ tt' - 1 - a = tt - a /\ (tt - a) - 1 = tt - 1 - a
    BY <1>1, <1>3, <1>8
  <2>2. After(b, a)[tt - a] = After(b, a)[(tt - a) - 1] \o Part(b, tokens[a + (tt - a)])
    BY <1>4, <2>1
  <2>. QED BY <1>5, <1>6, <2>1, <2>2 DEF Tok
<1>9. Made(b) \in Seq(Piece)
  BY BuildingTyped, PendTyped DEF Made
<1>10. tt' = tt => Past(b)' = Past(b)
  BY <1>5, <1>6
<1>. QED BY <1>7, <1>8, <1>9, <1>10

(* addArg and addNode.                                                     *)
LEMMA AddMakes ==
  ASSUME Building, tokens' = tokens, NEW ls, Deep(tt - 1, command.args, ls),
         NEW v \in Nested[tt - 1 - Len(ls)], Add(ls, v)
  PROVE  /\ command' # NullCommand /\ command'.at = command.at
         /\ Deep(tt - 1, command'.args, lists') /\ Len(lists') = Len(ls)
         /\ \A b : Written(b) =>
              Made(b)' = Pend(b, Len(tokens), command.args, ls) \o Spelled(b)[Len(tokens)][v]
<1>1. PICK t, k, args, opts : command = [type |-> t, at |-> k, args |-> args, opts |-> opts]
  BY DEF Building, OnceInv
<1>2. command.args = args /\ command.at = k
  BY <1>1
<1>3. /\ tt - 1 \in Nat /\ tt - 1 <= Len(tokens) /\ Len(tokens) \in Nat
  BY BuildingTyped
<1>4. PICK d : d = Len(tokens)
  OBVIOUS
<1>5. /\ d \in Nat /\ Len(ls) \in Nat /\ Len(ls) <= tt - 1 /\ v \in Nested[d]
      /\ args \in Seq(Nested[d]) /\ ls \in Seq(Seq(Nested[d]))
  <2>1. /\ args \in Seq(Nested[d]) /\ ls \in Seq(Seq(Nested[d])) /\ Len(ls) \in 0 .. d
    BY <1>2, <1>3, <1>4, DeepIn
  <2>2. Len(ls) <= tt - 1
    BY DEF Deep
  <2>3. tt - 1 - Len(ls) \in Nat /\ tt - 1 - Len(ls) <= d
    BY <1>3, <1>4, <2>1, <2>2
  <2>. QED BY <1>3, <1>4, <2>1, <2>2, <2>3, NestedGrows
<1>6. CASE ls = <<>>
  <2>1. command' = [command EXCEPT !.args = Append(@, v)] /\ lists' = <<>>
    BY <1>6 DEF Add
  <2>2. command' = [type |-> t, at |-> k, args |-> Append(args, v), opts |-> opts]
    BY <1>1, <2>1
  <2>3. command' # NullCommand /\ command'.at = k /\ command'.args = Append(args, v)
    BY <2>2, CommandNotNull
  <2>4. Deep(tt - 1, command'.args, lists')
    <3>1. Deep(tt - 1, args, ls)
      BY <1>2
    <3>2. Deep(tt - 1, Append(args, v), <<>>)
      BY <1>3, <1>6, <3>1, DeepAdds
    <3>. QED BY <2>1, <2>3, <3>2
  <2>5. ASSUME NEW b, Written(b)
        PROVE  Made(b)' = Pend(b, d, args, ls) \o Spelled(b)[d][v]
    <3>1. Made(b)' = Pend(b, d, Append(args, v), <<>>)
      BY <1>4, <2>1, <2>3 DEF Made
    <3>2. Pend(b, d, Append(args, v), <<>>) = Pend(b, d, args, <<>>) \o Spelled(b)[d][v]
      BY <1>5, <2>5, PendAdds
    <3>. QED BY <1>6, <3>1, <3>2
  <2>6. Len(lists') = Len(ls)
    BY <1>6, <2>1
  <2>. QED BY <1>2, <1>4, <2>3, <2>4, <2>5, <2>6
<1>7. CASE ls # <<>>
  <2>1. command' = command /\ lists' = [ls EXCEPT ![Len(ls)] = Append(@, v)]
    BY <1>7 DEF Add
  <2>2. Deep(tt - 1, command'.args, lists')
    <3>1. Deep(tt - 1, command.args, [ls EXCEPT ![Len(ls)] = Append(@, v)])
      BY <1>3, <1>7, DeepAdds
    <3>. QED BY <2>1, <3>1
  <2>3. ASSUME NEW b, Written(b)
        PROVE  Made(b)' = Pend(b, d, args, ls) \o Spelled(b)[d][v]
    <3>1. Made(b)' = Pend(b, d, args, [ls EXCEPT ![Len(ls)] = Append(@, v)])
      BY <1>2, <1>4, <2>1 DEF Made
    <3>2. Pend(b, d, args, [ls EXCEPT ![Len(ls)] = Append(@, v)])
            = Pend(b, d, args, ls) \o Spelled(b)[d][v]
      BY <1>5, <1>7, <2>3, PendAddsWithin
    <3>. QED BY <3>1, <3>2
  <2>4. Len(lists') = Len(ls)
    BY <1>5, <2>1
  <2>. QED BY <1>2, <1>4, <2>1, <2>2, <2>3, <2>4 DEF Building
<1>. QED BY <1>6, <1>7

LEMMA FramedOn ==
  ASSUME Building, tokens' = tokens, nodes' = nodes, command' # NullCommand,
         command'.at = command.at, tt' = tt + 1, Tok.type # "END",
         Deep(tt, command'.args, lists')
  PROVE  GoesOn
<1>1. /\ command.at \in 1 .. tt - 1 /\ tt \in Nat
      /\ \A k \in command.at + 1 .. tt - 1 : tokens[k].type # "END"
  BY BuildingTyped
<1>2. tt' - 1 = tt /\ command'.at \in 1 .. tt' - 1
  BY <1>1
<1>3. ASSUME NEW k \in command'.at + 1 .. tt' - 1 PROVE tokens'[k].type # "END"
  <2>1. k = tt \/ k \in command.at + 1 .. tt - 1
    BY <1>1, <1>2
  <2>. QED BY <1>1, <2>1 DEF Tok
<1>4. Framed'
  BY <1>2, <1>3 DEF Framed
<1>. QED BY <1>4 DEF GoesOn

LEMMA IgnoreEffect ==
  ASSUME Building, tokens' = tokens, Ignore \/ SetOption
  PROVE  /\ GoesOn /\ tt' = tt + 1 /\ tt <= Len(tokens) /\ lists' = lists
         /\ Tok.type \in {"DELIMITER", "LIST_END", "OPTION"}
         /\ Tok.type = "LIST_END" => lists = <<>>
         /\ \A b : Made(b)' = Made(b)
<1>1. PICK t, k, args, opts : command = [type |-> t, at |-> k, args |-> args, opts |-> opts]
  BY DEF Building, OnceInv
<1>2. /\ tt' = tt + 1 /\ tt <= Len(tokens) /\ lists' = lists /\ nodes' = nodes
      /\ command' = command \/ \E v : command' = [command EXCEPT !.opts = v]
  BY DEF Ignore, SetOption, InCommand, Next1
<1>3. \E o : command' = [type |-> t, at |-> k, args |-> args, opts |-> o]
  BY <1>1, <1>2
<1>4. /\ command' # NullCommand /\ command'.at = command.at /\ command'.args = command.args
  BY <1>1, <1>3, CommandNotNull
<1>5. /\ Tok.type \in {"DELIMITER", "LIST_END", "OPTION"}
      /\ Tok.type = "LIST_END" => lists = <<>>
  BY DEF Ignore, SetOption, InCommand
<1>6. Deep(tt, command'.args, lists')
  <2>1. tt - 1 \in Nat /\ (tt - 1) + 1 = tt /\ Deep(tt - 1, command.args, lists)
    BY BuildingTyped
  <2>2. Deep((tt - 1) + 1, command.args, lists)
    BY <2>1, DeepGrows
  <2>. QED BY <1>2, <1>4, <2>1, <2>2
<1>7. GoesOn
  BY <1>2, <1>4, <1>5, <1>6, FramedOn
<1>8. \A b : Made(b)' = Made(b)
  BY <1>2, <1>4 DEF Made
<1>. QED BY <1>2, <1>5, <1>7, <1>8

LEMMA LeafEffect ==
  ASSUME Building, tokens' = tokens, AddLeaf
  PROVE  /\ GoesOn /\ tt' = tt + 1 /\ tt <= Len(tokens) /\ Len(lists') = Len(lists)
         /\ IsLeaf(Tok)
         /\ \A b : Written(b) => Made(b)' = Made(b) \o <<Tok>>
<1>1. /\ Add(lists, Tok) /\ IsLeaf(Tok) /\ tt <= Len(tokens) /\ tt' = tt + 1
      /\ nodes' = nodes /\ Tok.type # "END"
  BY DEF AddLeaf, InCommand, Next1, IsLeaf
<1>2. /\ tt - 1 \in Nat /\ (tt - 1) + 1 = tt /\ Len(tokens) \in Nat /\ tt \in 1 .. Len(tokens)
      /\ Deep(tt - 1, command.args, lists) /\ LexerTypeOK /\ Len(lists) \in Nat
  BY <1>1, BuildingTyped
<1>3. Tok \in Token
  BY <1>2 DEF LexerTypeOK, Tok
<1>4. Len(lists) <= tt - 1 /\ tt - 1 - Len(lists) \in Nat
  BY <1>2 DEF Deep
<1>5. Tok \in Nested[tt - 1 - Len(lists)]
  BY <1>3, <1>4, SpelledEach
<1>6. PICK v : v = Tok
  OBVIOUS
<1>7. v \in Nested[tt - 1 - Len(lists)] /\ Add(lists, v)
  BY <1>1, <1>5, <1>6
<1>8. /\ command' # NullCommand /\ command'.at = command.at
      /\ Deep(tt - 1, command'.args, lists') /\ Len(lists') = Len(lists)
      /\ \A b : Written(b) =>
           Made(b)' = Pend(b, Len(tokens), command.args, lists) \o Spelled(b)[Len(tokens)][v]
  BY <1>2, <1>7, AddMakes
<1>9. Deep(tt, command'.args, lists')
  BY <1>2, <1>8, DeepGrows
<1>10. GoesOn
  BY <1>1, <1>8, <1>9, FramedOn
<1>11. \A b : Spelled(b)[Len(tokens)][v] = <<v>>
  BY <1>2, <1>3, <1>6, SpelledEach
<1>12. \A b : Written(b) => Made(b)' = Made(b) \o <<v>>
  BY <1>8, <1>11 DEF Made
<1>. QED BY <1>1, <1>6, <1>8, <1>10, <1>12

LEMMA OpenEffect ==
  ASSUME Building, tokens' = tokens, OpenList
  PROVE  /\ GoesOn /\ tt' = tt + 1 /\ tt <= Len(tokens) /\ Len(lists') = Len(lists) + 1
         /\ Tok.type = "LIST_START"
         /\ \A b : Written(b) => Made(b)' = Made(b) \o b.open
<1>1. /\ lists' = Append(lists, <<>>) /\ command' = command /\ tt <= Len(tokens) /\ tt' = tt + 1
      /\ nodes' = nodes /\ Tok.type = "LIST_START"
  BY DEF OpenList, InCommand, Next1
<1>2. /\ tt - 1 \in Nat /\ (tt - 1) + 1 = tt /\ Deep(tt - 1, command.args, lists)
      /\ command.args \in Seq(Nested[Len(tokens)]) /\ lists \in Seq(Seq(Nested[Len(tokens)]))
      /\ Len(tokens) \in Nat
  BY BuildingTyped
<1>3. Deep((tt - 1) + 1, command.args, Append(lists, <<>>))
  BY <1>2, DeepGrows
<1>4. GoesOn
  BY <1>1, <1>2, <1>3, FramedOn DEF Building
<1>5. ASSUME NEW b, Written(b) PROVE Made(b)' = Made(b) \o b.open
  <2>1. Made(b)' = Pend(b, Len(tokens), command.args, Append(lists, <<>>))
    BY <1>1 DEF Made
  <2>2. Pend(b, Len(tokens), command.args, Append(lists, <<>>))
          = Pend(b, Len(tokens), command.args, lists) \o b.open
    BY <1>2, <1>5, PendOpens
  <2>. QED BY <2>1, <2>2 DEF Made
<1>6. Len(lists') = Len(lists) + 1
  <2>1. <<>> \in Seq(Nested[Len(tokens)])
    OBVIOUS
  <2>2. PICK Q : Q = Seq(Nested[Len(tokens)])
    OBVIOUS
  <2>3. lists \in Seq(Q) /\ <<>> \in Q
    BY <1>2, <2>1, <2>2
  <2>. QED BY <1>1, <2>3, AppendProperties
<1>. QED BY <1>1, <1>4, <1>5, <1>6

LEMMA CloseEffect ==
  ASSUME Building, tokens' = tokens, CloseList
  PROVE  /\ GoesOn /\ tt' = tt /\ tt <= Len(tokens) /\ Len(lists') = Len(lists) - 1
         /\ Tok.type \in {"LIST_END", "END"}
         /\ \A b : Written(b) => Made(b)' = Made(b) \o b.close
<1>1. /\ Add(Outer(lists), List(lists[Len(lists)])) /\ lists # <<>> /\ tt' = tt
      /\ nodes' = nodes /\ Tok.type \in {"LIST_END", "END"} /\ tt <= Len(tokens)
  BY DEF CloseList, InCommand
<1>2. PICK d, o, v : d = Len(tokens) - 1 /\ o = Outer(lists) /\ v = List(lists[Len(lists)])
  OBVIOUS
<1>3. /\ tt - 1 \in Nat /\ tt - 1 <= Len(tokens) /\ Len(tokens) \in Nat /\ Len(lists) \in Nat
      /\ command.at \in 1 .. tt - 1
      /\ \A k \in command.at + 1 .. tt - 1 : tokens[k].type # "END"
      /\ Deep(tt - 1, command.args, lists)
      /\ command.args \in Seq(Nested[Len(tokens)]) /\ lists \in Seq(Seq(Nested[Len(tokens)]))
  BY BuildingTyped
<1>4. /\ Deep(tt - 1, command.args, o) /\ Len(o) = Len(lists) - 1
      /\ v \in Nested[tt - 1 - Len(o)]
  BY <1>1, <1>2, <1>3, DeepCloses
<1>5. /\ command' # NullCommand /\ command'.at = command.at
      /\ Deep(tt - 1, command'.args, lists') /\ Len(lists') = Len(o)
      /\ \A b : Written(b) =>
           Made(b)' = Pend(b, Len(tokens), command.args, o) \o Spelled(b)[Len(tokens)][v]
  BY <1>1, <1>2, <1>4, AddMakes
<1>6. Framed'
  BY <1>1, <1>3, <1>5 DEF Framed
<1>7. GoesOn
  BY <1>1, <1>5, <1>6 DEF GoesOn
<1>8. d \in Nat /\ d + 1 = Len(tokens) /\ lists[Len(lists)] \in Seq(Nested[d])
  <2>1. /\ \A j \in 1 .. Len(lists) : lists[j] \in Seq(Nested[Len(tokens) - j])
        /\ Len(lists) \in 0 .. Len(tokens)
    BY <1>3, DeepIn
  <2>2. PICK i : i = Len(lists)
    OBVIOUS
  <2>3. i # 0
    BY <1>1, <1>3, <2>2
  <2>4. /\ i \in 1 .. Len(lists) /\ Len(tokens) - i \in Nat /\ Len(tokens) - i <= d
        /\ d \in Nat /\ d + 1 = Len(tokens)
    BY <1>2, <1>3, <2>1, <2>2, <2>3
  <2>5. Seq(Nested[Len(tokens) - i]) \subseteq Seq(Nested[d])
    BY <2>4, NestedGrows
  <2>. QED BY <2>1, <2>2, <2>4, <2>5
<1>9. ASSUME NEW b, Written(b)
      PROVE  Pend(b, Len(tokens), command.args, o) \o Spelled(b)[Len(tokens)][v]
               = Made(b) \o b.close
  <2>1. PICK args, ls : args = command.args /\ ls = lists
    OBVIOUS
  <2>2. args \in Seq(Nested[d + 1]) /\ ls \in Seq(Seq(Nested[d + 1]))
    BY <1>3, <1>8, <2>1
  <2>3. ls # <<>> /\ ls[Len(ls)] \in Seq(Nested[d])
    BY <1>1, <1>8, <2>1
  <2>4. Pend(b, d + 1, args, Outer(ls)) \o Spelled(b)[d + 1][List(ls[Len(ls)])]
          = Pend(b, d + 1, args, ls) \o b.close
    BY <1>8, <1>9, <2>2, <2>3, PendCloses
  <2>. QED BY <1>2, <1>8, <2>1, <2>4 DEF Made
<1>10. \A b : Written(b) => Made(b)' = Made(b) \o b.close
  BY <1>5, <1>9
<1>. QED BY <1>1, <1>4, <1>5, <1>7, <1>10

-----------------------------------------------------------------------------
(* Brackets.                                                               *)

LEMMA BracketsApart ==
  /\ Opening # Closing /\ Opening \in Piece /\ Closing \in Piece
  /\ \A t \in Token : IsLeaf(t) => t \in Piece /\ t # Opening /\ t # Closing
<1>1. Opening.type = "LIST_START" /\ Closing.type = "LIST_END"
  BY DEF Opening, Closing
<1>2. Opening # Closing
  BY <1>1
<1>3. ASSUME NEW t \in Token, IsLeaf(t) PROVE t # Opening /\ t # Closing
  <2>1. t.type # "LIST_START" /\ t.type # "LIST_END"
    BY <1>3 DEF IsLeaf
  <2>. QED BY <1>1, <2>1
<1>. QED BY <1>2, <1>3 DEF Piece

Full(s) == Depth(s, Len(s))

LEMMA DepthTyped == ASSUME NEW s, NEW j \in Nat PROVE Depth(s, j) \in Int
<1>1. IsFiniteSet(1 .. j)
  BY FS_Interval
<1>2. /\ IsFiniteSet({k \in 1 .. j : s[k] = Opening})
      /\ IsFiniteSet({k \in 1 .. j : s[k] = Closing})
  BY <1>1, FS_Subset
<1>. QED BY <1>2, FS_CardinalityType DEF Depth

LEMMA DepthSteps ==
  ASSUME NEW S, NEW s \in Seq(S), NEW x \in S, NEW w, Joins(w, s, <<x>>)
  PROVE  /\ w \in Seq(S) /\ Len(w) = Len(s) + 1 /\ w[Len(s) + 1] = x
         /\ \A j \in 1 .. Len(s) : w[j] = s[j] /\ Depth(w, j) = Depth(s, j)
         /\ x = Opening => Full(w) = Full(s) + 1
         /\ x = Closing => Full(w) = Full(s) - 1
         /\ x # Opening /\ x # Closing => Full(w) = Full(s)
<1>1. PICK i : i = Len(s)
  OBVIOUS
<1>2. /\ i \in Nat /\ w \in Seq(S) /\ Len(w) = i + 1 /\ w[i + 1] = x
      /\ \A j \in 1 .. i : w[j] = s[j]
  BY <1>1 DEF Joins
<1>3. ASSUME NEW j \in 0 .. i PROVE Depth(w, j) = Depth(s, j)
  <2>1. \A k \in 1 .. j : w[k] = s[k]
    BY <1>2
  <2>2. /\ {k \in 1 .. j : w[k] = Opening} = {k \in 1 .. j : s[k] = Opening}
        /\ {k \in 1 .. j : w[k] = Closing} = {k \in 1 .. j : s[k] = Closing}
    BY <2>1
  <2>. QED BY <2>2 DEF Depth
<1>4. ASSUME NEW c
      PROVE  /\ Cardinality({k \in 1 .. i : w[k] = c}) \in Nat
             /\ Cardinality({k \in 1 .. i + 1 : w[k] = c})
                  = Cardinality({k \in 1 .. i : w[k] = c}) + (IF x = c THEN 1 ELSE 0)
  <2> DEFINE A == {k \in 1 .. i : w[k] = c}
             B == {k \in 1 .. i + 1 : w[k] = c}
  <2>1. IsFiniteSet(A) /\ i + 1 \notin A
    <3>1. IsFiniteSet(1 .. i)
      BY <1>2, FS_Interval
    <3>2. IsFiniteSet(A)
      BY <3>1, FS_Subset
    <3>. QED BY <1>2, <3>2
  <2>2. B = IF x = c THEN A \cup {i + 1} ELSE A
    <3>1. 1 .. i + 1 = (1 .. i) \cup {i + 1}
      BY <1>2
    <3>. QED BY <1>2, <3>1
  <2> HIDE DEF A, B
  <2>3. Cardinality(A) \in Nat /\ Cardinality(A \cup {i + 1}) = Cardinality(A) + 1
    BY <2>1, FS_CardinalityType, FS_AddElement
  <2>4. Cardinality(B) = Cardinality(A) + (IF x = c THEN 1 ELSE 0)
    BY <2>2, <2>3
  <2>. QED BY <2>3, <2>4 DEF A, B
<1>5. Full(w) = Depth(w, i) + (IF x = Opening THEN 1 ELSE 0) - (IF x = Closing THEN 1 ELSE 0)
  <2>1. Full(w) = Depth(w, i + 1)
    BY <1>2 DEF Full
  <2>2. PICK p, q, u, v :
          /\ p = Cardinality({k \in 1 .. i : w[k] = Opening})
          /\ q = Cardinality({k \in 1 .. i : w[k] = Closing})
          /\ u = Cardinality({k \in 1 .. i + 1 : w[k] = Opening})
          /\ v = Cardinality({k \in 1 .. i + 1 : w[k] = Closing})
    OBVIOUS
  <2>3. p \in Nat /\ u = p + (IF x = Opening THEN 1 ELSE 0)
    BY <1>4, <2>2
  <2>4. q \in Nat /\ v = q + (IF x = Closing THEN 1 ELSE 0)
    BY <1>4, <2>2
  <2>5. Depth(w, i) = p - q /\ Full(w) = u - v
    BY <2>1, <2>2 DEF Depth
  <2>. QED BY <2>3, <2>4, <2>5
<1>6. Depth(w, i) = Full(s) /\ Full(s) \in Int
  BY <1>1, <1>2, <1>3, DepthTyped DEF Full
<1>7. Opening # Closing
  BY BracketsApart
<1>8. /\ x = Opening => Full(w) = Full(s) + 1
      /\ x = Closing => Full(w) = Full(s) - 1
      /\ x # Opening /\ x # Closing => Full(w) = Full(s)
  BY <1>5, <1>6, <1>7
<1>9. \A j \in 1 .. Len(s) : w[j] = s[j] /\ Depth(w, j) = Depth(s, j)
  BY <1>1, <1>2, <1>3
<1>. QED BY <1>1, <1>2, <1>8, <1>9

(* As far as it is written, every list is the last element of the one      *)
(* around it, and no bracket closes what none has opened.                  *)
Good(s) ==
  \A j \in 1 .. Len(s) :
    /\ Depth(s, j) >= 0
    /\ s[j] = Closing /\ Depth(s, j) > 0 /\ j < Len(s) => s[j + 1] = Closing

LEMMA GoodBegins ==
  ASSUME NEW S, NEW s \in Seq(S), NEW x \in S, NEW w, Joins(w, s, <<x>>), Good(w)
  PROVE  /\ Good(s) /\ Full(w) >= 0
         /\ s # <<>> /\ s[Len(s)] = Closing /\ Full(s) > 0 => x = Closing
<1>1. PICK i : i = Len(s)
  OBVIOUS
<1>2. /\ i \in Nat /\ Len(w) = i + 1 /\ w[i + 1] = x
      /\ \A j \in 1 .. i : w[j] = s[j] /\ Depth(w, j) = Depth(s, j)
  BY <1>1, DepthSteps
<1>3. Full(w) >= 0
  BY <1>2 DEF Good, Full
<1>4. ASSUME NEW j \in 1 .. i
      PROVE  /\ Depth(s, j) >= 0
             /\ s[j] = Closing /\ Depth(s, j) > 0 => w[j + 1] = Closing
  <2>1. j \in 1 .. Len(w) /\ j < Len(w)
    BY <1>2
  <2>. QED BY <1>2, <2>1 DEF Good
<1>5. Good(s)
  <2>1. \A j \in 1 .. i : j < i => w[j + 1] = s[j + 1]
    BY <1>2
  <2>. QED BY <1>1, <1>4, <2>1 DEF Good
<1>6. ASSUME s # <<>>, s[Len(s)] = Closing, Full(s) > 0 PROVE x = Closing
  <2>1. i \in 1 .. i
    BY <1>1, <1>6
  <2>. QED BY <1>1, <1>2, <1>4, <1>6, <2>1 DEF Full
<1>. QED BY <1>3, <1>5, <1>6

Closings(k) == [i \in 1 .. k |-> Closing]

(* What the lists say when the parser has ended k of them too many, which  *)
(* it only has at a bracket that closes or at the end of the statement, or *)
(* when it will not begin another one before k brackets have closed.       *)
MatchesAtEnd(s, m, k) == k \in Nat /\ m = s \o Closings(k)
Matches(s, m, i) ==
  Good(s) => /\ MatchesAtEnd(s, m, Full(s) - i)
             /\ Full(s) - i > 0 => i = 0 /\ s # <<>> /\ s[Len(s)] = Closing

LEMMA ClosingsSteps ==
  ASSUME NEW k \in Nat
  PROVE  /\ Closings(k) \in Seq(Piece) /\ Closings(0) = <<>>
         /\ Closings(k) \o <<Closing>> = Closings(k + 1)
         /\ <<Closing>> \o Closings(k) = Closings(k + 1)
<1>1. Closing \in Piece
  BY BracketsApart
<1>. QED BY <1>1 DEF Closings

(* A value or a list that begins.                                          *)
LEMMA MatchesNext ==
  ASSUME NEW s \in Seq(Piece), NEW m, NEW i \in Nat, NEW x \in Piece, x # Closing,
         NEW w, Joins(w, s, <<x>>), Matches(s, m, i)
  PROVE  Matches(w, m \o <<x>>, IF x = Opening THEN i + 1 ELSE i)
<1> SUFFICES ASSUME Good(w)
             PROVE  /\ MatchesAtEnd(w, m \o <<x>>, Full(w) - (IF x = Opening THEN i + 1 ELSE i))
                    /\ ~(Full(w) - (IF x = Opening THEN i + 1 ELSE i) > 0)
  BY DEF Matches
<1>1. Good(s) /\ ~(s # <<>> /\ s[Len(s)] = Closing /\ Full(s) > 0)
  BY GoodBegins
<1>2. Full(s) \in Int
  <2>1. Len(s) \in Nat
    OBVIOUS
  <2>. QED BY <2>1, DepthTyped DEF Full
<1>3. MatchesAtEnd(s, m, Full(s) - i) /\ ~(Full(s) - i > 0)
  <2>1. /\ MatchesAtEnd(s, m, Full(s) - i)
        /\ Full(s) - i > 0 => i = 0 /\ s # <<>> /\ s[Len(s)] = Closing
    BY <1>1 DEF Matches
  <2>2. i = 0 /\ Full(s) - i > 0 => Full(s) > 0
    BY <1>2
  <2>. QED BY <1>1, <2>1, <2>2
<1>4. Full(s) - i = 0 /\ m = s \o Closings(0)
  <2>1. Full(s) - i \in Nat /\ m = s \o Closings(Full(s) - i)
    BY <1>3 DEF MatchesAtEnd
  <2>2. Full(s) - i = 0
    BY <1>3, <2>1
  <2>. QED BY <2>1, <2>2
<1>5. m = s
  <2>1. s \o <<>> = s
    OBVIOUS
  <2>2. Closings(0) = <<>>
    BY ClosingsSteps
  <2>. QED BY <1>4, <2>1, <2>2
<1>6. Full(w) - (IF x = Opening THEN i + 1 ELSE i) = 0
  <2>1. IF x = Opening THEN Full(w) = Full(s) + 1 ELSE Full(w) = Full(s)
    BY DepthSteps
  <2>. QED BY <1>2, <1>4, <2>1
<1>7. w = w \o Closings(0)
  <2>1. w \in Seq(Piece)
    BY DepthSteps
  <2>2. w \o <<>> = w
    BY <2>1
  <2>3. Closings(0) = <<>>
    BY ClosingsSteps
  <2>. QED BY <2>2, <2>3
<1>8. w = m \o <<x>>
  BY <1>5 DEF Joins
<1>. QED BY <1>6, <1>7, <1>8 DEF MatchesAtEnd

(* The parser ends a list.                                                 *)
LEMMA MatchesCloses ==
  ASSUME NEW s \in Seq(Piece), NEW m, NEW k, MatchesAtEnd(s, m, k)
  PROVE  MatchesAtEnd(s, m \o <<Closing>>, k + 1)
<1>1. k \in Nat /\ m = s \o Closings(k) /\ Closings(k) \in Seq(Piece)
  BY ClosingsSteps DEF MatchesAtEnd
<1>2. PICK c, e : c = Closings(k) /\ e = <<Closing>>
  OBVIOUS
<1>3. c \in Seq(Piece) /\ e \in Seq(Piece)
  BY <1>1, <1>2, BracketsApart
<1>4. (s \o c) \o e = s \o (c \o e)
  BY <1>3, PiecesGroup
<1>5. c \o e = Closings(k + 1)
  BY <1>1, <1>2, ClosingsSteps
<1>6. m \o <<Closing>> = s \o Closings(k + 1)
  BY <1>1, <1>2, <1>4, <1>5
<1>7. k + 1 \in Nat
  BY <1>1
<1>. QED BY <1>6, <1>7 DEF MatchesAtEnd

(* A bracket that closes, when the parser has ended all lists at the first.*)
LEMMA MatchesPasses ==
  ASSUME NEW s \in Seq(Piece), NEW m, Good(s) => MatchesAtEnd(s, m, Full(s)),
         NEW w, Joins(w, s, <<Closing>>)
  PROVE  Matches(w, m, 0)
<1> SUFFICES ASSUME Good(w)
             PROVE  /\ MatchesAtEnd(w, m, Full(w) - 0)
                    /\ w # <<>> /\ w[Len(w)] = Closing
  BY DEF Matches
<1>1. Closing \in Piece
  BY BracketsApart
<1>2. /\ Good(s) /\ Full(w) >= 0 /\ Full(w) = Full(s) - 1 /\ Len(w) = Len(s) + 1
      /\ w[Len(s) + 1] = Closing /\ Full(s) \in Int /\ w \in Seq(Piece) /\ Len(s) \in Nat
  BY <1>1, GoodBegins, DepthSteps, DepthTyped DEF Full
<1>3. MatchesAtEnd(s, m, Full(s))
  BY <1>2
<1>4. PICK k : k = Full(w)
  OBVIOUS
<1>5. k \in Nat /\ k + 1 = Full(s) /\ m = s \o Closings(k + 1)
  <2>1. m = s \o Closings(Full(s))
    BY <1>3 DEF MatchesAtEnd
  <2>2. k = Full(s) - 1 /\ k >= 0
    BY <1>2, <1>4
  <2>3. k \in Nat /\ k + 1 = Full(s)
    BY <1>2, <2>2
  <2>. QED BY <2>1, <2>3
<1>6. PICK c, e : c = Closings(k) /\ e = <<Closing>>
  OBVIOUS
<1>7. c \in Seq(Piece) /\ e \in Seq(Piece) /\ e \o c = Closings(k + 1)
  <2>1. Closings(k) \in Seq(Piece)
    BY <1>5, ClosingsSteps
  <2>2. <<Closing>> \o Closings(k) = Closings(k + 1)
    BY <1>5, ClosingsSteps
  <2>3. <<Closing>> \in Seq(Piece)
    BY <1>1
  <2>. QED BY <1>6, <2>1, <2>2, <2>3
<1>8. (s \o e) \o c = s \o (e \o c)
  BY <1>7, PiecesGroup
<1>9. m = w \o Closings(k)
  BY <1>5, <1>6, <1>7, <1>8 DEF Joins
<1>10. Full(w) - 0 = k
  BY <1>4, <1>5
<1>11. MatchesAtEnd(w, m, Full(w) - 0)
  BY <1>5, <1>9, <1>10 DEF MatchesAtEnd
<1>. QED BY <1>2, <1>11

-----------------------------------------------------------------------------
(* Commands as they are written.                                           *)

(* What the parser has made of the brackets, at one that closes or at the  *)
(* end of the statement and everywhere else.                               *)
AtEnd == tt <= Len(tokens) /\ Tok.type \in {"LIST_END", "END"}
EndsSo(s, m, i) == Good(s) => MatchesAtEnd(s, m, Full(s) - i)
Bracketed ==
  IF AtEnd THEN EndsSo(Past(Brackets), Made(Brackets), Len(lists))
           ELSE Matches(Past(Brackets), Made(Brackets), Len(lists))

Parted == Made(Silent) = Past(Silent) /\ Bracketed

LEMMA MatchesEnds == ASSUME NEW s, NEW m, NEW i, Matches(s, m, i) PROVE EndsSo(s, m, i)
BY DEF Matches, EndsSo

(* What a token that is read says.                                         *)
LEMMA PartSays ==
  ASSUME NEW b
  PROVE  \A t \in Token :
           /\ IsLeaf(t) => Part(b, t) = <<t>>
           /\ t.type = "LIST_START" => Part(b, t) = b.open
           /\ t.type = "LIST_END" => Part(b, t) = b.close
           /\ t.type \in {"DELIMITER", "OPTION"} => Part(b, t) = <<>>
BY DEF Part, IsLeaf

LEMMA Says == Silent.open = <<>> /\ Silent.close = <<>>
              /\ Brackets.open = <<Opening>> /\ Brackets.close = <<Closing>>
BY DEF Silent, Brackets

(* An input that goes on is one that may end.                              *)
LEMMA BracketedOn ==
  ASSUME Matches(Past(Brackets)', Made(Brackets)', Len(lists'))
  PROVE  Bracketed'
<1>1. PICK s, m, i : s = Past(Brackets)' /\ m = Made(Brackets)' /\ i = Len(lists')
  OBVIOUS
<1>2. Matches(s, m, i) /\ EndsSo(s, m, i)
  BY <1>1, MatchesEnds
<1>3. Matches(Past(Brackets)', Made(Brackets)', Len(lists'))
      /\ EndsSo(Past(Brackets)', Made(Brackets)', Len(lists'))
  BY <1>1, <1>2
<1>. QED BY <1>3 DEF Bracketed

(* Delimiters, options and the brackets the parser passes by.              *)
LEMMA IgnoreParted ==
  ASSUME Building, Parted, tokens' = tokens, Ignore \/ SetOption
  PROVE  GoesOn /\ Parted'
<1>1. /\ GoesOn /\ tt' = tt + 1 /\ tt <= Len(tokens) /\ lists' = lists
      /\ Tok.type \in {"DELIMITER", "LIST_END", "OPTION"}
      /\ Tok.type = "LIST_END" => lists = <<>>
      /\ \A b : Made(b)' = Made(b)
  BY IgnoreEffect
<1>2. command'.at = command.at
  BY <1>1 DEF GoesOn
<1>3. /\ Past(Silent) \in Seq(Piece) /\ Made(Silent) \in Seq(Piece)
      /\ Past(Silent)' = Past(Silent) \o Part(Silent, Tok)
  BY <1>1, <1>2, BothWritten, PastSteps
<1>4. /\ Past(Brackets) \in Seq(Piece) /\ Made(Brackets) \in Seq(Piece)
      /\ Past(Brackets)' = Past(Brackets) \o Part(Brackets, Tok)
  BY <1>1, <1>2, BothWritten, PastSteps
<1>5. Tok \in Token
  <2>1. LexerTypeOK /\ tt \in Nat \ {0} /\ Len(tokens) \in Nat
    BY BuildingTyped
  <2>. QED BY <1>1, <2>1 DEF LexerTypeOK, Tok
<1>6. Part(Silent, Tok) = <<>>
  BY <1>1, <1>5, PartSays, Says
<1>7. Made(Silent)' = Past(Silent)'
  <2>1. PICK s : s = Past(Silent)
    OBVIOUS
  <2>2. s \o <<>> = s
    BY <1>3, <2>1
  <2>. QED BY <1>1, <1>3, <1>6, <2>1, <2>2 DEF Parted
<1>8. PICK s, m, w : s = Past(Brackets) /\ m = Made(Brackets) /\ w = Past(Brackets)'
  OBVIOUS
<1>9. s \in Seq(Piece)
  BY <1>4, <1>8
<1>10. Matches(w, m, Len(lists))
  <2>1. CASE Tok.type = "LIST_END"
    <3>1. Len(lists) = 0
      BY <1>1, <2>1
    <3>2. EndsSo(s, m, 0)
      BY <1>1, <1>8, <2>1, <3>1 DEF Parted, Bracketed, AtEnd
    <3>3. Good(s) => MatchesAtEnd(s, m, Full(s))
      <4>1. Full(s) \in Int
        <5>1. Len(s) \in Nat
          BY <1>9
        <5>. QED BY <5>1, DepthTyped DEF Full
      <4>2. Full(s) - 0 = Full(s)
        BY <4>1
      <4>. QED BY <3>2, <4>2 DEF EndsSo
    <3>4. Part(Brackets, Tok) = <<Closing>>
      BY <1>5, <2>1, PartSays, Says
    <3>5. Joins(w, s, <<Closing>>)
      BY <1>4, <1>8, <3>4 DEF Joins
    <3>6. Matches(w, m, 0)
      BY <1>9, <3>3, <3>5, MatchesPasses
    <3>. QED BY <3>1, <3>6
  <2>2. CASE Tok.type \in {"DELIMITER", "OPTION"}
    <3>1. Matches(s, m, Len(lists))
      BY <1>8, <2>2 DEF Parted, Bracketed, AtEnd
    <3>2. Part(Brackets, Tok) = <<>>
      BY <1>5, <2>2, PartSays
    <3>3. s \o <<>> = s
      BY <1>9
    <3>4. w = s
      BY <1>4, <1>8, <3>2, <3>3
    <3>. QED BY <3>1, <3>4
  <2>. QED BY <1>1, <2>1, <2>2
<1>11. Bracketed'
  BY <1>1, <1>8, <1>10, BracketedOn
<1>. QED BY <1>1, <1>7, <1>11 DEF Parted

(* A value, or a list that begins.                                         *)
LEMMA NextParted ==
  ASSUME Building, Parted, tokens' = tokens, AddLeaf \/ OpenList
  PROVE  GoesOn /\ Parted'
<1>1. /\ GoesOn /\ tt' = tt + 1 /\ tt <= Len(tokens)
  BY LeafEffect, OpenEffect
<1>2. command'.at = command.at
  BY <1>1 DEF GoesOn
<1>3. /\ Past(Silent) \in Seq(Piece) /\ Made(Silent) \in Seq(Piece)
      /\ Past(Silent)' = Past(Silent) \o Part(Silent, Tok)
  BY <1>1, <1>2, BothWritten, PastSteps
<1>4. /\ Past(Brackets) \in Seq(Piece) /\ Made(Brackets) \in Seq(Piece)
      /\ Past(Brackets)' = Past(Brackets) \o Part(Brackets, Tok)
  BY <1>1, <1>2, BothWritten, PastSteps
<1>5. Tok \in Token /\ Len(lists) \in Nat
  <2>1. LexerTypeOK /\ tt \in Nat \ {0} /\ Len(tokens) \in Nat /\ Len(lists) \in Nat
    BY BuildingTyped
  <2>. QED BY <1>1, <2>1 DEF LexerTypeOK, Tok
<1>6. PICK x : /\ x = IF IsLeaf(Tok) THEN Tok ELSE Opening
  OBVIOUS
<1>7. /\ x \in Piece /\ x # Closing /\ Part(Brackets, Tok) = <<x>>
      /\ \A b : Written(b) => Made(b)' = Made(b) \o Part(b, Tok)
      /\ Len(lists') = (IF x = Opening THEN Len(lists) + 1 ELSE Len(lists))
      /\ Tok.type \notin {"LIST_END", "END"}
  <2>1. CASE AddLeaf
    <3>1. Len(lists') = Len(lists) /\ IsLeaf(Tok)
          /\ \A b : Written(b) => Made(b)' = Made(b) \o <<Tok>>
      BY <2>1, LeafEffect
    <3>2. \A b : Part(b, Tok) = <<Tok>>
      BY <1>5, <3>1, PartSays
    <3>3. x = Tok /\ x \in Piece /\ x # Opening /\ x # Closing
      BY <1>5, <1>6, <3>1, BracketsApart
    <3>4. Tok.type \notin {"LIST_END", "END"}
      BY <3>1 DEF IsLeaf
    <3>. QED BY <3>1, <3>2, <3>3, <3>4
  <2>2. CASE OpenList
    <3>1. Len(lists') = Len(lists) + 1 /\ Tok.type = "LIST_START"
          /\ \A b : Written(b) => Made(b)' = Made(b) \o b.open
      BY <2>2, OpenEffect
    <3>2. \A b : Part(b, Tok) = b.open
      BY <1>5, <3>1, PartSays
    <3>3. ~IsLeaf(Tok)
      BY <3>1 DEF IsLeaf
    <3>4. x = Opening /\ x \in Piece /\ x # Closing
      BY <1>6, <3>3, BracketsApart
    <3>5. Part(Brackets, Tok) = <<Opening>>
      BY <3>2, Says
    <3>. QED BY <3>1, <3>2, <3>4, <3>5
  <2>. QED BY <2>1, <2>2
<1>8. Made(Silent)' = Past(Silent)'
  BY <1>3, <1>7, BothWritten DEF Parted
<1>9. PICK s, m, w, i : /\ s = Past(Brackets) /\ m = Made(Brackets) /\ w = Past(Brackets)'
                        /\ i = Len(lists)
  OBVIOUS
<1>10. s \in Seq(Piece) /\ i \in Nat /\ Joins(w, s, <<x>>)
  BY <1>4, <1>5, <1>7, <1>9 DEF Joins
<1>11. Matches(s, m, i)
  BY <1>7, <1>9 DEF Parted, Bracketed, AtEnd
<1>12. Matches(w, m \o <<x>>, IF x = Opening THEN i + 1 ELSE i)
  BY <1>7, <1>10, <1>11, MatchesNext
<1>13. Made(Brackets)' = m \o <<x>>
  BY <1>7, <1>9, BothWritten
<1>14. Matches(Past(Brackets)', Made(Brackets)', Len(lists'))
  BY <1>7, <1>9, <1>12, <1>13
<1>. QED BY <1>1, <1>8, <1>14, BracketedOn DEF Parted

(* A list that ends.                                                       *)
LEMMA CloseParted ==
  ASSUME Building, Parted, tokens' = tokens, CloseList
  PROVE  GoesOn /\ Parted'
<1>1. /\ GoesOn /\ tt' = tt /\ tt <= Len(tokens) /\ Len(lists') = Len(lists) - 1
      /\ Tok.type \in {"LIST_END", "END"}
      /\ \A b : Written(b) => Made(b)' = Made(b) \o b.close
  BY CloseEffect
<1>2. command'.at = command.at
  BY <1>1 DEF GoesOn
<1>3. Past(Silent)' = Past(Silent) /\ Made(Silent) \in Seq(Piece)
  BY <1>1, <1>2, BothWritten, PastSteps
<1>4. Past(Brackets)' = Past(Brackets) /\ Past(Brackets) \in Seq(Piece)
  BY <1>1, <1>2, BothWritten, PastSteps
<1>5. Made(Silent)' = Past(Silent)'
  <2>1. PICK m : m = Made(Silent)
    OBVIOUS
  <2>2. m \o <<>> = m
    BY <1>3, <2>1
  <2>3. Made(Silent)' = m \o <<>>
    BY <1>1, <2>1, BothWritten, Says
  <2>. QED BY <1>3, <2>1, <2>2, <2>3 DEF Parted
<1>6. PICK s, m, i : s = Past(Brackets) /\ m = Made(Brackets) /\ i = Len(lists)
  OBVIOUS
<1>7. s \in Seq(Piece) /\ i \in Nat
  BY <1>4, <1>6, BuildingTyped
<1>8. EndsSo(s, m, i)
  BY <1>1, <1>6 DEF Parted, Bracketed, AtEnd
<1>9. EndsSo(s, m \o <<Closing>>, i - 1)
  <2> SUFFICES ASSUME Good(s) PROVE MatchesAtEnd(s, m \o <<Closing>>, Full(s) - (i - 1))
    BY DEF EndsSo
  <2>1. PICK k : k = Full(s) - i
    OBVIOUS
  <2>2. MatchesAtEnd(s, m, k)
    BY <1>8, <2>1 DEF EndsSo
  <2>3. MatchesAtEnd(s, m \o <<Closing>>, k + 1)
    BY <1>7, <2>2, MatchesCloses
  <2>4. Full(s) \in Int
    <3>1. Len(s) \in Nat
      BY <1>7
    <3>. QED BY <3>1, DepthTyped DEF Full
  <2>5. k + 1 = Full(s) - (i - 1)
    BY <1>7, <2>1, <2>4
  <2>. QED BY <2>3, <2>5
<1>10. Made(Brackets)' = m \o <<Closing>>
  BY <1>1, <1>6, BothWritten, Says
<1>11. AtEnd'
  BY <1>1 DEF AtEnd, Tok
<1>12. EndsSo(Past(Brackets)', Made(Brackets)', Len(lists'))
  BY <1>1, <1>4, <1>6, <1>9, <1>10
<1>13. Bracketed'
  BY <1>11, <1>12 DEF Bracketed
<1>. QED BY <1>1, <1>5, <1>13 DEF Parted

(* What the finished command c is to hold.                                 *)
Kept(c)      == Args(Silent, c) = Source(Silent, c)
AsWritten(c) ==
  Balanced(Source(Brackets, c)) /\ InnerListsLast(Source(Brackets, c)) => ReadsBack(c)

(* The end of the statement.                                               *)
LEMMA EndsHere ==
  ASSUME Building, tokens' = tokens, EndCommand, NEW b
  PROVE  Source(b, command) = Past(b) /\ Args(b, command) = Made(b)
<1>1. /\ tt \in Nat \ {0} /\ Len(tokens) \in Nat /\ command.at \in 1 .. tt - 1
      /\ \A k \in command.at + 1 .. tt - 1 : tokens[k].type # "END"
  BY BuildingTyped
<1>2. tokens[tt].type = "END" /\ lists = <<>> /\ tt <= Len(tokens)
  BY DEF EndCommand, InCommand, Tok
<1>3. PICK p : p = command.at
  OBVIOUS
<1>4. p \in Nat /\ tt \in p + 1 .. Len(tokens)
  BY <1>1, <1>2, <1>3
<1> DEFINE First(j) == tokens[j].type = "END" /\ \A k \in p + 1 .. j - 1 : tokens[k].type # "END"
<1>5. First(tt)
  BY <1>1, <1>2, <1>3
<1>6. ASSUME NEW j \in p + 1 .. Len(tokens), First(j) PROVE j = tt
  <2>1. CASE j < tt
    <3>1. j \in p + 1 .. tt - 1
      BY <1>4, <2>1
    <3>. QED BY <1>5, <1>6, <3>1
  <2>2. CASE tt < j
    <3>1. tt \in p + 1 .. j - 1
      BY <1>4, <2>2
    <3>. QED BY <1>5, <1>6, <3>1
  <2>3. j \in Nat
    BY <1>4
  <2>. QED BY <1>1, <2>1, <2>2, <2>3
<1>7. EndOf(p) = CHOOSE j \in p + 1 .. Len(tokens) : First(j)
  BY DEF EndOf
<1>8. EndOf(p) = tt
  <2> HIDE DEF First
  <2>1. \E j \in p + 1 .. Len(tokens) : First(j)
    BY <1>4, <1>5
  <2>2. EndOf(p) \in p + 1 .. Len(tokens) /\ First(EndOf(p))
    BY <1>7, <2>1
  <2>. QED BY <1>6, <2>2
<1>9. Source(b, command) = Past(b)
  BY <1>3, <1>8 DEF Source, Past
<1>10. Args(b, command) = Run(b, Len(tokens), command.args)
  BY DEF Args, Texts, Run, Joined, Mapped
<1>11. Made(b) = Run(b, Len(tokens), command.args)
  BY <1>2, PendEmpty DEF Made
<1>. QED BY <1>9, <1>10, <1>11

(* Balanced brackets whose inner lists come last are good all the way.     *)
LEMMA GoodAtEnd ==
  ASSUME NEW S, NEW s \in Seq(S), Balanced(s), InnerListsLast(s)
  PROVE  Good(s) /\ Full(s) = 0
<1>1. DOMAIN s = 1 .. Len(s)
  OBVIOUS
<1>. QED BY <1>1 DEF Balanced, InnerListsLast, Good, Full

LEMMA EndParted ==
  ASSUME Building, Parted, tokens' = tokens, EndCommand
  PROVE  Kept(command) /\ AsWritten(command)
<1>1. Source(Silent, command) = Past(Silent) /\ Args(Silent, command) = Made(Silent)
  BY EndsHere
<1>2. Source(Brackets, command) = Past(Brackets) /\ Args(Brackets, command) = Made(Brackets)
  BY EndsHere
<1>3. Kept(command)
  BY <1>1 DEF Kept, Parted
<1>4. PICK s, m : s = Past(Brackets) /\ m = Made(Brackets)
  OBVIOUS
<1>5. s \in Seq(Piece)
  <2>1. /\ LexerTypeOK /\ command.at \in 1 .. Len(tokens) /\ Len(tokens) \in Nat
        /\ command.at \in 1 .. tt - 1 /\ tt - 1 <= Len(tokens) /\ tt - 1 \in Nat /\ tt \in Nat
    BY BuildingTyped
  <2>2. PICK a : a = command.at
    OBVIOUS
  <2>3. \A i \in 0 .. Len(tokens) - a : After(Brackets, a)[i] \in Seq(Piece)
    BY <2>1, <2>2, BothWritten, AfterSteps
  <2>4. tt - 1 - a \in 0 .. Len(tokens) - a
    BY <2>1, <2>2
  <2>. QED BY <1>4, <2>2, <2>3, <2>4 DEF Past
<1>6. lists = <<>> /\ AtEnd
  BY DEF EndCommand, InCommand, AtEnd
<1>7. EndsSo(s, m, 0)
  BY <1>4, <1>6 DEF Parted, Bracketed
<1>8. ASSUME Balanced(s), InnerListsLast(s) PROVE m = s
  <2>1. Good(s) /\ Full(s) - 0 = 0
    BY <1>5, <1>8, GoodAtEnd
  <2>2. m = s \o Closings(0)
    BY <1>7, <2>1 DEF EndsSo, MatchesAtEnd
  <2>3. s \o <<>> = s
    BY <1>5
  <2>4. Closings(0) = <<>>
    BY ClosingsSteps
  <2>. QED BY <2>2, <2>3, <2>4
<1>9. AsWritten(command)
  BY <1>2, <1>4, <1>8 DEF AsWritten, ReadsBack
<1>. QED BY <1>3, <1>9

(* A command begins.                                                       *)
LEMMA StartParted ==
  ASSUME OnceInv, Framed, tokens' = tokens, StartCommand
  PROVE  Framed' /\ Parted' /\ nodes' = nodes
<1>1. /\ command = NullCommand /\ tt <= Len(tokens) /\ tt' = tt + 1 /\ nodes' = nodes
      /\ lists' = lists
      /\ command' = [type |-> mapToCmd[Word(Tok)], at |-> tt, args |-> <<>>, opts |-> {}]
  BY DEF StartCommand, Next1
<1>2. /\ command'.at = tt /\ command'.args = <<>> /\ lists' = <<>>
  BY <1>1 DEF Framed
<1>3. LexerTypeOK /\ tt \in Nat \ {0} /\ tt \in 1 .. Len(tokens)
  BY <1>1 DEF OnceInv, MainInv, MainTypeOK, LexerTypeOK
<1>4. command' # NullCommand
  BY <1>1, CommandNotNull
<1>5. tt' - 1 = tt /\ tt' - 1 - tt = 0
  BY <1>1, <1>3
<1>6. Deep(tt, <<>>, <<>>)
  BY <1>3 DEF Deep
<1>7. Framed'
  <2>1. command'.at \in 1 .. tt' - 1
    BY <1>2, <1>3, <1>5
  <2>2. command'.at + 1 .. tt' - 1 = {}
    BY <1>2, <1>3, <1>5
  <2>3. Deep(tt' - 1, command'.args, lists')
    BY <1>2, <1>5, <1>6
  <2>. QED BY <1>4, <2>1, <2>2, <2>3 DEF Framed
<1>8. ASSUME NEW b, Written(b) PROVE Made(b)' = <<>> /\ Past(b)' = <<>>
  <2>1. Made(b)' = Pend(b, Len(tokens), <<>>, <<>>)
    BY <1>2 DEF Made
  <2>2. Pend(b, Len(tokens), <<>>, <<>>) = <<>>
    BY PendEmpty
  <2>3. Past(b)' = After(b, tt)[0]
    BY <1>2, <1>5 DEF Past, After
  <2>4. After(b, tt)[0] = <<>>
    BY <1>3, <1>8, AfterSteps
  <2>. QED BY <2>1, <2>2, <2>3, <2>4
<1>9. Matches(<<>>, <<>>, 0)
  <2>1. Full(<<>>) = 0
    <3>1. {k \in 1 .. 0 : <<>>[k] = Opening} = {} /\ {k \in 1 .. 0 : <<>>[k] = Closing} = {}
      OBVIOUS
    <3>2. Cardinality({}) = 0 /\ Len(<<>>) = 0
      BY FS_EmptySet
    <3>. QED BY <3>1, <3>2 DEF Full, Depth
  <2>2. <<>> = <<>> \o Closings(0)
    BY ClosingsSteps
  <2>. QED BY <2>1, <2>2 DEF Matches, MatchesAtEnd
<1>10. Len(lists') = 0
  BY <1>2
<1>11. Bracketed'
  BY <1>8, <1>9, <1>10, BothWritten, BracketedOn
<1>12. Made(Silent)' = Past(Silent)'
  BY <1>8, BothWritten
<1>. QED BY <1>1, <1>7, <1>11, <1>12 DEF Parted

-----------------------------------------------------------------------------
(* The arguments of every command of the query, the one being built        *)
(* included, are what its statement says.                                  *)
CommandsWritten == \A j \in Built : Kept(nodes[j]) /\ AsWritten(nodes[j])

WrittenInv ==
  /\ OnceInv /\ CommandsWritten
  /\ pc = "parse" => Framed /\ (command # NullCommand => Parted)

LEMMA WrittenFollows == WrittenInv => NoValueLost /\ ListsReadBack
BY DEF WrittenInv, CommandsWritten, Kept, AsWritten, NoValueLost, ListsReadBack

LEMMA SameTokens ==
  ASSUME tokens' = tokens, NEW c
  PROVE  (Kept(c) => Kept(c)') /\ (AsWritten(c) => AsWritten(c)')
<1>1. \A b : Args(b, c)' = Args(b, c)
  BY DEF Args, Texts
<1>2. \A b : Source(b, c)' = Source(b, c)
  BY DEF Source, After, EndOf
<1>. QED BY <1>1, <1>2 DEF Kept, AsWritten, ReadsBack

(* What is written stays written as long as the tokens do.                 *)
LEMMA CommandsStay ==
  ASSUME CommandsWritten, tokens' = tokens,
         \A j \in Built' : j \in Built /\ nodes'[j] = nodes[j]
  PROVE  CommandsWritten'
<1> SUFFICES ASSUME NEW j \in Built' PROVE (Kept(nodes[j]) /\ AsWritten(nodes[j]))'
  BY DEF CommandsWritten
<1>1. PICK c : c = nodes'[j]
  OBVIOUS
<1>2. Kept(c) /\ AsWritten(c)
  BY <1>1 DEF CommandsWritten
<1>3. Kept(c)' /\ AsWritten(c)'
  BY <1>2, SameTokens
<1>. QED BY <1>1, <1>3

(* A query that is handed over has no commands yet, and no arguments.      *)
LEMMA HandOverWritten ==
  ASSUME NEW q, HandOver(q), OnceInv'
  PROVE  WrittenInv'
<1>1. pc' # "parse" /\ Built' = {}
  <2>1. CASE q = <<>>
    <3>1. pc' = "run" /\ nodes' = <<>>
      BY <2>1 DEF HandOver, StartParse
    <3>. QED BY <3>1 DEF Built
  <2>2. CASE q # <<>>
    BY <2>2 DEF HandOver, Built
  <2>. QED BY <2>1, <2>2
<1>2. CommandsWritten'
  BY <1>1 DEF CommandsWritten
<1>. QED BY <1>1, <1>2 DEF WrittenInv

(* Nothing is lexed or parsed.                                             *)
LEMMA WrittenKept ==
  ASSUME WrittenInv, UNCHANGED <<lexer, parser>>, pc' \in {"parse", "run"} => pc \in {"parse", "run"},
         pc' = "parse" => pc = "parse", OnceInv'
  PROVE  WrittenInv'
<1>1. /\ tokens' = tokens /\ nodes' = nodes /\ command' = command /\ lists' = lists /\ tt' = tt
  BY DEF lexer, parser
<1>2. CommandsWritten'
  <2>1. \A j \in Built' : j \in Built /\ nodes'[j] = nodes[j]
    BY <1>1 DEF Built
  <2>. QED BY <1>1, <2>1, CommandsStay DEF WrittenInv
<1>3. Framed' = Framed
  BY <1>1 DEF Framed
<1>4. Parted' = Parted
  <2>1. \A b : Made(b)' = Made(b) /\ Past(b)' = Past(b)
    BY <1>1 DEF Made, Past, After
  <2>2. AtEnd' = AtEnd
    BY <1>1 DEF AtEnd, Tok
  <2>. QED BY <1>1, <2>1, <2>2 DEF Parted, Bracketed
<1>. QED BY <1>1, <1>2, <1>3, <1>4 DEF WrittenInv

LEMMA ParsingWritten ==
  ASSUME WrittenInv, Parsing, OnceInv'
  PROVE  WrittenInv'
<1>1. /\ pc = "parse" /\ pc' = "parse" /\ tokens' = tokens /\ ParseToken /\ OnceInv /\ Framed
      /\ CommandsWritten /\ (command # NullCommand => Parted)
  BY DEF Parsing, lexer, main, WrittenInv
<1>2. ASSUME nodes' = nodes PROVE CommandsWritten'
  <2>1. \A j \in Built' : j \in Built /\ nodes'[j] = nodes[j]
    BY <1>1, <1>2 DEF Built
  <2>. QED BY <1>1, <2>1, CommandsStay
<1>3. ASSUME command # NullCommand PROVE Building /\ Parted
  BY <1>1, <1>3 DEF Building
<1>4. ASSUME GoesOn, Parted' PROVE WrittenInv'
  BY <1>2, <1>4 DEF GoesOn, WrittenInv
<1>5. CASE SkipToken
  <2>1. command' = NullCommand /\ lists' = <<>> /\ nodes' = nodes
    BY <1>1, <1>5 DEF SkipToken, Framed
  <2>2. Framed'
    BY <2>1 DEF Framed
  <2>. QED BY <1>2, <2>1, <2>2 DEF WrittenInv
<1>6. CASE StartCommand
  <2>1. Framed' /\ Parted' /\ nodes' = nodes
    BY <1>1, <1>6, StartParted
  <2>. QED BY <1>2, <2>1 DEF WrittenInv
<1>7. CASE EndCommand
  <2>1. /\ command # NullCommand /\ command' = NullCommand /\ lists' = <<>>
        /\ nodes' = Append(nodes, command)
    BY <1>7 DEF EndCommand, InCommand
  <2>2. Kept(command) /\ AsWritten(command)
    BY <1>1, <1>3, <1>7, <2>1, EndParted
  <2>3. Framed'
    BY <2>1 DEF Framed
  <2>4. PICK S : nodes \in Seq(S)
    BY <1>1 DEF OnceInv, MainInv
  <2>5. PICK c, ns : c = command /\ ns = nodes'
    OBVIOUS
  <2>6. /\ DOMAIN ns = 1 .. Len(nodes) + 1 /\ ns[Len(nodes) + 1] = c
        /\ \A j \in 1 .. Len(nodes) : ns[j] = nodes[j]
    BY <2>1, <2>4, <2>5
  <2>7. Kept(c)' /\ AsWritten(c)'
    BY <1>1, <2>2, <2>5, SameTokens
  <2>8. ASSUME NEW j \in Built' PROVE (Kept(nodes[j]) /\ AsWritten(nodes[j]))'
    <3>1. j \in DOMAIN ns /\ Len(nodes) \in Nat
      BY <1>1, <2>4, <2>5 DEF Built
    <3>2. CASE j = Len(nodes) + 1
      BY <2>5, <2>6, <2>7, <3>2
    <3>3. CASE j \in 1 .. Len(nodes)
      <4>1. j \in Built
        BY <1>1, <2>4, <3>3 DEF Built
      <4>2. PICK a : a = nodes[j]
        OBVIOUS
      <4>3. Kept(a) /\ AsWritten(a)
        BY <1>1, <4>1, <4>2 DEF CommandsWritten
      <4>4. Kept(a)' /\ AsWritten(a)'
        BY <1>1, <4>3, SameTokens
      <4>5. nodes'[j] = a
        BY <2>5, <2>6, <3>3, <4>2
      <4>. QED BY <4>4, <4>5
    <3>. QED BY <2>6, <3>1, <3>2, <3>3
  <2>9. CommandsWritten'
    BY <2>8 DEF CommandsWritten
  <2>. QED BY <2>1, <2>3, <2>9 DEF WrittenInv
<1>8. CASE Ignore \/ SetOption
  <2>1. command # NullCommand
    BY <1>8 DEF Ignore, SetOption, InCommand
  <2>. QED BY <1>1, <1>3, <1>4, <1>8, <2>1, IgnoreParted
<1>9. CASE AddLeaf \/ OpenList
  <2>1. command # NullCommand
    BY <1>9 DEF AddLeaf, OpenList, InCommand
  <2>. QED BY <1>1, <1>3, <1>4, <1>9, <2>1, NextParted
<1>10. CASE CloseList
  <2>1. command # NullCommand
    BY <1>10 DEF CloseList, InCommand
  <2>. QED BY <1>1, <1>3, <1>4, <1>10, <2>1, CloseParted
<1>. QED BY <1>1, <1>5, <1>6, <1>7, <1>8, <1>9, <1>10 DEF ParseToken

LEMMA NextWritten == WrittenInv /\ [Next]_vars => WrittenInv'
<1> SUFFICES ASSUME WrittenInv, [Next]_vars PROVE WrittenInv'
  OBVIOUS
<1>0. OnceInv'
  BY NextOnce DEF WrittenInv
<1>1. CASE ReadInput \/ ReadEnd \/ ReadAgain \/ EndQuery
  BY <1>0, <1>1, HandOverWritten DEF ReadInput, ReadEnd, ReadAgain, EndQuery
<1>2. CASE Lexing
  <2>1. pc' = "lex"
    BY <1>2 DEF Lexing, main
  <2>2. CommandsWritten'
    BY <2>1 DEF CommandsWritten, Built
  <2>. QED BY <1>0, <2>1, <2>2 DEF WrittenInv
<1>3. CASE Lexed
  <2>1. nodes' = <<>> /\ command' = NullCommand /\ lists' = <<>>
    BY <1>3 DEF Lexed, StartParse
  <2>2. CommandsWritten'
    BY <2>1 DEF CommandsWritten, Built
  <2>3. Framed'
    BY <2>1 DEF Framed
  <2>. QED BY <1>0, <2>1, <2>2, <2>3 DEF WrittenInv
<1>4. CASE Parsing
  BY <1>0, <1>4, ParsingWritten
<1>5. CASE OpenFile \/ AbortOpen \/ ScriptsDone \/ ContinueQuery \/ FileEnd
  BY <1>0, <1>5, WrittenKept
  DEF OpenFile, AbortOpen, ScriptsDone, ContinueQuery, FileEnd, InScript
<1>6. CASE Caught \/ Parsed \/ Prompt \/ Executed \/ Quit \/ Abort
  BY <1>0, <1>6, WrittenKept DEF Caught, Parsed, Prompt, Executed, Quit, Abort, Running, BackToInput
<1>7. CASE UNCHANGED vars
  BY <1>0, <1>7, WrittenKept DEF vars, main
<1>. QED BY <1>1, <1>2, <1>3, <1>4, <1>5, <1>6, <1>7 DEF Next

LEMMA InitWritten == Init => WrittenInv
<1> SUFFICES ASSUME Init PROVE WrittenInv
  OBVIOUS
<1>1. nodes = <<>> /\ command = NullCommand /\ pc # "parse"
  BY DEF Init
<1>2. CommandsWritten
  BY <1>1 DEF CommandsWritten, Built
<1>. QED BY <1>1, <1>2, InitOnce DEF WrittenInv

(* NoValueLost holds: however a statement nests its lists, closes them too *)
(* often or not at all, every value of it is an argument or an element, in *)
(* the order written (parseCommand_, parseValue_, parseList_).             *)
THEOREM ValuesKept == Spec => []NoValueLost
<1>. QED BY InitWritten, NextWritten, WrittenFollows, PTL DEF Spec

(* ListsReadBack holds: lists nested to any depth are read as they are     *)
(* written, as long as a list within another one comes last in it          *)
(* (parseList_).                                                           *)
THEOREM ListsAreReadBack == Spec => []ListsReadBack
<1>. QED BY InitWritten, NextWritten, WrittenFollows, PTL DEF Spec
=============================================================================
