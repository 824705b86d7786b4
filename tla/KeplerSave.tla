----------------------------- MODULE KeplerSave -----------------------------
(***************************************************************************)
(* The bytes of a save file (src/store_value.cpp, saveToFile and           *)
(* loadFromFile of src/store.cpp): what is written of an entry, where the  *)
(* file may end when the process is killed or the disk is full, and what   *)
(* the reading side, which never looks at the state of its stream, makes   *)
(* of a file that ends too early.                                          *)
(*                                                                         *)
(* A file is a sequence of units, each the bytes of one write or push_back;*)
(* of the last unit some bytes may be missing.  Reading past the end gives *)
(* back whatever the memory held: a size nobody wrote, a type nobody       *)
(* wrote, a text of null characters.                                       *)
(***************************************************************************)
EXTENDS KeplerValues, KeplerBuffer, FiniteSets

CONSTANTS
  Null,        (* the value of an entry map_[key] made and nothing filled  *)
  Torn,        (* any key or text with null characters in it               *)
  Lost,        (* any list whose type or length nobody wrote               *)
  Values,      (* what the users store                                     *)
  SizeMax,     (* the largest number a size_t holds                        *)
  StackMax     (* how many lists within lists fill the stack of the process*)

ASSUME TornAssumption ==
  /\ Torn \in Key \cap Str /\ Null \notin Value \cup {Nil}
  /\ Lost \notin Value \cup {Nil, Null}
ASSUME ValuesAssumption == Values \subseteq Value
ASSUME SizeAssumption == SizeMax \in Nat /\ StackMax \in Nat

(* What reading can make of a file.                                        *)
ReadScalar == Scalar \cup {Lost}
ReadItem   == ReadScalar \cup [type : {"LIST"}, val : Seq(ReadScalar)]
ReadValue  == ReadScalar \cup [type : {"LIST"}, val : Seq(ReadItem)]

VARIABLES
  kv,          (* Store::map_, Nil for no entry                            *)
  file,        (* the units of the save file, none for no file             *)
  torn,        (* whether bytes of the last unit are missing               *)
  pending,     (* the keys saveToFile has still to write                   *)
  pos,         (* the next unit the reading stream meets                   *)
  good,        (* the state of that stream                                 *)
  key,         (* key of loadFromFile                                      *)
  stack,       (* the lists ListValue::deserialize is reading, innermost   *)
               (* last: their items so far and how many are wanted         *)
  deep,        (* in these, the lists nobody wrote, innermost last: how    *)
               (* many items each still wants                              *)
  pc,
  written      (* history: the entries the last SAVE has written, and the  *)
               (* length of the file after each                            *)

reader == <<pos, good, key, stack, deep>>
vars   == <<kv, file, torn, pending, reader, pc, written>>

EmptyKv == [k \in Key |-> Nil]

Init ==
  /\ kv = EmptyKv /\ file = <<>> /\ torn = FALSE /\ pending = {} /\ written = <<>>
  /\ pos = 1 /\ good = TRUE /\ key = Nil /\ stack = <<>> /\ deep = <<>> /\ pc = "idle"

-----------------------------------------------------------------------------
(* serialize, and the entry around it.                                     *)

ScalarUnits(v) ==
  IF v.type \in {"INT", "FLOAT"} THEN << <<"TAG", v.type>>, <<"NUMBER", v.val>> >>
  ELSE << <<"TAG", "TEXT">>, <<"KIND", v.type>>, <<"SIZE">>, <<"CHARS", v.val>> >>

Opening(v) == << <<"TAG", "LIST">>, <<"COUNT", Len(v.val)>> >>

ListUnits(v, items) == Buffer(Opening(v), items)[Len(v.val)]

(* ListValue::serialize calls itself for a list in a list, in which there  *)
(* are only scalars.                                                       *)
ItemUnits(v) ==
  IF v.type = "LIST" THEN ListUnits(v, [j \in DOMAIN v.val |-> ScalarUnits(v.val[j])])
                     ELSE ScalarUnits(v)
Serialize(v) ==
  IF v.type = "LIST" THEN ListUnits(v, [j \in DOMAIN v.val |-> ItemUnits(v.val[j])])
                     ELSE ScalarUnits(v)

Entry(k, v) == << <<"KSIZE">>, <<"KEY", k>>, <<"DELIM">> >> \o Serialize(v)

(* The units of more than one byte.                                        *)
Long(u) == u[1] \notin {"TAG", "KIND", "DELIM"}

-----------------------------------------------------------------------------
(* The users' commands and the process.                                    *)

NoReader == pos' = 1 /\ good' = TRUE /\ key' = Nil /\ stack' = <<>> /\ deep' = <<>>

Store(k, v) ==
  /\ pc = "idle" /\ k # Torn
  /\ kv' = [kv EXCEPT ![k] = v]
  /\ UNCHANGED <<file, torn, pending, reader, pc, written>>

(* LIST dereferences the value of every entry; GET and STATS look first.   *)
ListNull ==
  /\ pc = "idle" /\ \E k \in Key : kv[k] = Null
  /\ kv' = EmptyKv /\ pc' = "crashed"
  /\ UNCHANGED <<file, torn, pending, reader, written>>

Restart ==
  /\ pc \in {"idle", "key", "value", "crashed"}
  /\ kv' = EmptyKv /\ NoReader /\ pc' = "idle"
  /\ UNCHANGED <<file, torn, pending, written>>

-----------------------------------------------------------------------------
(* saveToFile.  Bound: a store with a key or a value nobody has stored is  *)
(* not saved again; they are written and read like any other.              *)
SaveOpen ==
  /\ pc = "idle" /\ \A k \in Key : kv[k] \in Values \cup {Nil, Null}
  /\ kv[Torn] \in {Nil, Null}
  /\ file' = << <<"HEAD">> >> /\ torn' = FALSE /\ written' = <<>>
  /\ pending' = {k \in Key : kv[k] # Nil} /\ pc' = "save"
  /\ UNCHANGED <<kv, reader>>

SaveEntry(k) ==
  /\ pc = "save" /\ k \in pending /\ kv[k] # Null
  /\ file' = file \o Entry(k, kv[k]) /\ pending' = pending \ {k}
  /\ written' = Append(written, [key |-> k, val |-> kv[k], upto |-> Len(file')])
  /\ UNCHANGED <<kv, torn, reader, pc>>

SaveDone ==
  /\ pc = "save" /\ pending = {}
  /\ pc' = "idle" /\ UNCHANGED <<kv, file, torn, pending, reader, written>>

(* The file keeps a part of what was written, cut at any byte.             *)
CutFile ==
  \E m \in 0 .. Len(file) :
    /\ file' = SubSeq(file, 1, m)
    /\ torn' \in (IF m > 0 /\ Long(file[m]) THEN BOOLEAN ELSE {FALSE})

(* The process is killed, or brought down by an entry without a value,     *)
(* with a part of what it wrote still in its buffer.                       *)
SaveKilled ==
  /\ pc = "save" /\ CutFile
  /\ kv' = EmptyKv /\ pending' = {} /\ pc' = "crashed"
  /\ UNCHANGED <<reader, written>>

(* A write fails: nothing more is written and nobody looks.                *)
SaveLost ==
  /\ pc = "save" /\ CutFile /\ \A k \in pending : kv[k] # Null
  /\ pending' = {} /\ pc' = "idle" /\ UNCHANGED <<kv, reader, written>>

-----------------------------------------------------------------------------
(* loadFromFile.                                                           *)

(* The units of which no byte is missing, while the stream is good.        *)
Sound    == IF torn THEN Len(file) - 1 ELSE Len(file)
Whole(p) == good /\ p <= Sound
End == Len(file) + 1

(* A file that does not open or has no header makes LOAD throw.            *)
LoadOpen ==
  /\ pc = "idle" /\ Sound >= 1
  /\ pos' = 2 /\ good' = TRUE /\ pc' = "key"
  /\ UNCHANGED <<kv, file, torn, pending, key, stack, deep, written>>

LoadEnd ==
  /\ pc' = "idle" /\ NoReader
  /\ UNCHANGED <<file, torn, pending, written>>

(* Mutant: a stream that has failed is not taken for one at its end.       *)
LoadDoneAtEnd == pc = "key" /\ good /\ pos > Len(file) /\ LoadEnd /\ UNCHANGED kv

LoadDone == pc = "key" /\ (~good \/ pos > Len(file)) /\ LoadEnd /\ UNCHANGED kv

(* Mutant: the delimiter is not skipped.                                   *)
ReadKeyNoSkip ==
  /\ pc = "key" /\ Whole(pos) /\ Whole(pos + 1)
  /\ key' = file[pos + 1][2] /\ pos' = pos + 2 /\ stack' = <<>> /\ pc' = "value"
  /\ UNCHANGED <<kv, file, torn, pending, good, deep, written>>

(* The delimiter is skipped without a look whether it is there.            *)
ReadKey ==
  /\ pc = "key" /\ Whole(pos) /\ Whole(pos + 1)
  /\ key' = file[pos + 1][2] /\ pos' = pos + 3 /\ stack' = <<>> /\ pc' = "value"
  /\ UNCHANGED <<kv, file, torn, pending, good, deep, written>>

(* A key, or its size, that the file does not have in full.                *)
ReadKeyCut ==
  /\ pc = "key" /\ good /\ pos <= Len(file) /\ ~(Whole(pos) /\ Whole(pos + 1))
  /\ key' = Torn /\ pos' = End /\ good' = FALSE /\ stack' = <<>> /\ pc' = "value"
  /\ UNCHANGED <<kv, file, torn, pending, deep, written>>

(* A string of a size nobody wrote cannot be allocated.                    *)
KeySizeTooLarge == pc = "key" /\ good /\ pos = Len(file) /\ torn /\ LoadEnd /\ UNCHANGED kv

(* fromFile has come back with v: it is an element of the innermost list,  *)
(* or the value of the key.                                                *)
Got(lists, v) ==
  IF lists = <<>>
    THEN kv' = [kv EXCEPT ![key] = v] /\ stack' = <<>> /\ pc' = "key"
    ELSE /\ stack' = [lists EXCEPT ![Len(lists)].items = Append(@, v)]
         /\ UNCHANGED <<kv, pc>>

Wanting ==
  IF deep # <<>> THEN deep[Len(deep)] > 0
                 ELSE stack = <<>> \/ Len(stack[Len(stack)].items) < stack[Len(stack)].wanted

(* The tag the next call of fromFile meets, NONE if it meets none.         *)
Tag ==
  IF pc = "value" /\ Wanting
    THEN IF Whole(pos) /\ file[pos][1] = "TAG" THEN file[pos][2] ELSE "NONE"
    ELSE "UNREAD"

(* What deserialize leaves in a number: its bytes, those of them there are *)
(* over those of a zero, or the zero of the constructor.                   *)
NumberRead(type) ==
  IF Whole(pos + 1) THEN {file[pos + 1][2]}
  ELSE IF pos + 1 <= Len(file)
         THEN IF type = "INT" THEN -(IntMax + 1) .. IntMax ELSE -FloatMax .. FloatMax
  ELSE {0}

ReadNumber ==
  /\ Tag \in {"INT", "FLOAT"}
  /\ \E x \in NumberRead(Tag) : Got(stack, [type |-> Tag, val |-> x])
  /\ good' = Whole(pos + 1) /\ pos' = (IF good' THEN pos + 2 ELSE End)
  /\ UNCHANGED <<file, torn, pending, key, deep, written>>

ReadText ==
  /\ Tag = "TEXT" /\ \A p \in 1 .. 3 : Whole(pos + p)
  /\ Got(stack, [type |-> file[pos + 1][2], val |-> file[pos + 3][2]])
  /\ pos' = pos + 4
  /\ UNCHANGED <<file, torn, pending, good, key, deep, written>>

(* A text of null characters, or whose end is.  Without the byte that says *)
(* which kind of text it is, it may be either.                             *)
ReadTextCut ==
  /\ Tag = "TEXT" /\ \E p \in 1 .. 3 : ~Whole(pos + p)
  /\ \E type \in (IF Whole(pos + 1) THEN {file[pos + 1][2]} ELSE {"STRING", "IDENTIFIER"}) :
       Got(stack, [type |-> type, val |-> Torn])
  /\ pos' = End /\ good' = FALSE
  /\ UNCHANGED <<file, torn, pending, key, deep, written>>

ReadList ==
  /\ Tag = "LIST" /\ Whole(pos + 1)
  /\ stack' = Append(stack, [items |-> <<>>, wanted |-> file[pos + 1][2]])
  /\ pos' = pos + 2
  /\ UNCHANGED <<kv, file, torn, pending, good, key, deep, pc, written>>

CloseList ==
  /\ pc = "value" /\ deep = <<>> /\ ~Wanting
  /\ Got(SubSeq(stack, 1, Len(stack) - 1),
         [type |-> "LIST", val |-> stack[Len(stack)].items])
  /\ UNCHANGED <<file, torn, pending, pos, good, key, deep, written>>

-----------------------------------------------------------------------------
(* What fromFile makes of a type nobody wrote, which may be any: a number  *)
(* is the zero of its constructor, a text has a size nobody wrote, and a   *)
(* list has a length nobody wrote.                                         *)

(* Mutant: without a type there is no value, and no exception.             *)
ReadNothingNull ==
  /\ Tag = "NONE" /\ deep = <<>> /\ Got(stack, Null)
  /\ pos' = End /\ good' = FALSE
  /\ UNCHANGED <<file, torn, pending, key, deep, written>>

Unwritten ==
  [type : {"INT", "FLOAT"}, val : {0}] \cup [type : {"STRING", "IDENTIFIER"}, val : {Torn}]

ReadNothing ==
  /\ Tag = "NONE" /\ deep = <<>>
  /\ \E v \in Unwritten : Got(stack, v)
  /\ pos' = End /\ good' = FALSE
  /\ UNCHANGED <<file, torn, pending, key, deep, written>>

(* A list whose type or length is missing calls fromFile for as many items *)
(* as its length may happen to be, each of which may be such a list again. *)
UnreadList == Tag = "NONE" \/ (Tag = "LIST" /\ ~Whole(pos + 1))

OpenUnread ==
  /\ UnreadList /\ Len(stack) + Len(deep) < StackMax
  /\ \E wanted \in 0 .. SizeMax : deep' = Append(deep, wanted)
  /\ pos' = End /\ good' = FALSE
  /\ UNCHANGED <<kv, file, torn, pending, key, stack, pc, written>>

(* No call returns before the stack of the process is full.                *)
StackOverflow ==
  /\ UnreadList /\ Len(stack) + Len(deep) >= StackMax
  /\ kv' = EmptyKv /\ NoReader /\ pc' = "crashed"
  /\ UNCHANGED <<file, torn, pending, written>>

(* The innermost of the lists nobody wrote has got an item.                *)
OneFewer(lists) == [lists EXCEPT ![Len(lists)] = @ - 1]

(* A number or a text in it.                                               *)
ReadUnread ==
  /\ Tag = "NONE" /\ deep # <<>>
  /\ deep' = OneFewer(deep)
  /\ UNCHANGED <<kv, file, torn, pending, pos, good, key, stack, pc, written>>

CloseUnread ==
  /\ pc = "value" /\ deep # <<>> /\ ~Wanting
  /\ LET around == SubSeq(deep, 1, Len(deep) - 1) IN
     IF around = <<>>
       THEN deep' = <<>> /\ Got(stack, Lost)
       ELSE deep' = OneFewer(around) /\ UNCHANGED <<kv, stack, pc>>
  /\ UNCHANGED <<file, torn, pending, pos, good, key, written>>

(* Or the type is none, or what follows it is too large for the memory,    *)
(* and LOAD throws.  Which side of map_[key] = fromFile(fp) is evaluated   *)
(* first is the compiler's choice: a new key may be left with a null       *)
(* pointer.                                                                *)
LoadThrows ==
  /\ UnreadList \/ (Tag = "TEXT" /\ (~Whole(pos + 1) \/ ~Whole(pos + 2)))
  /\ \/ UNCHANGED kv
     \/ kv[key] = Nil /\ kv' = [kv EXCEPT ![key] = Null]
  /\ LoadEnd

-----------------------------------------------------------------------------
LoadStep ==
  \/ LoadDone \/ ReadKey \/ ReadKeyCut \/ KeySizeTooLarge
  \/ ReadNumber \/ ReadText \/ ReadTextCut \/ ReadList \/ CloseList
  \/ ReadNothing \/ OpenUnread \/ ReadUnread \/ CloseUnread \/ StackOverflow
  \/ LoadThrows

Next ==
  \/ \E k \in Key, v \in Values \cup {Nil} : Store(k, v)
  \/ ListNull \/ Restart
  \/ SaveOpen \/ SaveDone \/ SaveKilled \/ SaveLost
  \/ \E k \in Key : SaveEntry(k)
  \/ LoadOpen \/ LoadStep

(* The reading goes on by itself.                                          *)
Spec == Init /\ [][Next]_vars /\ WF_vars(LoadStep)

-----------------------------------------------------------------------------
(* What the stream has yielded is a value: no list holds an element that   *)
(* is none, nothing nobody wrote is read before the stream has failed, and *)
(* the reading never runs past the end of the file by more than the seek   *)
(* that skips a delimiter (StoreValue::fromFile, loadFromFile).            *)
SaveTypeOK ==
  /\ kv \in [Key -> ReadValue \cup {Nil, Null}]
  /\ \A j \in DOMAIN stack : \A l \in DOMAIN stack[j].items : stack[j].items[l] \in ReadItem
  /\ deep \in Seq(Nat) /\ (deep # <<>> => pc = "value" /\ ~good)
  /\ torn \in BOOLEAN /\ good \in BOOLEAN
  /\ pending \subseteq Key /\ key \in Key \cup {Nil}
  /\ pc \in {"idle", "save", "key", "value", "crashed"}
  /\ pc \in {"key", "value"} => pos \in 2 .. End + 1

(* Where entry n ends in the file as it was written, the header being 0.   *)
Upto(n) == IF n = 0 THEN 1 ELSE written[n].upto

InFull(n) == Upto(n) <= Sound

WholeEntries ==
  [k \in Key |->
     LET at == {n \in DOMAIN written : written[n].key = k /\ InFull(n)} IN
     IF at = {} THEN Nil ELSE written[CHOOSE n \in at : TRUE].val]

(* The entry the end of the file cuts, and the key a LOAD reads for it.    *)
CutAt == {n \in DOMAIN written : Upto(n - 1) < Len(file) /\ ~InFull(n)}
KeyOf(n) == IF Upto(n - 1) + 2 <= Sound THEN written[n].key ELSE Torn
CutKey == IF CutAt = {} THEN Nil ELSE KeyOf(CHOOSE n \in CutAt : TRUE)

(* The whole entries not loaded yet, the one that is being read included.  *)
ToLoad ==
  {written[n].key : n \in {n \in DOMAIN written :
     InFull(n) /\ (pos <= Upto(n - 1) + 1 \/ (pc = "value" /\ good /\ key = written[n].key))}}

Phase == CASE pc = "save" -> "saving" [] pc \in {"key", "value"} -> "loading" [] OTHER -> pc
Todo  == CASE pc = "save" -> pending [] Phase = "loading" -> ToLoad [] OTHER -> {}

(* The bytes keep the promise of SaveSpec: wherever the file was cut, each *)
(* entry written whole is restored exactly, before the cut one can do any  *)
(* harm, and that harm stays with its key (Store::saveToFile, Store::      *)
(* loadFromFile, the serialize and deserialize functions).                 *)
Promise ==
  INSTANCE SaveSpec WITH
    Readable <- ReadValue,
    entries <- WholeEntries, cut <- CutKey, phase <- Phase, todo <- Todo
KeepsSaveSpec == Promise!Save

(* A load ends, however the file was cut: the loop over the entries stops  *)
(* at a failed stream too, as peek then finds nothing, and the lists that  *)
(* nobody wrote, of any length and within each other, end in their last    *)
(* item, in an exception or in the end of the process (loadFromFile,       *)
(* ListValue::deserialize).                                                *)
LoadEnds == pc \in {"key", "value"} ~> pc \notin {"key", "value"}
=============================================================================
