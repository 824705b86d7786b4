-------------------------- MODULE KeplerSaveProofs --------------------------
(***************************************************************************)
(* Proofs about KeplerSave for every set of keys and values, every length  *)
(* of a list and every place where a file may end: the reading side meets  *)
(* the units the writing side wrote, where it wrote them, and so keeps the *)
(* promise of SaveSpec.                                                    *)
(***************************************************************************)
EXTENDS KeplerSave, KeplerInduction

-----------------------------------------------------------------------------
(* The invariant.                                                          *)

Mark == {"HEAD", "KSIZE", "KEY", "DELIM", "TAG", "KIND", "SIZE", "CHARS", "COUNT", "NUMBER",
         "INT", "FLOAT", "STRING", "IDENTIFIER", "TEXT", "LIST"}
Unit == Seq(Mark \cup Int \cup Key \cup Str)

(* As far as the file reaches, it holds the units u from position p on.    *)
Fits(f, p, u) == \A j \in 1 .. Len(u) : p + j - 1 <= Len(f) => f[p + j - 1] = u[j]

Stands(p, v) == Fits(file, p, Serialize(v))
Size(v) == Len(Serialize(v))

(* How far into a list its first n items end.                              *)
Items(l) == [j \in DOMAIN l.val |-> Serialize(l.val[j])]
Offset(l, n) == Len(Buffer(Opening(l), Items(l))[n])

(* The file is what was written, or the beginning of it.                   *)
Written(n) ==
  LET e == written[n] IN
  /\ e.key # Torn
  /\ Upto(n) = Upto(n - 1) + Len(Entry(e.key, e.val))
  /\ Fits(file, Upto(n - 1) + 1, Entry(e.key, e.val))
  /\ \A m \in 0 .. n - 1 : Upto(m) <= Upto(n - 1)
  /\ \A m \in 1 .. n - 1 : written[m].key # e.key

Saved == [key : Key, val : Values, upto : Nat]

FileInv ==
  /\ file \in Seq(Unit)
  /\ torn \in BOOLEAN /\ (torn => Len(file) > 0)
  /\ written \in Seq(Saved)
  /\ \A n \in 1 .. Len(written) : Written(n)
  /\ Len(file) <= Upto(Len(written))

(* The frame f reads the list l, which stands at q, and has come to p.     *)
Reads(f, q, l, p) ==
  /\ l \in ListVal /\ f.wanted = Len(l.val)
  /\ Len(f.items) <= Len(l.val) /\ \A j \in 1 .. Len(f.items) : f.items[j] = l.val[j]
  /\ p = q + Offset(l, Len(f.items))

(* And what it reads next is x.                                            *)
Awaits(f, q, l, p, x) ==
  Reads(f, q, l, p) /\ Len(f.items) < Len(l.val) /\ x = l.val[Len(f.items) + 1]

(* Where the value of entry n begins.                                      *)
Starts(n) == Upto(n - 1) + 4

(* With these lists open, the value x of entry n, or in it, is next at p.  *)
Due(lists, n, p, x) ==
  \/ lists = <<>> /\ p = Starts(n) /\ x = written[n].val
  \/ Len(lists) = 1 /\ Awaits(lists[1], Starts(n), written[n].val, p, x)
  \/ Len(lists) = 2 /\ \E q \in Nat, l \in Item :
       Awaits(lists[1], Starts(n), written[n].val, q, l) /\ Awaits(lists[2], q, l, p, x)

(* With these lists open, the reading of entry n has come to p.            *)
Inside(lists, n, p) ==
  \/ Len(lists) = 1 /\ Reads(lists[1], Starts(n), written[n].val, p)
  \/ Len(lists) = 2 /\ \E q \in Nat, l \in Item :
       Awaits(lists[1], Starts(n), written[n].val, q, l) /\ Reads(lists[2], q, l, p)

Reading(n) ==
  /\ key = written[n].key /\ Upto(n - 1) + 2 <= Sound
  /\ \/ stack = <<>> /\ pos = Starts(n)
     \/ Inside(stack, n, pos) /\ pos - 1 <= Sound

StackOK(lists) ==
  /\ lists \in Seq([items : Seq(ReadItem), wanted : Nat]) /\ Len(lists) <= 2
  /\ Len(lists) = 2 => lists[2].items \in Seq(ReadScalar)

(* The lists nobody wrote, each but the innermost waiting for an item.     *)
DeepOK(lists) ==
  lists \in Seq(Nat) /\ \A j \in 1 .. Len(lists) - 1 : lists[j] > 0

StoreInv ==
  /\ kv \in [Key -> ReadValue \cup {Nil, Null}] /\ pending \subseteq Key
  /\ pc \in {"idle", "save", "key", "value", "crashed"}
  /\ pc = "save" =>
       /\ \A k \in Key : kv[k] \in Values \cup {Nil, Null}
       /\ kv[Torn] \in {Nil, Null}
       /\ ~torn /\ Len(file) = Upto(Len(written))
       /\ \A k \in pending : kv[k] # Nil
       /\ \A n \in 1 .. Len(written) : written[n].key \notin pending

ReaderInv ==
  /\ good \in BOOLEAN /\ key \in Key \cup {Nil} /\ pos \in Nat /\ StackOK(stack)
  /\ DeepOK(deep) /\ (deep # <<>> => pc = "value" /\ ~good)
  /\ pc \in {"key", "value"} => Sound >= 1
  /\ pc = "key" /\ good => \E n \in 0 .. Len(written) : pos = Upto(n) + 1 /\ Upto(n) <= Sound
  /\ pc = "value" /\ good => \E n \in 1 .. Len(written) : Reading(n)
  /\ pc \in {"key", "value"} /\ ~good => pos = End
  /\ pc = "value" /\ ~good => key = CutKey /\ key # Nil

IInv == FileInv /\ StoreInv /\ ReaderInv

-----------------------------------------------------------------------------
(* What can be written can be read.                                        *)
LEMMA Widened ==
  /\ Scalar \subseteq ReadScalar /\ Item \subseteq ReadItem /\ Value \subseteq ReadValue
  /\ ReadScalar \subseteq ReadItem /\ ReadItem \subseteq ReadValue
  /\ Seq(Item) \subseteq Seq(ReadItem) /\ Seq(ReadScalar) \subseteq Seq(ReadItem)
<1>1. Scalar \subseteq ReadScalar /\ ReadScalar \subseteq ReadItem
  BY DEF ReadScalar, ReadItem
<1>2. Seq(Scalar) \subseteq Seq(ReadScalar)
  BY <1>1
<1>3. Item \subseteq ReadItem
  <2> SUFFICES ASSUME NEW x \in Item, x \notin Scalar PROVE x \in ReadItem
    BY <1>1
  <2>1. x \in [type : {"LIST"}, val : Seq(Scalar)]
    BY DEF Item
  <2>2. x \in [type : {"LIST"}, val : Seq(ReadScalar)]
    BY <1>2, <2>1
  <2>. QED BY <2>2 DEF ReadItem
<1>4. Seq(Item) \subseteq Seq(ReadItem) /\ Seq(ReadScalar) \subseteq Seq(ReadItem)
  BY <1>1, <1>3
<1>5. Value \subseteq ReadValue
  <2> SUFFICES ASSUME NEW x \in Value, x \notin Scalar PROVE x \in ReadValue
    BY <1>1 DEF ReadValue
  <2>1. x \in [type : {"LIST"}, val : Seq(Item)]
    BY DEF Value, ListVal
  <2>2. x \in [type : {"LIST"}, val : Seq(ReadItem)]
    BY <1>4, <2>1
  <2>. QED BY <2>2 DEF ReadValue
<1>6. ReadItem \subseteq ReadValue
  <2> SUFFICES ASSUME NEW x \in ReadItem, x \notin ReadScalar PROVE x \in ReadValue
    BY DEF ReadValue
  <2>1. x \in [type : {"LIST"}, val : Seq(ReadScalar)]
    BY DEF ReadItem
  <2>2. x \in [type : {"LIST"}, val : Seq(ReadItem)]
    BY <1>4, <2>1
  <2>. QED BY <2>2 DEF ReadValue
<1>. QED BY <1>1, <1>3, <1>4, <1>5, <1>6

-----------------------------------------------------------------------------
(* What the writing side writes.                                           *)

LEMMA SequenceOf ==
  ASSUME NEW S, NEW n \in Nat, NEW f \in [1 .. n -> S]
  PROVE  f \in Seq(S) /\ Len(f) = n
OBVIOUS

LEMMA TupleOf ==
  ASSUME NEW S, NEW x \in S, NEW y \in S
  PROVE  <<x>> \in Seq(S) /\ <<x, y>> \in Seq(S)
OBVIOUS

LEMMA UnitOf ==
  ASSUME NEW x \in Mark, NEW y, y \in Mark \/ y \in Int \/ y \in Key \/ y \in Str
  PROVE  <<x>> \in Unit /\ <<x, y>> \in Unit
<1> DEFINE S == Mark \cup Int \cup Key \cup Str
<1>1. x \in S /\ y \in S
  OBVIOUS
<1>2. <<x>> \in Seq(S) /\ <<x, y>> \in Seq(S)
  <2> HIDE DEF S
  <2>. QED BY <1>1, TupleOf
<1>. QED BY <1>2 DEF Unit

LEMMA ScalarSerialized ==
  ASSUME NEW v \in Scalar
  PROVE  /\ v.type # "LIST" /\ ScalarUnits(v) \in Seq(Unit)
         /\ Serialize(v) = ScalarUnits(v) /\ ItemUnits(v) = ScalarUnits(v)
<1>1. /\ v.type # "LIST" /\ v.type \in Mark
      /\ v.val \in Mark \/ v.val \in Int \/ v.val \in Key \/ v.val \in Str
  <2>1. CASE v \in IntVal
    BY <2>1, NumberAssumption DEF IntVal, Mark
  <2>2. CASE v \in FloatVal
    BY <2>2, NumberAssumption DEF FloatVal, Mark
  <2>3. CASE v \in StringVal
    BY <2>3 DEF StringVal, Mark
  <2>4. CASE v \in IdentVal
    BY <2>4 DEF IdentVal, Mark
  <2>. QED BY <2>1, <2>2, <2>3, <2>4 DEF Scalar
<1>2. /\ <<"TAG", v.type>> \in Unit /\ <<"NUMBER", v.val>> \in Unit
      /\ <<"TAG", "TEXT">> \in Unit /\ <<"KIND", v.type>> \in Unit
      /\ <<"SIZE">> \in Unit /\ <<"CHARS", v.val>> \in Unit
  BY <1>1, UnitOf DEF Mark
<1>3. ScalarUnits(v) \in Seq(Unit)
  <2>1. << <<"TAG", v.type>>, <<"NUMBER", v.val>> >> \in Seq(Unit)
    BY <1>2
  <2>2. << <<"TAG", "TEXT">>, <<"KIND", v.type>>, <<"SIZE">>, <<"CHARS", v.val>> >> \in Seq(Unit)
    BY <1>2
  <2>. QED BY <2>1, <2>2 DEF ScalarUnits
<1>. QED BY <1>1, <1>3 DEF Serialize, ItemUnits

LEMMA OpeningSerialized ==
  ASSUME NEW l, l.val \in Seq(Item)
  PROVE  Opening(l) \in Seq(Unit)
<1>1. <<"TAG", "LIST">> \in Unit /\ <<"COUNT", Len(l.val)>> \in Unit
  <2>1. Len(l.val) \in Int /\ "TAG" \in Mark /\ "LIST" \in Mark /\ "COUNT" \in Mark
    BY DEF Mark
  <2>. QED BY <2>1, UnitOf
<1>. QED BY <1>1 DEF Opening

LEMMA ItemSerialized ==
  ASSUME NEW v \in Item
  PROVE  Serialize(v) \in Seq(Unit) /\ ItemUnits(v) = Serialize(v)
<1>1. CASE v \in Scalar
  BY <1>1, ScalarSerialized
<1>2. CASE v \notin Scalar
  <2>1. v.type = "LIST" /\ v.val \in Seq(Scalar) /\ v.val \in Seq(Item)
    BY <1>2 DEF Item
  <2> DEFINE parts == [j \in DOMAIN v.val |-> ScalarUnits(v.val[j])]
  <2>2. \A j \in DOMAIN v.val : v.val[j] \in Scalar
    BY <2>1
  <2>3. parts = [j \in DOMAIN v.val |-> ItemUnits(v.val[j])]
    BY <2>2, ScalarSerialized
  <2>4. parts \in Seq(Seq(Unit)) /\ Len(parts) = Len(v.val)
    <3>1. parts \in [1 .. Len(v.val) -> Seq(Unit)]
      BY <2>1, <2>2, ScalarSerialized
    <3>2. Len(v.val) \in Nat
      BY <2>1
    <3> HIDE DEF parts
    <3>. QED BY <3>1, <3>2, SequenceOf
  <2>5. Buffer(Opening(v), parts)[Len(v.val)] \in Seq(Unit)
    <3>1. Len(parts) \in 0 .. Len(parts)
      BY <2>4
    <3> HIDE DEF parts
    <3>. QED BY <2>1, <2>4, <3>1, OpeningSerialized, BufferGrows
  <2>6. Serialize(v) = ItemUnits(v) /\ Serialize(v) = Buffer(Opening(v), parts)[Len(v.val)]
    BY <2>1, <2>3 DEF Serialize, ItemUnits, ListUnits
  <2>. QED BY <2>5, <2>6
<1>. QED BY <1>1, <1>2

(* A list is its tag, its length, and its items one after the other.       *)
LEMMA ListSerialized ==
  ASSUME NEW l \in ListVal
  PROVE  /\ l.type = "LIST" /\ l.val \in Seq(Item)
         /\ Items(l) \in Seq(Seq(Unit)) /\ Len(Items(l)) = Len(l.val)
         /\ Opening(l) \in Seq(Unit)
         /\ Serialize(l) = Buffer(Opening(l), Items(l))[Len(l.val)]
         /\ Serialize(l) \in Seq(Unit)
<1>1. l.type = "LIST" /\ l.val \in Seq(Item)
  BY DEF ListVal
<1>2. \A j \in DOMAIN l.val : l.val[j] \in Item
  BY <1>1
<1>3. Items(l) = [j \in DOMAIN l.val |-> ItemUnits(l.val[j])]
  BY <1>2, ItemSerialized DEF Items
<1>4. Items(l) \in Seq(Seq(Unit)) /\ Len(Items(l)) = Len(l.val)
  <2>1. Items(l) \in [1 .. Len(l.val) -> Seq(Unit)]
    BY <1>1, <1>2, ItemSerialized DEF Items
  <2>. QED BY <1>1, <2>1, SequenceOf
<1>5. Opening(l) \in Seq(Unit)
  BY <1>1, OpeningSerialized
<1>6. Serialize(l) = Buffer(Opening(l), Items(l))[Len(l.val)]
  BY <1>1, <1>3 DEF Serialize, ListUnits
<1>7. Buffer(Opening(l), Items(l))[Len(l.val)] \in Seq(Unit)
  <2>1. Len(Items(l)) \in 0 .. Len(Items(l))
    BY <1>4
  <2>. QED BY <1>4, <1>5, <2>1, BufferGrows
<1>. QED BY <1>1, <1>4, <1>5, <1>6, <1>7

LEMMA ValueSerialized ==
  ASSUME NEW v \in Value
  PROVE  Serialize(v) \in Seq(Unit) /\ Size(v) \in Nat
BY ScalarSerialized, ListSerialized DEF Value, Size

LEMMA EntrySerialized ==
  ASSUME NEW k \in Key, NEW v \in Value
  PROVE  /\ Entry(k, v) \in Seq(Unit) /\ Len(Entry(k, v)) = 3 + Size(v)
         /\ Entry(k, v)[1] = <<"KSIZE">> /\ Entry(k, v)[2] = <<"KEY", k>>
         /\ Follows(Entry(k, v), << <<"KSIZE">>, <<"KEY", k>>, <<"DELIM">> >>, Serialize(v))
<1>1. PICK u : u = << <<"KSIZE">>, <<"KEY", k>>, <<"DELIM">> >>
  OBVIOUS
<1>2. <<"KSIZE">> \in Unit /\ <<"KEY", k>> \in Unit /\ <<"DELIM">> \in Unit
  BY UnitOf DEF Mark
<1>3. u \in Seq(Unit) /\ Len(u) = 3 /\ u[1] = <<"KSIZE">> /\ u[2] = <<"KEY", k>>
  BY <1>1, <1>2
<1>4. Serialize(v) \in Seq(Unit)
  BY ValueSerialized
<1>5. Joins(Entry(k, v), u, Serialize(v))
  BY <1>1 DEF Joins, Entry
<1>6. /\ Entry(k, v) \in Seq(Unit) /\ Len(Entry(k, v)) = Len(u) + Len(Serialize(v))
      /\ BeginsWith(Entry(k, v), u) /\ Follows(Entry(k, v), u, Serialize(v))
  BY <1>3, <1>4, <1>5, Concatenation
<1>7. Entry(k, v)[1] = u[1] /\ Entry(k, v)[2] = u[2]
  BY <1>3, <1>6 DEF BeginsWith
<1>. QED BY <1>1, <1>3, <1>6, <1>7 DEF Size

-----------------------------------------------------------------------------
(* What the reading side meets.                                            *)

LEMMA FitsWithin ==
  ASSUME NEW f \in Seq(Unit), NEW p \in Nat,
         NEW u \in Seq(Unit), NEW v \in Seq(Unit), NEW w \in Seq(Unit),
         Fits(f, p, w), Follows(w, u, v)
  PROVE  Fits(f, p + Len(u), v)
<1> SUFFICES ASSUME NEW j \in 1 .. Len(v), p + Len(u) + j - 1 <= Len(f)
             PROVE  f[p + Len(u) + j - 1] = v[j]
  BY DEF Fits
<1>1. Len(u) + j \in 1 .. Len(w) /\ w[Len(u) + j] = v[j]
  BY DEF Follows
<1>2. p + (Len(u) + j) - 1 = p + Len(u) + j - 1
  OBVIOUS
<1>. QED BY <1>1, <1>2 DEF Fits

LEMMA NumberStands ==
  ASSUME FileInv, NEW p \in Nat, NEW v \in IntVal \cup FloatVal, Stands(p, v)
  PROVE  /\ Size(v) = 2
         /\ p <= Len(file) => file[p] = <<"TAG", v.type>>
         /\ p + 1 <= Len(file) => file[p + 1] = <<"NUMBER", v.val>>
<1>1. v \in Scalar /\ v.type \in {"INT", "FLOAT"}
  BY DEF Scalar, IntVal, FloatVal
<1>2. Serialize(v) = << <<"TAG", v.type>>, <<"NUMBER", v.val>> >>
  BY <1>1, ScalarSerialized DEF ScalarUnits
<1>. QED BY <1>2 DEF Stands, Fits, Size, FileInv

LEMMA TextStands ==
  ASSUME FileInv, NEW p \in Nat, NEW v \in StringVal \cup IdentVal, Stands(p, v)
  PROVE  /\ Size(v) = 4
         /\ p <= Len(file) => file[p] = <<"TAG", "TEXT">>
         /\ p + 1 <= Len(file) => file[p + 1] = <<"KIND", v.type>>
         /\ p + 3 <= Len(file) => file[p + 3] = <<"CHARS", v.val>>
<1>1. v \in Scalar /\ v.type \notin {"INT", "FLOAT"}
  BY DEF Scalar, StringVal, IdentVal
<1>2. PICK u : u = << <<"TAG", "TEXT">>, <<"KIND", v.type>>, <<"SIZE">>, <<"CHARS", v.val>> >>
  OBVIOUS
<1>3. Serialize(v) = u
  BY <1>1, <1>2, ScalarSerialized DEF ScalarUnits
<1>4. Len(u) = 4 /\ u[1] = <<"TAG", "TEXT">> /\ u[2] = <<"KIND", v.type>> /\ u[4] = <<"CHARS", v.val>>
  BY <1>2
<1>. QED BY <1>3, <1>4 DEF Stands, Fits, Size, FileInv

(* A list opens with its tag and its length, and each item stands where    *)
(* those before it end.                                                    *)
LEMMA ListStands ==
  ASSUME FileInv, NEW p \in Nat, NEW l \in ListVal, Stands(p, l)
  PROVE  /\ p <= Len(file) => file[p] = <<"TAG", "LIST">>
         /\ p + 1 <= Len(file) => file[p + 1] = <<"COUNT", Len(l.val)>>
         /\ \A n \in 1 .. Len(l.val) : Stands(p + Offset(l, n - 1), l.val[n])
<1>1. file \in Seq(Unit)
  BY DEF FileInv
<1>2. PICK B : B = Buffer(Opening(l), Items(l))
  OBVIOUS
<1>3. /\ l.val \in Seq(Item) /\ Items(l) \in Seq(Seq(Unit)) /\ Len(Items(l)) = Len(l.val)
      /\ Opening(l) \in Seq(Unit) /\ Serialize(l) = B[Len(l.val)] /\ Serialize(l) \in Seq(Unit)
  BY <1>2, ListSerialized
<1>4. B[0] = Opening(l)
  <2>1. Len(Items(l)) \in Nat
    BY <1>3
  <2>2. Filled(B, Opening(l), Items(l))
    BY <1>2, <2>1, BufferSteps
  <2>. QED BY <2>2 DEF Filled
<1>5. \A n \in 0 .. Len(l.val) : B[n] \in Seq(Unit) /\ \A m \in 0 .. n : BeginsWith(B[n], B[m])
  BY <1>2, <1>3, BufferGrows
<1>6. BeginsWith(Serialize(l), Opening(l))
  <2>1. Len(l.val) \in 0 .. Len(l.val) /\ 0 \in 0 .. Len(l.val)
    BY <1>3
  <2>. QED BY <1>3, <1>4, <1>5, <2>1
<1>7. Len(Opening(l)) = 2 /\ Opening(l)[1] = <<"TAG", "LIST">> /\ Opening(l)[2] = <<"COUNT", Len(l.val)>>
  BY DEF Opening
<1>8. /\ Len(Serialize(l)) >= 2
      /\ Serialize(l)[1] = <<"TAG", "LIST">> /\ Serialize(l)[2] = <<"COUNT", Len(l.val)>>
  BY <1>6, <1>7 DEF BeginsWith
<1>9. /\ p <= Len(file) => file[p] = <<"TAG", "LIST">>
      /\ p + 1 <= Len(file) => file[p + 1] = <<"COUNT", Len(l.val)>>
  <2>1. 1 \in 1 .. Len(Serialize(l)) /\ 2 \in 1 .. Len(Serialize(l))
    BY <1>3, <1>8
  <2>2. p + 1 - 1 = p /\ p + 2 - 1 = p + 1
    OBVIOUS
  <2>. QED BY <1>8, <2>1, <2>2 DEF Stands, Fits
<1>10. ASSUME NEW n \in 1 .. Len(l.val)
       PROVE  Stands(p + Offset(l, n - 1), l.val[n])
  <2>1. Follows(B[Len(l.val)], B[n - 1], Items(l)[n])
    BY <1>2, <1>3, BufferParts
  <2>2. Items(l)[n] = Serialize(l.val[n]) /\ Items(l)[n] \in Seq(Unit)
    BY <1>3 DEF Items
  <2>3. B[n - 1] \in Seq(Unit)
    BY <1>3, <1>5
  <2>4. Fits(file, p, B[Len(l.val)]) /\ B[Len(l.val)] \in Seq(Unit)
    BY <1>3 DEF Stands
  <2>5. Fits(file, p + Len(B[n - 1]), Items(l)[n])
    BY <1>1, <2>1, <2>2, <2>3, <2>4, FitsWithin
  <2>. QED BY <1>2, <2>2, <2>5 DEF Stands, Offset
<1>. QED BY <1>9, <1>10

LEMMA OffsetSteps ==
  ASSUME NEW l \in ListVal
  PROVE  /\ Offset(l, 0) = 2 /\ Size(l) = Offset(l, Len(l.val))
         /\ \A n \in 1 .. Len(l.val) : Offset(l, n) = Offset(l, n - 1) + Size(l.val[n])
         /\ \A n \in 0 .. Len(l.val) : Offset(l, n) \in Nat /\ 2 <= Offset(l, n) /\ Offset(l, n) <= Size(l)
<1>1. PICK B : B = Buffer(Opening(l), Items(l))
  OBVIOUS
<1>2. /\ l.val \in Seq(Item) /\ Items(l) \in Seq(Seq(Unit)) /\ Len(Items(l)) = Len(l.val)
      /\ Opening(l) \in Seq(Unit) /\ Serialize(l) = B[Len(l.val)]
  BY <1>1, ListSerialized
<1>3. B[0] = Opening(l)
  <2>1. Len(Items(l)) \in Nat
    BY <1>2
  <2>2. Filled(B, Opening(l), Items(l))
    BY <1>1, <2>1, BufferSteps
  <2>. QED BY <2>2 DEF Filled
<1>4. \A n \in 0 .. Len(l.val) : B[n] \in Seq(Unit) /\ \A m \in 0 .. n : BeginsWith(B[n], B[m])
  BY <1>1, <1>2, BufferGrows
<1>5. Len(B[0]) = 2
  BY <1>3 DEF Opening
<1>6. Offset(l, 0) = 2 /\ Size(l) = Offset(l, Len(l.val))
  BY <1>1, <1>2, <1>5 DEF Offset, Size
<1>7. ASSUME NEW n \in 1 .. Len(l.val)
      PROVE  Offset(l, n) = Offset(l, n - 1) + Size(l.val[n])
  <2>1. Len(B[n]) = Len(B[n - 1]) + Len(Items(l)[n])
    <3>1. n \in 1 .. Len(Items(l))
      BY <1>2
    <3>. QED BY <1>1, <1>2, <3>1, BufferParts
  <2>2. Items(l)[n] = Serialize(l.val[n])
    BY <1>2 DEF Items
  <2>. QED BY <1>1, <2>1, <2>2 DEF Offset, Size
<1>8. ASSUME NEW n \in 0 .. Len(l.val)
      PROVE  Offset(l, n) \in Nat /\ 2 <= Offset(l, n) /\ Offset(l, n) <= Size(l)
  <2>1. B[n] \in Seq(Unit) /\ BeginsWith(B[n], B[0]) /\ BeginsWith(B[Len(l.val)], B[n])
    BY <1>2, <1>4
  <2>2. Len(B[n]) \in Nat /\ 2 <= Len(B[n]) /\ Len(B[n]) <= Len(B[Len(l.val)])
    BY <1>5, <2>1 DEF BeginsWith
  <2>. QED BY <1>1, <1>2, <2>2 DEF Offset, Size
<1>. QED BY <1>6, <1>7, <1>8

(* An entry of the file is its key and its value.                          *)
LEMMA EntryStands ==
  ASSUME FileInv, NEW n \in 1 .. Len(written)
  PROVE  /\ written[n].key \in Key /\ written[n].key # Torn
         /\ written[n].val \in Values /\ written[n].val \in Value
         /\ Upto(n - 1) \in Nat /\ 1 <= Upto(n - 1) /\ Upto(n) \in Nat
         /\ Upto(n) = Starts(n) + Size(written[n].val) - 1
         /\ Upto(n - 1) + 2 <= Len(file) => file[Upto(n - 1) + 2] = <<"KEY", written[n].key>>
         /\ Stands(Starts(n), written[n].val)
<1>1. Written(n) /\ file \in Seq(Unit)
  BY DEF FileInv
<1>2. written \in Seq(Saved)
  BY DEF FileInv
<1>3. PICK k, v : k = written[n].key /\ v = written[n].val
  OBVIOUS
<1>4. k \in Key /\ v \in Values /\ v \in Value
  <2>1. written[n] \in Saved
    BY <1>2
  <2>. QED BY <1>3, <2>1, ValuesAssumption DEF Saved
<1>5. /\ k # Torn /\ Upto(n) = Upto(n - 1) + Len(Entry(k, v))
      /\ Fits(file, Upto(n - 1) + 1, Entry(k, v)) /\ Upto(0) <= Upto(n - 1)
  BY <1>1, <1>3 DEF Written
<1>6. Upto(n - 1) \in Nat /\ 1 <= Upto(n - 1)
  <2>1. Upto(0) = 1
    BY DEF Upto
  <2>2. CASE n = 1
    BY <2>1, <2>2
  <2>3. CASE n # 1
    <3>1. n - 1 \in 1 .. Len(written) /\ Upto(n - 1) = written[n - 1].upto
      BY <1>2, <2>3 DEF Upto
    <3>2. written[n - 1] \in Saved
      BY <1>2, <3>1
    <3>. QED BY <1>5, <2>1, <3>1, <3>2 DEF Saved
  <2>. QED BY <2>2, <2>3
<1>7. PICK u : u = << <<"KSIZE">>, <<"KEY", k>>, <<"DELIM">> >>
  OBVIOUS
<1>8. u \in Seq(Unit) /\ Len(u) = 3
  <2>1. <<"KSIZE">> \in Unit /\ <<"KEY", k>> \in Unit /\ <<"DELIM">> \in Unit
    BY <1>4, UnitOf DEF Mark
  <2>. QED BY <1>7, <2>1
<1>9. /\ Entry(k, v) \in Seq(Unit) /\ Len(Entry(k, v)) = 3 + Size(v) /\ Size(v) \in Nat
      /\ Entry(k, v)[2] = <<"KEY", k>> /\ Follows(Entry(k, v), u, Serialize(v))
      /\ Serialize(v) \in Seq(Unit)
  BY <1>4, <1>7, EntrySerialized, ValueSerialized
<1>10. Fits(file, Upto(n - 1) + 1 + Len(u), Serialize(v))
  <2>1. Upto(n - 1) + 1 \in Nat
    BY <1>6
  <2>. QED BY <1>1, <1>5, <1>8, <1>9, <2>1, FitsWithin
<1>11. Stands(Starts(n), v)
  BY <1>6, <1>8, <1>10 DEF Stands, Starts
<1>12. Upto(n - 1) + 2 <= Len(file) => file[Upto(n - 1) + 2] = <<"KEY", k>>
  <2>1. 2 \in 1 .. Len(Entry(k, v))
    BY <1>9
  <2>2. Upto(n - 1) + 1 + 2 - 1 = Upto(n - 1) + 2
    BY <1>6
  <2>. QED BY <1>5, <1>9, <2>1, <2>2 DEF Fits
<1>13. Upto(n) = Starts(n) + Size(v) - 1 /\ Upto(n) \in Nat
  BY <1>5, <1>6, <1>9 DEF Starts
<1>. QED BY <1>3, <1>4, <1>5, <1>6, <1>11, <1>12, <1>13

LEMMA UptoGrows ==
  ASSUME FileInv, NEW n \in 1 .. Len(written), NEW m \in 0 .. n - 1
  PROVE  Upto(m) \in Nat /\ 1 <= Upto(m) /\ Upto(m) <= Upto(n - 1) /\ Upto(n - 1) + 3 <= Upto(n)
<1>1. Written(n)
  BY DEF FileInv
<1>2. Upto(m) <= Upto(n - 1)
  BY <1>1 DEF Written
<1>3. /\ Upto(n - 1) \in Nat /\ 1 <= Upto(n - 1) /\ Upto(n) = Starts(n) + Size(written[n].val) - 1
      /\ Size(written[n].val) \in Nat
  BY EntryStands, ValueSerialized
<1>4. Upto(m) \in Nat /\ 1 <= Upto(m)
  <2>1. CASE m = 0
    BY <2>1 DEF Upto
  <2>2. CASE m # 0
    <3>1. m + 1 \in 1 .. Len(written) /\ (m + 1) - 1 = m
      BY DEF FileInv
    <3>. QED BY <3>1, EntryStands
  <2>. QED BY <2>1, <2>2
<1>. QED BY <1>2, <1>3, <1>4 DEF Starts

-----------------------------------------------------------------------------
(* One list that is being read.                                            *)

LEMMA ReadsOn ==
  ASSUME FileInv, NEW q \in Nat, NEW l, Stands(q, l), NEW p,
         NEW f \in [items : Seq(ReadItem), wanted : Nat], Reads(f, q, l, p)
  PROVE  /\ p \in Nat /\ q + 2 <= p /\ p <= q + Size(l) /\ Size(l) \in Nat
         /\ f.wanted <= Len(f.items) =>
              p = q + Size(l) /\ l = [type |-> "LIST", val |-> f.items]
         /\ Len(f.items) < f.wanted => Awaits(f, q, l, p, l.val[Len(f.items) + 1])
<1>1. /\ l \in ListVal /\ f.wanted = Len(l.val) /\ Len(f.items) <= Len(l.val)
      /\ \A j \in 1 .. Len(f.items) : f.items[j] = l.val[j]
      /\ p = q + Offset(l, Len(f.items))
  BY DEF Reads
<1>2. l = [type |-> "LIST", val |-> l.val] /\ l.val \in Seq(Item)
  BY <1>1 DEF ListVal
<1>3. /\ Len(f.items) \in 0 .. Len(l.val)
      /\ f.items \in Seq(ReadItem) /\ l.val \in Seq(ReadItem)
  BY <1>1, <1>2, Widened
<1>4. p \in Nat /\ q + 2 <= p /\ p <= q + Size(l) /\ Size(l) \in Nat
  <2>1. /\ Offset(l, Len(f.items)) \in Nat /\ 2 <= Offset(l, Len(f.items))
        /\ Offset(l, Len(f.items)) <= Size(l)
    BY <1>1, <1>3, OffsetSteps
  <2>2. Size(l) \in Nat
    BY <1>1, ListSerialized DEF Size
  <2>. QED BY <1>1, <2>1, <2>2
<1>5. ASSUME f.wanted <= Len(f.items)
      PROVE  p = q + Size(l) /\ l = [type |-> "LIST", val |-> f.items]
  <2>1. Len(f.items) = Len(l.val)
    BY <1>1, <1>3, <1>5
  <2>2. f.items = l.val
    BY <1>1, <1>2, <1>3, <2>1
  <2>3. Size(l) = Offset(l, Len(l.val))
    BY <1>1, OffsetSteps
  <2>. QED BY <1>1, <1>2, <2>1, <2>2, <2>3
<1>. QED BY <1>1, <1>4, <1>5 DEF Awaits

LEMMA AwaitsOne ==
  ASSUME FileInv, NEW q \in Nat, NEW l, Stands(q, l), NEW p, NEW x,
         NEW f \in [items : Seq(ReadItem), wanted : Nat], Awaits(f, q, l, p, x)
  PROVE  /\ p \in Nat /\ q + 2 <= p /\ x \in Item /\ Stands(p, x)
         /\ Size(x) \in Nat /\ Size(l) \in Nat /\ p + Size(x) <= q + Size(l)
         /\ Reads([f EXCEPT !.items = Append(@, x)], q, l, p + Size(x))
<1>1. /\ l \in ListVal /\ f.wanted = Len(l.val) /\ Len(f.items) < Len(l.val)
      /\ \A j \in 1 .. Len(f.items) : f.items[j] = l.val[j]
      /\ p = q + Offset(l, Len(f.items)) /\ x = l.val[Len(f.items) + 1]
  BY DEF Awaits, Reads
<1>2. l.val \in Seq(Item)
  BY <1>1 DEF ListVal
<1>3. PICK m : m = Len(f.items) + 1
  OBVIOUS
<1>4. m \in 1 .. Len(l.val) /\ m - 1 = Len(f.items) /\ m \in 0 .. Len(l.val) /\ m - 1 \in 0 .. Len(l.val)
  BY <1>1, <1>2, <1>3
<1>5. x \in Item /\ x \in ReadItem
  BY <1>1, <1>2, <1>3, <1>4, Widened
<1>7. Size(x) \in Nat
  BY <1>5, ItemSerialized DEF Size
<1>8. /\ Offset(l, m) = Offset(l, m - 1) + Size(x) /\ Offset(l, m - 1) \in Nat
      /\ 2 <= Offset(l, m - 1) /\ Offset(l, m) <= Size(l) /\ Offset(l, m) \in Nat
  BY <1>1, <1>3, <1>4, OffsetSteps
<1>9. p \in Nat /\ q + 2 <= p /\ p + Size(x) = q + Offset(l, m)
  BY <1>1, <1>4, <1>7, <1>8
<1>10. Size(l) \in Nat
  BY <1>1, ListSerialized DEF Size
<1>11. Stands(p, x)
  BY <1>1, <1>3, <1>4, ListStands
<1>12. Reads([f EXCEPT !.items = Append(@, x)], q, l, p + Size(x))
  <2>1. PICK g : g = [f EXCEPT !.items = Append(@, x)]
    OBVIOUS
  <2>2. g.items = Append(f.items, x) /\ g.wanted = f.wanted
    BY <2>1
  <2>3. Len(g.items) = m /\ \A j \in 1 .. m : g.items[j] = l.val[j]
    BY <1>1, <1>3, <1>4, <1>5, <2>2
  <2>4. Reads(g, q, l, p + Size(x))
    BY <1>1, <1>4, <1>9, <2>2, <2>3 DEF Reads
  <2>. QED BY <2>1, <2>4
<1>. QED BY <1>5, <1>7, <1>8, <1>9, <1>10, <1>11, <1>12

(* The items of an item are scalars.                                       *)
LEMMA AwaitsScalar ==
  ASSUME FileInv, NEW q \in Nat, NEW l \in Item, Stands(q, l), NEW p, NEW x,
         NEW f \in [items : Seq(ReadItem), wanted : Nat], Awaits(f, q, l, p, x)
  PROVE  x \in Scalar
<1>1. /\ l \in ListVal /\ Len(f.items) < Len(l.val) /\ x = l.val[Len(f.items) + 1]
  BY DEF Awaits, Reads
<1>2. l \notin Scalar
  BY <1>1, ListSerialized, ScalarSerialized
<1>3. l.val \in Seq(Scalar)
  BY <1>2 DEF Item
<1>4. Len(f.items) + 1 \in 1 .. Len(l.val)
  BY <1>1, <1>3
<1>. QED BY <1>1, <1>3, <1>4

(* A list that has been opened.                                            *)
LEMMA OpensAt ==
  ASSUME NEW q \in Nat, NEW l \in ListVal, NEW f, f.items = <<>>, f.wanted = Len(l.val)
  PROVE  Reads(f, q, l, q + 2)
<1>1. Len(f.items) = 0 /\ l.val \in Seq(Item)
  BY DEF ListVal
<1>2. Offset(l, 0) = 2
  BY OffsetSteps
<1>. QED BY <1>1, <1>2 DEF Reads

-----------------------------------------------------------------------------
(* The lists that are open.                                                *)

LEMMA FrameOf ==
  ASSUME NEW lists, StackOK(lists), NEW d \in 1 .. Len(lists)
  PROVE  lists[d] \in [items : Seq(ReadItem), wanted : Nat]
<1> DEFINE F == [items : Seq(ReadItem), wanted : Nat]
<1>1. lists \in Seq(F)
  BY DEF StackOK
<1> HIDE DEF F
<1>2. lists[d] \in F
  BY <1>1
<1>. QED BY <1>2 DEF F

LEMMA DepthOf ==
  ASSUME NEW lists, StackOK(lists)
  PROVE  \/ Len(lists) = 0 /\ lists = <<>>
         \/ Len(lists) = 1 /\ lists # <<>>
         \/ Len(lists) = 2 /\ lists # <<>>
<1> DEFINE F == [items : Seq(ReadItem), wanted : Nat]
<1>1. lists \in Seq(F) /\ Len(lists) <= 2
  BY DEF StackOK
<1> HIDE DEF F
<1>2. Len(lists) \in Nat /\ (Len(lists) = 0 <=> lists = <<>>)
  BY <1>1
<1>3. PICK d : d = Len(lists)
  OBVIOUS
<1>4. d \in Nat /\ d <= 2 /\ (d = 0 => lists = <<>>) /\ (d # 0 => lists # <<>>)
  BY <1>1, <1>2, <1>3
<1>5. d = 0 \/ d = 1 \/ d = 2
  BY <1>4
<1>. QED BY <1>3, <1>4, <1>5

LEMMA ItemIsValue ==
  ASSUME NEW x \in Item
  PROVE  x \in Value
<1>1. CASE x \in Scalar
  BY <1>1 DEF Value
<1>2. CASE x \notin Scalar
  <2>1. x \in [type : {"LIST"}, val : Seq(Scalar)]
    BY <1>2 DEF Item
  <2>2. x.val \in Seq(Item)
    <3>1. x.val \in Seq(Scalar)
      BY <2>1
    <3>2. \A y \in Scalar : y \in Item
      BY DEF Item
    <3>. QED BY <3>1, <3>2
  <2>3. x \in ListVal
    BY <2>1, <2>2 DEF ListVal
  <2>. QED BY <2>3 DEF Value
<1>. QED BY <1>1, <1>2

(* What is due next stands in the file, within its entry.                  *)
LEMMA DueStands ==
  ASSUME FileInv, NEW n \in 1 .. Len(written), NEW lists, StackOK(lists),
         NEW p, NEW x, Due(lists, n, p, x)
  PROVE  /\ p \in Nat /\ Starts(n) <= p /\ x \in Value /\ Stands(p, x)
         /\ Size(x) \in Nat /\ p + Size(x) <= Upto(n) + 1
         /\ lists # <<>> => x \in Item /\ Starts(n) + 2 <= p
         /\ Len(lists) = 2 => x \in Scalar
<1> DEFINE v == written[n].val
<1>1. /\ v \in Value /\ Stands(Starts(n), v) /\ Starts(n) \in Nat
      /\ Upto(n) + 1 = Starts(n) + Size(v) /\ Size(v) \in Nat
  BY EntryStands, ValueSerialized DEF Starts
<1>2. CASE lists = <<>>
  BY <1>1, <1>2 DEF Due
<1>3. CASE Len(lists) = 1 /\ lists # <<>>
  <2>1. Awaits(lists[1], Starts(n), v, p, x)
    BY <1>3 DEF Due
  <2>2. lists[1] \in [items : Seq(ReadItem), wanted : Nat]
    BY <1>3, FrameOf
  <2> HIDE DEF v
  <2>3. /\ p \in Nat /\ Starts(n) + 2 <= p /\ x \in Item /\ Stands(p, x)
        /\ Size(x) \in Nat /\ p + Size(x) <= Starts(n) + Size(v)
    BY <1>1, <2>1, <2>2, AwaitsOne
  <2>4. x \in Value
    BY <2>1, <2>3, ItemIsValue DEF Awaits
  <2>. QED BY <1>1, <1>3, <2>3, <2>4
<1>4. CASE Len(lists) = 2 /\ lists # <<>>
  <2>1. PICK q \in Nat, l \in Item :
          Awaits(lists[1], Starts(n), v, q, l) /\ Awaits(lists[2], q, l, p, x)
    BY <1>4 DEF Due
  <2>2. /\ lists[1] \in [items : Seq(ReadItem), wanted : Nat]
        /\ lists[2] \in [items : Seq(ReadItem), wanted : Nat]
    BY <1>4, FrameOf
  <2> HIDE DEF v
  <2>3. /\ Starts(n) + 2 <= q /\ Stands(q, l)
        /\ Size(l) \in Nat /\ q + Size(l) <= Starts(n) + Size(v)
    BY <1>1, <2>1, <2>2, AwaitsOne
  <2>4. /\ p \in Nat /\ q + 2 <= p /\ x \in Item /\ x \in Scalar /\ Stands(p, x)
        /\ Size(x) \in Nat /\ p + Size(x) <= q + Size(l)
    <3>1. Awaits(lists[2], q, l, p, x) /\ l \in Item /\ q \in Nat
      BY <2>1
    <3>2. Stands(q, l) /\ lists[2] \in [items : Seq(ReadItem), wanted : Nat]
      BY <2>2, <2>3
    <3>3. /\ p \in Nat /\ q + 2 <= p /\ x \in Item /\ Stands(p, x)
          /\ Size(x) \in Nat /\ p + Size(x) <= q + Size(l)
      BY <3>1, <3>2, AwaitsOne
    <3>4. x \in Scalar
      BY <3>1, <3>2, AwaitsScalar
    <3>. QED BY <3>1, <3>3, <3>4
  <2>5. x \in Value
    BY <2>4 DEF Value
  <2>. QED BY <1>1, <1>4, <2>3, <2>4, <2>5
<1>. QED BY <1>2, <1>3, <1>4, DepthOf

(* Once it is read, the innermost list goes on after it.                   *)
LEMMA DueGot ==
  ASSUME FileInv, NEW n \in 1 .. Len(written), NEW lists, StackOK(lists), lists # <<>>,
         NEW p, NEW x, Due(lists, n, p, x)
  PROVE  Inside([lists EXCEPT ![Len(lists)].items = Append(@, x)], n, p + Size(x))
<1> DEFINE v == written[n].val
           g == [lists EXCEPT ![Len(lists)].items = Append(@, x)]
<1>1. v \in Value /\ Stands(Starts(n), v) /\ Starts(n) \in Nat
  BY EntryStands DEF Starts
<1>2. CASE Len(lists) = 1
  <2>1. Awaits(lists[1], Starts(n), v, p, x)
    BY <1>2 DEF Due
  <2>2. lists[1] \in [items : Seq(ReadItem), wanted : Nat]
    BY <1>2, FrameOf
  <2>3. Reads([lists[1] EXCEPT !.items = Append(@, x)], Starts(n), v, p + Size(x))
    BY <1>1, <2>1, <2>2, AwaitsOne
  <2>4. Len(g) = 1 /\ g[1] = [lists[1] EXCEPT !.items = Append(@, x)]
    BY <1>2 DEF StackOK
  <2> HIDE DEF g
  <2>. QED BY <2>3, <2>4 DEF Inside, g
<1>3. CASE Len(lists) = 2
  <2>1. PICK q \in Nat, l \in Item :
          Awaits(lists[1], Starts(n), v, q, l) /\ Awaits(lists[2], q, l, p, x)
    BY <1>3 DEF Due
  <2>2. /\ lists[1] \in [items : Seq(ReadItem), wanted : Nat]
        /\ lists[2] \in [items : Seq(ReadItem), wanted : Nat]
    BY <1>3, FrameOf
  <2>3. Stands(q, l)
    <3> HIDE DEF v
    <3>. QED BY <1>1, <2>1, <2>2, AwaitsOne
  <2>4. Reads([lists[2] EXCEPT !.items = Append(@, x)], q, l, p + Size(x))
    BY <2>1, <2>2, <2>3, AwaitsOne
  <2>5. Len(g) = 2 /\ g[1] = lists[1] /\ g[2] = [lists[2] EXCEPT !.items = Append(@, x)]
    BY <1>3 DEF StackOK
  <2> HIDE DEF g
  <2>6. Awaits(g[1], Starts(n), v, q, l) /\ Reads(g[2], q, l, p + Size(x))
    BY <2>1, <2>4, <2>5
  <2>. QED BY <2>5, <2>6 DEF Inside, g
<1>. QED BY <1>2, <1>3, DepthOf

LEMMA AppendTo ==
  ASSUME NEW S, NEW s \in Seq(S), NEW x
  PROVE  /\ Len(Append(s, x)) = Len(s) + 1 /\ Append(s, x)[Len(s) + 1] = x
         /\ \A j \in 1 .. Len(s) : Append(s, x)[j] = s[j]
OBVIOUS

(* A list that is met is opened.                                           *)
LEMMA DueOpens ==
  ASSUME FileInv, NEW n \in 1 .. Len(written), NEW lists, StackOK(lists),
         NEW p, NEW x, Due(lists, n, p, x), x \in ListVal
  PROVE  /\ Len(lists) < 2
         /\ Inside(Append(lists, [items |-> <<>>, wanted |-> Len(x.val)]), n, p + 2)
<1> DEFINE v == written[n].val
           f == [items |-> <<>>, wanted |-> Len(x.val)]
           g == Append(lists, f)
<1>1. p \in Nat /\ x.type = "LIST" /\ (Len(lists) = 2 => x \in Scalar)
      /\ (lists # <<>> => x \in Item)
  BY DueStands, ListSerialized
<1>2. Len(lists) # 2
  BY <1>1, ScalarSerialized
<1>3. Reads(f, p, x, p + 2)
  <2>1. f.items = <<>> /\ f.wanted = Len(x.val)
    OBVIOUS
  <2> HIDE DEF f
  <2>. QED BY <1>1, <2>1, OpensAt
<1> HIDE DEF f
<1>4. CASE lists = <<>>
  <2>1. Len(g) = 1 /\ g[1] = f /\ p = Starts(n) /\ x = v
    BY <1>4 DEF Due
  <2>. QED BY <1>3, <1>4, <2>1 DEF Inside, f
<1>5. CASE Len(lists) = 1 /\ lists # <<>>
  <2>1. Awaits(lists[1], Starts(n), v, p, x)
    BY <1>5 DEF Due
  <2>2. Len(g) = 2 /\ g[1] = lists[1] /\ g[2] = f
    <3>1. lists \in Seq([items : Seq(ReadItem), wanted : Nat])
      BY DEF StackOK
    <3>2. \A y : /\ Len(Append(lists, y)) = Len(lists) + 1 /\ Append(lists, y)[Len(lists) + 1] = y
                 /\ \A j \in 1 .. Len(lists) : Append(lists, y)[j] = lists[j]
      BY <3>1, AppendTo
    <3>3. Len(g) = Len(lists) + 1 /\ g[Len(lists) + 1] = f /\ g[1] = lists[1]
      BY <1>5, <3>2
    <3>. QED BY <1>5, <3>3
  <2> HIDE DEF g
  <2>3. Inside(g, n, p + 2)
    BY <1>1, <1>3, <1>5, <2>1, <2>2 DEF Inside
  <2>. QED BY <1>5, <2>3 DEF g, f
<1>. QED BY <1>2, <1>4, <1>5, DepthOf

(* The innermost list wants an item, or is complete and stands where its   *)
(* own reading began.                                                      *)
LEMMA InsideGoesOn ==
  ASSUME FileInv, NEW n \in 1 .. Len(written), NEW lists, StackOK(lists),
         NEW p, Inside(lists, n, p)
  PROVE  LET f == lists[Len(lists)] IN
         /\ lists # <<>>
         /\ p \in Nat /\ Starts(n) + 2 <= p /\ p <= Upto(n) + 1
         /\ Len(f.items) < f.wanted => \E x : Due(lists, n, p, x)
         /\ f.wanted <= Len(f.items) =>
              \E q \in Nat : LET x == [type |-> "LIST", val |-> f.items] IN
                Due(SubSeq(lists, 1, Len(lists) - 1), n, q, x) /\ p = q + Size(x)
<1> DEFINE v == written[n].val
           f == lists[Len(lists)]
           x == [type |-> "LIST", val |-> f.items]
           g == SubSeq(lists, 1, Len(lists) - 1)
<1>1. /\ v \in Value /\ Stands(Starts(n), v) /\ Starts(n) \in Nat
      /\ Upto(n) + 1 = Starts(n) + Size(v) /\ Size(v) \in Nat
  <2> HIDE DEF f, x, g
  <2>1. /\ v \in Value /\ Stands(Starts(n), v) /\ Upto(n - 1) \in Nat /\ Upto(n) \in Nat
        /\ Upto(n) = Starts(n) + Size(v) - 1
    BY EntryStands
  <2>2. Size(v) \in Nat
    BY <2>1, ValueSerialized
  <2>3. Starts(n) \in Nat
    BY <2>1 DEF Starts
  <2> HIDE DEF v
  <2>. QED BY <2>1, <2>2, <2>3
<1>2. CASE Len(lists) = 1 /\ lists # <<>>
  <2>1. Reads(f, Starts(n), v, p)
    BY <1>2 DEF Inside
  <2>2. f \in [items : Seq(ReadItem), wanted : Nat]
    BY <1>2, FrameOf
  <2>3. /\ p \in Nat /\ Starts(n) + 2 <= p /\ p <= Starts(n) + Size(v)
        /\ f.wanted <= Len(f.items) => p = Starts(n) + Size(v) /\ v = x
        /\ Len(f.items) < f.wanted => Awaits(f, Starts(n), v, p, v.val[Len(f.items) + 1])
    <3> HIDE DEF f, v
    <3>. QED BY <1>1, <2>1, <2>2, ReadsOn
  <2>4. g = <<>>
    BY <1>2 DEF StackOK
  <2>5. Len(f.items) < f.wanted => Due(lists, n, p, v.val[Len(f.items) + 1])
    BY <1>2, <2>3 DEF Due
  <2>6. f.wanted <= Len(f.items) => Due(g, n, Starts(n), x) /\ p = Starts(n) + Size(x)
    <3> HIDE DEF f
    <3>. QED BY <2>3, <2>4 DEF Due
  <2> HIDE DEF g, x, f, v
  <2>7. f.wanted <= Len(f.items) => \E q \in Nat : Due(g, n, q, x) /\ p = q + Size(x)
    BY <1>1, <2>6
  <2>. QED BY <1>1, <1>2, <2>3, <2>5, <2>7 DEF f, x, g
<1>3. CASE Len(lists) = 2 /\ lists # <<>>
  <2>1. PICK q \in Nat, l \in Item :
          Awaits(lists[1], Starts(n), v, q, l) /\ Reads(f, q, l, p)
    BY <1>3 DEF Inside
  <2>2. /\ lists[1] \in [items : Seq(ReadItem), wanted : Nat]
        /\ f \in [items : Seq(ReadItem), wanted : Nat]
    BY <1>3, FrameOf
  <2>3. /\ Starts(n) + 2 <= q /\ Stands(q, l)
        /\ Size(l) \in Nat /\ q + Size(l) <= Starts(n) + Size(v)
    <3> HIDE DEF f, v
    <3>. QED BY <1>1, <2>1, <2>2, AwaitsOne
  <2>4. /\ p \in Nat /\ q + 2 <= p /\ p <= q + Size(l)
        /\ f.wanted <= Len(f.items) => p = q + Size(l) /\ l = x
        /\ Len(f.items) < f.wanted => Awaits(f, q, l, p, l.val[Len(f.items) + 1])
    <3> HIDE DEF f, v
    <3>. QED BY <1>1, <2>1, <2>2, <2>3, ReadsOn
  <2>5. Len(g) = 1 /\ g[1] = lists[1]
    BY <1>3 DEF StackOK
  <2>6. Len(f.items) < f.wanted => Due(lists, n, p, l.val[Len(f.items) + 1])
    BY <1>3, <2>1, <2>4 DEF Due
  <2>7. f.wanted <= Len(f.items) => Due(g, n, q, x) /\ p = q + Size(x)
    <3> HIDE DEF f, g, x
    <3>. QED BY <2>1, <2>4, <2>5 DEF Due
  <2> HIDE DEF g, x, f, v
  <2>8. f.wanted <= Len(f.items) => \E r \in Nat : Due(g, n, r, x) /\ p = r + Size(x)
    BY <2>7
  <2>9. Starts(n) + 2 <= p /\ p <= Upto(n) + 1
    BY <1>1, <2>3, <2>4
  <2>. QED BY <1>3, <2>4, <2>6, <2>8, <2>9 DEF f, x, g
<1>4. lists # <<>>
  BY DEF Inside
<1>. QED BY <1>2, <1>3, <1>4, DepthOf

-----------------------------------------------------------------------------
(* What a file holds: the whole entries, and the one that is cut.          *)

LEMMA SoundIs ==
  FileInv => /\ Len(file) \in Nat /\ Sound \in Nat
             /\ Sound <= Len(file) /\ Len(file) <= Sound + 1
             /\ ~torn => Sound = Len(file)
BY DEF FileInv, Sound

LEMMA KeysDiffer ==
  ASSUME FileInv, NEW m \in 1 .. Len(written), NEW n \in 1 .. Len(written),
         written[m].key = written[n].key
  PROVE  m = n
<1>1. Written(m) /\ Written(n)
  BY DEF FileInv
<1>2. m < n => FALSE
  BY <1>1 DEF Written
<1>3. n < m => FALSE
  BY <1>1 DEF Written
<1>. QED BY <1>2, <1>3

(* Entries before a whole one are whole, and so are not the ones after one *)
(* that is not.                                                            *)
LEMMA WholeBefore ==
  ASSUME FileInv, NEW n \in 1 .. Len(written), NEW m \in 1 .. n, InFull(n)
  PROVE  InFull(m)
<1>1. CASE m = n
  BY <1>1
<1>2. CASE m # n
  <2>1. Upto(m) \in Nat /\ Upto(m) <= Upto(n - 1) /\ Upto(n - 1) + 3 <= Upto(n)
    BY <1>2, UptoGrows
  <2>2. Upto(n) \in Nat /\ Upto(n - 1) \in Nat /\ Sound \in Nat
    BY EntryStands, SoundIs
  <2>. QED BY <2>1, <2>2 DEF InFull
<1>. QED BY <1>1, <1>2

LEMMA WholeAt ==
  FileInv =>
    /\ \A n \in 1 .. Len(written) :
         WholeEntries[written[n].key] = IF InFull(n) THEN written[n].val ELSE Nil
    /\ \A k \in Key : (\A n \in 1 .. Len(written) : written[n].key # k) => WholeEntries[k] = Nil
<1> SUFFICES ASSUME FileInv
             PROVE  /\ \A n \in 1 .. Len(written) :
                         WholeEntries[written[n].key] = IF InFull(n) THEN written[n].val ELSE Nil
                    /\ \A k \in Key : (\A n \in 1 .. Len(written) : written[n].key # k)
                                        => WholeEntries[k] = Nil
  OBVIOUS
<1> DEFINE At(k) == {n \in DOMAIN written : written[n].key = k /\ InFull(n)}
<1>1. \A k \in Key : WholeEntries[k] = IF At(k) = {} THEN Nil ELSE written[CHOOSE n \in At(k) : TRUE].val
  BY DEF WholeEntries
<1>2. DOMAIN written = 1 .. Len(written)
  BY DEF FileInv
<1>3. ASSUME NEW n \in 1 .. Len(written)
      PROVE  WholeEntries[written[n].key] = IF InFull(n) THEN written[n].val ELSE Nil
  <2>1. PICK k \in Key : k = written[n].key
    BY EntryStands
  <2>2. \A m \in At(k) : m = n
    BY <1>2, <2>1, KeysDiffer
  <2>3. CASE InFull(n)
    <3>1. n \in At(k)
      BY <1>2, <2>1, <2>3
    <3>2. (CHOOSE m \in At(k) : TRUE) \in At(k)
      BY <3>1
    <3> HIDE DEF At
    <3>. QED BY <1>1, <2>1, <2>2, <2>3, <3>1, <3>2
  <2>4. CASE ~InFull(n)
    <3>1. At(k) = {}
      BY <2>2, <2>4
    <3> HIDE DEF At
    <3>. QED BY <1>1, <2>1, <2>4, <3>1
  <2>. QED BY <2>3, <2>4
<1>4. ASSUME NEW k \in Key, \A n \in 1 .. Len(written) : written[n].key # k
      PROVE  WholeEntries[k] = Nil
  <2>1. At(k) = {}
    BY <1>2, <1>4
  <2> HIDE DEF At
  <2>. QED BY <1>1, <2>1
<1>. QED BY <1>3, <1>4

LEMMA WholeType == FileInv => WholeEntries \in [Key -> Values \cup {Nil}]
<1> SUFFICES ASSUME FileInv, NEW k \in Key PROVE WholeEntries[k] \in Values \cup {Nil}
  BY DEF WholeEntries
<1>1. CASE \E n \in 1 .. Len(written) : written[n].key = k
  BY <1>1, EntryStands, WholeAt
<1>2. CASE \A n \in 1 .. Len(written) : written[n].key # k
  BY <1>2, WholeAt
<1>. QED BY <1>1, <1>2

(* At most one entry is cut.                                               *)
LEMMA CutIs ==
  FileInv =>
    /\ \A n \in CutAt : n \in 1 .. Len(written) /\ CutKey = KeyOf(n)
    /\ CutAt = {} => CutKey = Nil
<1> SUFFICES ASSUME FileInv, NEW n \in CutAt
             PROVE  n \in 1 .. Len(written) /\ CutKey = KeyOf(n)
  BY DEF CutKey
<1>1. \A m \in CutAt : m \in 1 .. Len(written) /\ Upto(m - 1) < Len(file) /\ ~InFull(m)
  BY DEF CutAt, FileInv
<1>2. ASSUME NEW m \in CutAt PROVE m = n
  <2>1. \A a, b \in CutAt : ~(a < b)
    <3> SUFFICES ASSUME NEW a \in CutAt, NEW b \in CutAt, a < b PROVE FALSE
      OBVIOUS
    <3>1. a \in 1 .. Len(written) /\ b \in 1 .. Len(written) /\ a \in 0 .. b - 1
      BY <1>1
    <3>2. Upto(a) \in Nat /\ Upto(a) <= Upto(b - 1) /\ Upto(b - 1) \in Nat
      BY <3>1, UptoGrows, EntryStands
    <3>3. Upto(b - 1) < Len(file) /\ ~(Upto(a) <= Sound)
      BY <1>1 DEF InFull
    <3>. QED BY <3>2, <3>3, SoundIs
  <2>. QED BY <1>1, <2>1
<1>3. CutKey = KeyOf(CHOOSE m \in CutAt : TRUE) /\ (CHOOSE m \in CutAt : TRUE) \in CutAt
  BY DEF CutKey
<1>. QED BY <1>1, <1>2, <1>3

LEMMA CutType ==
  FileInv => /\ CutKey \in Key \cup {Nil}
             /\ CutKey # Nil => WholeEntries[CutKey] = Nil
<1> SUFFICES ASSUME FileInv PROVE /\ CutKey \in Key \cup {Nil}
                                  /\ CutKey # Nil => WholeEntries[CutKey] = Nil
  OBVIOUS
<1>1. CASE CutAt = {}
  BY <1>1, CutIs
<1>2. CASE CutAt # {}
  <2>1. PICK n \in CutAt : TRUE
    BY <1>2
  <2>2. n \in 1 .. Len(written) /\ CutKey = KeyOf(n) /\ ~InFull(n)
    BY <2>1, CutIs DEF CutAt
  <2>3. CASE CutKey = written[n].key
    BY <2>2, <2>3, EntryStands, WholeAt
  <2>4. CASE CutKey = Torn
    <3>1. Torn \in Key /\ \A m \in 1 .. Len(written) : written[m].key # Torn
      BY TornAssumption, EntryStands
    <3>. QED BY <2>4, <3>1, WholeAt
  <2>. QED BY <2>2, <2>3, <2>4 DEF KeyOf
<1>. QED BY <1>1, <1>2

-----------------------------------------------------------------------------
(* What is left to load.                                                   *)

(* The keys of the whole entries from the n-th on.                         *)
Rest(n) == {written[m].key : m \in {m \in n .. Len(written) : InFull(m)}}

LEMMA RestSteps ==
  ASSUME FileInv, NEW n \in 1 .. Len(written)
  PROVE  /\ InFull(n) => written[n].key \in Rest(n) /\ Rest(n + 1) = Rest(n) \ {written[n].key}
         /\ ~InFull(n) => Rest(n) = {}
<1>1. Len(written) \in Nat
  BY DEF FileInv
<1>2. ASSUME InFull(n)
      PROVE  written[n].key \in Rest(n) /\ Rest(n + 1) = Rest(n) \ {written[n].key}
  <2>1. written[n].key \in Rest(n)
    BY <1>1, <1>2 DEF Rest
  <2>2. ASSUME NEW k \in Rest(n + 1) PROVE k \in Rest(n) /\ k # written[n].key
    <3>1. PICK m \in n + 1 .. Len(written) : InFull(m) /\ k = written[m].key
      BY DEF Rest
    <3>2. m \in n .. Len(written) /\ m \in 1 .. Len(written) /\ m # n
      BY <1>1
    <3>. QED BY <3>1, <3>2, KeysDiffer DEF Rest
  <2>3. ASSUME NEW k \in Rest(n), k # written[n].key PROVE k \in Rest(n + 1)
    <3>1. PICK m \in n .. Len(written) : InFull(m) /\ k = written[m].key
      BY DEF Rest
    <3>2. m \in n + 1 .. Len(written)
      BY <1>1, <2>3, <3>1
    <3>. QED BY <3>1, <3>2 DEF Rest
  <2>. QED BY <2>1, <2>2, <2>3
<1>3. ASSUME ~InFull(n) PROVE Rest(n) = {}
  <2>1. \A m \in n .. Len(written) : m \in 1 .. Len(written) /\ n \in 1 .. m
    BY <1>1
  <2>2. \A m \in n .. Len(written) : ~InFull(m)
    BY <1>3, <2>1, WholeBefore
  <2>. QED BY <2>2 DEF Rest
<1>. QED BY <1>2, <1>3

LEMMA TodoAtKey ==
  FileInv => \A n \in 0 .. Len(written) : pc = "key" /\ pos = Upto(n) + 1 => Todo = Rest(n + 1)
<1> SUFFICES ASSUME FileInv, NEW n \in 0 .. Len(written), pc = "key", pos = Upto(n) + 1
             PROVE  ToLoad = Rest(n + 1)
  BY DEF Todo, Phase
<1>1. Len(written) \in Nat /\ DOMAIN written = 1 .. Len(written)
  BY DEF FileInv
<1>2. Upto(n) \in Nat
  <2>1. CASE n = 0
    BY <2>1 DEF Upto
  <2>2. CASE n # 0
    BY <2>2, EntryStands
  <2>. QED BY <2>1, <2>2
<1>3. ASSUME NEW m \in 1 .. Len(written)
      PROVE  pos <= Upto(m - 1) + 1 <=> m \in n + 1 .. Len(written)
  <2>1. Upto(m - 1) \in Nat
    BY EntryStands
  <2>2. CASE n < m
    <3>1. n \in 0 .. m - 1
      BY <2>2
    <3>2. Upto(n) <= Upto(m - 1)
      BY <3>1, UptoGrows
    <3>. QED BY <1>1, <1>2, <2>1, <2>2, <3>2
  <2>3. CASE m <= n
    <3>1. n \in 1 .. Len(written) /\ m - 1 \in 0 .. n - 1
      BY <1>1, <2>3
    <3>2. Upto(m - 1) <= Upto(n - 1) /\ Upto(n - 1) + 3 <= Upto(n) /\ Upto(n - 1) \in Nat
      BY <3>1, UptoGrows, EntryStands
    <3>. QED BY <1>1, <1>2, <2>1, <2>3, <3>2
  <2>. QED BY <2>2, <2>3
<1>4. ToLoad = {written[m].key : m \in {m \in 1 .. Len(written) : InFull(m) /\ pos <= Upto(m - 1) + 1}}
  BY <1>1 DEF ToLoad
<1>5. {m \in 1 .. Len(written) : InFull(m) /\ pos <= Upto(m - 1) + 1}
        = {m \in n + 1 .. Len(written) : InFull(m)}
  BY <1>1, <1>3
<1>. QED BY <1>4, <1>5 DEF Rest

LEMMA TodoAtValue ==
  FileInv =>
    \A n \in 1 .. Len(written) :
      pc = "value" /\ good /\ key = written[n].key /\ pos \in Nat
      /\ Starts(n) <= pos /\ pos <= Upto(n) + 1 => Todo = Rest(n)
<1> SUFFICES ASSUME FileInv, NEW n \in 1 .. Len(written), pc = "value", good,
                    key = written[n].key, pos \in Nat, Starts(n) <= pos, pos <= Upto(n) + 1
             PROVE  ToLoad = Rest(n)
  BY DEF Todo, Phase
<1>1. Len(written) \in Nat /\ DOMAIN written = 1 .. Len(written)
  BY DEF FileInv
<1>2. Upto(n) \in Nat /\ Upto(n - 1) \in Nat /\ Upto(n - 1) + 4 <= pos
  BY EntryStands DEF Starts
<1>3. ASSUME NEW m \in 1 .. Len(written)
      PROVE  pos <= Upto(m - 1) + 1 \/ key = written[m].key <=> m \in n .. Len(written)
  <2>1. Upto(m - 1) \in Nat
    BY EntryStands
  <2>2. CASE n < m
    <3>1. n \in 0 .. m - 1
      BY <2>2
    <3>2. Upto(n) <= Upto(m - 1)
      BY <3>1, UptoGrows
    <3>. QED BY <1>1, <1>2, <2>1, <2>2, <3>2
  <2>3. CASE m = n
    BY <1>1, <2>3
  <2>4. CASE m < n
    <3>1. m - 1 \in 0 .. n - 1
      BY <1>1, <2>4
    <3>2. Upto(m - 1) <= Upto(n - 1)
      BY <3>1, UptoGrows
    <3>3. written[m].key # written[n].key
      BY <2>4, KeysDiffer
    <3>. QED BY <1>1, <1>2, <2>1, <2>4, <3>2, <3>3
  <2>. QED BY <2>2, <2>3, <2>4
<1>4. ToLoad = {written[m].key : m \in {m \in 1 .. Len(written) :
                  InFull(m) /\ (pos <= Upto(m - 1) + 1 \/ key = written[m].key)}}
  BY <1>1 DEF ToLoad
<1>5. {m \in 1 .. Len(written) : InFull(m) /\ (pos <= Upto(m - 1) + 1 \/ key = written[m].key)}
        = {m \in n .. Len(written) : InFull(m)}
  BY <1>1, <1>3
<1>. QED BY <1>4, <1>5 DEF Rest

LEMMA TodoAtEnd ==
  FileInv /\ pc \in {"key", "value"} /\ ~good /\ pos = End => Todo = {}
<1> SUFFICES ASSUME FileInv, ~good, pos = End PROVE ToLoad = {}
  BY DEF Todo, Phase
<1>1. ASSUME NEW n \in 1 .. Len(written), InFull(n), pos <= Upto(n - 1) + 1 PROVE FALSE
  <2>1. Upto(n - 1) + 3 <= Upto(n) /\ Upto(n - 1) \in Nat /\ Upto(n) \in Nat
    BY UptoGrows, EntryStands
  <2>. QED BY <1>1, <2>1, SoundIs DEF InFull, End
<1>2. DOMAIN written = 1 .. Len(written)
  BY DEF FileInv
<1>. QED BY <1>1, <1>2 DEF ToLoad

(* What is being read is the entry the file cuts.                          *)
Doomed == key = CutKey /\ key # Nil /\ Todo = {}

LEMMA CutHere ==
  ASSUME FileInv, NEW n \in 1 .. Len(written), Upto(n - 1) + 2 <= Sound, ~InFull(n)
  PROVE  CutKey = written[n].key /\ CutKey # Nil /\ Rest(n) = {}
<1>1. Upto(n - 1) \in Nat /\ Upto(n - 1) < Len(file)
  BY EntryStands, SoundIs
<1>2. n \in CutAt
  BY <1>1 DEF CutAt, FileInv
<1>3. CutKey = written[n].key
  BY <1>2, CutIs DEF KeyOf
<1>4. written[n].key \in Key
  BY EntryStands
<1>. QED BY <1>3, <1>4, NilAssumption, RestSteps

-----------------------------------------------------------------------------
(* What the reading stream meets.                                          *)

LEMMA ReadingAt ==
  ASSUME FileInv, pc = "value", good, StackOK(stack), NEW n \in 1 .. Len(written), Reading(n)
  PROVE  Todo = Rest(n)
<1>1. pos \in Nat /\ Starts(n) <= pos /\ pos <= Upto(n) + 1
  <2>1. CASE stack = <<>> /\ pos = Starts(n)
    <3>1. Starts(n) \in Nat /\ Upto(n) = Starts(n) + Size(written[n].val) - 1
      BY EntryStands DEF Starts
    <3>2. Size(written[n].val) \in Nat
      BY EntryStands, ValueSerialized
    <3>. QED BY <2>1, <3>1, <3>2
  <2>2. CASE Inside(stack, n, pos)
    <3>1. pos \in Nat /\ Starts(n) + 2 <= pos /\ pos <= Upto(n) + 1
      BY <2>2, InsideGoesOn
    <3>2. Starts(n) \in Nat
      BY EntryStands DEF Starts
    <3>. QED BY <3>1, <3>2
  <2>. QED BY <2>1, <2>2 DEF Reading
<1>2. key = written[n].key
  BY DEF Reading
<1>. QED BY <1>1, <1>2, TodoAtValue

LEMMA DoomedAtEnd ==
  ASSUME IInv, pc = "value", ~good
  PROVE  Doomed
BY TodoAtEnd DEF IInv, ReaderInv, Doomed

LEMMA DoomedHere ==
  ASSUME IInv, pc = "value", good, NEW n \in 1 .. Len(written), Reading(n), ~InFull(n)
  PROVE  Doomed
<1>1. FileInv /\ StackOK(stack)
  BY DEF IInv, ReaderInv
<1>2. key = written[n].key /\ Upto(n - 1) + 2 <= Sound
  BY DEF Reading
<1>. QED BY <1>1, <1>2, CutHere, ReadingAt DEF Doomed

LEMMA Meets ==
  ASSUME IInv, pc = "value", good, Wanting
  PROVE  \E n \in 1 .. Len(written) : Reading(n) /\ \E x : Due(stack, n, pos, x)
<1>1. FileInv /\ StackOK(stack)
  BY DEF IInv, ReaderInv
<1>2. PICK n \in 1 .. Len(written) : Reading(n)
  BY DEF IInv, ReaderInv
<1>3. CASE stack = <<>> /\ pos = Starts(n)
  BY <1>2, <1>3 DEF Due
<1>4. CASE Inside(stack, n, pos)
  <2>1. stack # <<>> /\ (Len(stack[Len(stack)].items) < stack[Len(stack)].wanted
                           => \E x : Due(stack, n, pos, x))
    BY <1>1, <1>4, InsideGoesOn
  <2>2. deep = <<>>
    BY DEF IInv, ReaderInv
  <2>. QED BY <1>2, <2>1, <2>2 DEF Wanting
<1>. QED BY <1>2, <1>3, <1>4 DEF Reading

LEMMA ValueKinds ==
  ASSUME NEW x \in Value
  PROVE  \/ x \in IntVal \cup FloatVal /\ x.type \in {"INT", "FLOAT"} /\ x = [type |-> x.type, val |-> x.val]
         \/ x \in StringVal \cup IdentVal /\ x = [type |-> x.type, val |-> x.val]
         \/ x \in ListVal
<1>1. CASE x \in IntVal
  BY <1>1 DEF IntVal
<1>2. CASE x \in FloatVal
  BY <1>2 DEF FloatVal
<1>3. CASE x \in StringVal
  BY <1>3 DEF StringVal
<1>4. CASE x \in IdentVal
  BY <1>4 DEF IdentVal
<1>. QED BY <1>1, <1>2, <1>3, <1>4 DEF Value, Scalar

(* The tag that is met is the one of the value that is due.                *)
MetAs(x, tag) ==
  \/ x \in IntVal \cup FloatVal /\ tag = x.type /\ tag \in {"INT", "FLOAT"}
     /\ x = [type |-> x.type, val |-> x.val] /\ Size(x) = 2
  \/ x \in StringVal \cup IdentVal /\ tag = "TEXT"
     /\ x = [type |-> x.type, val |-> x.val] /\ Size(x) = 4
  \/ x \in ListVal /\ tag = "LIST" /\ 2 <= Size(x)

LEMMA TagMet ==
  ASSUME FileInv, NEW x \in Value, NEW p \in Nat, Stands(p, x), p <= Len(file)
  PROVE  file[p][1] = "TAG" /\ MetAs(x, file[p][2])
<1>1. CASE x \in IntVal \cup FloatVal /\ x.type \in {"INT", "FLOAT"} /\ x = [type |-> x.type, val |-> x.val]
  <2>1. file[p] = <<"TAG", x.type>> /\ Size(x) = 2
    BY <1>1, NumberStands
  <2>2. file[p][1] = "TAG" /\ file[p][2] = x.type
    BY <2>1
  <2>. QED BY <1>1, <2>1, <2>2 DEF MetAs
<1>2. CASE x \in StringVal \cup IdentVal /\ x = [type |-> x.type, val |-> x.val]
  <2>1. file[p] = <<"TAG", "TEXT">> /\ Size(x) = 4
    BY <1>2, TextStands
  <2>2. file[p][1] = "TAG" /\ file[p][2] = "TEXT"
    BY <2>1
  <2>. QED BY <1>2, <2>1, <2>2 DEF MetAs
<1>3. CASE x \in ListVal
  <2>1. file[p] = <<"TAG", "LIST">>
    BY <1>3, ListStands
  <2>2. file[p][1] = "TAG" /\ file[p][2] = "LIST"
    BY <2>1
  <2>3. 2 <= Size(x)
    <3>1. 0 \in 0 .. Len(x.val) /\ Offset(x, 0) = 2
      BY <1>3, ListSerialized, OffsetSteps
    <3>2. Offset(x, 0) <= Size(x)
      BY <1>3, <3>1, OffsetSteps
    <3>. QED BY <3>1, <3>2
  <2>. QED BY <1>3, <2>2, <2>3 DEF MetAs
<1>. QED BY <1>1, <1>2, <1>3, ValueKinds

LEMMA SizePositive ==
  ASSUME NEW x \in Value
  PROVE  Size(x) >= 1
<1>1. CASE x \in Scalar
  <2>1. Serialize(x) = ScalarUnits(x)
    BY <1>1, ScalarSerialized
  <2>2. Len(ScalarUnits(x)) = 2 \/ Len(ScalarUnits(x)) = 4
    BY DEF ScalarUnits
  <2>. QED BY <2>1, <2>2 DEF Size
<1>2. CASE x \in ListVal
  <2>1. 0 \in 0 .. Len(x.val) /\ Offset(x, 0) = 2
    BY <1>2, ListSerialized, OffsetSteps
  <2>2. Offset(x, 0) <= Size(x) /\ Size(x) \in Nat
    BY <1>2, <2>1, OffsetSteps, ValueSerialized
  <2>. QED BY <2>1, <2>2
<1>. QED BY <1>1, <1>2 DEF Value

LEMMA TagMeets ==
  ASSUME IInv, Tag # "UNREAD"
  PROVE  /\ pc = "value" /\ Wanting
         /\ Tag = "NONE" => Doomed
         /\ Tag # "NONE" => /\ good /\ pos <= Sound
                            /\ \E n \in 1 .. Len(written) : Reading(n) /\
                                 \E x : Due(stack, n, pos, x) /\ MetAs(x, Tag)
<1>1. pc = "value" /\ Wanting
  BY DEF Tag
<1>2. CASE ~good
  <2>1. Tag = "NONE"
    BY <1>1, <1>2 DEF Tag, Whole
  <2>. QED BY <1>1, <1>2, <2>1, DoomedAtEnd
<1>3. CASE good
  <2>1. FileInv /\ StackOK(stack) /\ Sound \in Nat /\ Sound <= Len(file) /\ Len(file) \in Nat
    BY SoundIs DEF IInv, ReaderInv
  <2>2. PICK n \in 1 .. Len(written) : Reading(n) /\ \E x : Due(stack, n, pos, x)
    BY <1>1, <1>3, Meets
  <2>6. PICK x : Due(stack, n, pos, x)
    BY <2>2
  <2>3. pos \in Nat /\ x \in Value /\ Stands(pos, x) /\ Size(x) \in Nat /\ pos + Size(x) <= Upto(n) + 1
    BY <2>1, <2>6, DueStands
  <2>4. CASE pos <= Sound
    <3>1. file[pos][1] = "TAG" /\ MetAs(x, file[pos][2])
      BY <2>1, <2>3, <2>4, TagMet
    <3>2. Tag = file[pos][2]
      BY <1>1, <1>3, <2>4, <3>1 DEF Tag, Whole
    <3>3. Tag # "NONE"
      BY <3>1, <3>2 DEF MetAs
    <3>. QED BY <1>1, <1>3, <2>2, <2>6, <2>4, <3>1, <3>2, <3>3
  <2>5. CASE Sound < pos
    <3>1. Tag = "NONE"
      BY <1>1, <2>1, <2>3, <2>5 DEF Tag, Whole
    <3>2. ~InFull(n)
      <4>1. Size(x) >= 1
        BY <2>3, SizePositive
      <4>2. Upto(n) \in Nat
        BY <2>1, EntryStands
      <4>. QED BY <2>1, <2>3, <2>5, <4>1, <4>2 DEF InFull
    <3>. QED BY <1>1, <1>3, <2>2, <3>1, <3>2, DoomedHere
  <2>. QED BY <2>1, <2>3, <2>4, <2>5
<1>. QED BY <1>2, <1>3

-----------------------------------------------------------------------------
(* Steps.  A step that leaves the file alone leaves what it promises alone.*)

LEMMA FileFrame ==
  ASSUME FileInv, UNCHANGED <<file, torn, written>>
  PROVE  /\ FileInv' /\ Sound' = Sound /\ End' = End
         /\ WholeEntries' = WholeEntries /\ CutKey' = CutKey
         /\ \A n : Upto(n)' = Upto(n) /\ Starts(n)' = Starts(n) /\ InFull(n)' = InFull(n)
         /\ \A n : Rest(n)' = Rest(n)
<1>1. Sound' = Sound /\ End' = End
  BY DEF Sound, End
<1>2. \A n : Upto(n)' = Upto(n)
  BY DEF Upto
<1>3. \A n : Starts(n)' = Starts(n) /\ InFull(n)' = InFull(n)
  BY <1>1, <1>2 DEF Starts, InFull
<1>4. \A n : Rest(n)' = Rest(n)
  BY <1>3 DEF Rest
<1>5. FileInv'
  BY <1>2 DEF FileInv, Written
<1>6. WholeEntries' = WholeEntries
  <2> DEFINE At(k) == {n \in DOMAIN written : written[n].key = k /\ InFull(n)}
  <2>1. \A k : At(k)' = At(k)
    BY <1>3
  <2>2. WholeEntries = [k \in Key |-> IF At(k) = {} THEN Nil ELSE written[CHOOSE n \in At(k) : TRUE].val]
    BY DEF WholeEntries
  <2>3. WholeEntries' = [k \in Key |->
          IF At(k)' = {} THEN Nil ELSE written'[CHOOSE n \in At(k)' : TRUE].val]
    BY DEF WholeEntries
  <2> HIDE DEF At
  <2>. QED BY <2>1, <2>2, <2>3
<1>7. CutKey' = CutKey
  <2>1. CutAt' = CutAt
    BY <1>2, <1>3 DEF CutAt
  <2>2. \A n : KeyOf(n)' = KeyOf(n)
    BY <1>1, <1>2 DEF KeyOf
  <2>. QED BY <2>1, <2>2 DEF CutKey
<1>. QED BY <1>1, <1>2, <1>3, <1>4, <1>5, <1>6, <1>7

LEMMA TodoPrimes ==
  ASSUME FileInv'
  PROVE  /\ \A n \in 0 .. Len(written)' :
              pc' = "key" /\ pos' = Upto(n)' + 1 => Todo' = Rest(n + 1)'
         /\ pc' \in {"key", "value"} /\ ~good' /\ pos' = End' => Todo' = {}
         /\ \A n \in 1 .. Len(written)' :
              pc' = "value" /\ good' /\ key' = written[n].key' /\ pos' \in Nat
              /\ Starts(n)' <= pos' /\ pos' <= Upto(n)' + 1 => Todo' = Rest(n)'
<1>1. (FileInv => \A n \in 0 .. Len(written) : pc = "key" /\ pos = Upto(n) + 1 => Todo = Rest(n + 1))'
  BY TodoAtKey, PTL
<1>2. (FileInv /\ pc \in {"key", "value"} /\ ~good /\ pos = End => Todo = {})'
  BY TodoAtEnd, PTL
<1>3. (FileInv =>
    \A n \in 1 .. Len(written) :
      pc = "value" /\ good /\ key = written[n].key /\ pos \in Nat
      /\ Starts(n) <= pos /\ pos <= Upto(n) + 1 => Todo = Rest(n))'
  BY TodoAtValue, PTL
<1>. QED BY <1>1, <1>2, <1>3

(* A value that may stand in the innermost of these lists.                 *)
Room(lists, v) ==
  /\ v \in ReadValue
  /\ lists # <<>> => v \in ReadItem
  /\ Len(lists) = 2 => v \in ReadScalar

LEMMA GotShape ==
  ASSUME NEW lists, StackOK(lists), NEW v, Room(lists, v), Got(lists, v)
  PROVE  /\ StackOK(stack')
         /\ lists = <<>> => kv' = [kv EXCEPT ![key] = v] /\ stack' = <<>> /\ pc' = "key"
         /\ lists # <<>> => /\ stack' = [lists EXCEPT ![Len(lists)].items = Append(@, v)]
                            /\ stack' # <<>> /\ kv' = kv /\ pc' = pc
<1>1. CASE lists = <<>>
  BY <1>1 DEF Got, StackOK
<1>2. CASE lists # <<>>
  <2>1. stack' = [lists EXCEPT ![Len(lists)].items = Append(@, v)] /\ kv' = kv /\ pc' = pc
    BY <1>2 DEF Got
  <2>2. PICK d : d = Len(lists)
    OBVIOUS
  <2>3. d \in 1 .. Len(lists) /\ (d = 1 \/ d = 2)
    <3>1. Len(lists) = 1 \/ Len(lists) = 2
      BY <1>2, DepthOf
    <3>. QED BY <2>2, <3>1
  <2>4. lists[d] \in [items : Seq(ReadItem), wanted : Nat] /\ v \in ReadItem
    BY <1>2, <2>3, FrameOf DEF Room
  <2>5. PICK f : f = [lists[d] EXCEPT !.items = Append(@, v)]
    OBVIOUS
  <2>6. f \in [items : Seq(ReadItem), wanted : Nat] /\ f.items = Append(lists[d].items, v)
    <3>1. Append(lists[d].items, v) \in Seq(ReadItem)
      BY <2>4
    <3>2. f = [items |-> Append(lists[d].items, v), wanted |-> lists[d].wanted]
      BY <2>4, <2>5
    <3>. QED BY <2>4, <3>1, <3>2
  <2>7. stack' = [lists EXCEPT ![d] = f]
    BY <2>1, <2>2, <2>5
  <2>8. stack' \in Seq([items : Seq(ReadItem), wanted : Nat]) /\ Len(stack') = d
    <3> DEFINE F == [items : Seq(ReadItem), wanted : Nat]
    <3>1. lists \in Seq(F) /\ f \in F
      BY <2>6 DEF StackOK
    <3> HIDE DEF F
    <3>2. stack' \in Seq(F) /\ Len(stack') = Len(lists)
      BY <2>3, <2>7, <3>1
    <3>. QED BY <2>2, <3>2 DEF F
  <2>9. d = 2 => stack'[2].items \in Seq(ReadScalar)
    <3> SUFFICES ASSUME d = 2 PROVE stack'[2].items \in Seq(ReadScalar)
      OBVIOUS
    <3>1. stack'[2] = f
      <4> DEFINE F == [items : Seq(ReadItem), wanted : Nat]
      <4>1. lists \in Seq(F)
        BY DEF StackOK
      <4> HIDE DEF F
      <4>. QED BY <2>3, <2>7, <4>1
    <3>2. lists[2].items \in Seq(ReadScalar) /\ v \in ReadScalar
      BY <2>2 DEF StackOK, Room
    <3>3. Append(lists[2].items, v) \in Seq(ReadScalar)
      BY <3>2
    <3>. QED BY <2>6, <3>1, <3>3
  <2>10. StackOK(stack') /\ stack' # <<>>
    BY <2>3, <2>8, <2>9 DEF StackOK
  <2>. QED BY <1>2, <2>1, <2>10
<1>. QED BY <1>1, <1>2

(* The steps of the promise a load can take.                               *)
Kept == WholeEntries' = WholeEntries /\ CutKey' = CutKey

LEMMA AbstractLoadOne ==
  ASSUME Kept, Phase = "loading", Phase' = "loading", NEW k \in Key, k \in Todo,
         kv' = [kv EXCEPT ![k] = WholeEntries[k]], Todo' = Todo \ {k}
  PROVE  Promise!SaveNext
<1>1. Promise!LoadOne(k)
  BY DEF Promise!LoadOne, Kept
<1>. QED BY <1>1 DEF Promise!SaveNext

LEMMA AbstractSpoil ==
  ASSUME Kept, Phase = "loading", Phase' \in {"loading", "idle"}, Todo = {}, Todo' = {},
         CutKey # Nil, kv' = [kv EXCEPT ![CutKey] = kv'[CutKey]],
         kv'[CutKey] \in ReadValue \/ (kv'[CutKey] = Null /\ kv[CutKey] = Nil)
  PROVE  Promise!SaveNext
<1>1. Promise!Spoil
  BY DEF Promise!Spoil, Kept
<1>. QED BY <1>1 DEF Promise!SaveNext

LEMMA AbstractEndLoad ==
  ASSUME Kept, Phase = "loading", Phase' = "idle", Todo = {}, Todo' = {}, kv' = kv
  PROVE  Promise!SaveNext
<1>1. Promise!EndLoad
  BY DEF Promise!EndLoad, Kept
<1>. QED BY <1>1 DEF Promise!SaveNext

LEMMA AbstractStutter ==
  ASSUME Kept, Phase' = Phase, Todo' = Todo, kv' = kv
  PROVE  UNCHANGED Promise!saveVars
BY DEF Promise!saveVars, Kept

LEMMA DueNone ==
  ASSUME NEW n, NEW p, NEW x, NEW lists, lists = <<>>, Due(lists, n, p, x)
  PROVE  p = Starts(n) /\ x = written[n].val
<1>1. Len(lists) = 0
  OBVIOUS
<1>. QED BY <1>1 DEF Due

(* A value that stands whole in the file has been read.                    *)
LEMMA GotWhole ==
  ASSUME IInv, pc = "value", good, NEW n \in 1 .. Len(written),
         key = written[n].key, Upto(n - 1) + 2 <= Sound, Todo = Rest(n),
         NEW lists, StackOK(lists), NEW p, NEW x, Due(lists, n, p, x), Got(lists, x),
         pos' = p + Size(x), p + Size(x) - 1 <= Sound, good' = TRUE,
         UNCHANGED <<file, torn, pending, key, deep, written>>
  PROVE  IInv' /\ [Promise!SaveNext]_(Promise!saveVars)
<1>1. FileInv /\ StoreInv /\ ReaderInv
  BY DEF IInv
<1>2. /\ FileInv' /\ Sound' = Sound /\ End' = End /\ Kept
      /\ \A m : Upto(m)' = Upto(m) /\ Starts(m)' = Starts(m) /\ InFull(m)' = InFull(m)
      /\ \A m : Rest(m)' = Rest(m)
  BY <1>1, FileFrame DEF Kept
<1>3. /\ x \in ReadValue /\ Room(lists, x)
      /\ p \in Nat /\ Starts(n) <= p /\ Size(x) \in Nat /\ p + Size(x) <= Upto(n) + 1
  BY <1>1, DueStands, Widened DEF Room
<1>9. p \in Nat /\ Starts(n) <= p /\ Size(x) \in Nat /\ p + Size(x) <= Upto(n) + 1
  BY <1>3
<1>10. deep = <<>> /\ deep' = <<>> /\ DeepOK(deep')
  BY <1>1 DEF ReaderInv
<1>4. /\ StackOK(stack')
      /\ lists = <<>> => kv' = [kv EXCEPT ![key] = x] /\ stack' = <<>> /\ pc' = "key"
      /\ lists # <<>> => /\ stack' = [lists EXCEPT ![Len(lists)].items = Append(@, x)]
                         /\ stack' # <<>> /\ kv' = kv /\ pc' = pc
  BY <1>3, GotShape
<1>5. /\ written[n].key \in Key /\ Upto(n) \in Nat /\ Upto(n - 1) \in Nat /\ Sound \in Nat
      /\ Upto(n) = Starts(n) + Size(written[n].val) - 1 /\ Starts(n) \in Nat /\ Sound >= 1
  BY <1>1, EntryStands, SoundIs DEF Starts
<1>6. Len(written)' = Len(written) /\ n \in 0 .. Len(written) /\ Len(written) \in Nat
  BY <1>1 DEF FileInv
<1>7. CASE lists = <<>>
  <2>1. x = written[n].val /\ p = Starts(n)
    BY <1>7, DueNone
  <2>2. pos' = Upto(n) + 1 /\ Upto(n) <= Sound /\ pos' \in Nat
    BY <1>3, <1>5, <2>1
  <2>3. Todo' = Rest(n + 1) /\ written[n].key \in Rest(n) /\ Rest(n + 1) = Rest(n) \ {written[n].key}
    <3>1. InFull(n)
      BY <2>2 DEF InFull
    <3>2. Todo' = Rest(n + 1)'
      BY <1>2, <1>4, <1>6, <1>7, <2>2, TodoPrimes
    <3>. QED BY <1>1, <1>2, <3>1, <3>2, RestSteps
  <2>4. WholeEntries[key] = x
    BY <1>1, <2>1, <2>2, WholeAt DEF InFull
  <2>5. StoreInv'
    BY <1>1, <1>3, <1>4, <1>5, <1>7 DEF StoreInv
  <2>6. ReaderInv'
    BY <1>1, <1>2, <1>4, <1>5, <1>6, <1>7, <1>10, <2>2 DEF ReaderInv
  <2>7. Promise!SaveNext
    <3>1. Phase = "loading" /\ Phase' = "loading"
      BY <1>4, <1>7 DEF Phase
    <3>. QED BY <1>2, <1>4, <1>5, <1>7, <2>3, <2>4, <3>1, AbstractLoadOne
  <2>. QED BY <1>2, <2>5, <2>6, <2>7 DEF IInv
<1>8. CASE lists # <<>>
  <2>1. Inside(stack', n, pos')
    BY <1>1, <1>4, <1>8, DueGot
  <2>2. pos' \in Nat /\ Starts(n) <= pos' /\ pos' <= Upto(n) + 1 /\ pos' - 1 <= Sound
    <3>1. PICK t, z : t = Starts(n) /\ z = Size(x)
      OBVIOUS
    <3>2. p \in Nat /\ t \in Nat /\ z \in Nat /\ t <= p /\ pos' = p + z
      BY <1>5, <1>9, <3>1
    <3>3. pos' \in Nat /\ t <= pos'
      BY <3>2
    <3>. QED BY <1>9, <3>1, <3>2, <3>3
  <2>3. Reading(n)'
    BY <1>2, <2>1, <2>2 DEF Reading, Inside
  <2>4. Todo' = Rest(n)
    BY <1>2, <1>4, <1>6, <1>8, <2>2, TodoPrimes
  <2>5. StoreInv'
    BY <1>1, <1>4, <1>8 DEF StoreInv
  <2>6. ReaderInv'
    BY <1>1, <1>2, <1>4, <1>5, <1>6, <1>8, <1>10, <2>2, <2>3 DEF ReaderInv
  <2>7. UNCHANGED Promise!saveVars
    <3>1. Phase' = Phase
      BY <1>4, <1>8 DEF Phase
    <3>. QED BY <1>2, <1>4, <1>8, <2>4, <3>1, AbstractStutter
  <2>. QED BY <1>2, <2>5, <2>6, <2>7 DEF IInv
<1>. QED BY <1>7, <1>8

(* Something has been read where nobody wrote it.                          *)
LEMMA GotSpoiled ==
  ASSUME IInv, pc = "value", Doomed, NEW lists, StackOK(lists), NEW v, Room(lists, v),
         Got(lists, v), pos' = End, good' = FALSE, deep' = <<>>,
         UNCHANGED <<file, torn, pending, key, written>>
  PROVE  IInv' /\ [Promise!SaveNext]_(Promise!saveVars)
<1>1. FileInv /\ StoreInv /\ ReaderInv
  BY DEF IInv
<1>2. FileInv' /\ Sound' = Sound /\ End' = End /\ Kept
  BY <1>1, FileFrame DEF Kept
<1>3. /\ StackOK(stack')
      /\ lists = <<>> => kv' = [kv EXCEPT ![key] = v] /\ stack' = <<>> /\ pc' = "key"
      /\ lists # <<>> => /\ stack' = [lists EXCEPT ![Len(lists)].items = Append(@, v)]
                         /\ stack' # <<>> /\ kv' = kv /\ pc' = pc
  BY GotShape
<1>4. key = CutKey /\ key # Nil /\ key \in Key /\ Todo = {} /\ v \in ReadValue
  BY <1>1 DEF Doomed, ReaderInv, Room
<1>5. pc' \in {"key", "value"} /\ Phase = "loading" /\ Phase' = "loading"
  BY <1>3 DEF Phase
<1>6. Todo' = {}
  BY <1>2, <1>5, TodoPrimes
<1>7. StoreInv'
  BY <1>1, <1>3, <1>4, <1>5 DEF StoreInv
<1>8. End \in Nat /\ Sound >= 1
  BY <1>1, SoundIs DEF End, ReaderInv
<1>9. ReaderInv'
  <2>1. DeepOK(deep')
    BY DEF DeepOK
  <2>. QED BY <1>1, <1>2, <1>3, <1>4, <1>5, <1>8, <2>1 DEF ReaderInv, Kept
<1>10. CASE lists = <<>>
  <2>1. kv' = [kv EXCEPT ![key] = v] /\ kv'[key] = v
    BY <1>1, <1>3, <1>4, <1>10 DEF StoreInv
  <2>2. Promise!SaveNext
    BY <1>2, <1>4, <1>5, <1>6, <2>1, AbstractSpoil
  <2>. QED BY <1>2, <1>7, <1>9, <2>2 DEF IInv
<1>11. CASE lists # <<>>
  <2>1. UNCHANGED Promise!saveVars
    BY <1>2, <1>3, <1>4, <1>5, <1>6, <1>11, AbstractStutter
  <2>. QED BY <1>2, <1>7, <1>9, <2>1 DEF IInv
<1>. QED BY <1>10, <1>11

(* A list has been opened, or one nobody wrote goes on.                    *)
LEMMA Opened ==
  ASSUME IInv, pc = "value", UNCHANGED <<kv, file, torn, pending, key, pc, written>>,
         StackOK(stack'), good' \in BOOLEAN, pos' \in Nat,
         DeepOK(deep'), good' => deep' = <<>>,
         good' => \E n \in 1 .. Len(written) :
                    /\ good /\ Reading(n) /\ Inside(stack', n, pos')
                    /\ Starts(n) <= pos' /\ pos' <= Upto(n) + 1 /\ pos' - 1 <= Sound,
         ~good' => Doomed /\ pos' = End
  PROVE  IInv' /\ [Promise!SaveNext]_(Promise!saveVars)
<1>1. FileInv /\ StoreInv /\ ReaderInv
  BY DEF IInv
<1>2. /\ FileInv' /\ Sound' = Sound /\ End' = End /\ Kept
      /\ \A m : Upto(m)' = Upto(m) /\ Starts(m)' = Starts(m)
      /\ \A m : Rest(m)' = Rest(m)
  BY <1>1, FileFrame DEF Kept
<1>3. Phase' = Phase /\ StoreInv'
  BY <1>1 DEF Phase, StoreInv
<1>4. CASE good'
  <2>1. PICK n \in 1 .. Len(written) :
          /\ good /\ Reading(n) /\ Inside(stack', n, pos')
          /\ Starts(n) <= pos' /\ pos' <= Upto(n) + 1 /\ pos' - 1 <= Sound
    BY <1>4
  <2>2. Todo = Rest(n)
    BY <1>1, <2>1, ReadingAt DEF ReaderInv
  <2>3. key = written[n].key /\ Upto(n - 1) + 2 <= Sound
    BY <2>1 DEF Reading
  <2>4. Todo' = Rest(n)
    BY <1>2, <1>4, <2>1, <2>3, TodoPrimes
  <2>5. Reading(n)'
    BY <1>2, <2>1, <2>3 DEF Reading, Inside
  <2>6. ReaderInv'
    BY <1>1, <1>2, <1>4, <2>5 DEF ReaderInv
  <2>. QED BY <1>2, <1>3, <2>2, <2>4, <2>6, AbstractStutter DEF IInv
<1>5. CASE ~good'
  <2>1. Todo' = {}
    BY <1>2, <1>5, TodoPrimes
  <2>2. ReaderInv'
    BY <1>1, <1>2, <1>5 DEF ReaderInv, Doomed, Kept
  <2>. QED BY <1>2, <1>3, <1>5, <2>1, <2>2, AbstractStutter DEF IInv, Doomed
<1>. QED BY <1>4, <1>5

(* A LOAD breaks off.                                                      *)
LEMMA LoadBreaksOff ==
  ASSUME IInv, pc \in {"key", "value"}, Todo = {}, LoadEnd,
         \/ kv' = kv
         \/ /\ CutKey # Nil /\ kv[CutKey] = Nil /\ kv' = [kv EXCEPT ![CutKey] = Null]
  PROVE  IInv' /\ [Promise!SaveNext]_(Promise!saveVars)
<1>1. FileInv /\ StoreInv /\ ReaderInv
  BY DEF IInv
<1>2. FileInv' /\ Kept /\ CutKey \in Key \cup {Nil}
  BY <1>1, FileFrame, CutType DEF Kept, LoadEnd
<1>3. Phase = "loading" /\ Phase' = "idle" /\ Todo' = {} /\ pc' = "idle"
  BY DEF Phase, Todo, LoadEnd
<1>4. StackOK(stack') /\ DeepOK(deep') /\ deep' = <<>>
  BY DEF LoadEnd, NoReader, StackOK, DeepOK
<1>5. ReaderInv'
  BY <1>1, <1>3, <1>4 DEF ReaderInv, LoadEnd, NoReader
<1>6. CASE kv' = kv
  <2>1. StoreInv'
    BY <1>1, <1>3, <1>6 DEF StoreInv, LoadEnd
  <2>2. Promise!SaveNext
    BY <1>2, <1>3, <1>6, AbstractEndLoad
  <2>. QED BY <1>2, <1>5, <2>1, <2>2 DEF IInv
<1>7. CASE CutKey # Nil /\ kv[CutKey] = Nil /\ kv' = [kv EXCEPT ![CutKey] = Null]
  <2>1. kv'[CutKey] = Null
    BY <1>1, <1>2, <1>7 DEF StoreInv
  <2>2. StoreInv'
    BY <1>1, <1>2, <1>3, <1>7 DEF StoreInv, LoadEnd
  <2>3. Promise!SaveNext
    BY <1>2, <1>3, <1>7, <2>1, AbstractSpoil
  <2>. QED BY <1>2, <1>5, <2>2, <2>3 DEF IInv
<1>. QED BY <1>6, <1>7

-----------------------------------------------------------------------------
(* The actions of a load.                                                  *)

(* Where the tag of a value can be read, so far as the value reaches.      *)
LEMMA Meeting ==
  ASSUME IInv, Tag \notin {"UNREAD", "NONE"}
  PROVE  /\ pc = "value" /\ good /\ Wanting /\ FileInv /\ StackOK(stack)
         /\ pos \in Nat /\ pos <= Sound /\ Sound \in Nat /\ Sound <= Len(file) /\ Len(file) \in Nat
         /\ deep = <<>>
         /\ \E n \in 1 .. Len(written) :
              /\ Reading(n) /\ key = written[n].key /\ Upto(n - 1) + 2 <= Sound /\ Todo = Rest(n)
              /\ \E x : /\ Due(stack, n, pos, x) /\ MetAs(x, Tag) /\ Room(stack, x)
                        /\ Stands(pos, x) /\ Size(x) \in Nat
                        /\ Starts(n) <= pos /\ pos + Size(x) <= Upto(n) + 1
                        /\ \A j \in 0 .. Size(x) - 1 : ~Whole(pos + j) => Doomed
<1>1. /\ pc = "value" /\ Wanting /\ good /\ pos <= Sound
      /\ \E n \in 1 .. Len(written) : Reading(n) /\ \E x : Due(stack, n, pos, x) /\ MetAs(x, Tag)
  BY TagMeets
<1>2. /\ FileInv /\ StackOK(stack) /\ pos \in Nat /\ deep = <<>>
      /\ Sound \in Nat /\ Sound <= Len(file) /\ Len(file) \in Nat
  BY <1>1, SoundIs DEF IInv, ReaderInv
<1>3. PICK n \in 1 .. Len(written) : Reading(n) /\ \E x : Due(stack, n, pos, x) /\ MetAs(x, Tag)
  BY <1>1
<1>4. PICK x : Due(stack, n, pos, x) /\ MetAs(x, Tag)
  BY <1>3
<1>5. key = written[n].key /\ Upto(n - 1) + 2 <= Sound /\ Todo = Rest(n)
  BY <1>1, <1>2, <1>3, ReadingAt DEF Reading
<1>6. /\ Room(stack, x) /\ Stands(pos, x) /\ Size(x) \in Nat
      /\ Starts(n) <= pos /\ pos + Size(x) <= Upto(n) + 1
  BY <1>2, <1>4, DueStands, Widened DEF Room
<1>7. ASSUME NEW j \in 0 .. Size(x) - 1, ~Whole(pos + j) PROVE Doomed
  <2>1. Upto(n) \in Nat
    BY <1>2, EntryStands
  <2>2. ~InFull(n)
    BY <1>1, <1>2, <1>6, <1>7, <2>1 DEF Whole, InFull
  <2>. QED BY <1>1, <1>3, <2>2, DoomedHere
<1>. QED BY <1>1, <1>2, <1>3, <1>4, <1>5, <1>6, <1>7

LEMMA ScalarRoom ==
  ASSUME NEW v \in ReadScalar, NEW lists
  PROVE  Room(lists, v)
BY Widened DEF Room

LEMMA ReadNumberStep ==
  IInv /\ ReadNumber => IInv' /\ [Promise!SaveNext]_(Promise!saveVars)
<1> SUFFICES ASSUME IInv, ReadNumber
             PROVE  IInv' /\ [Promise!SaveNext]_(Promise!saveVars)
  OBVIOUS
<1>1. Tag \in {"INT", "FLOAT"} /\ UNCHANGED <<file, torn, pending, key, deep, written>>
  BY DEF ReadNumber
<1>2. PICK y \in NumberRead(Tag) : Got(stack, [type |-> Tag, val |-> y])
  BY DEF ReadNumber
<1>3. good' = Whole(pos + 1) /\ pos' = IF good' THEN pos + 2 ELSE End
  BY DEF ReadNumber
<1>4. /\ pc = "value" /\ good /\ FileInv /\ StackOK(stack) /\ pos \in Nat /\ deep = <<>>
      /\ Sound \in Nat /\ Sound <= Len(file) /\ Len(file) \in Nat
  BY <1>1, Meeting
<1>5. PICK n \in 1 .. Len(written) :
        /\ Reading(n) /\ key = written[n].key /\ Upto(n - 1) + 2 <= Sound /\ Todo = Rest(n)
        /\ \E x : /\ Due(stack, n, pos, x) /\ MetAs(x, Tag) /\ Room(stack, x)
                  /\ Stands(pos, x) /\ Size(x) \in Nat
                  /\ Starts(n) <= pos /\ pos + Size(x) <= Upto(n) + 1
                  /\ \A j \in 0 .. Size(x) - 1 : ~Whole(pos + j) => Doomed
  BY <1>1, Meeting
<1>6. PICK x : /\ Due(stack, n, pos, x) /\ MetAs(x, Tag) /\ Stands(pos, x)
               /\ \A j \in 0 .. Size(x) - 1 : ~Whole(pos + j) => Doomed
  BY <1>5
<1>7. /\ x \in IntVal \cup FloatVal /\ Tag = x.type /\ x = [type |-> x.type, val |-> x.val]
      /\ Size(x) = 2
  BY <1>1, <1>6 DEF MetAs
<1>8. CASE Whole(pos + 1)
  <2>1. pos + 1 <= Sound /\ good' = TRUE /\ pos' = pos + 2
    BY <1>3, <1>8 DEF Whole
  <2>2. file[pos + 1] = <<"NUMBER", x.val>>
    BY <1>4, <1>6, <1>7, <2>1, NumberStands
  <2>3. y = x.val
    BY <1>2, <1>8, <2>2 DEF NumberRead
  <2>4. Got(stack, x)
    BY <1>2, <1>7, <2>3
  <2>5. pos' = pos + Size(x) /\ pos + Size(x) - 1 <= Sound
    BY <1>4, <1>7, <2>1
  <2>. QED BY <1>1, <1>4, <1>5, <1>6, <2>1, <2>4, <2>5, GotWhole
<1>9. CASE ~Whole(pos + 1)
  <2>1. Doomed
    BY <1>6, <1>7, <1>9
  <2>2. good' = FALSE /\ pos' = End
    BY <1>3, <1>9
  <2>3. [type |-> Tag, val |-> y] \in Scalar
    <3>1. 0 \in -(IntMax + 1) .. IntMax /\ 0 \in -FloatMax .. FloatMax
      BY NumberAssumption
    <3>2. CASE Tag = "INT"
      <4>1. y \in -(IntMax + 1) .. IntMax
        BY <1>2, <1>9, <3>1, <3>2 DEF NumberRead
      <4>. QED BY <3>2, <4>1 DEF Scalar, IntVal
    <3>3. CASE Tag = "FLOAT"
      <4>1. y \in -FloatMax .. FloatMax
        BY <1>2, <1>9, <3>1, <3>3 DEF NumberRead
      <4>. QED BY <3>3, <4>1 DEF Scalar, FloatVal
    <3>. QED BY <1>1, <3>2, <3>3
  <2>4. Room(stack, [type |-> Tag, val |-> y])
    BY <2>3, ScalarRoom, Widened
  <2>. QED BY <1>1, <1>2, <1>4, <2>1, <2>2, <2>4, GotSpoiled
<1>. QED BY <1>8, <1>9

LEMMA ReadTextStep ==
  IInv /\ ReadText => IInv' /\ [Promise!SaveNext]_(Promise!saveVars)
<1> SUFFICES ASSUME IInv, ReadText
             PROVE  IInv' /\ [Promise!SaveNext]_(Promise!saveVars)
  OBVIOUS
<1>1. /\ Tag = "TEXT" /\ Whole(pos + 1) /\ Whole(pos + 3) /\ pos' = pos + 4 /\ good' = good
      /\ UNCHANGED <<file, torn, pending, key, deep, written>>
      /\ Got(stack, [type |-> file[pos + 1][2], val |-> file[pos + 3][2]])
  BY DEF ReadText
<1>2. /\ pc = "value" /\ good /\ FileInv /\ StackOK(stack) /\ pos \in Nat
      /\ Sound \in Nat /\ Sound <= Len(file) /\ Len(file) \in Nat
  BY <1>1, Meeting
<1>3. PICK n \in 1 .. Len(written) :
        /\ Reading(n) /\ key = written[n].key /\ Upto(n - 1) + 2 <= Sound /\ Todo = Rest(n)
        /\ \E x : Due(stack, n, pos, x) /\ MetAs(x, Tag) /\ Stands(pos, x)
  BY <1>1, Meeting
<1>4. PICK x : Due(stack, n, pos, x) /\ MetAs(x, Tag) /\ Stands(pos, x)
  BY <1>3
<1>5. x \in StringVal \cup IdentVal /\ x = [type |-> x.type, val |-> x.val] /\ Size(x) = 4
  BY <1>1, <1>4 DEF MetAs, IntVal, FloatVal
<1>6. pos + 3 <= Sound /\ pos + 1 <= Sound
  BY <1>1 DEF Whole
<1>7. file[pos + 1] = <<"KIND", x.type>> /\ file[pos + 3] = <<"CHARS", x.val>>
  BY <1>2, <1>4, <1>5, <1>6, TextStands
<1>8. Got(stack, x)
  <2>1. file[pos + 1][2] = x.type /\ file[pos + 3][2] = x.val
    BY <1>7
  <2>. QED BY <1>1, <1>5, <2>1
<1>9. pos' = pos + Size(x) /\ pos + Size(x) - 1 <= Sound /\ good' = TRUE
  <2>1. good' = TRUE
    BY <1>1, <1>2 DEF IInv, ReaderInv
  <2>. QED BY <1>1, <1>2, <1>5, <1>6, <2>1
<1>. QED BY <1>1, <1>2, <1>3, <1>4, <1>8, <1>9, GotWhole

LEMMA ReadTextCutStep ==
  IInv /\ ReadTextCut => IInv' /\ [Promise!SaveNext]_(Promise!saveVars)
<1> SUFFICES ASSUME IInv, ReadTextCut
             PROVE  IInv' /\ [Promise!SaveNext]_(Promise!saveVars)
  OBVIOUS
<1>1. /\ Tag = "TEXT" /\ pos' = End /\ good' = FALSE
      /\ UNCHANGED <<file, torn, pending, key, deep, written>>
  BY DEF ReadTextCut
<1>2. PICK p \in 1 .. 3 : ~Whole(pos + p)
  BY DEF ReadTextCut
<1>3. PICK type \in (IF Whole(pos + 1) THEN {file[pos + 1][2]} ELSE {"STRING", "IDENTIFIER"}) :
        Got(stack, [type |-> type, val |-> Torn])
  BY DEF ReadTextCut
<1>4. /\ pc = "value" /\ good /\ FileInv /\ StackOK(stack) /\ pos \in Nat /\ deep = <<>>
      /\ Sound \in Nat /\ Sound <= Len(file) /\ Len(file) \in Nat
  BY <1>1, Meeting
<1>5. PICK x : /\ MetAs(x, Tag) /\ Stands(pos, x)
               /\ \A j \in 0 .. Size(x) - 1 : ~Whole(pos + j) => Doomed
  BY <1>1, Meeting
<1>6. x \in StringVal \cup IdentVal /\ Size(x) = 4
  BY <1>1, <1>5 DEF MetAs, IntVal, FloatVal
<1>7. Doomed
  BY <1>2, <1>5, <1>6
<1>8. type \in {"STRING", "IDENTIFIER"}
  <2>1. CASE Whole(pos + 1)
    <3>1. pos + 1 <= Sound
      BY <2>1 DEF Whole
    <3>2. file[pos + 1] = <<"KIND", x.type>>
      <4>1. pos + 1 <= Len(file)
        BY <1>4, <3>1
      <4>. QED BY <1>4, <1>5, <1>6, <4>1, TextStands
    <3>3. x.type \in {"STRING", "IDENTIFIER"}
      BY <1>6 DEF StringVal, IdentVal
    <3>. QED BY <1>3, <2>1, <3>2, <3>3
  <2>. QED BY <1>3, <2>1
<1>9. [type |-> type, val |-> Torn] \in Scalar
  BY <1>8, TornAssumption DEF Scalar, StringVal, IdentVal
<1>10. Room(stack, [type |-> type, val |-> Torn])
  BY <1>9, ScalarRoom, Widened
<1>. QED BY <1>1, <1>3, <1>4, <1>7, <1>10, GotSpoiled

(* A list that is opened has room on the stack.                            *)
LEMMA OpenedOK ==
  ASSUME NEW lists, StackOK(lists), Len(lists) < 2, NEW w \in Nat
  PROVE  StackOK(Append(lists, [items |-> <<>>, wanted |-> w]))
<1> DEFINE F == [items : Seq(ReadItem), wanted : Nat]
           f == [items |-> <<>>, wanted |-> w]
<1>1. lists \in Seq(F) /\ f \in F /\ f.items \in Seq(ReadScalar)
  BY DEF StackOK
<1> HIDE DEF F, f
<1>2. Append(lists, f) \in Seq(F) /\ Len(Append(lists, f)) = Len(lists) + 1
      /\ Append(lists, f)[Len(lists) + 1] = f /\ Len(lists) \in Nat
  BY <1>1
<1>3. Len(Append(lists, f)) = 2 => Append(lists, f)[2] = f
  BY <1>2
<1>4. StackOK(Append(lists, f))
  BY <1>1, <1>2, <1>3 DEF StackOK, F
<1>. QED BY <1>4 DEF f

LEMMA ReadListStep ==
  IInv /\ ReadList => IInv' /\ [Promise!SaveNext]_(Promise!saveVars)
<1> SUFFICES ASSUME IInv, ReadList
             PROVE  IInv' /\ [Promise!SaveNext]_(Promise!saveVars)
  OBVIOUS
<1>1. /\ Tag = "LIST" /\ Whole(pos + 1) /\ pos' = pos + 2 /\ good' = good
      /\ UNCHANGED <<kv, file, torn, pending, key, deep, pc, written>>
      /\ stack' = Append(stack, [items |-> <<>>, wanted |-> file[pos + 1][2]])
  BY DEF ReadList
<1>2. /\ pc = "value" /\ good /\ FileInv /\ StackOK(stack) /\ pos \in Nat /\ deep = <<>>
      /\ Sound \in Nat /\ Sound <= Len(file) /\ Len(file) \in Nat
  BY <1>1, Meeting
<1>3. PICK n \in 1 .. Len(written) :
        /\ Reading(n)
        /\ \E x : /\ Due(stack, n, pos, x) /\ MetAs(x, Tag) /\ Stands(pos, x)
                  /\ Size(x) \in Nat /\ Starts(n) <= pos /\ pos + Size(x) <= Upto(n) + 1
  BY <1>1, Meeting
<1>4. PICK x : /\ Due(stack, n, pos, x) /\ MetAs(x, Tag) /\ Stands(pos, x)
               /\ Size(x) \in Nat /\ Starts(n) <= pos /\ pos + Size(x) <= Upto(n) + 1
  BY <1>3
<1>5. x \in ListVal /\ 2 <= Size(x)
  BY <1>1, <1>4 DEF MetAs, IntVal, FloatVal
<1>6. pos + 1 <= Sound
  BY <1>1 DEF Whole
<1>7. file[pos + 1] = <<"COUNT", Len(x.val)>>
  BY <1>2, <1>4, <1>5, <1>6, ListStands
<1>8. PICK w : w = Len(x.val)
  OBVIOUS
<1>9. w \in Nat /\ stack' = Append(stack, [items |-> <<>>, wanted |-> w])
  <2>1. file[pos + 1][2] = w
    BY <1>7, <1>8
  <2>. QED BY <1>1, <1>5, <1>8, <2>1, ListSerialized
<1>10. Len(stack) < 2 /\ Inside(stack', n, pos + 2)
  BY <1>2, <1>4, <1>5, <1>8, <1>9, DueOpens
<1>11. StackOK(stack')
  BY <1>2, <1>9, <1>10, OpenedOK
<1>12. Upto(n) \in Nat /\ Starts(n) \in Nat
  BY <1>2, EntryStands DEF Starts
<1>13. Starts(n) <= pos' /\ pos' <= Upto(n) + 1 /\ pos' - 1 <= Sound /\ pos' \in Nat
  BY <1>1, <1>2, <1>4, <1>5, <1>6, <1>12
<1>14. good' = TRUE /\ deep' = <<>> /\ DeepOK(deep')
  BY <1>1, <1>2 DEF IInv, ReaderInv
<1>. QED BY <1>1, <1>2, <1>3, <1>10, <1>11, <1>13, <1>14, Opened

(* The lists that stay open when the innermost one is complete, and the    *)
(* place of that one among them.                                           *)
LEMMA Closed ==
  ASSUME NEW lists, StackOK(lists), lists # <<>>
  PROVE  LET f == lists[Len(lists)] IN
         /\ StackOK(SubSeq(lists, 1, Len(lists) - 1))
         /\ Room(SubSeq(lists, 1, Len(lists) - 1), [type |-> "LIST", val |-> f.items])
<1> DEFINE F == [items : Seq(ReadItem), wanted : Nat]
           g == SubSeq(lists, 1, Len(lists) - 1)
<1>1. lists \in Seq(F)
  BY DEF StackOK
<1>2. CASE Len(lists) = 1
  <2>1. g = <<>>
    BY <1>1, <1>2
  <2>2. lists[1].items \in Seq(ReadItem)
    BY <1>2, FrameOf
  <2>3. [type |-> "LIST", val |-> lists[1].items] \in ReadValue
    BY <2>2 DEF ReadValue
  <2>4. Room(<<>>, [type |-> "LIST", val |-> lists[1].items])
    BY <2>3 DEF Room
  <2>5. StackOK(<<>>)
    BY DEF StackOK
  <2>. QED BY <1>2, <2>1, <2>4, <2>5
<1>3. CASE Len(lists) = 2
  <2>1. g \in Seq(F) /\ Len(g) = 1
    <3> HIDE DEF F
    <3>. QED BY <1>1, <1>3
  <2>2. StackOK(g)
    <3> HIDE DEF g
    <3>. QED BY <2>1 DEF StackOK
  <2>3. lists[2].items \in Seq(ReadScalar)
    BY <1>3 DEF StackOK
  <2>4. [type |-> "LIST", val |-> lists[2].items] \in ReadItem
    BY <2>3 DEF ReadItem
  <2>5. [type |-> "LIST", val |-> lists[2].items] \in ReadValue
    BY <2>4, Widened
  <2>6. Room(g, [type |-> "LIST", val |-> lists[2].items])
    <3> HIDE DEF g
    <3>. QED BY <2>1, <2>4, <2>5 DEF Room
  <2>. QED BY <1>3, <2>2, <2>6
<1>. QED BY <1>2, <1>3, DepthOf

LEMMA CloseListStep ==
  IInv /\ CloseList => IInv' /\ [Promise!SaveNext]_(Promise!saveVars)
<1> SUFFICES ASSUME IInv, CloseList
             PROVE  IInv' /\ [Promise!SaveNext]_(Promise!saveVars)
  OBVIOUS
<1> DEFINE f == stack[Len(stack)]
           lists == SubSeq(stack, 1, Len(stack) - 1)
           x == [type |-> "LIST", val |-> f.items]
<1>1. /\ pc = "value" /\ deep = <<>> /\ ~Wanting /\ Got(lists, x)
      /\ UNCHANGED <<file, torn, pending, pos, good, key, deep, written>>
  BY DEF CloseList
<1>2. FileInv /\ StackOK(stack) /\ good \in BOOLEAN /\ pos \in Nat
  BY DEF IInv, ReaderInv
<1>3. stack # <<>> /\ ~(Len(f.items) < f.wanted)
  BY <1>1 DEF Wanting
<1>4. StackOK(lists) /\ Room(lists, x)
  BY <1>2, <1>3, Closed
<1>5. CASE good
  <2>1. PICK n \in 1 .. Len(written) : Reading(n)
    BY <1>1, <1>5 DEF IInv, ReaderInv
  <2>2. /\ key = written[n].key /\ Upto(n - 1) + 2 <= Sound /\ Todo = Rest(n)
        /\ Inside(stack, n, pos) /\ pos - 1 <= Sound
    BY <1>1, <1>2, <1>3, <1>5, <2>1, ReadingAt DEF Reading
  <2>3. f.wanted <= Len(f.items)
    <3>1. f \in [items : Seq(ReadItem), wanted : Nat]
      BY <1>2, <1>3, DepthOf, FrameOf
    <3> HIDE DEF f
    <3>. QED BY <1>3, <3>1
  <2>4. PICK q \in Nat : Due(lists, n, q, x) /\ pos = q + Size(x)
    BY <1>2, <2>2, <2>3, InsideGoesOn
  <2> HIDE DEF lists, x, f
  <2>5. pos' = q + Size(x) /\ q + Size(x) - 1 <= Sound
    <3>1. pos' = pos
      BY <1>1
    <3>2. Size(x) \in Nat
      BY <1>2, <1>4, <2>4, DueStands
    <3>3. PICK s : s = Size(x)
      OBVIOUS
    <3>4. pos = q + s /\ pos - 1 <= Sound
      BY <2>2, <2>4, <3>3
    <3>5. q + s - 1 <= Sound
      <4>1. s \in Nat /\ q \in Nat /\ pos \in Nat /\ Sound \in Nat
        BY <1>2, <3>2, <3>3, SoundIs
      <4>. QED BY <3>4, <4>1
    <3>6. q + Size(x) - 1 <= Sound
      BY <3>3, <3>5
    <3>. QED BY <2>4, <3>1, <3>6
  <2>6. good' = TRUE
    BY <1>1, <1>2, <1>5
  <2>. QED BY <1>1, <1>4, <1>5, <2>2, <2>4, <2>5, <2>6, GotWhole
<1>6. CASE ~good
  <2>1. Doomed /\ pos' = End /\ good' = FALSE
    BY <1>1, <1>2, <1>6, DoomedAtEnd DEF IInv, ReaderInv
  <2> HIDE DEF lists, x, f
  <2>. QED BY <1>1, <1>4, <2>1, GotSpoiled
<1>. QED BY <1>5, <1>6

LEMMA ReadNothingStep ==
  IInv /\ ReadNothing => IInv' /\ [Promise!SaveNext]_(Promise!saveVars)
<1> SUFFICES ASSUME IInv, ReadNothing
             PROVE  IInv' /\ [Promise!SaveNext]_(Promise!saveVars)
  OBVIOUS
<1>1. /\ Tag = "NONE" /\ pos' = End /\ good' = FALSE /\ deep' = <<>>
      /\ UNCHANGED <<file, torn, pending, key, written>>
  BY DEF ReadNothing
<1>2. PICK v \in Unwritten : Got(stack, v)
  BY DEF ReadNothing
<1>3. pc = "value" /\ Doomed
  BY <1>1, TagMeets
<1>4. StackOK(stack)
  BY DEF IInv, ReaderInv
<1>5. Room(stack, v)
  <2>1. CASE v \in [type : {"INT", "FLOAT"}, val : {0}]
    <3>1. 0 \in -(IntMax + 1) .. IntMax /\ 0 \in -FloatMax .. FloatMax
      BY NumberAssumption
    <3>2. v \in IntVal \cup FloatVal
      BY <2>1, <3>1 DEF IntVal, FloatVal
    <3>. QED BY <3>2, ScalarRoom, Widened DEF Scalar
  <2>2. CASE v \in [type : {"STRING", "IDENTIFIER"}, val : {Torn}]
    <3>1. v \in StringVal \cup IdentVal
      BY <2>2, TornAssumption DEF StringVal, IdentVal
    <3>. QED BY <3>1, ScalarRoom, Widened DEF Scalar
  <2>. QED BY <1>2, <2>1, <2>2 DEF Unwritten
<1>. QED BY <1>1, <1>2, <1>3, <1>4, <1>5, GotSpoiled

(* A list nobody wrote is met where the entry is cut.                      *)
LEMMA UnreadMet ==
  ASSUME IInv, UnreadList
  PROVE  pc = "value" /\ Wanting /\ Doomed
<1>1. CASE Tag = "NONE"
  BY <1>1, TagMeets
<1>2. CASE Tag = "LIST" /\ ~Whole(pos + 1)
  <2>1. PICK x : /\ MetAs(x, Tag) /\ \A j \in 0 .. Size(x) - 1 : ~Whole(pos + j) => Doomed
                 /\ Size(x) \in Nat
    BY <1>2, Meeting
  <2>2. 2 <= Size(x)
    BY <1>2, <2>1 DEF MetAs, IntVal, FloatVal
  <2>. QED BY <1>2, <2>1, <2>2, Meeting
<1>. QED BY <1>1, <1>2 DEF UnreadList

LEMMA DeepOpens ==
  ASSUME NEW lists, DeepOK(lists), lists # <<>> => lists[Len(lists)] > 0, NEW w \in Nat
  PROVE  DeepOK(Append(lists, w)) /\ Append(lists, w) # <<>>
<1>1. lists \in Seq(Nat)
  BY DEF DeepOK
<1>2. /\ Append(lists, w) \in Seq(Nat) /\ Len(Append(lists, w)) = Len(lists) + 1
      /\ Len(lists) \in Nat /\ \A j \in 1 .. Len(lists) : Append(lists, w)[j] = lists[j]
  BY <1>1
<1>3. ASSUME NEW j \in 1 .. Len(lists) PROVE lists[j] > 0
  <2>1. CASE j = Len(lists)
    BY <1>1, <2>1
  <2>2. CASE j # Len(lists)
    BY <1>2, <2>2 DEF DeepOK
  <2>. QED BY <2>1, <2>2
<1>. QED BY <1>2, <1>3 DEF DeepOK

LEMMA DeepGets ==
  ASSUME NEW lists, DeepOK(lists), lists # <<>>, lists[Len(lists)] > 0
  PROVE  DeepOK(OneFewer(lists)) /\ OneFewer(lists) # <<>>
<1>1. lists \in Seq(Nat) /\ Len(lists) \in Nat \ {0} /\ Len(lists) \in 1 .. Len(lists)
  BY DEF DeepOK
<1>2. OneFewer(lists) = [lists EXCEPT ![Len(lists)] = lists[Len(lists)] - 1]
  BY DEF OneFewer
<1>3. lists[Len(lists)] - 1 \in Nat
  BY <1>1
<1>4. /\ OneFewer(lists) \in Seq(Nat) /\ Len(OneFewer(lists)) = Len(lists)
      /\ \A j \in 1 .. Len(lists) - 1 : OneFewer(lists)[j] = lists[j]
  BY <1>1, <1>2, <1>3
<1>. QED BY <1>1, <1>4 DEF DeepOK

LEMMA DeepCloses ==
  ASSUME NEW lists, DeepOK(lists), SubSeq(lists, 1, Len(lists) - 1) # <<>>
  PROVE  LET around == SubSeq(lists, 1, Len(lists) - 1) IN
         DeepOK(around) /\ around[Len(around)] > 0
<1> DEFINE around == SubSeq(lists, 1, Len(lists) - 1)
<1>1. lists \in Seq(Nat) /\ Len(lists) \in Nat
  BY DEF DeepOK
<1>2. Len(lists) >= 2
  BY <1>1
<1>3. /\ around \in Seq(Nat) /\ Len(around) = Len(lists) - 1
      /\ \A j \in 1 .. Len(lists) - 1 : around[j] = lists[j]
  BY <1>1, <1>2
<1> HIDE DEF around
<1>4. \A j \in 1 .. Len(around) : around[j] > 0
  <2>1. \A j \in 1 .. Len(lists) - 1 : lists[j] > 0
    BY DEF DeepOK
  <2>. QED BY <1>3, <2>1
<1>5. Len(around) \in 1 .. Len(around) /\ \A j \in 1 .. Len(around) - 1 : j \in 1 .. Len(around)
  BY <1>1, <1>2, <1>3
<1>6. DeepOK(around) /\ around[Len(around)] > 0
  BY <1>3, <1>4, <1>5 DEF DeepOK
<1>. QED BY <1>6 DEF around

LEMMA OpenUnreadStep ==
  IInv /\ OpenUnread => IInv' /\ [Promise!SaveNext]_(Promise!saveVars)
<1> SUFFICES ASSUME IInv, OpenUnread
             PROVE  IInv' /\ [Promise!SaveNext]_(Promise!saveVars)
  OBVIOUS
<1>1. /\ UnreadList /\ pos' = End /\ good' = FALSE
      /\ UNCHANGED <<kv, file, torn, pending, key, stack, pc, written>>
  BY DEF OpenUnread
<1>2. PICK wanted \in 0 .. SizeMax : deep' = Append(deep, wanted)
  BY DEF OpenUnread
<1>3. pc = "value" /\ Wanting /\ Doomed
  BY <1>1, UnreadMet
<1>4. StackOK(stack) /\ StackOK(stack') /\ DeepOK(deep) /\ Len(file) \in Nat
  BY <1>1, SoundIs DEF IInv, ReaderInv
<1>5. DeepOK(deep')
  <2>1. wanted \in Nat /\ (deep # <<>> => deep[Len(deep)] > 0)
    BY <1>3, SizeAssumption DEF Wanting
  <2>. QED BY <1>2, <1>4, <2>1, DeepOpens
<1>6. pos' \in Nat
  BY <1>1, <1>4 DEF End
<1>. QED BY <1>1, <1>3, <1>4, <1>5, <1>6, Opened

LEMMA ReadUnreadStep ==
  IInv /\ ReadUnread => IInv' /\ [Promise!SaveNext]_(Promise!saveVars)
<1> SUFFICES ASSUME IInv, ReadUnread
             PROVE  IInv' /\ [Promise!SaveNext]_(Promise!saveVars)
  OBVIOUS
<1>1. /\ Tag = "NONE" /\ deep # <<>> /\ deep' = OneFewer(deep)
      /\ UNCHANGED <<kv, file, torn, pending, key, pc, written>>
      /\ pos' = pos /\ good' = good /\ stack' = stack
  BY DEF ReadUnread
<1>2. pc = "value" /\ Wanting /\ Doomed
  BY <1>1, TagMeets
<1>3. /\ StackOK(stack') /\ DeepOK(deep) /\ good = FALSE /\ pos = End /\ pos \in Nat
  BY <1>1, <1>2 DEF IInv, ReaderInv
<1>4. DeepOK(deep')
  BY <1>1, <1>2, <1>3, DeepGets DEF Wanting
<1>. QED BY <1>1, <1>2, <1>3, <1>4, Opened

LEMMA CloseUnreadStep ==
  IInv /\ CloseUnread => IInv' /\ [Promise!SaveNext]_(Promise!saveVars)
<1> SUFFICES ASSUME IInv, CloseUnread
             PROVE  IInv' /\ [Promise!SaveNext]_(Promise!saveVars)
  OBVIOUS
<1> DEFINE around == SubSeq(deep, 1, Len(deep) - 1)
<1>1. /\ pc = "value" /\ deep # <<>>
      /\ UNCHANGED <<file, torn, pending, key, written>> /\ pos' = pos /\ good' = good
      /\ IF around = <<>> THEN deep' = <<>> /\ Got(stack, Lost)
                         ELSE deep' = OneFewer(around) /\ UNCHANGED <<kv, stack, pc>>
  BY DEF CloseUnread
<1>2. /\ StackOK(stack) /\ DeepOK(deep) /\ good = FALSE /\ pos = End /\ pos \in Nat
  BY <1>1 DEF IInv, ReaderInv
<1>3. Doomed
  BY <1>1, <1>2, DoomedAtEnd
<1>4. CASE around = <<>>
  <2>1. Room(stack, Lost)
    BY ScalarRoom DEF ReadScalar
  <2> HIDE DEF around
  <2>. QED BY <1>1, <1>2, <1>3, <1>4, <2>1, GotSpoiled
<1>5. CASE around # <<>>
  <2>1. DeepOK(around) /\ around[Len(around)] > 0
    BY <1>2, <1>5, DeepCloses
  <2> HIDE DEF around
  <2>2. DeepOK(deep')
    BY <1>1, <1>5, <2>1, DeepGets
  <2>3. StackOK(stack') /\ UNCHANGED <<kv, file, torn, pending, key, pc, written>>
    BY <1>1, <1>2, <1>5
  <2>. QED BY <1>1, <1>2, <1>3, <2>2, <2>3, Opened
<1>. QED BY <1>4, <1>5

LEMMA LoadThrowsStep ==
  IInv /\ LoadThrows => IInv' /\ [Promise!SaveNext]_(Promise!saveVars)
<1> SUFFICES ASSUME IInv, LoadThrows
             PROVE  IInv' /\ [Promise!SaveNext]_(Promise!saveVars)
  OBVIOUS
<1>1. LoadEnd /\ (kv' = kv \/ (kv[key] = Nil /\ kv' = [kv EXCEPT ![key] = Null]))
  BY DEF LoadThrows
<1>2. pc = "value" /\ Doomed
  <2>1. CASE UnreadList
    BY <2>1, UnreadMet
  <2>2. CASE Tag = "TEXT" /\ (~Whole(pos + 1) \/ ~Whole(pos + 2))
    <3>1. PICK x : /\ MetAs(x, Tag) /\ \A j \in 0 .. Size(x) - 1 : ~Whole(pos + j) => Doomed
      BY <2>2, Meeting
    <3>2. Size(x) = 4
      BY <2>2, <3>1 DEF MetAs, IntVal, FloatVal
    <3>. QED BY <2>2, <3>1, <3>2, Meeting
  <2>. QED BY <2>1, <2>2 DEF LoadThrows
<1>. QED BY <1>1, <1>2, LoadBreaksOff DEF Doomed

(* Nothing is left to load once the stream has come to the end of the file.*)
LEMMA NothingLeft ==
  ASSUME IInv, pc = "key", ~good \/ pos > Len(file) \/ (torn /\ pos = Len(file))
  PROVE  Todo = {}
<1>1. FileInv /\ ReaderInv /\ Len(file) \in Nat /\ Sound \in Nat /\ Sound <= Len(file)
  BY SoundIs DEF IInv
<1>2. CASE ~good
  BY <1>1, <1>2, TodoAtEnd DEF ReaderInv
<1>3. CASE good
  <2>1. PICK n \in 0 .. Len(written) : pos = Upto(n) + 1
    BY <1>1, <1>3 DEF ReaderInv
  <2>2. Todo = Rest(n + 1)
    BY <1>1, <2>1, TodoAtKey
  <2>3. Sound < pos /\ pos \in Nat
    BY <1>1, <1>3 DEF Sound, ReaderInv
  <2>4. ASSUME NEW m \in n + 1 .. Len(written), InFull(m) PROVE FALSE
    <3>1. m \in 1 .. Len(written) /\ n \in 0 .. m - 1
      BY <1>1 DEF FileInv
    <3>2. /\ Upto(n) \in Nat /\ Upto(m) \in Nat /\ Upto(m - 1) \in Nat
          /\ Upto(n) <= Upto(m - 1) /\ Upto(m - 1) + 3 <= Upto(m)
      BY <1>1, <3>1, UptoGrows, EntryStands
    <3>. QED BY <1>1, <2>1, <2>3, <2>4, <3>2 DEF InFull
  <2>. QED BY <2>2, <2>4 DEF Rest
<1>. QED BY <1>2, <1>3

LEMMA LoadDoneStep ==
  IInv /\ (LoadDone \/ KeySizeTooLarge) => IInv' /\ [Promise!SaveNext]_(Promise!saveVars)
<1> SUFFICES ASSUME IInv, LoadDone \/ KeySizeTooLarge
             PROVE  IInv' /\ [Promise!SaveNext]_(Promise!saveVars)
  OBVIOUS
<1>1. pc = "key" /\ LoadEnd /\ kv' = kv
  BY DEF LoadDone, KeySizeTooLarge
<1>2. ~good \/ pos > Len(file) \/ (torn /\ pos = Len(file))
  BY Zenon DEF LoadDone, KeySizeTooLarge
<1>. QED BY <1>1, <1>2, NothingLeft, LoadBreaksOff

(* An entry begins where the stream is, if there are units left.           *)
LEMMA NextEntry ==
  ASSUME IInv, pc = "key", good, pos <= Len(file)
  PROVE  \E n \in 1 .. Len(written) :
           /\ pos = Upto(n - 1) + 1 /\ Upto(n - 1) <= Sound /\ Upto(n - 1) \in Nat
           /\ Todo = Rest(n)
<1>1. FileInv /\ ReaderInv /\ Len(file) \in Nat /\ Len(file) <= Upto(Len(written))
  BY SoundIs DEF IInv, FileInv
<1>2. PICK m \in 0 .. Len(written) : pos = Upto(m) + 1 /\ Upto(m) <= Sound
  BY <1>1 DEF ReaderInv
<1>3. Len(written) \in Nat
  BY <1>1 DEF FileInv
<1>4. m # Len(written)
  <2> SUFFICES ASSUME m = Len(written) PROVE FALSE
    OBVIOUS
  <2>1. Upto(m) \in Nat
    <3>1. CASE m = 0
      BY <3>1 DEF Upto
    <3>2. CASE m # 0
      BY <1>1, <3>2, EntryStands
    <3>. QED BY <3>1, <3>2
  <2>. QED BY <1>1, <1>2, <2>1
<1>5. PICK n : n = m + 1
  OBVIOUS
<1>6. n \in 1 .. Len(written) /\ n - 1 = m
  BY <1>3, <1>4, <1>5
<1>7. Upto(n - 1) \in Nat
  BY <1>1, <1>6, EntryStands
<1>8. Todo = Rest(n)
  BY <1>1, <1>2, <1>5, TodoAtKey
<1>. QED BY <1>2, <1>6, <1>7, <1>8

LEMMA ReadKeyStep ==
  IInv /\ ReadKey => IInv' /\ [Promise!SaveNext]_(Promise!saveVars)
<1> SUFFICES ASSUME IInv, ReadKey
             PROVE  IInv' /\ [Promise!SaveNext]_(Promise!saveVars)
  OBVIOUS
<1>1. /\ pc = "key" /\ pc' = "value" /\ key' = file[pos + 1][2] /\ pos' = pos + 3
      /\ stack' = <<>> /\ good' = good /\ kv' = kv /\ pending' = pending
      /\ deep' = deep /\ UNCHANGED <<file, torn, written>>
  BY DEF ReadKey
<1>2. good /\ pos <= Sound /\ pos + 1 <= Sound
  BY DEF ReadKey, Whole
<1>3. /\ FileInv /\ StoreInv /\ ReaderInv /\ pos \in Nat
      /\ Len(file) \in Nat /\ Sound \in Nat /\ Sound <= Len(file)
  BY SoundIs DEF IInv, ReaderInv
<1>4. PICK n \in 1 .. Len(written) :
        pos = Upto(n - 1) + 1 /\ Upto(n - 1) \in Nat /\ Todo = Rest(n)
  BY <1>1, <1>2, <1>3, NextEntry
<1>5. pos + 1 = Upto(n - 1) + 2 /\ Upto(n - 1) + 2 <= Sound /\ Upto(n - 1) + 2 <= Len(file)
  BY <1>2, <1>3, <1>4
<1>6. key' = written[n].key /\ written[n].key \in Key
  <2>1. file[pos + 1] = <<"KEY", written[n].key>>
    BY <1>3, <1>5, EntryStands
  <2>. QED BY <1>1, <1>3, <2>1, EntryStands
<1>7. pos' = Starts(n) /\ Starts(n) \in Nat /\ Starts(n) <= Upto(n) + 1
  <2>1. Upto(n) = Starts(n) + Size(written[n].val) - 1 /\ Size(written[n].val) \in Nat
    BY <1>3, EntryStands, ValueSerialized
  <2>2. pos' = Starts(n) /\ Starts(n) \in Nat
    BY <1>1, <1>4 DEF Starts
  <2>. QED BY <2>1, <2>2
<1>8. /\ FileInv' /\ Sound' = Sound /\ Kept
      /\ \A m : Upto(m)' = Upto(m) /\ Starts(m)' = Starts(m)
      /\ \A m : Rest(m)' = Rest(m)
  BY <1>1, <1>3, FileFrame DEF Kept
<1>9. good' = TRUE
  BY <1>1, <1>2, <1>3 DEF ReaderInv
<1>10. Todo' = Rest(n)
  BY <1>1, <1>6, <1>7, <1>8, <1>9, TodoPrimes
<1>11. Reading(n)'
  BY <1>1, <1>5, <1>6, <1>7, <1>8 DEF Reading
<1>12. StackOK(stack')
  BY <1>1 DEF StackOK
<1>13. ReaderInv'
  BY <1>1, <1>3, <1>6, <1>7, <1>8, <1>9, <1>11, <1>12 DEF ReaderInv
<1>14. StoreInv' /\ Phase' = Phase
  BY <1>1, <1>3 DEF StoreInv, Phase
<1>15. UNCHANGED Promise!saveVars
  BY <1>1, <1>4, <1>8, <1>10, <1>14, AbstractStutter
<1>. QED BY <1>8, <1>13, <1>14, <1>15 DEF IInv

LEMMA ReadKeyCutStep ==
  IInv /\ ReadKeyCut => IInv' /\ [Promise!SaveNext]_(Promise!saveVars)
<1> SUFFICES ASSUME IInv, ReadKeyCut
             PROVE  IInv' /\ [Promise!SaveNext]_(Promise!saveVars)
  OBVIOUS
<1>1. /\ pc = "key" /\ pc' = "value" /\ key' = Torn /\ pos' = End
      /\ stack' = <<>> /\ good' = FALSE /\ kv' = kv /\ pending' = pending
      /\ deep' = deep /\ UNCHANGED <<file, torn, written>>
  BY DEF ReadKeyCut
<1>2. /\ FileInv /\ StoreInv /\ ReaderInv /\ pos \in Nat
      /\ Len(file) \in Nat /\ Sound \in Nat /\ Sound <= Len(file)
  BY SoundIs DEF IInv, ReaderInv
<1>3. good /\ pos <= Len(file) /\ (Sound < pos \/ Sound < pos + 1)
  BY <1>2 DEF ReadKeyCut, Whole
<1>4. PICK n \in 1 .. Len(written) :
        pos = Upto(n - 1) + 1 /\ Upto(n - 1) \in Nat /\ Todo = Rest(n)
  BY <1>1, <1>2, <1>3, NextEntry
<1>5. Upto(n - 1) < Len(file) /\ Sound < Upto(n - 1) + 2
  BY <1>2, <1>3, <1>4
<1>6. ~InFull(n)
  <2>1. Upto(n - 1) + 3 <= Upto(n) /\ Upto(n) \in Nat
    BY <1>2, UptoGrows, EntryStands
  <2>. QED BY <1>2, <1>4, <1>5, <2>1 DEF InFull
<1>7. CutKey = Torn
  <2>1. n \in CutAt
    BY <1>2, <1>5, <1>6 DEF CutAt, FileInv
  <2>2. ~(Upto(n - 1) + 2 <= Sound)
    BY <1>2, <1>4, <1>5
  <2>. QED BY <1>2, <2>1, <2>2, CutIs DEF KeyOf
<1>8. FileInv' /\ Sound' = Sound /\ End' = End /\ Kept
  BY <1>1, <1>2, FileFrame DEF Kept
<1>9. Todo = {} /\ Todo' = {}
  <2>1. Todo = {}
    BY <1>2, <1>4, <1>6, RestSteps
  <2>2. Todo' = {}
    BY <1>1, <1>8, TodoPrimes
  <2>. QED BY <2>1, <2>2
<1>10. Torn \in Key /\ Torn # Nil /\ End \in Nat /\ StackOK(stack')
  BY <1>1, <1>2, TornAssumption, NilAssumption DEF End, StackOK
<1>11. ReaderInv'
  BY <1>1, <1>2, <1>7, <1>8, <1>10 DEF ReaderInv, Kept
<1>12. StoreInv' /\ Phase' = Phase
  BY <1>1, <1>2 DEF StoreInv, Phase
<1>13. UNCHANGED Promise!saveVars
  BY <1>1, <1>8, <1>9, <1>12, AbstractStutter
<1>. QED BY <1>8, <1>11, <1>12, <1>13 DEF IInv

LEMMA LoadOpenStep ==
  IInv /\ LoadOpen => IInv' /\ [Promise!SaveNext]_(Promise!saveVars)
<1> SUFFICES ASSUME IInv, LoadOpen
             PROVE  IInv' /\ [Promise!SaveNext]_(Promise!saveVars)
  OBVIOUS
<1>1. /\ pc = "idle" /\ Sound >= 1 /\ pos' = 2 /\ good' = TRUE /\ pc' = "key"
      /\ UNCHANGED <<kv, file, torn, pending, key, stack, deep, written>>
  BY DEF LoadOpen
<1>2. FileInv /\ StoreInv /\ ReaderInv
  BY DEF IInv
<1>3. /\ FileInv' /\ Sound' = Sound /\ Kept
      /\ \A m : Upto(m)' = Upto(m)
      /\ \A m : Rest(m)' = Rest(m)
  BY <1>1, <1>2, FileFrame DEF Kept
<1>4. Len(written) \in Nat /\ Upto(0) = 1
  BY <1>2 DEF FileInv, Upto
<1>5. Todo' = Rest(1)
  <2>1. Todo' = Rest(0 + 1)'
    BY <1>1, <1>3, <1>4, TodoPrimes
  <2>. QED BY <1>3, <2>1
<1>6. Rest(1) = {k \in Key : WholeEntries[k] # Nil}
  <2>1. ASSUME NEW k \in Rest(1) PROVE k \in Key /\ WholeEntries[k] # Nil
    <3>1. PICK n \in 1 .. Len(written) : InFull(n) /\ k = written[n].key
      BY DEF Rest
    <3>2. WholeEntries[k] = written[n].val /\ written[n].val \in Value /\ k \in Key
      BY <1>2, <3>1, WholeAt, EntryStands
    <3>. QED BY <3>2, NilAssumption
  <2>2. ASSUME NEW k \in Key, WholeEntries[k] # Nil PROVE k \in Rest(1)
    <3>1. PICK n \in 1 .. Len(written) : written[n].key = k
      BY <1>2, <2>2, WholeAt
    <3>2. InFull(n)
      BY <1>2, <2>2, <3>1, WholeAt
    <3>. QED BY <3>1, <3>2 DEF Rest
  <2>. QED BY <2>1, <2>2
<1>7. ReaderInv'
  BY <1>1, <1>2, <1>3, <1>4 DEF ReaderInv
<1>8. StoreInv'
  BY <1>1, <1>2 DEF StoreInv
<1>9. Promise!BeginLoad
  <2>1. Phase = "idle" /\ Phase' = "loading"
    BY <1>1 DEF Phase
  <2>2. Todo' = Promise!Keys(WholeEntries)
    BY <1>5, <1>6 DEF Promise!Keys
  <2>. QED BY <1>1, <1>3, <2>1, <2>2 DEF Promise!BeginLoad, Kept
<1>. QED BY <1>3, <1>7, <1>8, <1>9 DEF IInv, Promise!SaveNext

-----------------------------------------------------------------------------
(* The other actions.                                                      *)

LEMMA ReaderFrame ==
  ASSUME ReaderInv, UNCHANGED reader, pc # "value", pc' \notin {"key", "value"}
  PROVE  ReaderInv'
BY DEF ReaderInv, reader

LEMMA StoreStep ==
  ASSUME IInv, NEW k \in Key, NEW v \in Values \cup {Nil}, Store(k, v)
  PROVE  IInv' /\ [Promise!SaveNext]_(Promise!saveVars)
<1>1. /\ pc = "idle" /\ pc' = "idle" /\ kv' = [kv EXCEPT ![k] = v] /\ pending' = pending
      /\ UNCHANGED <<file, torn, written>> /\ UNCHANGED reader
  BY DEF Store
<1>2. FileInv /\ StoreInv /\ ReaderInv
  BY DEF IInv
<1>3. FileInv' /\ Kept
  BY <1>1, <1>2, FileFrame DEF Kept
<1>4. StoreInv' /\ ReaderInv'
  BY <1>1, <1>2, ReaderFrame, ValuesAssumption, Widened DEF StoreInv
<1>5. Phase = "idle" /\ Phase' = "idle" /\ Todo' = Todo
  BY <1>1 DEF Phase, Todo
<1>6. Promise!Change
  BY <1>1, <1>3, <1>5 DEF Promise!Change, Kept
<1>. QED BY <1>3, <1>4, <1>6 DEF IInv, Promise!SaveNext

LEMMA EmptyIs == EmptyKv = Promise!None /\ EmptyKv \in [Key -> ReadValue \cup {Nil, Null}]
BY DEF EmptyKv, Promise!None

LEMMA CrashStep ==
  IInv /\ (ListNull \/ StackOverflow \/ Restart) => IInv' /\ [Promise!SaveNext]_(Promise!saveVars)
<1> SUFFICES ASSUME IInv, ListNull \/ StackOverflow \/ Restart
             PROVE  IInv' /\ [Promise!SaveNext]_(Promise!saveVars)
  OBVIOUS
<1>1. FileInv /\ StoreInv /\ ReaderInv
  BY DEF IInv
<1>2. kv' = EmptyKv /\ pending' = pending /\ UNCHANGED <<file, torn, written>>
  BY DEF ListNull, StackOverflow, Restart
<1>3. FileInv' /\ Kept
  BY <1>1, <1>2, FileFrame DEF Kept
<1>4. CASE ListNull
  <2>1. pc = "idle" /\ pc' = "crashed" /\ UNCHANGED reader /\ \E k \in Key : kv[k] = Null
    BY <1>4 DEF ListNull
  <2>2. StoreInv' /\ ReaderInv'
    BY <1>1, <1>2, <2>1, ReaderFrame, EmptyIs DEF StoreInv
  <2>3. Phase = "idle" /\ Phase' = "crashed" /\ Todo' = Todo
    BY <2>1 DEF Phase, Todo
  <2>4. Promise!Crash
    BY <1>2, <1>3, <2>1, <2>3, EmptyIs DEF Promise!Crash, Kept
  <2>. QED BY <1>3, <2>2, <2>4 DEF IInv, Promise!SaveNext
<1>5. CASE Restart
  <2>1. /\ pc \in {"idle", "key", "value", "crashed"} /\ pc' = "idle"
        /\ pos' = 1 /\ good' = TRUE /\ key' = Nil /\ stack' = <<>> /\ deep' = <<>>
    BY <1>5 DEF Restart, NoReader
  <2>2. StackOK(stack') /\ DeepOK(deep')
    BY <2>1 DEF StackOK, DeepOK
  <2>3. StoreInv' /\ ReaderInv'
    BY <1>1, <1>2, <2>1, <2>2, EmptyIs DEF StoreInv, ReaderInv
  <2>4. Phase # "saving" /\ Phase' = "idle" /\ Todo' = {}
    BY <2>1 DEF Phase, Todo
  <2>5. Promise!Restart
    BY <1>2, <1>3, <2>4, EmptyIs DEF Promise!Restart, Kept
  <2>. QED BY <1>3, <2>3, <2>5 DEF IInv, Promise!SaveNext
<1>6. CASE StackOverflow
  <2>1. /\ UnreadList /\ pc' = "crashed"
        /\ pos' = 1 /\ good' = TRUE /\ key' = Nil /\ stack' = <<>> /\ deep' = <<>>
    BY <1>6 DEF StackOverflow, NoReader
  <2>2. pc = "value" /\ Todo = {} /\ CutKey # Nil
    BY <2>1, UnreadMet DEF Doomed
  <2>3. StackOK(stack') /\ DeepOK(deep')
    BY <2>1 DEF StackOK, DeepOK
  <2>4. StoreInv' /\ ReaderInv'
    BY <1>1, <1>2, <2>1, <2>2, <2>3, EmptyIs DEF StoreInv, ReaderInv
  <2>5. Phase = "loading" /\ Phase' = "crashed" /\ Todo' = Todo
    BY <2>1, <2>2 DEF Phase, Todo
  <2>6. Promise!Crash
    BY <1>2, <1>3, <2>2, <2>5, EmptyIs DEF Promise!Crash, Kept
  <2>. QED BY <1>3, <2>4, <2>6 DEF IInv, Promise!SaveNext
<1>. QED BY <1>4, <1>5, <1>6

(* While a SAVE is going on, everything it has written is in the file.     *)
LEMMA AllWhole ==
  FileInv /\ ~torn /\ Len(file) = Upto(Len(written)) =>
    CutKey = Nil /\ \A n \in 1 .. Len(written) : InFull(n)
<1> SUFFICES ASSUME FileInv, ~torn, Len(file) = Upto(Len(written))
             PROVE  CutKey = Nil /\ \A n \in 1 .. Len(written) : InFull(n)
  OBVIOUS
<1>1. Len(written) \in Nat /\ Sound = Len(file) /\ Len(file) \in Nat
  BY SoundIs DEF FileInv
<1>2. ASSUME NEW n \in 1 .. Len(written) PROVE InFull(n)
  <2>1. CASE n = Len(written)
    BY <1>1, <2>1 DEF InFull
  <2>2. CASE n # Len(written)
    <3>1. Len(written) \in 1 .. Len(written) /\ n \in 0 .. Len(written) - 1
      BY <1>1, <2>2
    <3>2. /\ Upto(n) \in Nat /\ Upto(n) <= Upto(Len(written) - 1)
          /\ Upto(Len(written) - 1) + 3 <= Upto(Len(written))
          /\ Upto(Len(written) - 1) \in Nat
      BY <3>1, UptoGrows, EntryStands
    <3>. QED BY <1>1, <3>2 DEF InFull
  <2>. QED BY <2>1, <2>2
<1>3. CutAt = {}
  BY <1>2 DEF CutAt, FileInv
<1>. QED BY <1>2, <1>3, CutIs

LEMMA SaveOpenStep ==
  IInv /\ SaveOpen => IInv' /\ [Promise!SaveNext]_(Promise!saveVars)
<1> SUFFICES ASSUME IInv, SaveOpen
             PROVE  IInv' /\ [Promise!SaveNext]_(Promise!saveVars)
  OBVIOUS
<1>1. /\ pc = "idle" /\ \A k \in Key : kv[k] \in Values \cup {Nil, Null}
      /\ kv[Torn] \in {Nil, Null}
      /\ file' = << <<"HEAD">> >> /\ torn' = FALSE /\ written' = <<>>
      /\ pending' = {k \in Key : kv[k] # Nil} /\ pc' = "save" /\ kv' = kv /\ UNCHANGED reader
  BY DEF SaveOpen
<1>2. FileInv /\ StoreInv /\ ReaderInv
  BY DEF IInv
<1>3. file' \in Seq(Unit) /\ Len(file') = 1 /\ Len(written') = 0 /\ Upto(0)' = 1
  <2>1. <<"HEAD">> \in Unit
    BY UnitOf DEF Mark
  <2>. QED BY <1>1, <2>1 DEF Upto
<1>4. FileInv'
  <2>1. written' \in Seq(Saved) /\ 1 .. Len(written') = {}
    BY <1>1, <1>3
  <2>2. Len(file') <= Upto(Len(written))'
    BY <1>1, <1>3
  <2>. QED BY <1>1, <1>3, <2>1, <2>2 DEF FileInv
<1>5. StoreInv' /\ ReaderInv'
  BY <1>1, <1>2, <1>3, ReaderFrame DEF StoreInv
<1>6. CutKey' = Nil
  <2>1. (FileInv /\ ~torn /\ Len(file) = Upto(Len(written)) =>
           CutKey = Nil /\ \A n \in 1 .. Len(written) : InFull(n))'
    BY AllWhole, PTL
  <2>. QED BY <1>1, <1>3, <1>4, <2>1
<1>7. WholeEntries' = Promise!None
  <2>1. (FileInv =>
           /\ \A n \in 1 .. Len(written) :
                WholeEntries[written[n].key] = IF InFull(n) THEN written[n].val ELSE Nil
           /\ \A k \in Key : (\A n \in 1 .. Len(written) : written[n].key # k)
                               => WholeEntries[k] = Nil)'
    BY WholeAt, PTL
  <2>2. \A k \in Key : WholeEntries'[k] = Nil
    BY <1>3, <1>4, <2>1
  <2>3. WholeEntries' = [k \in Key |-> WholeEntries'[k]]
    BY DEF WholeEntries
  <2>. QED BY <2>2, <2>3 DEF Promise!None
<1>8. Phase = "idle" /\ Phase' = "saving" /\ Todo' = pending'
  BY <1>1 DEF Phase, Todo
<1>9. Promise!BeginSave
  BY <1>1, <1>6, <1>7, <1>8 DEF Promise!BeginSave, Promise!Keys
<1>. QED BY <1>4, <1>5, <1>9 DEF IInv, Promise!SaveNext

LEMMA SaveDoneStep ==
  IInv /\ SaveDone => IInv' /\ [Promise!SaveNext]_(Promise!saveVars)
<1> SUFFICES ASSUME IInv, SaveDone
             PROVE  IInv' /\ [Promise!SaveNext]_(Promise!saveVars)
  OBVIOUS
<1>1. /\ pc = "save" /\ pending = {} /\ pc' = "idle"
      /\ UNCHANGED <<kv, pending>> /\ UNCHANGED <<file, torn, written>> /\ UNCHANGED reader
  BY DEF SaveDone
<1>2. FileInv /\ StoreInv /\ ReaderInv
  BY DEF IInv
<1>3. FileInv' /\ Kept
  BY <1>1, <1>2, FileFrame DEF Kept
<1>4. StoreInv' /\ ReaderInv'
  BY <1>1, <1>2, ReaderFrame DEF StoreInv
<1>5. Phase = "saving" /\ Phase' = "idle" /\ Todo = {} /\ Todo' = {}
  BY <1>1 DEF Phase, Todo
<1>6. Promise!EndSave
  BY <1>1, <1>3, <1>5 DEF Promise!EndSave, Kept
<1>. QED BY <1>3, <1>4, <1>6 DEF IInv, Promise!SaveNext

LEMMA CutFileKeeps ==
  ASSUME FileInv, CutFile, written' = written
  PROVE  FileInv'
<1>1. PICK m \in 0 .. Len(file) :
        /\ file' = SubSeq(file, 1, m)
        /\ torn' \in (IF m > 0 /\ Long(file[m]) THEN BOOLEAN ELSE {FALSE})
  BY DEF CutFile
<1>2. /\ file' \in Seq(Unit) /\ Len(file') = m /\ Len(file') <= Len(file)
      /\ \A j \in 1 .. Len(file') : file'[j] = file[j]
  BY <1>1 DEF FileInv
<1>3. torn' \in BOOLEAN /\ (torn' => Len(file') > 0)
  BY <1>1, <1>2
<1>4. \A n : Upto(n)' = Upto(n)
  BY DEF Upto
<1>5. ASSUME NEW n \in 1 .. Len(written) PROVE Written(n)'
  <2>1. Written(n) /\ Upto(n - 1) \in Nat
    BY EntryStands DEF FileInv
  <2>2. ASSUME NEW u, NEW p \in Nat, Fits(file, p + 1, u), Len(u) \in Nat PROVE Fits(file', p + 1, u)
    <3> SUFFICES ASSUME NEW j \in 1 .. Len(u), p + 1 + j - 1 <= Len(file')
                 PROVE  file'[p + 1 + j - 1] = u[j]
      BY DEF Fits
    <3>1. p + 1 + j - 1 \in 1 .. Len(file') /\ p + 1 + j - 1 <= Len(file)
      BY <1>1, <1>2, <2>2
    <3>. QED BY <1>2, <2>2, <3>1 DEF Fits
  <2>3. PICK u : u = Entry(written[n].key, written[n].val)
    OBVIOUS
  <2>4. Len(u) \in Nat
    BY <2>3, EntryStands, EntrySerialized
  <2>5. Fits(file', Upto(n - 1) + 1, u)
    BY <2>1, <2>2, <2>3, <2>4 DEF Written
  <2>. QED BY <1>4, <2>1, <2>3, <2>5 DEF Written
<1>6. Len(file') <= Upto(Len(written))'
  <2>1. Len(file) <= Upto(Len(written)) /\ Upto(Len(written)) \in Nat
    <3>1. Len(written) \in Nat
      BY DEF FileInv
    <3>2. CASE Len(written) = 0
      BY <3>2 DEF FileInv, Upto
    <3>3. CASE Len(written) # 0
      <4>1. Len(written) \in 1 .. Len(written)
        BY <3>1, <3>3
      <4>. QED BY <4>1, EntryStands DEF FileInv
    <3>. QED BY <3>2, <3>3
  <2>2. Upto(Len(written))' = Upto(Len(written))
    BY DEF Upto
  <2>3. Len(file) \in Nat
    BY SoundIs
  <2>. QED BY <1>1, <1>2, <2>1, <2>2, <2>3
<1>. QED BY <1>2, <1>3, <1>5, <1>6 DEF FileInv

LEMMA FilePrimes ==
  ASSUME FileInv'
  PROVE  /\ \A n \in 1 .. Len(written)' :
              WholeEntries'[written'[n].key] = IF InFull(n)' THEN written'[n].val ELSE Nil
         /\ \A k \in Key : (\A n \in 1 .. Len(written)' : written'[n].key # k)
                             => WholeEntries'[k] = Nil
         /\ WholeEntries' \in [Key -> Values \cup {Nil}]
         /\ CutKey' \in Key \cup {Nil} /\ (CutKey' # Nil => WholeEntries'[CutKey'] = Nil)
         /\ ~torn' /\ Len(file)' = Upto(Len(written))' =>
              CutKey' = Nil /\ \A n \in 1 .. Len(written)' : InFull(n)'
<1>1. (FileInv =>
        /\ \A n \in 1 .. Len(written) :
             WholeEntries[written[n].key] = IF InFull(n) THEN written[n].val ELSE Nil
        /\ \A k \in Key : (\A n \in 1 .. Len(written) : written[n].key # k)
                            => WholeEntries[k] = Nil)'
  BY WholeAt, PTL
<1>2. (FileInv => WholeEntries \in [Key -> Values \cup {Nil}])'
  BY WholeType, PTL
<1>3. (FileInv => /\ CutKey \in Key \cup {Nil}
                  /\ CutKey # Nil => WholeEntries[CutKey] = Nil)'
  BY CutType, PTL
<1>4. (FileInv /\ ~torn /\ Len(file) = Upto(Len(written)) =>
         CutKey = Nil /\ \A n \in 1 .. Len(written) : InFull(n))'
  BY AllWhole, PTL
<1>. QED BY <1>1, <1>2, <1>3, <1>4

LEMMA SaveCutStep ==
  IInv /\ (SaveKilled \/ SaveLost) => IInv' /\ [Promise!SaveNext]_(Promise!saveVars)
<1> SUFFICES ASSUME IInv, SaveKilled \/ SaveLost
             PROVE  IInv' /\ [Promise!SaveNext]_(Promise!saveVars)
  OBVIOUS
<1>1. /\ pc = "save" /\ CutFile /\ pending' = {} /\ written' = written /\ UNCHANGED reader
      /\ (kv' = EmptyKv /\ pc' = "crashed") \/ (kv' = kv /\ pc' = "idle")
  BY DEF SaveKilled, SaveLost
<1>2. FileInv /\ StoreInv /\ ReaderInv
  BY DEF IInv
<1>3. FileInv'
  BY <1>1, <1>2, CutFileKeeps
<1>4. StoreInv' /\ ReaderInv'
  BY <1>1, <1>2, ReaderFrame, EmptyIs DEF StoreInv
<1>5. Phase = "saving" /\ Phase' \in {"idle", "crashed"} /\ Todo' = {}
  BY <1>1 DEF Phase, Todo
<1>6. ASSUME NEW k \in Key PROVE WholeEntries'[k] \in {Nil, WholeEntries[k]}
  <2>1. CASE \E n \in 1 .. Len(written) : written[n].key = k
    <3>1. PICK n \in 1 .. Len(written) : written[n].key = k
      BY <2>1
    <3>2. InFull(n)
      BY <1>1, <1>2, AllWhole DEF StoreInv
    <3>3. WholeEntries[k] = written[n].val
      BY <1>2, <3>1, <3>2, WholeAt
    <3>4. WholeEntries'[k] = IF InFull(n)' THEN written[n].val ELSE Nil
      BY <1>1, <1>3, <3>1, FilePrimes
    <3>. QED BY <3>3, <3>4
  <2>2. CASE \A n \in 1 .. Len(written) : written[n].key # k
    BY <1>1, <1>3, <2>2, FilePrimes
  <2>. QED BY <2>1, <2>2
<1>7. /\ WholeEntries' \in [Key -> Values \cup {Nil}]
      /\ CutKey' \in Key \cup {Nil} /\ (CutKey' # Nil => WholeEntries'[CutKey'] = Nil)
  BY <1>3, FilePrimes
<1>8. Promise!Lose
  BY <1>1, <1>5, <1>6, <1>7, EmptyIs DEF Promise!Lose
<1>. QED BY <1>3, <1>4, <1>8 DEF IInv, Promise!SaveNext

LEMMA SaveEntryKeeps ==
  ASSUME IInv, NEW k \in Key, SaveEntry(k)
  PROVE  /\ FileInv' /\ Len(file)' = Upto(Len(written))' /\ kv[k] \in Values
         /\ Len(written') = Len(written) + 1 /\ Len(written) \in Nat
         /\ written'[Len(written) + 1].key = k /\ written'[Len(written) + 1].val = kv[k]
         /\ \A n \in 1 .. Len(written) : written'[n] = written[n]
<1>1. /\ pc = "save" /\ k \in pending /\ kv[k] # Null
      /\ file' = file \o Entry(k, kv[k]) /\ torn' = torn
      /\ written' = Append(written, [key |-> k, val |-> kv[k], upto |-> Len(file')])
  BY DEF SaveEntry
<1>2. /\ FileInv /\ kv[k] \in Values /\ ~torn /\ Len(file) = Upto(Len(written))
      /\ \A n \in 1 .. Len(written) : written[n].key # k
      /\ kv[Torn] \in {Nil, Null}
  BY <1>1 DEF IInv, StoreInv
<1>3. k # Torn /\ kv[k] \in Value
  BY <1>2, ValuesAssumption, TornAssumption, NilAssumption
<1>4. PICK N, e, w : N = Len(written) /\ e = Entry(k, kv[k]) /\ w = file'
  OBVIOUS
<1>5. e \in Seq(Unit) /\ file \in Seq(Unit) /\ Len(file) \in Nat /\ N \in Nat /\ written \in Seq(Saved)
  <2>1. Entry(k, kv[k]) \in Seq(Unit)
    BY <1>3, EntrySerialized
  <2>2. e \in Seq(Unit)
    BY <1>4, <2>1
  <2>3. file \in Seq(Unit) /\ written \in Seq(Saved)
    BY <1>2 DEF FileInv
  <2>4. Len(file) \in Nat /\ Len(written) \in Nat
    BY <2>3
  <2>. QED BY <1>4, <2>2, <2>3, <2>4
<1>6. Joins(w, file, e)
  BY <1>1, <1>4 DEF Joins
<1>7. w \in Seq(Unit) /\ Len(w) = Len(file) + Len(e) /\ BeginsWith(w, file) /\ Follows(w, file, e)
  BY <1>5, <1>6, Concatenation
<1>8. PICK r : r = [key |-> k, val |-> kv[k], upto |-> Len(w)]
  OBVIOUS
<1>9. written' = Append(written, r) /\ r \in Saved
  BY <1>1, <1>2, <1>4, <1>7, <1>8 DEF Saved
<1>10. /\ written' \in Seq(Saved) /\ Len(written') = N + 1 /\ written'[N + 1] = r
       /\ \A n \in 1 .. N : written'[n] = written[n]
  BY <1>4, <1>5, <1>9
<1>11. /\ \A n \in 0 .. N : Upto(n)' = Upto(n)
       /\ Upto(N + 1)' = Len(w)
  BY <1>5, <1>8, <1>10 DEF Upto
<1>12. Upto(N) = Len(file)
  BY <1>2, <1>4
<1>13. \A m \in 0 .. N : Upto(m) \in Nat /\ Upto(m) <= Upto(N)
  <2>1. CASE N = 0
    BY <1>5, <1>12, <2>1
  <2>2. CASE N # 0
    <3> SUFFICES ASSUME NEW m \in 0 .. N PROVE Upto(m) \in Nat /\ Upto(m) <= Upto(N)
      OBVIOUS
    <3>1. CASE m = N
      BY <1>5, <1>12, <3>1
    <3>2. CASE m # N
      <4>1. N \in 1 .. Len(written) /\ m \in 0 .. N - 1
        BY <1>4, <1>5, <2>2, <3>2
      <4>2. Upto(m) \in Nat /\ Upto(m) <= Upto(N - 1) /\ Upto(N - 1) + 3 <= Upto(N) /\ Upto(N - 1) \in Nat
        BY <1>2, <4>1, UptoGrows, EntryStands
      <4>. QED BY <1>5, <1>12, <4>2
    <3>. QED BY <3>1, <3>2
  <2>. QED BY <2>1, <2>2
<1>14. ASSUME NEW n \in 1 .. N PROVE Written(n)'
  <2>1. n \in 1 .. Len(written) /\ n \in 0 .. N /\ n - 1 \in 0 .. N
    BY <1>4, <1>5
  <2>2. Written(n)
    BY <1>2, <2>1 DEF FileInv
  <2>3. PICK u : u = Entry(written[n].key, written[n].val)
    OBVIOUS
  <2>4. Len(u) \in Nat
    BY <1>2, <2>1, <2>3, EntryStands, EntrySerialized
  <2>5. Upto(n) = Upto(n - 1) + Len(u) /\ Fits(file, Upto(n - 1) + 1, u)
    BY <2>2, <2>3 DEF Written
  <2>6. Fits(w, Upto(n - 1) + 1, u)
    <3> SUFFICES ASSUME NEW j \in 1 .. Len(u)
                 PROVE  w[Upto(n - 1) + 1 + j - 1] = u[j]
      BY DEF Fits
    <3>1. Upto(n - 1) \in Nat /\ Upto(n) <= Len(file)
      BY <1>12, <1>13, <2>1
    <3>2. Upto(n - 1) + 1 + j - 1 \in 1 .. Len(file)
      BY <1>5, <2>4, <2>5, <3>1
    <3>. QED BY <1>7, <2>5, <3>2 DEF Fits, BeginsWith
  <2>7. \A m \in 0 .. n - 1 : m \in 0 .. N
    BY <1>5
  <2>8. \A m \in 0 .. n - 1 : Upto(m)' <= Upto(n - 1)'
    BY <1>11, <2>1, <2>2, <2>7 DEF Written
  <2>9. ASSUME NEW m \in 1 .. n - 1 PROVE written'[m].key # written'[n].key
    <3>1. m \in 1 .. N
      BY <1>5
    <3>2. written'[m] = written[m] /\ written'[n] = written[n]
      BY <1>10, <3>1
    <3>3. written[m].key # written[n].key
      BY <2>2 DEF Written
    <3>. QED BY <3>2, <3>3
  <2>10. /\ Upto(n)' = Upto(n - 1)' + Len(u) /\ Fits(file', Upto(n - 1)' + 1, u)
         /\ u = Entry(written'[n].key, written'[n].val) /\ written'[n].key # Torn
    BY <1>4, <1>10, <1>11, <2>1, <2>2, <2>3, <2>5, <2>6 DEF Written
  <2>. QED BY <2>8, <2>9, <2>10 DEF Written
<1>15. Written(N + 1)'
  <2>1. r.key = k /\ r.val = kv[k] /\ (N + 1) - 1 = N
    BY <1>5, <1>8
  <2>2. Upto(N + 1)' = Upto(N)' + Len(e)
    <3>1. N \in 0 .. N
      BY <1>5
    <3>2. Upto(N)' = Len(file)
      BY <1>11, <1>12, <3>1
    <3>. QED BY <1>7, <1>11, <3>2
  <2>3. Fits(w, Upto(N) + 1, e)
    <3> SUFFICES ASSUME NEW j \in 1 .. Len(e)
                 PROVE  w[Len(file) + 1 + j - 1] = e[j]
      BY <1>12 DEF Fits
    <3>1. Len(file) + 1 + j - 1 = Len(file) + j
      BY <1>5
    <3>. QED BY <1>7, <3>1 DEF Follows
  <2>4. Upto(N)' = Upto(N) /\ \A m \in 0 .. N : Upto(m)' <= Upto(N)'
    BY <1>5, <1>11, <1>13
  <2>5. \A m \in 1 .. N : written'[m].key # written'[N + 1].key
    BY <1>2, <1>4, <1>10, <2>1
  <2>. QED BY <1>3, <1>4, <1>10, <2>1, <2>2, <2>3, <2>4, <2>5 DEF Written
<1>16. \A n \in 1 .. Len(written') : Written(n)'
  <2>1. \A n \in 1 .. N + 1 : n \in 1 .. N \/ n = N + 1
    BY <1>5
  <2>. QED BY <1>10, <1>14, <1>15, <2>1
<1>17. Len(file)' = Upto(Len(written))'
  BY <1>4, <1>10, <1>11
<1>18. FileInv'
  <2>1. file' \in Seq(Unit) /\ torn' = FALSE
    BY <1>1, <1>2, <1>4, <1>7 DEF FileInv
  <2>2. Len(file') <= Upto(Len(written))'
    <3>1. Len(file') \in Nat
      BY <2>1
    <3>. QED BY <1>17, <3>1
  <2>. QED BY <1>10, <1>16, <2>1, <2>2 DEF FileInv
<1>. QED BY <1>2, <1>4, <1>5, <1>8, <1>10, <1>17, <1>18

LEMMA SaveEntryStep ==
  ASSUME IInv, NEW k \in Key, SaveEntry(k)
  PROVE  IInv' /\ [Promise!SaveNext]_(Promise!saveVars)
<1>1. /\ pc = "save" /\ pc' = "save" /\ k \in pending /\ pending' = pending \ {k}
      /\ UNCHANGED kv /\ torn' = torn /\ UNCHANGED reader
  BY DEF SaveEntry
<1>2. FileInv /\ StoreInv /\ ReaderInv
  BY DEF IInv
<1>3. PICK N \in Nat : N = Len(written)
  BY SaveEntryKeeps
<1>4. /\ FileInv' /\ Len(file)' = Upto(Len(written))' /\ kv[k] \in Values
      /\ Len(written') = N + 1
      /\ written'[N + 1].key = k /\ written'[N + 1].val = kv[k]
      /\ \A n \in 1 .. N : written'[n] = written[n]
  BY <1>3, SaveEntryKeeps
<1>5. ~torn /\ Len(file) = Upto(Len(written)) /\ ~torn'
  BY <1>1, <1>2 DEF StoreInv
<1>6. CutKey = Nil /\ \A n \in 1 .. N : InFull(n)
  BY <1>2, <1>3, <1>5, AllWhole
<1>7. CutKey' = Nil /\ \A n \in 1 .. N + 1 : InFull(n)'
  BY <1>4, <1>5, FilePrimes
<1>8. \A n \in 1 .. N + 1 : n \in 1 .. N \/ n = N + 1
  BY <1>3
<1>9. StoreInv'
  <2>1. \A n \in 1 .. N : written[n].key \notin pending
    BY <1>1, <1>2, <1>3 DEF StoreInv
  <2>2. \A n \in 1 .. N + 1 : written'[n].key \notin pending'
    BY <1>1, <1>4, <1>8, <2>1
  <2>. QED BY <1>1, <1>2, <1>4, <1>5, <2>2 DEF StoreInv
<1>10. ReaderInv'
  BY <1>1, <1>2, ReaderFrame
<1>11. ASSUME NEW h \in Key
       PROVE  WholeEntries'[h] = IF h = k THEN kv[k] ELSE WholeEntries[h]
  <2>1. CASE h = k
    <3>1. N + 1 \in 1 .. N + 1
      BY <1>3
    <3>. QED BY <1>4, <1>7, <2>1, <3>1, FilePrimes
  <2>2. CASE h # k /\ \E n \in 1 .. N : written[n].key = h
    <3>1. PICK n \in 1 .. N : written[n].key = h
      BY <2>2
    <3>2. n \in 1 .. N + 1 /\ written'[n] = written[n]
      BY <1>3, <1>4
    <3>3. WholeEntries[h] = written[n].val
      BY <1>2, <1>3, <1>6, <3>1, WholeAt
    <3>4. WholeEntries'[written'[n].key] = written'[n].val
      BY <1>4, <1>7, <3>2, FilePrimes
    <3>. QED BY <2>2, <3>1, <3>2, <3>3, <3>4
  <2>3. CASE h # k /\ \A n \in 1 .. N : written[n].key # h
    <3>1. WholeEntries[h] = Nil
      BY <1>2, <1>3, <2>3, WholeAt
    <3>2. \A n \in 1 .. N + 1 : written'[n].key # h
      BY <1>4, <1>8, <2>3
    <3>3. WholeEntries'[h] = Nil
      BY <1>4, <3>2, FilePrimes
    <3>. QED BY <2>3, <3>1, <3>3
  <2>. QED BY <2>1, <2>2, <2>3
<1>12. WholeEntries' = [WholeEntries EXCEPT ![k] = kv[k]]
  <2>1. WholeEntries \in [Key -> Values \cup {Nil}] /\ WholeEntries' \in [Key -> Values \cup {Nil}]
    BY <1>2, <1>4, WholeType, FilePrimes
  <2>. QED BY <1>11, <2>1
<1>13. Phase = "saving" /\ Phase' = "saving" /\ Todo = pending /\ Todo' = pending'
  BY <1>1 DEF Phase, Todo
<1>14. Promise!SaveOne(k)
  BY <1>1, <1>4, <1>6, <1>7, <1>12, <1>13 DEF Promise!SaveOne
<1>. QED BY <1>4, <1>9, <1>10, <1>14 DEF IInv, Promise!SaveNext

-----------------------------------------------------------------------------
(* The invariant and the promise.                                          *)

LEMMA InitStep == Init => IInv /\ Promise!SaveInit
<1> SUFFICES ASSUME Init PROVE IInv /\ Promise!SaveInit
  OBVIOUS
<1>1. /\ kv = EmptyKv /\ file = <<>> /\ torn = FALSE /\ pending = {} /\ written = <<>>
      /\ pos = 1 /\ good = TRUE /\ key = Nil /\ stack = <<>> /\ deep = <<>> /\ pc = "idle"
  BY DEF Init
<1>2. FileInv
  <2>1. file \in Seq(Unit) /\ written \in Seq(Saved) /\ Len(file) = 0 /\ Len(written) = 0
    BY <1>1
  <2>2. torn = FALSE /\ Upto(0) = 1 /\ 1 .. Len(written) = {}
    BY <1>1 DEF Upto
  <2>3. Len(file) <= Upto(Len(written))
    BY <2>1, <2>2
  <2>. QED BY <2>1, <2>2, <2>3 DEF FileInv
<1>3. StoreInv
  BY <1>1, EmptyIs DEF StoreInv
<1>4. ReaderInv
  <2>1. StackOK(stack) /\ DeepOK(deep)
    BY <1>1 DEF StackOK, DeepOK
  <2>. QED BY <1>1, <2>1 DEF ReaderInv
<1>5. WholeEntries = Promise!None
  <2>1. \A k \in Key : WholeEntries[k] = Nil
    <3>1. 1 .. Len(written) = {}
      BY <1>1
    <3>. QED BY <1>2, <3>1, WholeAt
  <2>2. WholeEntries = [k \in Key |-> WholeEntries[k]]
    BY DEF WholeEntries
  <2>. QED BY <2>1, <2>2 DEF Promise!None
<1>6. CutKey = Nil
  <2>1. CutAt = {}
    BY <1>1 DEF CutAt
  <2>. QED BY <1>2, <2>1, CutIs
<1>7. Phase = "idle" /\ Todo = {}
  BY <1>1 DEF Phase, Todo
<1>. QED BY <1>1, <1>2, <1>3, <1>4, <1>5, <1>6, <1>7, EmptyIs DEF IInv, Promise!SaveInit

LEMMA StepLemma ==
  IInv /\ [Next]_vars => IInv' /\ [Promise!SaveNext]_(Promise!saveVars)
<1> SUFFICES ASSUME IInv, [Next]_vars
             PROVE  IInv' /\ [Promise!SaveNext]_(Promise!saveVars)
  OBVIOUS
<1>1. CASE \E k \in Key, v \in Values \cup {Nil} : Store(k, v)
  BY <1>1, StoreStep
<1>2. CASE ListNull \/ StackOverflow \/ Restart
  BY <1>2, CrashStep
<1>3. CASE SaveOpen
  BY <1>3, SaveOpenStep
<1>4. CASE SaveDone
  BY <1>4, SaveDoneStep
<1>5. CASE SaveKilled \/ SaveLost
  BY <1>5, SaveCutStep
<1>6. CASE \E k \in Key : SaveEntry(k)
  BY <1>6, SaveEntryStep
<1>7. CASE LoadOpen
  BY <1>7, LoadOpenStep
<1>8. CASE LoadStep
  <2>1. CASE LoadDone \/ KeySizeTooLarge
    BY <2>1, LoadDoneStep
  <2>2. CASE ReadKey
    BY <2>2, ReadKeyStep
  <2>3. CASE ReadKeyCut
    BY <2>3, ReadKeyCutStep
  <2>4. CASE ReadNumber
    BY <2>4, ReadNumberStep
  <2>5. CASE ReadText
    BY <2>5, ReadTextStep
  <2>6. CASE ReadTextCut
    BY <2>6, ReadTextCutStep
  <2>7. CASE ReadList
    BY <2>7, ReadListStep
  <2>8. CASE OpenUnread \/ ReadUnread \/ CloseUnread
    BY <2>8, OpenUnreadStep, ReadUnreadStep, CloseUnreadStep
  <2>9. CASE CloseList
    BY <2>9, CloseListStep
  <2>10. CASE ReadNothing
    BY <2>10, ReadNothingStep
  <2>11. CASE LoadThrows
    BY <2>11, LoadThrowsStep
  <2>. QED BY <1>2, <1>8, <2>1, <2>2, <2>3, <2>4, <2>5, <2>6, <2>7, <2>8, <2>9, <2>10, <2>11 DEF LoadStep
<1>9. CASE UNCHANGED vars
  <2>1. /\ UNCHANGED <<kv, pending, pos, good, key, stack, deep, pc>> /\ UNCHANGED <<file, torn, written>>
    BY <1>9 DEF vars, reader
  <2>2. FileInv /\ StoreInv /\ ReaderInv
    BY DEF IInv
  <2>3. /\ FileInv' /\ Sound' = Sound /\ End' = End /\ Kept
        /\ \A n : Upto(n)' = Upto(n) /\ Starts(n)' = Starts(n) /\ InFull(n)' = InFull(n)
    BY <2>1, <2>2, FileFrame DEF Kept
  <2>4. StoreInv'
    BY <2>1, <2>2, <2>3 DEF StoreInv
  <2>5. \A n : Reading(n)' = Reading(n)
    BY <2>1, <2>3 DEF Reading, Inside
  <2>6. ReaderInv'
    BY <2>1, <2>2, <2>3, <2>5 DEF ReaderInv, Kept
  <2>7. Phase' = Phase /\ ToLoad' = ToLoad
    BY <2>1, <2>3 DEF Phase, ToLoad
  <2>8. Todo' = Todo
    BY <2>1, <2>7 DEF Todo
  <2>9. UNCHANGED Promise!saveVars
    BY <2>1, <2>3, <2>7, <2>8, AbstractStutter
  <2>. QED BY <2>3, <2>4, <2>6, <2>9 DEF IInv
<1>. QED BY <1>1, <1>2, <1>3, <1>4, <1>5, <1>6, <1>7, <1>8, <1>9 DEF Next

(* The position of a reading stream that has not failed.                   *)
LEMMA PositionOf ==
  ASSUME IInv, pc \in {"key", "value"}
  PROVE  pos \in 2 .. End + 1
<1>1. FileInv /\ ReaderInv /\ StackOK(stack)
  BY DEF IInv, ReaderInv
<1>2. /\ Len(file) \in Nat /\ Sound \in Nat /\ Sound <= Len(file) /\ 1 <= Sound
      /\ pos \in Nat /\ good \in BOOLEAN /\ End = Len(file) + 1
  BY <1>1, SoundIs DEF ReaderInv, End
<1>3. CASE ~good
  <2>1. pos = End
    BY <1>1, <1>3 DEF ReaderInv
  <2>. QED BY <1>2, <2>1
<1>4. CASE good /\ pc = "key"
  <2>1. PICK n \in 0 .. Len(written) : pos = Upto(n) + 1 /\ Upto(n) <= Sound
    BY <1>1, <1>4 DEF ReaderInv
  <2>2. Upto(n) \in Nat /\ 1 <= Upto(n)
    <3>1. CASE n = 0
      BY <3>1 DEF Upto
    <3>2. CASE n # 0
      <4>1. n \in 1 .. Len(written) /\ 0 \in 0 .. n - 1
        BY <3>2
      <4>2. Upto(n) \in Nat /\ Upto(n - 1) \in Nat /\ 1 <= Upto(n - 1)
        BY <1>1, <4>1, EntryStands
      <4>3. Upto(n - 1) + 3 <= Upto(n)
        BY <1>1, <4>1, UptoGrows
      <4>. QED BY <4>2, <4>3
    <3>. QED BY <3>1, <3>2
  <2>. QED BY <1>2, <2>1, <2>2
<1>5. CASE good /\ pc = "value"
  <2>1. PICK n \in 1 .. Len(written) : Reading(n)
    BY <1>1, <1>5 DEF ReaderInv
  <2>2. Starts(n) = Upto(n - 1) + 4 /\ Upto(n - 1) \in Nat /\ Upto(n - 1) + 2 <= Sound
    BY <1>1, <2>1, EntryStands DEF Reading, Starts
  <2>3. CASE stack = <<>> /\ pos = Starts(n)
    BY <1>2, <2>2, <2>3
  <2>4. CASE Inside(stack, n, pos) /\ pos - 1 <= Sound
    <3>1. Starts(n) + 2 <= pos
      BY <1>1, <2>4, InsideGoesOn
    <3>. QED BY <1>2, <2>2, <2>4, <3>1
  <2>. QED BY <2>1, <2>3, <2>4 DEF Reading
<1>. QED BY <1>2, <1>3, <1>4, <1>5

LEMMA TypesFollow == IInv => SaveTypeOK
<1> SUFFICES ASSUME IInv PROVE SaveTypeOK
  OBVIOUS
<1>1. FileInv /\ StoreInv /\ ReaderInv
  BY DEF IInv
<1>2. /\ kv \in [Key -> ReadValue \cup {Nil, Null}] /\ torn \in BOOLEAN /\ good \in BOOLEAN
      /\ pending \subseteq Key /\ key \in Key \cup {Nil}
      /\ pc \in {"idle", "save", "key", "value", "crashed"}
      /\ deep \in Seq(Nat) /\ (deep # <<>> => pc = "value" /\ ~good)
  BY <1>1 DEF FileInv, StoreInv, ReaderInv, DeepOK
<1>3. ASSUME NEW j \in DOMAIN stack, NEW l \in DOMAIN stack[j].items
      PROVE  stack[j].items[l] \in ReadItem
  <2>1. stack \in Seq([items : Seq(ReadItem), wanted : Nat])
    BY <1>1 DEF ReaderInv, StackOK
  <2>2. stack[j].items \in Seq(ReadItem)
    <3> DEFINE F == [items : Seq(ReadItem), wanted : Nat]
    <3>1. stack \in Seq(F)
      BY <2>1
    <3> HIDE DEF F
    <3>2. stack[j] \in F
      BY <3>1
    <3>. QED BY <3>2 DEF F
  <2>. QED BY <2>2
<1>4. pc \in {"key", "value"} => pos \in 2 .. End + 1
  BY PositionOf
<1>. QED BY <1>2, <1>3, <1>4 DEF SaveTypeOK

(* Every element of a list that is being read is a value, a list nobody    *)
(* wrote is met by a stream that has failed only, and no read starts       *)
(* further than one unit past the end of the file, however many entries it *)
(* has and wherever it was cut (StoreValue::fromFile,                      *)
(* ListValue::deserialize, Store::loadFromFile).                           *)
THEOREM SaveTypesAreKept == Spec => []SaveTypeOK
<1>1. Init => IInv
  BY InitStep
<1>2. IInv /\ [Next]_vars => IInv'
  BY StepLemma
<1>. QED BY <1>1, <1>2, TypesFollow, PTL DEF Spec

(* The bytes keep the promise of SaveSpec: of a file that ends anywhere,   *)
(* LOAD restores every entry written whole exactly as SAVE found it, all   *)
(* of them before anything else, and can spoil no key but the one whose    *)
(* entry is cut (Store::saveToFile, Store::loadFromFile, serialize and     *)
(* deserialize of src/store_value.cpp).                                    *)
THEOREM SaveKeepsPromise == Spec => KeepsSaveSpec
<1>1. Init => IInv /\ Promise!SaveInit
  BY InitStep
<1>2. IInv /\ [Next]_vars => IInv' /\ [Promise!SaveNext]_(Promise!saveVars)
  BY StepLemma
<1>. QED BY <1>1, <1>2, PTL DEF Spec, KeepsSaveSpec, Promise!Save
=============================================================================
