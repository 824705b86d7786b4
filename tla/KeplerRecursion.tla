-------------------------- MODULE KeplerRecursion --------------------------
(***************************************************************************)
(* Lemmas about what Store::resolveRecur_ computes, for every store with   *)
(* finitely many entries.                                                  *)
(***************************************************************************)
EXTENDS KeplerValues, KeplerInduction

(* Store::resolveRecur_.                                                   *)

(* One call, with g for the calls it makes.                                *)
Call(g, kv, inLists, seen, k) ==
  LET v       == kv[k]
      seenK   == seen \cup {k}
      Elem(e) == IF e.type = "IDENTIFIER" THEN g[seenK][e.val]
                                          ELSE Outcome("FOUND", k, e)
      elems   == [j \in DOMAIN v.val |-> Elem(v.val[j])]
  IN  CASE k \in seen                   -> Circular
        [] k \notin seen /\ v = Nil     -> Missing
        [] k \notin seen /\ v # Nil     ->
             IF v.type = "IDENTIFIER" THEN g[seenK][v.val]
             ELSE IF ~(v.type = "LIST" /\ inLists) THEN Outcome("FOUND", k, v)
             ELSE IF \E j \in DOMAIN elems : elems[j] = Circular THEN Circular
             ELSE Outcome("FOUND", k,
                    [v EXCEPT !.val = [j \in DOMAIN elems |-> elems[j].val]])

Solves(g, kv, inLists) == g = [seen \in SUBSET Key |-> [k \in Key |-> Call(g, kv, inLists, seen, k)]]

LEMMA ResolveChooses ==
  ASSUME NEW kv, NEW inLists
  PROVE  ResolveRecur(kv, inLists) = CHOOSE g : Solves(g, kv, inLists)
BY DEF ResolveRecur, Solves, Call

LEMMA ItemShapes ==
  ASSUME NEW e \in Item
  PROVE  /\ e.type = "IDENTIFIER" <=> IsIdent(e)
         /\ e.type = "IDENTIFIER" => e.val \in Key
BY DEF Item, Scalar, IntVal, FloatVal, StringVal, IdentVal, IsIdent

LEMMA ValueShapes ==
  ASSUME NEW v \in Value
  PROVE  /\ v.type = "IDENTIFIER" => v.val \in Key
         /\ v.type = "LIST" => /\ v.val \in Seq(Item)
                               /\ \A j \in DOMAIN v.val : v.val[j] \in Item
<1>1. v.type = "IDENTIFIER" => v.val \in Key
  BY DEF Value, ListVal, Scalar, IntVal, FloatVal, StringVal, IdentVal
<1>2. v.type = "LIST" => v.val \in Seq(Item)
  BY DEF Value, ListVal, Scalar, IntVal, FloatVal, StringVal, IdentVal
<1>. QED BY <1>1, <1>2

Stores == [Key -> Value \cup {Nil}]

(* A call that ends at once makes none.                                    *)
LEMMA CallEnds ==
  ASSUME NEW kv, NEW inLists, NEW seen, NEW k, NEW g, NEW h, k \in seen \/ kv[k] = Nil
  PROVE  Call(g, kv, inLists, seen, k) = Call(h, kv, inLists, seen, k)
BY DEF Call

(* The calls a call makes are on the seen keys and the key itself.         *)
LEMMA CallSame ==
  ASSUME NEW kv \in Stores, NEW inLists, NEW seen \in SUBSET Key, NEW k \in Key, NEW g, NEW h,
         \A l \in Key : g[seen \cup {k}][l] = h[seen \cup {k}][l]
  PROVE  Call(g, kv, inLists, seen, k) = Call(h, kv, inLists, seen, k)
<1>1. CASE k \in seen \/ kv[k] = Nil
  BY <1>1 DEF Call
<1>2. CASE k \notin seen /\ kv[k] # Nil
  <2>1. kv[k] \in Value
    BY <1>2 DEF Stores
  <2>2. CASE kv[k].type = "IDENTIFIER"
    BY <1>2, <2>1, <2>2, ValueShapes DEF Call
  <2>3. CASE kv[k].type # "IDENTIFIER" /\ ~(kv[k].type = "LIST" /\ inLists)
    BY <1>2, <2>3 DEF Call
  <2>4. CASE kv[k].type = "LIST" /\ inLists
    <3>1. \A j \in DOMAIN kv[k].val :
            kv[k].val[j].type = "IDENTIFIER"
              => g[seen \cup {k}][kv[k].val[j].val] = h[seen \cup {k}][kv[k].val[j].val]
      <4>1. \A j \in DOMAIN kv[k].val : kv[k].val[j] \in Item
        BY <2>1, <2>4, ValueShapes
      <4>2. \A j \in DOMAIN kv[k].val : kv[k].val[j].type = "IDENTIFIER" => kv[k].val[j].val \in Key
        BY <4>1, ItemShapes
      <4>. QED BY <1>2, <4>2
    <3>2. [j \in DOMAIN kv[k].val |->
             IF kv[k].val[j].type = "IDENTIFIER" THEN g[seen \cup {k}][kv[k].val[j].val]
                                                 ELSE Outcome("FOUND", k, kv[k].val[j])]
          = [j \in DOMAIN kv[k].val |->
             IF kv[k].val[j].type = "IDENTIFIER" THEN h[seen \cup {k}][kv[k].val[j].val]
                                                 ELSE Outcome("FOUND", k, kv[k].val[j])]
      BY <3>1
    <3>3. kv[k].type # "IDENTIFIER"
      BY <2>4
    <3>. QED BY <1>2, <2>4, <3>2, <3>3 DEF Call
  <2>. QED BY <2>2, <2>3, <2>4
<1>. QED BY <1>1, <1>2

(* The keys a store holds, and those of them a walk has not seen: the      *)
(* measure of the recursion.                                               *)
Held(kv) == {k \in Key : kv[k] # Nil}
Left(kv, seen) == Cardinality(Held(kv) \ seen)

LEMMA LeftShrinks ==
  ASSUME NEW kv, IsFiniteSet(Held(kv)), NEW seen, NEW k \in Key
  PROVE  /\ Left(kv, seen) \in 0 .. Cardinality(Held(kv))
         /\ k \notin seen /\ kv[k] # Nil => Left(kv, seen \cup {k}) = Left(kv, seen) - 1
<1> DEFINE H == Held(kv)
<1>1. IsFiniteSet(H \ seen) /\ Cardinality(H \ seen) <= Cardinality(H)
  BY FS_Subset
<1>2. Cardinality(H \ seen) \in Nat /\ Cardinality(H) \in Nat
  BY <1>1, FS_CardinalityType
<1>3. ASSUME k \notin seen, kv[k] # Nil
      PROVE  Cardinality(H \ (seen \cup {k})) = Cardinality(H \ seen) - 1
  <2>1. k \in H \ seen
    BY <1>3 DEF Held
  <2>2. H \ (seen \cup {k}) = (H \ seen) \ {k}
    OBVIOUS
  <2> HIDE DEF H
  <2>. QED BY <1>1, <2>1, <2>2, FS_RemoveElement
<1>. QED BY <1>1, <1>2, <1>3 DEF Left

(* The recursion has a solution: it ends, because every call but the last  *)
(* has seen one key more of those the store holds.                         *)
LEMMA ResolveSolved ==
  ASSUME NEW kv \in Stores, IsFiniteSet(Held(kv)), NEW inLists
  PROVE  Solves(ResolveRecur(kv, inLists), kv, inLists)
<1> DEFINE For(g, n) == \A seen \in SUBSET Key, k \in Key :
                          Left(kv, seen) <= n => g[seen][k] = Call(g, kv, inLists, seen, k)
           G == {n \in Nat : \E g : For(g, n)}
<1>1. 0 \in G
  <2> DEFINE g == [seen \in SUBSET Key |-> [k \in Key |-> Call(kv, kv, inLists, seen, k)]]
  <2>1. ASSUME NEW seen \in SUBSET Key, NEW k \in Key, Left(kv, seen) <= 0
        PROVE  g[seen][k] = Call(g, kv, inLists, seen, k)
    <3>1. k \in seen \/ kv[k] = Nil
      <4>1. Left(kv, seen) \in Nat /\ Left(kv, seen \cup {k}) \in Nat
        BY LeftShrinks
      <4>. QED BY <2>1, <4>1, LeftShrinks
    <3>2. g[seen][k] = Call(kv, kv, inLists, seen, k)
      OBVIOUS
    <3> HIDE DEF g
    <3>3. Call(g, kv, inLists, seen, k) = Call(kv, kv, inLists, seen, k)
      BY <3>1, CallEnds
    <3>. QED BY <3>2, <3>3
  <2>. QED BY <2>1
<1>2. ASSUME NEW n \in Nat, n \in G
      PROVE  n + 1 \in G
  <2>1. PICK g : For(g, n)
    BY <1>2
  <2> DEFINE h == [seen \in SUBSET Key |-> [k \in Key |->
                     IF Left(kv, seen) <= n THEN g[seen][k] ELSE Call(g, kv, inLists, seen, k)]]
  <2>2. ASSUME NEW seen \in SUBSET Key, NEW k \in Key, Left(kv, seen) <= n + 1
        PROVE  h[seen][k] = Call(h, kv, inLists, seen, k)
    <3>1. ASSUME k \notin seen, kv[k] # Nil
          PROVE  \A l \in Key : g[seen \cup {k}][l] = h[seen \cup {k}][l]
      <4>1. Left(kv, seen \cup {k}) <= n
        BY <1>2, <2>2, <3>1, LeftShrinks
      <4>. QED BY <4>1
    <3>2. Call(g, kv, inLists, seen, k) = Call(h, kv, inLists, seen, k)
      <4> HIDE DEF h
      <4>1. CASE k \in seen \/ kv[k] = Nil
        BY <4>1, CallEnds
      <4>2. CASE k \notin seen /\ kv[k] # Nil
        <5>1. \A l \in Key : g[seen \cup {k}][l] = h[seen \cup {k}][l]
          BY <3>1, <4>2
        <5>. QED BY <5>1, CallSame, Z3
      <4>. QED BY <4>1, <4>2
    <3>. QED BY <2>1, <3>2
  <2>3. For(h, n + 1)
    BY <2>2
  <2> HIDE DEF h
  <2>. QED BY <2>3
<1>3. Cardinality(Held(kv)) \in G
  <2> HIDE DEF G
  <2>. QED BY <1>1, <1>2, NumberInduction, FS_CardinalityType
<1>4. PICK g : For(g, Cardinality(Held(kv)))
  BY <1>3
<1> DEFINE f == [seen \in SUBSET Key |-> [k \in Key |-> g[seen][k]]]
<1>5. Solves(f, kv, inLists)
  <2>1. ASSUME NEW seen \in SUBSET Key, NEW k \in Key
        PROVE  f[seen][k] = Call(f, kv, inLists, seen, k)
    <3>1. g[seen][k] = Call(g, kv, inLists, seen, k)
      <4>1. Left(kv, seen) \in 0 .. Cardinality(Held(kv)) /\ Cardinality(Held(kv)) \in Nat
        BY LeftShrinks, FS_CardinalityType
      <4>. QED BY <1>4, <4>1
    <3>2. \A l \in Key : g[seen \cup {k}][l] = f[seen \cup {k}][l]
      OBVIOUS
    <3> HIDE DEF f
    <3>3. Call(g, kv, inLists, seen, k) = Call(f, kv, inLists, seen, k)
      BY <3>2, CallSame
    <3>. QED BY <3>1, <3>3 DEF f
  <2>. QED BY <2>1 DEF Solves
<1>. QED BY <1>5, ResolveChooses

(* Every call of the recursion is what the code of a call computes.        *)
LEMMA ResolveUnfolds ==
  ASSUME NEW kv \in Stores, IsFiniteSet(Held(kv)), NEW inLists,
         NEW seen \in SUBSET Key, NEW k \in Key
  PROVE  ResolveRecur(kv, inLists)[seen][k]
           = Call(ResolveRecur(kv, inLists), kv, inLists, seen, k)
<1> DEFINE R == ResolveRecur(kv, inLists)
<1>1. Solves(R, kv, inLists)
  BY ResolveSolved
<1> HIDE DEF R
<1>2. R[seen][k] = Call(R, kv, inLists, seen, k)
  BY <1>1 DEF Solves
<1>. QED BY <1>2 DEF R

(* Induction along a walk: what holds of a walk from a key, whenever it    *)
(* holds of the walks that go on with the key seen, holds of all walks.    *)
LEMMA WalkInduction ==
  ASSUME NEW kv, IsFiniteSet(Held(kv)), NEW P,
         \A seen \in SUBSET Key, k \in Key :
           (k \notin seen /\ kv[k] # Nil => \A l \in Key : l \in P[seen \cup {k}])
             => k \in P[seen]
  PROVE  \A seen \in SUBSET Key, k \in Key : k \in P[seen]
<1> DEFINE For(n) == \A seen \in SUBSET Key, k \in Key : Left(kv, seen) <= n => k \in P[seen]
           G == {n \in Nat : For(n)}
<1>1. \A seen \in SUBSET Key, k \in Key :
        /\ Left(kv, seen) \in Nat
        /\ Left(kv, seen) <= Cardinality(Held(kv))
        /\ k \notin seen /\ kv[k] # Nil =>
             Left(kv, seen) # 0 /\ Left(kv, seen \cup {k}) = Left(kv, seen) - 1
  <2> SUFFICES ASSUME NEW seen \in SUBSET Key, NEW k \in Key
               PROVE  /\ Left(kv, seen) \in Nat
                      /\ Left(kv, seen) <= Cardinality(Held(kv))
                      /\ k \notin seen /\ kv[k] # Nil =>
                           Left(kv, seen) # 0 /\ Left(kv, seen \cup {k}) = Left(kv, seen) - 1
    OBVIOUS
  <2>1. Cardinality(Held(kv)) \in Nat
    BY FS_CardinalityType
  <2>2. Left(kv, seen) \in 0 .. Cardinality(Held(kv))
    BY LeftShrinks
  <2>3. Left(kv, seen \cup {k}) \in 0 .. Cardinality(Held(kv))
    BY LeftShrinks
  <2>4. k \notin seen /\ kv[k] # Nil => Left(kv, seen \cup {k}) = Left(kv, seen) - 1
    BY LeftShrinks
  <2>. QED BY <2>1, <2>2, <2>3, <2>4
<1>2. 0 \in G
  <2>1. ASSUME NEW seen \in SUBSET Key, NEW k \in Key, Left(kv, seen) <= 0
        PROVE  k \in P[seen]
    <3>1. ~(k \notin seen /\ kv[k] # Nil)
      <4>1. Left(kv, seen) \in Nat
        BY <1>1
      <4>2. k \notin seen /\ kv[k] # Nil => Left(kv, seen) # 0
        BY <1>1
      <4>. QED BY <2>1, <4>1, <4>2
    <3>. QED BY <3>1
  <2>. QED BY <2>1
<1>3. ASSUME NEW n \in Nat, n \in G
      PROVE  n + 1 \in G
  <2>1. ASSUME NEW seen \in SUBSET Key, NEW k \in Key, Left(kv, seen) <= n + 1
        PROVE  k \in P[seen]
    <3>1. ASSUME k \notin seen, kv[k] # Nil, NEW l \in Key
          PROVE  l \in P[seen \cup {k}]
      <4>1. Left(kv, seen \cup {k}) <= n
        BY <1>1, <2>1, <3>1
      <4>. QED BY <1>3, <4>1
    <3>. QED BY <3>1
  <2>. QED BY <2>1
<1>4. Cardinality(Held(kv)) \in G
  <2> HIDE DEF G
  <2>. QED BY <1>2, <1>3, NumberInduction, FS_CardinalityType
<1>. QED BY <1>1, <1>4

(* Two stores that differ only in the value of their own that one key      *)
(* holds: whatever leads to that key in one leads to it in the other.      *)
LEMMA ChangeIsSeen ==
  ASSUME NEW kv \in Stores, NEW kv2 \in Stores, IsFiniteSet(Held(kv)), NEW t \in Key,
         kv[t] # Nil, kv[t].type # "IDENTIFIER", kv2[t] # Nil, kv2[t].type # "IDENTIFIER",
         \A l \in Key \ {t} : kv2[l] = kv[l]
  PROVE  \A seen \in SUBSET Key, k \in Key :
           ResolveRecur(kv, FALSE)[seen][k].at = t
             => ResolveRecur(kv2, FALSE)[seen][k] = Outcome("FOUND", t, kv2[t])
<1> DEFINE R == ResolveRecur(kv, FALSE)
           R2 == ResolveRecur(kv2, FALSE)
           P == [seen \in SUBSET Key |->
                   {k \in Key : R[seen][k].at = t => R2[seen][k] = Outcome("FOUND", t, kv2[t])}]
<1>1. Held(kv2) = Held(kv)
  BY DEF Held
<1>2. \A seen \in SUBSET Key, k \in Key :
        /\ R[seen][k] = Call(R, kv, FALSE, seen, k)
        /\ R2[seen][k] = Call(R2, kv2, FALSE, seen, k)
  BY <1>1, ResolveUnfolds
<1>3. t # Nil
  BY NilAssumption
<1> HIDE DEF R, R2
<1>4. ASSUME NEW seen \in SUBSET Key, NEW k \in Key,
             k \notin seen /\ kv[k] # Nil => \A l \in Key : l \in P[seen \cup {k}],
             R[seen][k].at = t
      PROVE  R2[seen][k] = Outcome("FOUND", t, kv2[t])
  <2>1. /\ R[seen][k] = Call(R, kv, FALSE, seen, k)
        /\ R2[seen][k] = Call(R2, kv2, FALSE, seen, k)
    BY <1>2
  <2>2. CASE k \in seen \/ kv[k] = Nil
    <3>1. R[seen][k] \in {Circular, Missing}
      BY <2>1, <2>2 DEF Call
    <3>2. Circular.at = Nil /\ Missing.at = Nil
      BY DEF Circular, Missing, Outcome
    <3>. QED BY <1>3, <1>4, <3>1, <3>2
  <2>3. CASE k \notin seen /\ kv[k] # Nil /\ kv[k].type = "IDENTIFIER"
    <3>1. kv2[k] = kv[k] /\ kv[k].val \in Key
      BY <2>3, ValueShapes DEF Stores
    <3>2. R[seen][k] = R[seen \cup {k}][kv[k].val] /\ R2[seen][k] = R2[seen \cup {k}][kv[k].val]
      BY <2>1, <2>3, <3>1 DEF Call
    <3>. QED BY <1>4, <2>3, <3>1, <3>2
  <2>4. CASE k \notin seen /\ kv[k] # Nil /\ kv[k].type # "IDENTIFIER"
    <3>1. R[seen][k] = Outcome("FOUND", k, kv[k])
      BY <2>1, <2>4 DEF Call
    <3>2. k = t
      <4>1. Outcome("FOUND", k, kv[k]).at = k
        BY DEF Outcome
      <4>. QED BY <1>4, <3>1, <4>1
    <3>. QED BY <2>1, <2>4, <3>2 DEF Call
  <2>. QED BY <2>2, <2>3, <2>4
<1>5. \A seen \in SUBSET Key, k \in Key : k \in P[seen]
  <2>1. \A seen \in SUBSET Key, k \in Key :
          (k \notin seen /\ kv[k] # Nil => \A l \in Key : l \in P[seen \cup {k}])
            => k \in P[seen]
    BY <1>4
  <2> HIDE DEF P
  <2>. QED BY <2>1, WalkInduction, Z3
<1>. QED BY <1>5 DEF R, R2
=============================================================================
