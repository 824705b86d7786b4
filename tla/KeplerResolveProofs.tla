------------------------ MODULE KeplerResolveProofs ------------------------
(***************************************************************************)
(* Proofs about KeplerResolve: what Store::resolve answers for every store *)
(* that holds finitely many keys, over any set of keys.  Each is by        *)
(* induction on the number of keys held that a walk has not seen.          *)
(***************************************************************************)
EXTENDS KeplerResolve, KeplerRecursion

(* What resolution relies on: the store holds values, and finitely many.   *)
FiniteStore == kv \in Stores /\ IsFiniteSet(Held(kv))

(* Whatever SET and DELETE do, the store holds values, and finitely many,  *)
(* so that a walk runs out of keys it has not seen (Store::set,            *)
(* Store::del).                                                            *)
THEOREM StoreStaysFinite == Spec => []FiniteStore
<1>1. Init => FiniteStore
  <2> SUFFICES ASSUME Init PROVE FiniteStore
    OBVIOUS
  <2>1. Held(kv) = {}
    BY DEF Init, Held
  <2>. QED BY <2>1, FS_EmptySet DEF FiniteStore, Stores, Init
<1>2. FiniteStore /\ [Next]_kv => FiniteStore'
  <2> SUFFICES ASSUME FiniteStore, [Next]_kv PROVE FiniteStore'
    OBVIOUS
  <2>1. CASE UNCHANGED kv
    BY <2>1 DEF FiniteStore
  <2>2. ASSUME NEW k \in Key, NEW v \in Value \cup {Nil}, kv' = [kv EXCEPT ![k] = v]
        PROVE  FiniteStore'
    <3>1. kv' \in Stores
      BY <2>2 DEF FiniteStore, Stores
    <3>2. Held(kv') \subseteq Held(kv) \cup {k}
      BY <2>2 DEF Held, FiniteStore, Stores
    <3>3. IsFiniteSet(Held(kv) \cup {k})
      BY FS_AddElement DEF FiniteStore
    <3>. QED BY <3>1, <3>2, <3>3, FS_Subset DEF FiniteStore
  <2>. QED BY <2>1, <2>2, BindingsAssumption DEF Next, Bind, Unbind
<1>. QED BY <1>1, <1>2, PTL DEF Spec

-----------------------------------------------------------------------------
(* The keys named and the keys reached.                                    *)

LEMMA NamedAreKeys ==
  ASSUME kv \in Stores, NEW k \in Key, NEW inLists
  PROVE  NamedBy(kv[k], inLists) \subseteq Key
<1>1. kv[k] = Nil \/ kv[k] \in Value
  BY DEF Stores
<1>2. \A e \in IdentVal : e.val \in Key
  BY DEF IdentVal
<1>. QED BY <1>1, <1>2, ValueShapes DEF NamedBy, IsIdent

LEMMA FromSelf ==
  ASSUME NEW k \in Key, NEW inLists
  PROVE  k \in From(k, inLists)
BY DEF From

LEMMA FromClosed ==
  ASSUME kv \in Stores, NEW k \in Key, NEW inLists, NEW x \in From(k, inLists)
  PROVE  NamedBy(kv[x], inLists) \subseteq From(k, inLists)
<1>1. x \in Key
  BY DEF From
<1>2. NamedBy(kv[x], inLists) \subseteq Key
  BY <1>1, NamedAreKeys
<1>. QED BY <1>2 DEF From, Closed

(* To reach a key is to be at it or to reach it from a key that is named.  *)
LEMMA FromSteps ==
  ASSUME kv \in Stores, NEW k \in Key, NEW inLists
  PROVE  From(k, inLists) = {k} \cup Beyond(k, inLists)
<1> DEFINE N == NamedBy(kv[k], inLists)
           S == {k} \cup Beyond(k, inLists)
<1>1. N \subseteq Key
  BY NamedAreKeys
<1>2. ASSUME NEW y \in N PROVE From(y, inLists) \subseteq From(k, inLists)
  <2>1. y \in From(k, inLists)
    BY FromSelf, FromClosed
  <2>. QED BY <2>1 DEF From
<1>3. S \subseteq From(k, inLists)
  BY <1>2, FromSelf DEF Beyond
<1>4. S \in SUBSET Key
  BY <1>3 DEF From
<1>5. Closed(S, inLists)
  <2>1. ASSUME NEW z \in Beyond(k, inLists) PROVE NamedBy(kv[z], inLists) \subseteq S
    <3>1. PICK y \in N : z \in From(y, inLists)
      BY DEF Beyond
    <3>2. NamedBy(kv[z], inLists) \subseteq From(y, inLists)
      BY <1>1, <3>1, FromClosed
    <3>. QED BY <3>1, <3>2 DEF Beyond
  <2>2. N \subseteq S
    BY <1>1, FromSelf DEF Beyond
  <2>. QED BY <2>1, <2>2 DEF Closed
<1>6. From(k, inLists) \subseteq S
  <2> HIDE DEF S
  <2>1. k \in S
    BY DEF S
  <2>. QED BY <1>4, <1>5, <2>1 DEF From
<1>. QED BY <1>3, <1>6

-----------------------------------------------------------------------------
(* The walk of the code, one call at a time.                               *)

Walk(inLists, seen, k) == ResolveRecur(kv, inLists)[seen][k]

LEMMA WalkEnds ==
  ASSUME FiniteStore, NEW inLists, NEW seen \in SUBSET Key, NEW k \in Key
  PROVE  /\ k \in seen => Walk(inLists, seen, k) = Circular
         /\ k \notin seen /\ kv[k] = Nil => Walk(inLists, seen, k) = Missing
<1> DEFINE R == ResolveRecur(kv, inLists)
<1>1. R[seen][k] = Call(R, kv, inLists, seen, k)
  BY ResolveUnfolds DEF FiniteStore
<1> HIDE DEF R
<1>. QED BY <1>1 DEF R, Walk, Call

LEMMA WalkAlias ==
  ASSUME FiniteStore, NEW inLists, NEW seen \in SUBSET Key, NEW k \in Key,
         k \notin seen, kv[k] # Nil, kv[k].type = "IDENTIFIER"
  PROVE  Walk(inLists, seen, k) = Walk(inLists, seen \cup {k}, kv[k].val)
BY ResolveUnfolds DEF FiniteStore, Walk, Call

LEMMA WalkValue ==
  ASSUME FiniteStore, NEW inLists, NEW seen \in SUBSET Key, NEW k \in Key,
         k \notin seen, kv[k] # Nil, kv[k].type # "IDENTIFIER",
         ~(kv[k].type = "LIST" /\ inLists)
  PROVE  Walk(inLists, seen, k) = Outcome("FOUND", k, kv[k])
<1> DEFINE R == ResolveRecur(kv, inLists)
<1>1. R[seen][k] = Call(R, kv, inLists, seen, k)
  BY ResolveUnfolds DEF FiniteStore
<1> HIDE DEF R
<1>. QED BY <1>1 DEF R, Walk, Call

(* What the elements of the list at k resolve to once seen is seen.        *)
Elems(inLists, seen, k) ==
  [j \in DOMAIN kv[k].val |->
     IF IsIdent(kv[k].val[j]) THEN Walk(inLists, seen, kv[k].val[j].val)
                              ELSE Outcome("FOUND", k, kv[k].val[j])]

LEMMA WalkList ==
  ASSUME FiniteStore, NEW seen \in SUBSET Key, NEW k \in Key,
         k \notin seen, kv[k] # Nil, kv[k].type = "LIST"
  PROVE  LET elems == Elems(TRUE, seen \cup {k}, k) IN
         Walk(TRUE, seen, k)
           = IF \E j \in DOMAIN kv[k].val : elems[j] = Circular THEN Circular
             ELSE Outcome("FOUND", k,
                    [kv[k] EXCEPT !.val = [j \in DOMAIN kv[k].val |-> elems[j].val]])
<1> DEFINE R == ResolveRecur(kv, TRUE)
           e == [j \in DOMAIN kv[k].val |->
                   IF kv[k].val[j].type = "IDENTIFIER" THEN R[seen \cup {k}][kv[k].val[j].val]
                                                       ELSE Outcome("FOUND", k, kv[k].val[j])]
<1>1. kv[k] \in Value /\ \A j \in DOMAIN kv[k].val : kv[k].val[j] \in Item
  BY ValueShapes DEF FiniteStore, Stores
<1>2. e = Elems(TRUE, seen \cup {k}, k)
  BY <1>1, ItemShapes DEF Elems, Walk
<1>3. Walk(TRUE, seen, k)
           = IF \E j \in DOMAIN e : e[j] = Circular THEN Circular
             ELSE Outcome("FOUND", k,
                    [kv[k] EXCEPT !.val = [j \in DOMAIN e |-> e[j].val]])
  <2>1. R[seen][k] = Call(R, kv, TRUE, seen, k)
    BY ResolveUnfolds DEF FiniteStore
  <2> HIDE DEF R
  <2>2. kv[k].type # "IDENTIFIER"
    OBVIOUS
  <2>3. Call(R, kv, TRUE, seen, k)
           = IF \E j \in DOMAIN e : e[j] = Circular THEN Circular
             ELSE Outcome("FOUND", k,
                    [kv[k] EXCEPT !.val = [j \in DOMAIN e |-> e[j].val]])
    BY <2>2 DEF Call
  <2>. QED BY <2>1, <2>3 DEF R, Walk
<1>4. DOMAIN e = DOMAIN kv[k].val
  OBVIOUS
<1> HIDE DEF e
<1>. QED BY <1>2, <1>3, <1>4

(* A walk is circular exactly when it meets a key again or the walk from a *)
(* key it names is.                                                        *)
LEMMA CircularSpreads ==
  ASSUME FiniteStore, NEW inLists \in BOOLEAN, NEW seen \in SUBSET Key, NEW k \in Key,
         k \notin seen, kv[k] # Nil
  PROVE  Walk(inLists, seen, k) = Circular
           <=> \E y \in NamedBy(kv[k], inLists) : Walk(inLists, seen \cup {k}, y) = Circular
<1>1. CASE kv[k].type = "IDENTIFIER"
  BY <1>1, WalkAlias DEF NamedBy
<1>2. CASE kv[k].type # "IDENTIFIER" /\ ~(kv[k].type = "LIST" /\ inLists)
  BY <1>2, WalkValue DEF NamedBy, Circular, Outcome
<1>3. CASE kv[k].type = "LIST" /\ inLists
  <2> DEFINE elems == Elems(TRUE, seen \cup {k}, k)
  <2>1. Walk(TRUE, seen, k) = Circular <=> \E j \in DOMAIN kv[k].val : elems[j] = Circular
    <3>1. \A v : Outcome("FOUND", k, v) # Circular
      BY DEF Outcome, Circular
    <3> HIDE DEF elems
    <3>. QED BY <1>3, <3>1, WalkList DEF elems
  <2>2. \A j \in DOMAIN kv[k].val :
          elems[j] = Circular <=> /\ IsIdent(kv[k].val[j])
                                  /\ Walk(TRUE, seen \cup {k}, kv[k].val[j].val) = Circular
    BY DEF Elems, Outcome, Circular
  <2>3. NamedBy(kv[k], TRUE)
          = {kv[k].val[j].val : j \in {j \in DOMAIN kv[k].val : IsIdent(kv[k].val[j])}}
    BY <1>3 DEF NamedBy
  <2>4. inLists = TRUE
    BY <1>3
  <2> HIDE DEF elems
  <2>. QED BY <2>1, <2>2, <2>3, <2>4
<1>. QED BY <1>1, <1>2, <1>3

-----------------------------------------------------------------------------
(* Circular references.                                                    *)

(* A walk that has seen some keys is circular exactly when it can reach    *)
(* one of them or a cycle.                                                 *)
LEMMA WalkCircular ==
  ASSUME FiniteStore, NEW inLists \in BOOLEAN
  PROVE  \A seen \in SUBSET Key, k \in Key :
           Walk(inLists, seen, k) = Circular
             <=> \E x \in From(k, inLists) : x \in seen \/ x \in Beyond(x, inLists)
<1> DEFINE Bad(seen, k) == \E x \in From(k, inLists) : x \in seen \/ x \in Beyond(x, inLists)
           P == [seen \in SUBSET Key |-> {k \in Key : Walk(inLists, seen, k) = Circular <=> Bad(seen, k)}]
<1>1. ASSUME NEW seen \in SUBSET Key, NEW k \in Key,
             k \notin seen /\ kv[k] # Nil => \A l \in Key : l \in P[seen \cup {k}]
      PROVE  Walk(inLists, seen, k) = Circular <=> Bad(seen, k)
  <2>1. From(k, inLists) = {k} \cup Beyond(k, inLists)
    BY FromSteps DEF FiniteStore
  <2>2. CASE k \in seen
    BY <2>1, <2>2, WalkEnds
  <2>3. CASE k \notin seen /\ kv[k] = Nil
    <3>1. Beyond(k, inLists) = {}
      BY <2>3 DEF Beyond, NamedBy
    <3>2. Walk(inLists, seen, k) # Circular
      BY <2>3, WalkEnds DEF Missing, Circular, Outcome
    <3>. QED BY <2>1, <2>3, <3>1, <3>2
  <2>4. CASE k \notin seen /\ kv[k] # Nil
    <3> DEFINE N == NamedBy(kv[k], inLists)
    <3>1. N \subseteq Key
      BY NamedAreKeys DEF FiniteStore
    <3>2. Walk(inLists, seen, k) = Circular
            <=> \E y \in N : Walk(inLists, seen \cup {k}, y) = Circular
      BY <2>4, CircularSpreads
    <3>3. \A y \in N : Walk(inLists, seen \cup {k}, y) = Circular <=> Bad(seen \cup {k}, y)
      BY <1>1, <2>4, <3>1
    <3>4. Beyond(k, inLists) = UNION {From(y, inLists) : y \in N}
      BY DEF Beyond
    <3> HIDE DEF N
    <3>5. Bad(seen, k) <=> \E y \in N : Bad(seen \cup {k}, y)
      <4>1. ASSUME NEW y \in N, Bad(seen \cup {k}, y) PROVE Bad(seen, k)
        <5>1. PICK x \in From(y, inLists) : x \in seen \cup {k} \/ x \in Beyond(x, inLists)
          BY <4>1
        <5>2. x \in From(k, inLists) /\ (x = k => x \in Beyond(x, inLists))
          BY <2>1, <3>4
        <5>. QED BY <5>1, <5>2
      <4>2. ASSUME Bad(seen, k) PROVE \E y \in N : Bad(seen \cup {k}, y)
        <5>1. PICK x \in From(k, inLists) : x \in seen \/ x \in Beyond(x, inLists)
          BY <4>2
        <5>2. x \in Beyond(k, inLists)
          BY <2>1, <2>4, <5>1
        <5>3. PICK y \in N : x \in From(y, inLists)
          BY <3>4, <5>2
        <5>. QED BY <5>1, <5>3
      <4>. QED BY <4>1, <4>2
    <3>. QED BY <3>2, <3>3, <3>5
  <2>. QED BY <2>2, <2>3, <2>4
<1>2. \A seen \in SUBSET Key, k \in Key : k \in P[seen]
  <2>1. \A seen \in SUBSET Key, k \in Key :
          (k \notin seen /\ kv[k] # Nil => \A l \in Key : l \in P[seen \cup {k}])
            => k \in P[seen]
    <3> SUFFICES ASSUME NEW seen \in SUBSET Key, NEW k \in Key,
                        k \notin seen /\ kv[k] # Nil => \A l \in Key : l \in P[seen \cup {k}]
                 PROVE  k \in P[seen]
      OBVIOUS
    <3>1. Walk(inLists, seen, k) = Circular <=> Bad(seen, k)
      <4> HIDE DEF P
      <4>. QED BY <1>1
    <3>. QED BY <3>1
  <2> HIDE DEF P
  <2>. QED BY <2>1, WalkInduction DEF FiniteStore
<1>. QED BY <1>2

(* In every store set and del can build, a key resolves to a circular      *)
(* reference exactly when a cycle of keys can be reached from it           *)
(* (Store::resolveRecur_).                                                 *)
THEOREM CircularExactly == Spec => []CircularIffCycle
<1>1. FiniteStore => CircularIffCycle
  <2> SUFFICES ASSUME FiniteStore, NEW inLists \in BOOLEAN, NEW k \in Key
               PROVE  Resolve(kv, k, inLists) = Circular
                        <=> \E x \in From(k, inLists) : x \in Beyond(x, inLists)
    BY DEF CircularIffCycle
  <2>1. Walk(inLists, {}, k) = Circular
          <=> \E x \in From(k, inLists) : x \in {} \/ x \in Beyond(x, inLists)
    BY WalkCircular
  <2>. QED BY <2>1 DEF Resolve, Walk
<1>. QED BY <1>1, StoreStaysFinite, PTL

-----------------------------------------------------------------------------
(* Chains of aliases.                                                      *)

ChainEnds(k) == {x \in From(k, FALSE) : NamedBy(kv[x], FALSE) = {}}

LEMMA WalkEndsAtValue ==
  ASSUME FiniteStore
  PROVE  \A seen \in SUBSET Key, k \in Key :
           Walk(FALSE, seen, k) # Circular =>
             \E x \in Key :
               /\ ChainEnds(k) = {x}
               /\ Walk(FALSE, seen, k)
                    = IF kv[x] = Nil THEN Missing ELSE Outcome("FOUND", x, kv[x])
<1> DEFINE Ends(seen, k) ==
             \E x \in Key :
               /\ ChainEnds(k) = {x}
               /\ Walk(FALSE, seen, k)
                    = IF kv[x] = Nil THEN Missing ELSE Outcome("FOUND", x, kv[x])
           P == [seen \in SUBSET Key |->
                   {k \in Key : Walk(FALSE, seen, k) # Circular => Ends(seen, k)}]
<1>1. ASSUME NEW seen \in SUBSET Key, NEW k \in Key,
             k \notin seen /\ kv[k] # Nil => \A l \in Key : l \in P[seen \cup {k}],
             Walk(FALSE, seen, k) # Circular
      PROVE  Ends(seen, k)
  <2>1. From(k, FALSE) = {k} \cup Beyond(k, FALSE)
    BY FromSteps DEF FiniteStore
  <2>2. k \notin seen
    BY <1>1, WalkEnds
  <2>3. CASE kv[k] = Nil \/ kv[k].type # "IDENTIFIER"
    <3>1. NamedBy(kv[k], FALSE) = {}
      BY <2>3 DEF NamedBy
    <3>2. From(k, FALSE) = {k}
      BY <2>1, <3>1 DEF Beyond
    <3>3. ChainEnds(k) = {k}
      BY <3>1, <3>2 DEF ChainEnds
    <3>4. Walk(FALSE, seen, k) = IF kv[k] = Nil THEN Missing ELSE Outcome("FOUND", k, kv[k])
      BY <2>2, <2>3, WalkEnds, WalkValue
    <3>. QED BY <3>3, <3>4
  <2>4. CASE kv[k] # Nil /\ kv[k].type = "IDENTIFIER"
    <3> DEFINE y == kv[k].val
    <3>1. NamedBy(kv[k], FALSE) = {y}
      BY <2>4 DEF NamedBy
    <3>2. y \in Key
      BY <3>1, NamedAreKeys DEF FiniteStore
    <3>3. From(k, FALSE) = {k} \cup From(y, FALSE)
      BY <2>1, <3>1 DEF Beyond
    <3>4. ChainEnds(k) = ChainEnds(y)
      BY <3>1, <3>3 DEF ChainEnds
    <3>5. Walk(FALSE, seen, k) = Walk(FALSE, seen \cup {k}, y)
      BY <2>2, <2>4, WalkAlias
    <3>6. Ends(seen \cup {k}, y)
      BY <1>1, <2>2, <2>4, <3>2, <3>5
    <3>. QED BY <3>4, <3>5, <3>6
  <2>. QED BY <2>3, <2>4
<1>2. \A seen \in SUBSET Key, k \in Key : k \in P[seen]
  <2>1. \A seen \in SUBSET Key, k \in Key :
          (k \notin seen /\ kv[k] # Nil => \A l \in Key : l \in P[seen \cup {k}])
            => k \in P[seen]
    <3> SUFFICES ASSUME NEW seen \in SUBSET Key, NEW k \in Key,
                        k \notin seen /\ kv[k] # Nil => \A l \in Key : l \in P[seen \cup {k}]
                 PROVE  k \in P[seen]
      OBVIOUS
    <3>1. Walk(FALSE, seen, k) # Circular => Ends(seen, k)
      <4> HIDE DEF P
      <4>. QED BY <1>1
    <3>. QED BY <3>1
  <2> HIDE DEF P
  <2>. QED BY <2>1, WalkInduction DEF FiniteStore
<1>. QED BY <1>2

(* In every store, following aliases that do not run in a circle ends at   *)
(* the one key of the chain that names no other, and answers with what is  *)
(* there (Store::resolve as INCR, DECR, APPEND and PREPEND call it).       *)
THEOREM AliasesEndAtValue == Spec => []EndsAtValue
<1>1. FiniteStore => EndsAtValue
  <2> SUFFICES ASSUME FiniteStore, NEW k \in Key, Resolve(kv, k, FALSE) # Circular
               PROVE  \E x \in Key :
                        /\ ChainEnds(k) = {x}
                        /\ Resolve(kv, k, FALSE)
                             = IF kv[x] = Nil THEN Missing ELSE Outcome("FOUND", x, kv[x])
    BY DEF EndsAtValue, ChainEnds
  <2>. QED BY WalkEndsAtValue DEF Resolve, Walk
<1>. QED BY <1>1, StoreStaysFinite, PTL

-----------------------------------------------------------------------------
(* Lists.                                                                  *)

(* A walk that is not circular answers the same when it has seen less.     *)
LEMMA WalkForgets ==
  ASSUME FiniteStore
  PROVE  \A seen \in SUBSET Key, k \in Key :
           Walk(TRUE, seen, k) # Circular =>
             \A less \in SUBSET seen : Walk(TRUE, less, k) = Walk(TRUE, seen, k)
<1> DEFINE Same(seen, k) == \A less \in SUBSET seen : Walk(TRUE, less, k) = Walk(TRUE, seen, k)
           P == [seen \in SUBSET Key |->
                   {k \in Key : Walk(TRUE, seen, k) # Circular => Same(seen, k)}]
<1>1. ASSUME NEW seen \in SUBSET Key, NEW k \in Key,
             k \notin seen /\ kv[k] # Nil => \A l \in Key : l \in P[seen \cup {k}],
             Walk(TRUE, seen, k) # Circular, NEW less \in SUBSET seen
      PROVE  Walk(TRUE, less, k) = Walk(TRUE, seen, k)
  <2>1. k \notin seen /\ k \notin less /\ less \in SUBSET Key
    BY <1>1, WalkEnds
  <2>2. CASE kv[k] = Nil
    BY <2>1, <2>2, WalkEnds
  <2>3. ASSUME kv[k] # Nil, NEW y \in NamedBy(kv[k], TRUE)
        PROVE  Walk(TRUE, less \cup {k}, y) = Walk(TRUE, seen \cup {k}, y)
    <3>1. y \in Key
      BY NamedAreKeys DEF FiniteStore
    <3>2. Walk(TRUE, seen \cup {k}, y) # Circular
      BY <1>1, <2>1, <2>3, CircularSpreads
    <3>3. y \in P[seen \cup {k}]
      BY <1>1, <2>1, <2>3, <3>1
    <3>4. Same(seen \cup {k}, y)
      BY <3>2, <3>3
    <3>. QED BY <3>4
  <2>4. CASE kv[k] # Nil /\ kv[k].type = "IDENTIFIER"
    <3>1. kv[k].val \in NamedBy(kv[k], TRUE)
      BY <2>4 DEF NamedBy
    <3>2. Walk(TRUE, seen, k) = Walk(TRUE, seen \cup {k}, kv[k].val)
      BY <2>1, <2>4, WalkAlias
    <3>3. Walk(TRUE, less, k) = Walk(TRUE, less \cup {k}, kv[k].val)
      BY <2>1, <2>4, WalkAlias
    <3>. QED BY <2>3, <2>4, <3>1, <3>2, <3>3
  <2>5. CASE kv[k] # Nil /\ kv[k].type \notin {"IDENTIFIER", "LIST"}
    BY <2>1, <2>5, WalkValue
  <2>6. CASE kv[k] # Nil /\ kv[k].type = "LIST"
    <3>1. \A j \in DOMAIN kv[k].val :
            IsIdent(kv[k].val[j]) => kv[k].val[j].val \in NamedBy(kv[k], TRUE)
      BY <2>6 DEF NamedBy
    <3>2. Elems(TRUE, less \cup {k}, k) = Elems(TRUE, seen \cup {k}, k)
      BY <2>3, <2>6, <3>1 DEF Elems
    <3>. QED BY <2>1, <2>6, <3>2, WalkList
  <2>. QED BY <2>2, <2>4, <2>5, <2>6
<1>2. \A seen \in SUBSET Key, k \in Key : k \in P[seen]
  <2>1. \A seen \in SUBSET Key, k \in Key :
          (k \notin seen /\ kv[k] # Nil => \A l \in Key : l \in P[seen \cup {k}])
            => k \in P[seen]
    BY <1>1
  <2> HIDE DEF P
  <2>. QED BY <2>1, WalkInduction DEF FiniteStore
<1>. QED BY <1>2

(* What an answer that carries a key looks like: the value of that key, in *)
(* a list each identifier replaced by its own resolution.                  *)
Elementwise(r) ==
  r.at # Nil =>
    /\ r.at \in Key
    /\ r.val.type = "LIST" =>
         \A j \in DOMAIN r.val.val :
           LET e == kv[r.at].val[j] IN
           r.val.val[j] = IF IsIdent(e) THEN Walk(TRUE, {}, e.val).val ELSE e

(* What a walk that has found a value answers.                             *)
LEMMA OutcomeParts ==
  ASSUME NEW k, NEW v, NEW r, r = Outcome("FOUND", k, v)
  PROVE  r.at = k /\ r.val = v
BY DEF Outcome

LEMMA WalkElementwise ==
  ASSUME FiniteStore
  PROVE  \A seen \in SUBSET Key, k \in Key : Elementwise(Walk(TRUE, seen, k))
<1> DEFINE P == [seen \in SUBSET Key |-> {k \in Key : Elementwise(Walk(TRUE, seen, k))}]
<1>1. ASSUME NEW seen \in SUBSET Key, NEW k \in Key,
             k \notin seen /\ kv[k] # Nil => \A l \in Key : l \in P[seen \cup {k}]
      PROVE  Elementwise(Walk(TRUE, seen, k))
  <2>1. Elementwise(Circular) /\ Elementwise(Missing)
    BY DEF Elementwise, Circular, Missing, Outcome
  <2>2. CASE k \in seen \/ kv[k] = Nil
    BY <2>1, <2>2, WalkEnds
  <2>3. CASE k \notin seen /\ kv[k] # Nil /\ kv[k].type = "IDENTIFIER"
    <3>1. kv[k].val \in Key
      BY <2>3, ValueShapes DEF FiniteStore, Stores
    <3>. QED BY <1>1, <2>3, <3>1, WalkAlias
  <2>4. CASE k \notin seen /\ kv[k] # Nil /\ kv[k].type \notin {"IDENTIFIER", "LIST"}
    <3>1. PICK r : r = Walk(TRUE, seen, k)
      OBVIOUS
    <3>2. r.at = k /\ r.val = kv[k]
      <4>1. Walk(TRUE, seen, k) = Outcome("FOUND", k, kv[k])
        BY <2>4, WalkValue
      <4>2. r = Outcome("FOUND", k, kv[k])
        BY <3>1, <4>1
      <4>. QED BY <4>2, OutcomeParts
    <3>3. Elementwise(r)
      BY <2>4, <3>2 DEF Elementwise
    <3>. QED BY <3>1, <3>3
  <2>5. CASE k \notin seen /\ kv[k] # Nil /\ kv[k].type = "LIST"
    <3> DEFINE elems == Elems(TRUE, seen \cup {k}, k)
               items == [j \in DOMAIN kv[k].val |-> elems[j].val]
               v     == [kv[k] EXCEPT !.val = items]
    <3>1. CASE Walk(TRUE, seen, k) = Circular
      BY <2>1, <3>1
    <3>2. CASE Walk(TRUE, seen, k) # Circular
      <4>0. Walk(TRUE, seen, k) = Outcome("FOUND", k, v)
        BY <2>5, <3>2, WalkList
      <4>1. PICK r : r = Walk(TRUE, seen, k)
        OBVIOUS
      <4>2. kv[k] \in [type : {"LIST"}, val : Seq(Item)]
        <5>1. kv[k] \in Value
          BY <2>5 DEF FiniteStore, Stores
        <5>. QED BY <2>5, <5>1 DEF Value, ListVal, Scalar, IntVal, FloatVal, StringVal, IdentVal
      <4>3. v.val = items
        BY <4>2
      <4>4. ASSUME NEW j \in DOMAIN kv[k].val, IsIdent(kv[k].val[j])
            PROVE  items[j] = Walk(TRUE, {}, kv[k].val[j].val).val
        <5> DEFINE y == kv[k].val[j].val
        <5>1. y \in NamedBy(kv[k], TRUE) /\ y \in Key
          BY <2>5, <4>4 DEF NamedBy, IsIdent, IdentVal
        <5>2. Walk(TRUE, seen \cup {k}, y) # Circular
          BY <2>5, <3>2, <5>1, CircularSpreads
        <5>3. Walk(TRUE, {}, y) = Walk(TRUE, seen \cup {k}, y)
          BY <5>1, <5>2, WalkForgets
        <5>. QED BY <4>4, <5>3 DEF Elems
      <4>5. ASSUME NEW j \in DOMAIN kv[k].val, ~IsIdent(kv[k].val[j])
            PROVE  items[j] = kv[k].val[j]
        BY <4>5 DEF Elems, Outcome
      <4>6. DOMAIN items = DOMAIN kv[k].val
        OBVIOUS
      <4> HIDE DEF items
      <4>7. r.at = k /\ r.val = v
        <5>1. r = Outcome("FOUND", k, v)
          BY <4>0, <4>1
        <5>. QED BY <5>1, OutcomeParts
      <4> HIDE DEF v
      <4>8. Elementwise(r)
        BY <4>3, <4>4, <4>5, <4>6, <4>7 DEF Elementwise
      <4>. QED BY <4>1, <4>8
    <3>. QED BY <3>1, <3>2
  <2>. QED BY <2>2, <2>3, <2>4, <2>5
<1>2. \A seen \in SUBSET Key, k \in Key : k \in P[seen]
  <2>1. \A seen \in SUBSET Key, k \in Key :
          (k \notin seen /\ kv[k] # Nil => \A l \in Key : l \in P[seen \cup {k}])
            => k \in P[seen]
    BY <1>1
  <2> HIDE DEF P
  <2>. QED BY <2>1, WalkInduction DEF FiniteStore
<1>. QED BY <1>2

(* In every store, RESOLVE of a list is the list of what its elements      *)
(* resolve to by themselves, whatever the other elements and the chain to  *)
(* the list have met (Store::resolveRecur_, where each element gets its    *)
(* own copy of the seen keys).                                             *)
THEOREM ListsElementwise == Spec => []ListsResolveElementwise
<1>1. FiniteStore => ListsResolveElementwise
  <2> SUFFICES ASSUME FiniteStore, NEW k \in Key, Resolve(kv, k, TRUE).at # Nil,
                      Resolve(kv, k, TRUE).val.type = "LIST",
                      NEW j \in DOMAIN Resolve(kv, k, TRUE).val.val
               PROVE  LET r == Resolve(kv, k, TRUE)
                          e == kv[r.at].val[j]
                      IN  IF IsIdent(e) THEN r.val.val[j] = Resolve(kv, e.val, TRUE).val
                                        ELSE e.type # "LIST" => r.val.val[j] = e
    BY DEF ListsResolveElementwise
  <2>1. Elementwise(Walk(TRUE, {}, k))
    BY WalkElementwise
  <2>. QED BY <2>1 DEF Elementwise, Resolve, Walk
<1>. QED BY <1>1, StoreStaysFinite, PTL
=============================================================================
