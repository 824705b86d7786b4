-------------------------- MODULE KeplerInduction --------------------------
(***************************************************************************)
(* Induction over numbers, and with it what a buffer holds.  Induction is  *)
(* over a set of numbers, which the library's theorem about finite subsets *)
(* gives without an operator as parameter.                                 *)
(***************************************************************************)
EXTENDS KeplerBuffer, Integers, FiniteSetTheorems, WellFoundedInduction, TLAPS

(* A set of numbers that is not empty has a least one.                     *)
LEMMA LeastNumber ==
  ASSUME NEW T \in SUBSET Nat, T # {}
  PROVE  \E m \in T : \A n \in T : m <= n
<1> DEFINE I(n) == 1 .. n
           U == {I(n) : n \in T}
           R == StrictSubsetOrdering(Nat)
<1>1. IsWellFoundedOn(R, FiniteSubsetsOf(Nat))
  BY FS_StrictSubsetOrderingWellFounded
<1>2. U \subseteq FiniteSubsetsOf(Nat)
  <2>1. ASSUME NEW n \in T PROVE I(n) \in SUBSET Nat /\ IsFiniteSet(I(n))
    BY FS_Interval
  <2>. QED BY <2>1 DEF FiniteSubsetsOf
<1>3. U # {}
  OBVIOUS
<1>4. PICK x \in U : \A y \in U : ~(<<y, x>> \in R)
  <2> HIDE DEF U, R
  <2>. QED BY <1>1, <1>2, <1>3, WFMin
<1>5. PICK m \in T : x = I(m)
  OBVIOUS
<1>6. ASSUME NEW n \in T PROVE m <= n
  <2>1. <<I(n), I(m)>> \notin R
    BY <1>4, <1>5
  <2>2. I(n) \subseteq Nat /\ I(m) \subseteq Nat
    OBVIOUS
  <2>3. I(n) \subseteq I(m) => I(n) = I(m)
    BY <2>1, <2>2 DEF StrictSubsetOrdering
  <2>4. CASE n < m
    <3>1. I(n) \subseteq I(m) /\ m \in I(m) /\ m \notin I(n)
      BY <2>4
    <3>. QED BY <2>3, <3>1
  <2>. QED BY <2>4
<1>. QED BY <1>6

(* Induction: a set of numbers that holds 0 and with a number the next one *)
(* holds all of them.                                                      *)
LEMMA NumberInduction ==
  ASSUME NEW G, 0 \in G, \A n \in Nat : n \in G => n + 1 \in G
  PROVE  \A n \in Nat : n \in G
<1> DEFINE T == {n \in Nat : n \notin G}
<1> SUFFICES ASSUME T # {} PROVE FALSE
  OBVIOUS
<1>1. PICK m \in T : \A n \in T : m <= n
  <2> HIDE DEF T
  <2>1. T \in SUBSET Nat
    BY DEF T
  <2>. QED BY <2>1, LeastNumber
<1>2. m # 0 /\ m - 1 \in Nat /\ m - 1 \notin T
  BY <1>1
<1>. QED BY <1>2

-----------------------------------------------------------------------------
(* Buffers.                                                                *)

(* A buffer holds its start, and after each part what it held and the part.*)
Filled(buf, start, parts) ==
  buf[0] = start /\ \A n \in 1 .. Len(parts) : buf[n] = buf[n - 1] \o parts[n]

LEMMA BufferSteps ==
  ASSUME NEW start, NEW parts, Len(parts) \in Nat
  PROVE  Filled(Buffer(start, parts), start, parts)
<1> DEFINE N == Len(parts)
           B == Buffer(start, parts)
           Sol(f) == f = [n \in 0 .. N |-> IF n = 0 THEN start ELSE f[n - 1] \o parts[n]]
           For(f, n) == \A m \in 0 .. n : f[m] = IF m = 0 THEN start ELSE f[m - 1] \o parts[m]
           G == {n \in Nat : \E f : For(f, n)}
<1>1. 0 \in G
  <2>1. For([n \in {0} |-> start], 0)
    OBVIOUS
  <2>. QED BY <2>1
<1>2. ASSUME NEW n \in Nat, n \in G
      PROVE  n + 1 \in G
  <2>1. PICK f : For(f, n)
    BY <1>2
  <2> DEFINE g == [m \in 0 .. n + 1 |-> IF m <= n THEN f[m] ELSE f[n] \o parts[n + 1]]
  <2>2. ASSUME NEW m \in 0 .. n + 1
        PROVE  g[m] = IF m = 0 THEN start ELSE g[m - 1] \o parts[m]
    <3>1. CASE m <= n
      <4>1. m \in 0 .. n /\ g[m] = f[m]
        BY <3>1
      <4>2. m # 0 => g[m - 1] = f[m - 1]
        BY <3>1
      <4> HIDE DEF g
      <4>. QED BY <2>1, <4>1, <4>2
    <3>2. CASE m = n + 1
      <4>1. g[m] = f[n] \o parts[n + 1] /\ g[n] = f[n] /\ m - 1 = n /\ m # 0
        BY <3>2
      <4> HIDE DEF g
      <4>. QED BY <3>2, <4>1
    <3>. QED BY <3>1, <3>2
  <2>3. For(g, n + 1)
    BY <2>2
  <2> HIDE DEF g
  <2>. QED BY <2>3
<1>3. N \in G
  <2> HIDE DEF G
  <2>. QED BY <1>1, <1>2, NumberInduction
<1>4. PICK f : For(f, N)
  BY <1>3
<1>5. Sol([n \in 0 .. N |-> f[n]])
  BY <1>4
<1>6. B = CHOOSE f1 : Sol(f1)
  BY DEF Buffer
<1> HIDE DEF B
<1>7. Sol(B)
  <2> HIDE DEF Sol
  <2>. QED BY <1>5, <1>6
<1>8. B[0] = start /\ \A n \in 1 .. N : B[n] = B[n - 1] \o parts[n]
  BY <1>7
<1>. QED BY <1>8 DEF B, Filled

(* w begins with u, and v is in w right after u.                           *)
BeginsWith(w, u) == Len(u) <= Len(w) /\ \A j \in 1 .. Len(u) : w[j] = u[j]
Follows(w, u, v) ==
  Len(u) + Len(v) <= Len(w) /\ \A j \in 1 .. Len(v) : w[Len(u) + j] = v[j]

Joins(w, u, v) == w = u \o v

LEMMA Concatenation ==
  ASSUME NEW S, NEW u \in Seq(S), NEW v \in Seq(S), NEW w, Joins(w, u, v)
  PROVE  /\ w \in Seq(S) /\ Len(w) = Len(u) + Len(v)
         /\ BeginsWith(w, u) /\ Follows(w, u, v)
<1>1. w \in Seq(S) /\ Len(w) = Len(u) + Len(v)
  BY DEF Joins
<1>2. \A j \in 1 .. Len(u) : w[j] = u[j]
  BY DEF Joins
<1>3. \A j \in 1 .. Len(v) : w[Len(u) + j] = v[j]
  BY DEF Joins
<1>. QED BY <1>1, <1>2, <1>3 DEF BeginsWith, Follows

LEMMA BeginsTransitive ==
  ASSUME NEW S, NEW u \in Seq(S), NEW v \in Seq(S), NEW w \in Seq(S), BeginsWith(w, v)
  PROVE  /\ BeginsWith(v, u) => BeginsWith(w, u)
         /\ \A x \in Seq(S), y \in Seq(S) : Follows(v, x, y) => Follows(w, x, y)
BY DEF BeginsWith, Follows

(* What a buffer holds in the end begins with what it held before, and     *)
(* each part is where it was inserted.                                     *)
LEMMA BufferGrows ==
  ASSUME NEW S, NEW start \in Seq(S), NEW parts \in Seq(Seq(S))
  PROVE  \A n \in 0 .. Len(parts) :
           /\ Buffer(start, parts)[n] \in Seq(S)
           /\ \A m \in 0 .. n : BeginsWith(Buffer(start, parts)[n], Buffer(start, parts)[m])
<1> DEFINE N == Len(parts)
           B == Buffer(start, parts)
           For(n) == \A m \in 0 .. n : B[m] \in Seq(S) /\ BeginsWith(B[n], B[m])
           G == {n \in Nat : n <= N => For(n)}
<1>1. N \in Nat /\ \A n \in 1 .. N : parts[n] \in Seq(S)
  OBVIOUS
<1>2. Filled(B, start, parts)
  BY <1>1, BufferSteps
<1> HIDE DEF B
<1>3. 0 \in G
  BY <1>2 DEF BeginsWith, Filled
<1>4. ASSUME NEW n \in Nat, n \in G
      PROVE  n + 1 \in G
  <2> SUFFICES ASSUME n + 1 <= N PROVE For(n + 1)
    OBVIOUS
  <2>1. n <= N /\ n + 1 \in 1 .. N /\ (n + 1) - 1 = n
    BY <1>1
  <2>2. B[n + 1] = B[n] \o parts[n + 1] /\ B[n] \in Seq(S) /\ parts[n + 1] \in Seq(S)
    <3>1. B[n + 1] = B[(n + 1) - 1] \o parts[n + 1]
      BY <1>2, <2>1 DEF Filled
    <3>2. parts[n + 1] \in Seq(S)
      BY <1>1, <2>1
    <3>3. B[n] \in Seq(S)
      BY <1>4, <2>1
    <3>. QED BY <2>1, <3>1, <3>2, <3>3
  <2>3. B[n + 1] \in Seq(S) /\ BeginsWith(B[n + 1], B[n])
    <3>1. Joins(B[n + 1], B[n], parts[n + 1])
      BY <2>2 DEF Joins
    <3>. QED BY <2>2, <3>1, Concatenation
  <2>4. ASSUME NEW m \in 0 .. n PROVE B[m] \in Seq(S) /\ BeginsWith(B[n + 1], B[m])
    <3>1. B[m] \in Seq(S) /\ BeginsWith(B[n], B[m])
      BY <1>4, <2>1
    <3>. QED BY <2>2, <2>3, <3>1, BeginsTransitive
  <2>5. BeginsWith(B[n + 1], B[n + 1])
    BY <2>3 DEF BeginsWith
  <2>. QED BY <2>3, <2>4, <2>5
<1>5. \A n \in Nat : n \in G
  <2> HIDE DEF G
  <2>. QED BY <1>3, <1>4, NumberInduction
<1>. QED BY <1>1, <1>5 DEF B

LEMMA BufferParts ==
  ASSUME NEW S, NEW start \in Seq(S), NEW parts \in Seq(Seq(S)), NEW n \in 1 .. Len(parts)
  PROVE  LET buf == Buffer(start, parts) IN
         /\ Len(buf[n]) = Len(buf[n - 1]) + Len(parts[n])
         /\ Follows(buf[Len(parts)], buf[n - 1], parts[n])
<1> DEFINE B == Buffer(start, parts)
<1>1. B[n] = B[n - 1] \o parts[n]
  <2>1. Filled(B, start, parts)
    BY BufferSteps
  <2> HIDE DEF B
  <2>. QED BY <2>1 DEF Filled
<1>2. n - 1 \in 0 .. Len(parts) /\ n \in 0 .. Len(parts) /\ Len(parts) \in 0 .. Len(parts)
  OBVIOUS
<1>3. /\ B[n - 1] \in Seq(S) /\ B[n] \in Seq(S) /\ B[Len(parts)] \in Seq(S)
      /\ BeginsWith(B[Len(parts)], B[n])
  BY <1>2, BufferGrows
<1>4. parts[n] \in Seq(S)
  OBVIOUS
<1> HIDE DEF B
<1>5. Len(B[n]) = Len(B[n - 1]) + Len(parts[n]) /\ Follows(B[n], B[n - 1], parts[n])
  <2>1. PICK u, v, w : u = B[n - 1] /\ v = parts[n] /\ w = B[n]
    OBVIOUS
  <2>4. u \in Seq(S) /\ v \in Seq(S)
    BY <1>3, <1>4, <2>1
  <2>2. Joins(w, u, v)
    BY <1>1, <2>1 DEF Joins
  <2>3. Len(w) = Len(u) + Len(v) /\ Follows(w, u, v)
    BY <2>2, <2>4, Concatenation
  <2>. QED BY <2>1, <2>3
<1>6. Follows(B[Len(parts)], B[n - 1], parts[n])
  BY <1>3, <1>4, <1>5, BeginsTransitive
<1>. QED BY <1>5, <1>6 DEF B

(* What follows the parts that are read does not matter.                   *)
LEMMA BufferSame ==
  ASSUME NEW start, NEW p, NEW r, NEW n \in Nat, Len(p) \in Nat, Len(r) \in Nat,
         n <= Len(p), n <= Len(r), \A j \in 1 .. n : p[j] = r[j]
  PROVE  Buffer(start, p)[n] = Buffer(start, r)[n]
<1> DEFINE B == Buffer(start, p)
           C == Buffer(start, r)
           G == {m \in Nat : m <= n => B[m] = C[m]}
<1>1. Filled(B, start, p) /\ Filled(C, start, r)
  BY BufferSteps
<1> HIDE DEF B, C
<1>2. 0 \in G
  BY <1>1 DEF Filled
<1>3. ASSUME NEW m \in Nat, m \in G PROVE m + 1 \in G
  <2> SUFFICES ASSUME m + 1 <= n PROVE B[m + 1] = C[m + 1]
    OBVIOUS
  <2>1. m + 1 \in 1 .. n /\ m + 1 \in 1 .. Len(p) /\ m + 1 \in 1 .. Len(r) /\ (m + 1) - 1 = m
    OBVIOUS
  <2>2. B[m + 1] = B[(m + 1) - 1] \o p[m + 1] /\ C[m + 1] = C[(m + 1) - 1] \o r[m + 1]
    BY <1>1, <2>1 DEF Filled
  <2>3. B[m] = C[m] /\ p[m + 1] = r[m + 1]
    BY <1>3, <2>1
  <2>. QED BY <2>1, <2>2, <2>3
<1>4. n \in G
  <2> HIDE DEF G
  <2>. QED BY <1>2, <1>3, NumberInduction
<1>. QED BY <1>4 DEF B, C

(* The parts g makes of the elements of vs, one after the other.           *)
Mapped(g, vs) == [j \in DOMAIN vs |-> g[vs[j]]]
Joined(start, g, vs) == Buffer(start, Mapped(g, vs))[Len(vs)]

LEMMA MappedParts ==
  ASSUME NEW S, NEW vs \in Seq(S), NEW g
  PROVE  /\ Len(vs) \in Nat /\ Len(Mapped(g, vs)) = Len(vs)
         /\ \A j \in 1 .. Len(vs) : vs[j] \in S /\ Mapped(g, vs)[j] = g[vs[j]]
<1>1. DOMAIN vs = 1 .. Len(vs) /\ Len(vs) \in Nat
  OBVIOUS
<1>2. DOMAIN Mapped(g, vs) = 1 .. Len(vs)
  BY <1>1 DEF Mapped
<1>3. Len(Mapped(g, vs)) = Len(vs)
  BY <1>1 DEF Mapped
<1>4. \A j \in 1 .. Len(vs) : vs[j] \in S
  OBVIOUS
<1>5. \A j \in 1 .. Len(vs) : Mapped(g, vs)[j] = g[vs[j]]
  BY <1>1 DEF Mapped
<1>. QED BY <1>1, <1>3, <1>4, <1>5

LEMMA JoinedEmpty == ASSUME NEW start, NEW g PROVE Joined(start, g, <<>>) = start
<1>1. <<>> \in Seq({}) /\ Len(<<>>) = 0
  OBVIOUS
<1>2. Len(Mapped(g, <<>>)) = 0
  BY <1>1, MappedParts
<1>3. Filled(Buffer(start, Mapped(g, <<>>)), start, Mapped(g, <<>>))
  BY <1>2, BufferSteps
<1>. QED BY <1>1, <1>3 DEF Joined, Filled

LEMMA JoinedSteps ==
  ASSUME NEW start, NEW g, NEW S, NEW vs \in Seq(S), NEW v \in S
  PROVE  Joined(start, g, Append(vs, v)) = Joined(start, g, vs) \o g[v]
<1>1. PICK ws : ws = Append(vs, v)
  OBVIOUS
<1>2. /\ ws \in Seq(S) /\ Len(ws) = Len(vs) + 1 /\ Len(vs) \in Nat
      /\ ws[Len(vs) + 1] = v /\ \A j \in 1 .. Len(vs) : ws[j] = vs[j]
  BY <1>1
<1>3. /\ Len(Mapped(g, vs)) = Len(vs) /\ Len(Mapped(g, ws)) = Len(vs) + 1
      /\ \A j \in 1 .. Len(vs) : Mapped(g, vs)[j] = g[vs[j]]
      /\ \A j \in 1 .. Len(vs) + 1 : Mapped(g, ws)[j] = g[ws[j]]
  BY <1>2, MappedParts
<1>4. \A j \in 1 .. Len(vs) : Mapped(g, ws)[j] = Mapped(g, vs)[j]
  <2>1. \A j \in 1 .. Len(vs) : j \in 1 .. Len(vs) + 1
    BY <1>2
  <2>. QED BY <1>2, <1>3, <2>1
<1>5. Buffer(start, Mapped(g, ws))[Len(vs)] = Buffer(start, Mapped(g, vs))[Len(vs)]
  <2>1. /\ Len(Mapped(g, ws)) \in Nat /\ Len(Mapped(g, vs)) \in Nat
        /\ Len(vs) <= Len(Mapped(g, ws)) /\ Len(vs) <= Len(Mapped(g, vs))
    BY <1>2, <1>3
  <2>2. PICK a, c, i : a = Mapped(g, ws) /\ c = Mapped(g, vs) /\ i = Len(vs)
    OBVIOUS
  <2>3. /\ Len(a) \in Nat /\ Len(c) \in Nat /\ i \in Nat /\ i <= Len(a) /\ i <= Len(c)
        /\ \A j \in 1 .. i : a[j] = c[j]
    BY <1>2, <1>4, <2>1, <2>2
  <2>4. Buffer(start, a)[i] = Buffer(start, c)[i]
    BY <2>3, BufferSame
  <2>. QED BY <2>2, <2>4
<1>6. Buffer(start, Mapped(g, ws))[Len(vs) + 1]
        = Buffer(start, Mapped(g, ws))[Len(vs)] \o Mapped(g, ws)[Len(vs) + 1]
  <2>1. Filled(Buffer(start, Mapped(g, ws)), start, Mapped(g, ws))
    BY <1>2, <1>3, BufferSteps
  <2>2. Len(vs) + 1 \in 1 .. Len(Mapped(g, ws)) /\ (Len(vs) + 1) - 1 = Len(vs)
    BY <1>2, <1>3
  <2>. QED BY <2>1, <2>2 DEF Filled
<1>7. Mapped(g, ws)[Len(vs) + 1] = g[v]
  <2>1. Len(vs) + 1 \in 1 .. Len(vs) + 1
    BY <1>2
  <2>. QED BY <1>2, <1>3, <2>1
<1>. QED BY <1>1, <1>2, <1>5, <1>6, <1>7 DEF Joined

LEMMA JoinedTyped ==
  ASSUME NEW T, NEW start \in Seq(T), NEW g, NEW S, NEW vs \in Seq(S), \A s \in S : g[s] \in Seq(T)
  PROVE  /\ Joined(start, g, vs) \in Seq(T)
         /\ Joined(start, g, vs) = start \o Joined(<<>>, g, vs)
<1> DEFINE N == Len(vs)
           p == Mapped(g, vs)
           B == Buffer(start, p)
           C == Buffer(<<>>, p)
           G == {n \in Nat : n <= N => B[n] \in Seq(T) /\ C[n] \in Seq(T) /\ B[n] = start \o C[n]}
<1>1. /\ N \in Nat /\ Len(p) = N
      /\ \A j \in 1 .. N : p[j] \in Seq(T)
  BY MappedParts
<1>2. Filled(B, start, p) /\ Filled(C, <<>>, p)
  BY <1>1, BufferSteps
<1> HIDE DEF B, C, p, N
<1>3. 0 \in G
  <2>1. <<>> \in Seq(T) /\ start \o <<>> = start
    OBVIOUS
  <2>. QED BY <1>2, <2>1 DEF Filled
<1>4. ASSUME NEW n \in Nat, n \in G PROVE n + 1 \in G
  <2> SUFFICES ASSUME n + 1 <= N
               PROVE  B[n + 1] \in Seq(T) /\ C[n + 1] \in Seq(T) /\ B[n + 1] = start \o C[n + 1]
    OBVIOUS
  <2>1. n + 1 \in 1 .. N /\ n + 1 \in 1 .. Len(p) /\ (n + 1) - 1 = n
    BY <1>1
  <2>2. B[n + 1] = B[(n + 1) - 1] \o p[n + 1] /\ C[n + 1] = C[(n + 1) - 1] \o p[n + 1]
    BY <1>2, <2>1 DEF Filled
  <2>3. PICK u, v, w : u = B[n] /\ v = C[n] /\ w = p[n + 1]
    OBVIOUS
  <2>4. u \in Seq(T) /\ v \in Seq(T) /\ w \in Seq(T) /\ u = start \o v
    BY <1>1, <1>4, <2>1, <2>3
  <2>5. u \o w \in Seq(T) /\ v \o w \in Seq(T) /\ u \o w = start \o (v \o w)
    BY <2>4
  <2>. QED BY <2>1, <2>2, <2>3, <2>5
<1>5. N \in G
  <2> HIDE DEF G
  <2>. QED BY <1>1, <1>3, <1>4, NumberInduction
<1>. QED BY <1>1, <1>5 DEF Joined, B, C, N, p

LEMMA JoinedSame ==
  ASSUME NEW start, NEW g, NEW h, NEW S, NEW vs \in Seq(S), \A s \in S : g[s] = h[s]
  PROVE  Joined(start, g, vs) = Joined(start, h, vs)
<1>1. Mapped(g, vs) = Mapped(h, vs)
  BY DEF Mapped
<1>. QED BY <1>1 DEF Joined
=============================================================================
