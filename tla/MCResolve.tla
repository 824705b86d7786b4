----------------------------- MODULE MCResolve -----------------------------
(* Every store over three keys whose values are a number, an alias, a list *)
(* of at most two aliases or a list with a list of an alias in it.         *)
EXTENDS KeplerResolve, TLC

IdOf(k) == [type |-> "IDENTIFIER", val |-> k]
ListOf(items) == [type |-> "LIST", val |-> items]

AnyBinding ==
  {[type |-> "INT", val |-> 0]}
  \cup {IdOf(k) : k \in Key}
  \cup {ListOf(<<IdOf(k)>>) : k \in Key}
  \cup {ListOf(<<IdOf(k), IdOf(l)>>) : k, l \in Key}
  \cup {ListOf(<<IdOf(k), ListOf(<<IdOf(l)>>)>>) : k, l \in Key}

Symmetry == Permutations(Key)
=============================================================================
