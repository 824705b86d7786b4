------------------------------- MODULE MCSave -------------------------------
(* A number, and a list with a text and a list with an alias in it, under  *)
(* two keys.                                                               *)
EXTENDS KeplerSave

ListOf(items) == [type |-> "LIST", val |-> items]

One   == [type |-> "INT", val |-> 1]
Alias == [type |-> "IDENTIFIER", val |-> CHOOSE k \in Key : k # Torn]
Text  == [type |-> "STRING", val |-> CHOOSE x \in Str : x # Torn]

SomeValues == {One, ListOf(<<ListOf(<<Alias>>), Text>>)}
=============================================================================
