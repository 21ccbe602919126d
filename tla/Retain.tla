-------------------------------- MODULE Retain --------------------------------
(***************************************************************************)
(* VecDeque::retain as the two helpers use it: drop from a queue every     *)
(* entry that belongs to a given set and keep the others in their order.   *)
(*                                                                         *)
(* SelectSeq of the standard library computes the same thing; it takes an  *)
(* operator as its argument, which the provers cannot instantiate, so the  *)
(* entries to keep are picked here by their rank among the kept positions. *)
(* MCVncWriter checks the two definitions against each other.             *)
(***************************************************************************)
EXTENDS Naturals, Sequences, FiniteSets

\* The positions of s that hold something outside D.
Kept(s, D) == {i \in 1..Len(s) : s[i] \notin D}

\* How many positions of K lie at or before i.
Rank(K, i) == Cardinality({k \in K : k =< i})

\* The position of rank j in K.
Nth(K, j) == CHOOSE i \in K : Rank(K, i) = j

\* s without its entries in D.
Without(s, D) ==
    LET K == Kept(s, D)
    IN  [j \in 1..Cardinality(K) |-> s[Nth(K, j)]]
===============================================================================
