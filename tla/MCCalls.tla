------------------------------ MODULE MCCalls -------------------------------
(* Calls with up to four arguments of all types and up to five of the      *)
(* basic ones, on targets with two registers of each sort, so that every   *)
(* argument can be the one that finds none left.                           *)
EXTENDS Calls

MCMax(t) == 2

(* Windows has no long double of its own, and only ARM64 tells an hfa from *)
(* another struct.                                                         *)
KindsOf(t) ==
  CASE t = "sysv" -> {"int", "float", "double", "ldouble", "big"}
    [] t = "win" -> {"int", "float", "double", "big"}
    [] t = "arm" -> {"int", "float", "double", "ldouble", "big", "hfa", "hfa1"}

Lists(K, n) == UNION {[1 .. m -> K] : m \in 0 .. n}
ArgLists(t) == Lists(KindsOf(t), 4) \union Lists({"int", "double"}, 5)

Call(t, h, v, n, a) == [target |-> t, hidden |-> h, variadic |-> v, named |-> n, args |-> a]
Fixed(t) == {Call(t, h, FALSE, Len(a), a) : h \in BOOLEAN, a \in ArgLists(t)}

(* An unnamed float has been promoted to double.                           *)
Variadic(t) ==
  {Call(t, FALSE, TRUE, n, a) :
     n \in {1, 3}, a \in {b \in ArgLists(t) : Len(b) >= 3 /\ \A i \in 1 .. Len(b) : b[i] # "float"}}

MCSignatures == UNION {Fixed(t) \union Variadic(t) : t \in {"sysv", "win", "arm"}}
=============================================================================
