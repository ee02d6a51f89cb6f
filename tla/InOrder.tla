------------------------------- MODULE InOrder -------------------------------
(***************************************************************************)
(* A loop of the code over the entries or the units, from index 0 up, that   *)
(* takes those in S: the places it takes, in the order it takes them.        *)
(***************************************************************************)
EXTENDS Integers, FiniteSets

InOrder(S) ==
    CHOOSE place \in [1 .. Cardinality(S) -> S] :
        \A j, k \in DOMAIN place : j < k => place[j] < place[k]
=============================================================================
