----------------------------- MODULE MCClientOps -----------------------------
(* Two clients that both update: one with two orders, of two items and one,  *)
(* one with five orders of an item each. The loaded orders they delete are    *)
(* not all different: both are given the second, and one is given a 0. The    *)
(* first has two items, and the loaded items outnumber those that can go.     *)
EXTENDS ClientOps, TLC

MCShares ==
  <<[n |-> 2, start |-> (0 :> 0) @@ (1 :> 2) @@ (2 :> 3)],
    [n |-> 5, start |-> [i \in 0..5 |-> i]]>>

MCDeleteKeys ==
  <<[i \in 0..1 |-> <<0, i>>], [i \in 0..4 |-> IF i = 1 THEN NoOrder ELSE <<0, i + 1>>]>>

MCBaseItems == {<<<<0, o>>, 1>> : o \in 0..5} \cup {<<<<0, 0>>, 2>>}

MCMaxOps == <<3, 1>>
=============================================================================
