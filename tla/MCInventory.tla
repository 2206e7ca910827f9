----------------------------- MODULE MCInventory -----------------------------
(* Instances of Inventory for TLC.                                          *)
EXTENDS Inventory, TLC

CONSTANTS i1, i2, i3, a, b, o1, o2, w1, w2

(* Two orders that compete for the last unit of variant a; o2 also wants b. *)
MCLines == (o1 :> <<[variant |-> a, count |-> 1]>>) @@
           (o2 :> <<[variant |-> b, count |-> 1], [variant |-> a, count |-> 1]>>)
(* One unit of each variant; a third id is free for createProductItemBatch. *)
MCStock == [i \in Items |-> CASE i = i1 -> a [] i = i2 -> b [] OTHER -> None]

(* Both orders want the one unit of a.                                      *)
MCOneEach == [o \in Orders |-> <<[variant |-> a, count |-> 1]>>]

(* Workers are alike, and so are orders that ask for the same.              *)
Symmetry == Permutations(Workers) \cup Permutations(Orders)
=============================================================================
