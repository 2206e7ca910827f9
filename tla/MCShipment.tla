----------------------------- MODULE MCShipment ------------------------------
(* Instances of Shipment for TLC.                                           *)
EXTENDS Shipment, TLC

CONSTANTS o1, r1, a, b, c, m1, m2, v1, v2, home, depot, w1, w2, c1

(* One order of three items, two of which ship together; one of the two is  *)
(* sent back.                                                               *)
MCOrderItems == [o \in Orders |-> <<a, b, c>>]
MCReturnItems == [r \in Returns |-> {c}]
MCMethodOf == a :> m1 @@ b :> m2 @@ c :> m1
MCVersionOf == a :> v1 @@ b :> v2 @@ c :> v1
MCQuantityOf == a :> 1 @@ b :> 2 @@ c :> 1
MCAddressOf == [o \in Orders |-> home]
MCGrams == v1 :> 300 @@ v2 :> 700
MCFee == m1 :> [base |-> 5, perItem |-> 1, perKg |-> 1] @@
         m2 :> [base |-> 3, perItem |-> 1, perKg |-> 3]

Symmetry == Permutations(Workers)
=============================================================================
