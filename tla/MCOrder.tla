------------------------------- MODULE MCOrder -------------------------------
(* Instances of Order for TLC.                                              *)
EXTENDS Order, TLC

CONSTANTS o1, o2, a, b, c, fa, fb, fc, r1, r2, h1, h2

(* The order o1 has two items, shipped apart; o2 has one.                   *)
MCItemsOf == [o \in Orders |-> IF o = o1 THEN {a, b} ELSE {c}]
MCAmountOf == [i \in {a, b, c} |-> CASE i = a -> 1 [] i = b -> 2 [] OTHER -> 3]
MCOrderOf == [f \in Failures |-> IF f = fc THEN o2 ELSE o1]
MCFailedItems == [f \in Failures |-> CASE f = fa -> {a} [] f = fb -> {b}
                                       [] OTHER -> {c}]
=============================================================================
