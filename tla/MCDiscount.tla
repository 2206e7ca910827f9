----------------------------- MODULE MCDiscount -----------------------------
(* Instances of Discount for TLC.                                           *)
EXTENDS Discount, TLC

CONSTANTS u1, u2, d1, d2, o1, o2

(* All orders are of one user.  o1 and o2 name the two discounts in         *)
(* opposite orders, o2 names d1 on two of its items.                        *)
MCUserOf == [o \in Orders |-> u1]
MCMentions ==
    [o \in Orders |->
        CASE o = o1 -> <<[discount |-> d1, count |-> 1], [discount |-> d2, count |-> 1]>>
          [] o = o2 -> <<[discount |-> d2, count |-> 1], [discount |-> d1, count |-> 1],
                         [discount |-> d1, count |-> 1]>>]
(* The orders together ask for three of d1 and two of d2.                   *)
MCSeed == [d \in Discounts |-> 2]
MCNoSeed == <<>>
MCNoMentions == [o \in Orders |-> <<>>]

SymmetryTables == Permutations(Users) \cup Permutations(Editors)
                  \cup Permutations(Shoppers) \cup Permutations(Targets)
=============================================================================
