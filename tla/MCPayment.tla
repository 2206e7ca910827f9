------------------------------ MODULE MCPayment ------------------------------
(* Instances of Payment for TLC.                                            *)
EXTENDS Payment, TLC

CONSTANTS card, prepaid, billed, iCard, iPre, iInv, p1, p2, p3

(* Each order is named after its payment method.                            *)
MCInfoOf == [o \in Orders |-> CASE o = card    -> iCard
                                [] o = prepaid -> iPre
                                [] OTHER       -> iInv]
MCMethodOf == [i \in Infos |-> CASE i = iCard -> "CREDIT_CARD"
                                 [] i = iPre  -> "PREPAYMENT"
                                 [] OTHER     -> "INVOICE"]
Symmetry == Permutations(Procs)
=============================================================================
