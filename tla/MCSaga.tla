------------------------------- MODULE MCSaga --------------------------------
(* An instance of Saga for TLC.                                             *)
EXTENDS Saga, TLC

CONSTANTS i1, a, o1, o2, x1, x2, n1, n2, m1, v1, v2, home

(* Both orders want the one unit of a.                                      *)
MCLines == [o \in Orders |-> <<[variant |-> a, count |-> 1]>>]
MCStock == [i \in Units |-> a]

(* The first is prepaid, the second bought on account.                      *)
MCInfoOf == (o1 :> n1) @@ (o2 :> n2)
MCPayMethodOf == (n1 :> "PREPAYMENT") @@ (n2 :> "INVOICE")

(* The version of the second item is not known to the shipment service in   *)
(* time: its shipment fails.                                                *)
MCOrderItems == (o1 :> <<x1>>) @@ (o2 :> <<x2>>)
MCMethodOf == [x \in {x1, x2} |-> m1]
MCVersionOf == (x1 :> v1) @@ (x2 :> v2)
MCQuantityOf == [x \in {x1, x2} |-> 1]
MCAddressOf == [o \in Orders |-> home]
MCGrams == [v \in {v1, v2} |-> 100]
MCFee == m1 :> [base |-> 1, perItem |-> 1, perKg |-> 1]
=============================================================================
