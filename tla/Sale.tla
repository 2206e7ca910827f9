-------------------------------- MODULE Sale ---------------------------------
(***************************************************************************)
(* What the services of the order saga promise together, as the customer   *)
(* and the stockroom see it: an order goes through the phases below in one *)
(* order only, and an order is told that its units are reserved only while *)
(* there are units that no other order was promised.                       *)
(***************************************************************************)
EXTENDS Integers, Functions

CONSTANTS
    Orders,    \* order ids
    Variants,  \* product variants
    Need,      \* Need[o][v]: units of v the order asks for
    Units      \* Units[v]: units of v in the storeroom

VARIABLE phase \* phase[o]: how far the order has come

(* An order that is refused or cancelled gives up what it was promised.     *)
Promising == {"reserved", "approved", "enabled", "handed over"}

Promised(v) ==
    SumFunctionOnSet([o \in Orders |-> Need[o][v]],
                     {o \in Orders : phase[o] \in Promising})

Init == phase = [o \in Orders |-> "new"]

(* The steps of an order.  It can be cancelled after it was handed over.    *)
Moves ==
    {<<"new", "placed">>,
     <<"placed", "reserved">>, <<"placed", "refused">>,
     <<"reserved", "approved">>, <<"reserved", "refused">>,
     <<"approved", "enabled">>, <<"enabled", "handed over">>}
    \cup {"approved", "enabled", "handed over"} \X {"cancelled"}

Move(o) ==
    /\ <<phase[o], phase'[o]>> \in Moves
    /\ \A q \in Orders \ {o} : phase'[q] = phase[q]
    /\ phase'[o] = "reserved" =>
          \A v \in Variants : Promised(v) + Need[o][v] <= Units[v]

Next == \E o \in Orders : Move(o)

Spec == Init /\ [][Next]_phase
=============================================================================
