-------------------------------- MODULE Shop ---------------------------------
(***************************************************************************)
(* What the customer-facing services have in common: the people and the    *)
(* products their requests name, and the requests themselves.  Each of the *)
(* services keeps its own database; none of them reads another's.          *)
(***************************************************************************)
EXTENDS Integers, FiniteSets

CONSTANTS
    Users,       \* user ids
    Variants,    \* product variant ids
    Requests,    \* GraphQL requests one service can have in progress together
    None         \* no document, no value

ASSUME ShopAssumption == None \notin Users \cup Variants
=============================================================================
