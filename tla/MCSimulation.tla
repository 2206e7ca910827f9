---------------------------- MODULE MCSimulation ----------------------------
(* Instances of Simulation for TLC.                                         *)
EXTENDS Simulation, TLC

CONSTANTS m1, m2, s1

MCQueueOf == [id \in Ids |-> IF id = s1 THEN "shipments" ELSE "payments"]
MCOne == [q \in Queues |-> 1]
MCZero == [q \in Queues |-> 0]
=============================================================================
