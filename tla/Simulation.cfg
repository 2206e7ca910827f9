\* The broker closes or refuses the connection, limits change, operators interfere.
SPECIFICATION SimulationFairSpec
CONSTANTS
    m1 = m1  m2 = m2  s1 = s1
    NoId = NoId
    Queues = {"payments"}
    Ids = {m1, m2}
    QueueOf <- MCQueueOf
    Limits = {0, 1, 2}
    FirstLimit <- MCOne
    MaxUpdates = 1
    MaxChanges = 1
    MaxCounted = 1
    Faults = TRUE
INVARIANTS
    NoRegistrationLost
PROPERTIES
    EnqueuedIsAnswered
