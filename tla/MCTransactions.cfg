SPECIFICATION FairSpec
CONSTANTS
    w1 = w1
    w2 = w2
    Workers = {w1, w2}
    PoolSize = 1
    Faults = {"secret", "commit"}
    None = None
INVARIANTS
    TypeOK
    AnswerTellsOutcome
    ConnectionsAreReturned
    FactoryBeforeSession
PROPERTIES
    EveryRequestEnds
    EnginesSettle
