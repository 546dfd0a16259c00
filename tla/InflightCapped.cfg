SPECIFICATION Spec
CONSTANTS
    e1 = e1
    e2 = e2
    e3 = e3
    e4 = e4
    Exchanges = {e1, e2, e3, e4}
    Questions = {"a", "b"}
    Ids = {1, 2}
    Shards = {0, 1}
    ShardOf <- MCShardOf
    QuestionOf <- MCQuestionOf
    Cap = 2
SYMMETRY ExchangeSymmetry
INVARIANTS
    AnswersOwnQuestion
    WaiterKeepsEntry
    PermitsConserved
