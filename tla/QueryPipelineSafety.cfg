SPECIFICATION Spec
CONSTANTS
    q1 = q1
    q2 = q2
    q3 = q3
    ruleset = ruleset
    config = config
    Queries = {q1, q2, q3}
    Questions = {"a", "v", "b"}
    Sections = {"A", "AAAA"}
    Names = {"n"}
    Keys = {"k"}
    Reloaders = {ruleset, config}
    QuestionOf <- MCQuestionOf
    SectionOf <- MCSectionOf
    KeyOf <- MCKeyOf
    NameOf <- MCNameOf
    RouteOf <- MCRouteOf
    MaxInflight = 2
    MaxGeneration = 1
SYMMETRY ReloaderSymmetry
INVARIANTS
    OneLeaderPerEntry
    NoOrphanedFollower
    SharedUnderOwnGeneration
    AnswersOwnQuestion
    PermitsConserved
    StaleEntriesAreLate
    StaleVerdictsAreLate
    GenerationsUnique
