SPECIFICATION FairSpec
CONSTANTS
    q1 = q1
    q2 = q2
    q3 = q3
    ruleset = ruleset
    config = config
    Queries = {q1, q2, q3}
    Questions = {"a", "v", "b"}
    Sections = {"A", "AAAA"}
    Names = {"n"}
    Keys = {"k"}
    Reloaders = {ruleset}
    QuestionOf <- MCSameQuestionOf
    SectionOf <- MCSectionOf
    KeyOf <- MCKeyOf
    NameOf <- MCNameOf
    RouteOf <- MCRuleRouteOf
    MaxInflight = 3
    MaxGeneration = 1
PROPERTIES
    EveryQueryEnds
