\* Lock: two transitions and a write_manifest on Windows. Pruning: two scenes,
\* orientations in quarters of a half turn. Agent: two advisory runs,
\* an application, two pages and two Semantic IRs, one rewrite.
CONSTANTS
    Nobody = Nobody
    Transitions = {t1, t2}
    Writers = {w1}
    Windows = TRUE
    MaxCalls = 3
    Lines = {"A", "B", "C", "D"}
    Circles = {"O", "Q"}
    Scenes <- MCScenes
    MinConfidence = 6
    Angles = {0, 1, 2, 3}
    Turn <- MCTurn
    NoFile = NoFile
    Torn = Torn
    Advisers = {"a1", "a2"}
    Appliers = {"p"}
    Pages = {"p1", "p2"}
    Semantics = {"s1", "s2"}
    TextsOf <- MCTextsOf
    ConflictsOf <- MCConflictsOf
    PartsOf <- MCPartsOf
    ListOf <- MCListOf
    Confidence <- MCConfidence
    Redundant <- MCRedundant
    Solvers = {{{}, {"k1"}, {"m1"}}}
    MaxIterations = 2
    MaxRewrites = 1
SPECIFICATION PartsSpec
INVARIANTS
    MutualExclusion
    LeftoverIsExplained
    ConstraintsAreExact
    AgentIsSound
PROPERTIES
    ImplementsStore
    CallsReturn
CHECK_DEADLOCK FALSE
