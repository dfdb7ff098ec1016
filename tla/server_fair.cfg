SPECIFICATION SeatedSpec
CONSTANTS
    MaxPlayers = 3
    MinPlayers = 2
    TotalRounds = 2
    Categories = 2
    TitlePoints = 0
    AnswerPoints = 0
    BankOutcomes = {TRUE}
    Name = {n1, n2, n3}
    NoName = NoName
    MaxId = 4
    MaxFlaky = 0
INVARIANTS
    TypeOK
    OneClock
    CountdownWanted
PROPERTIES
    FlowSpec
    MatchEnds
CHECK_DEADLOCK FALSE
