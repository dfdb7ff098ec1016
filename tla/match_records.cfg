SPECIFICATION Spec
CONSTANTS
    MaxPlayers = 3
    MinPlayers = 2
    TotalRounds = 1
    Categories = 1
    TitlePoints = 0
    AnswerPoints = 0
    BankOutcomes = {TRUE, FALSE}
    Name = {n1, n2, n3}
    NoName = NoName
    MaxId = 4
SYMMETRY Symmetry
CONSTRAINT QuietMatch
INVARIANTS
    RecordsKept
CHECK_DEADLOCK FALSE
