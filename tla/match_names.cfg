SPECIFICATION Spec
CONSTANTS
    MaxPlayers = 4
    MinPlayers = 3
    TotalRounds = 1
    Categories = 1
    TitlePoints = 0
    AnswerPoints = 0
    BankOutcomes = {TRUE, FALSE}
    Name = {n1, n2, n3, n4}
    NoName = NoName
    MaxId = 5
SYMMETRY Symmetry
INVARIANTS
    UniqueNames
CHECK_DEADLOCK FALSE
CONSTRAINT QuietMatch
