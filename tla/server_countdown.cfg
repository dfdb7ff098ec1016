SPECIFICATION SeatedSpec
CONSTANTS
    MaxPlayers = 4
    MinPlayers = 3
    TotalRounds = 1
    Categories = 1
    TitlePoints = 0
    AnswerPoints = 0
    BankOutcomes = {TRUE}
    Name = {n1, n2, n3, n4}
    NoName = NoName
    MaxId = 4
    MaxFlaky = 1
CONSTRAINT QuietMatch
INVARIANTS
    QuestionsComing
CHECK_DEADLOCK FALSE
