SPECIFICATION EitherSpec
CONSTANTS
    MaxPlayers = 3
    MinPlayers = 2
    TotalRounds = 2
    Categories = 2
    TitlePoints = 0
    AnswerPoints = 0
    BankOutcomes = {TRUE}
    Name <- Names
    NoName = ""
    MaxId = 2
    MaxFlaky = 0
    Text <- Texts
    Submission <- Submissions
    OptionNumber <- Numbers
    MaxUp = 1
INVARIANTS
    SysTypeOK
CONSTRAINT NobodyLeftOut
PROPERTIES
    NobodyStuck
    NothingMisread
    MatchStarts
ACTION_CONSTRAINT LeavesOutsideMatch
CHECK_DEADLOCK FALSE
