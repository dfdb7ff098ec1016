SPECIFICATION SysSpec
CONSTANTS
    MaxPlayers = 2
    MinPlayers = 2
    TotalRounds = 2
    Categories = 2
    TitlePoints = 0
    AnswerPoints = 0
    BankOutcomes = {TRUE}
    Name <- Names
    NoName = ""
    MaxId = 2
    MaxFlaky = 0
    Text <- Texts
    Submission <- Submissions
    OptionNumber <- Numbers
    MaxUp = 1
CHECK_DEADLOCK FALSE
INVARIANTS AwaitedCanVote
