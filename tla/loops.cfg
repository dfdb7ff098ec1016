SPECIFICATION Spec
CONSTANTS
    MaxPlayers = 3
    MaxLineLen = 128
    MaxPromptLen = 120
    MaxSubmissionLen = 96
    MaxCategoryLen = 16
    Category = {"headlines", "captions"}
    Text <- Texts
    MaxLines = 6
    Score = {0, 1, 2}
INVARIANTS
    BankTypeOK
    BankJudged
    DealtDistinct
    DealtGetsThrough
    BoardTypeOK
    Ranked
    WinnersLead
CHECK_DEADLOCK FALSE
