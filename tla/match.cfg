SPECIFICATION Spec
CONSTANTS
    MaxPlayers = 3
    MinPlayers = 2
    TotalRounds = 2
    Categories = 2
    TitlePoints = 2
    AnswerPoints = 1
    BankOutcomes = {TRUE, FALSE}
    Name = {n1, n2, n3}
    NoName = NoName
    MaxId = 4
SYMMETRY Symmetry
CONSTRAINT FullHouse
INVARIANTS
    TypeOK
    SeatsDistinct
    Quorum
    RoundMembers
    TitlesDealt
    VotesTally
    AnswerOutstanding
    OwnClockOnly
    LevelStart
PROPERTIES
    PointsPaidOnce
    FlowSpec
CHECK_DEADLOCK FALSE
