SPECIFICATION Spec
CONSTANTS
    Hunt = Hunt
    Trade = Trade
    Quest = {Hunt, Trade}
    Required <- MCRequired
    Repeatable = {Trade}
    Consuming = {Trade}
    Coins <- MCCoins
    BagSize = 1
    MaxInst = 3
    MaxWire = 1
    MaxTurnIns = 2
    MaxSessions = 2
    NoQuest = NoQuest
CHECK_DEADLOCK FALSE
INVARIANTS RecordsAgree TurnedInOnce
PROPERTIES KillsEarned BackKeepsQuestInOrder
