CONSTANTS
    Roster = 4
    Leavers <- TheLeavers
    Colors <- TheColors
    Article <- TheArticles
    LastStep = 2
    Stamped <- TheStamped
    Path <- ThePath
    Jitter <- TheJitter
    LateAt <- TheLate
    Slipped <- TheSlipped
    Today = 10
    Goods <- TheGoods
    Targets <- SomeTargets
    Days <- SomeDays
    Places <- SomePlaces
    Options <- Growing
    MaxRuns = 3

SPECIFICATION SeedSpec
CHECK_DEADLOCK FALSE

INVARIANT SafeToRunTwice

