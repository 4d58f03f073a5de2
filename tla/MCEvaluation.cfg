SPECIFICATION Spec
CONSTANTS
    Nil = Nil
    Bad = Bad
    JsonNull = JsonNull
    Texts <- MCTexts
    EmptyText = ""
    NumberOf <- MCNumberOf
    PatternOf <- MCPatternOf
    ListOf <- MCListOf
    Holding <- MCHolding
    TrueTexts <- MCTrueTexts
    FalseTexts <- MCFalseTexts
    Null = JsonNull
    Unreadable = Bad
    Nothing = Nil
    One = 4
    AlmostOne = 3
    Inputs <- MCInputs
INVARIANTS
    TypeOK
    IndexIsTransparent
    WellFormedServes
    ZeroShareUnserved
    BadDataMatchesNothing
CHECK_DEADLOCK FALSE
