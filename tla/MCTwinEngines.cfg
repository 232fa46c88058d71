\* Both matching engines, fed with up to four orders.
SPECIFICATION Spec
CONSTANTS
    Kinds <- MCKinds
    MinQuantity = 2
    MaxQuantity = 4
    LotSize = 2
    TickSize = 2
    Depth = 1
    MaxOrders = 4
INVARIANTS
    LevelsExact
PROPERTIES
    RustImplementsBook
    ApiImplementsBook
    TwinsAgree
    AnswersTrue
