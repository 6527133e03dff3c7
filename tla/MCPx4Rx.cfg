SPECIFICATION RxSpec
CONSTANTS
    LinkSet = {"eth", "telem2"}
    First = "eth"
    Gens = 3
    SeqRange = 8
    HistLen = 3
    MaxLost = 1
    CopyWindow = 1
    MaxFrame = 10
INVARIANTS
    HistoryOfOneLink
    DropsOnlyCopies
    PassesNoCopy
PROPERTIES
    ImplementsFilter
