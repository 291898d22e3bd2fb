SPECIFICATION MCSpec
CONSTANTS
    Names <- MCNames
    Width <- MCWidth
    HiddenNames = {3}
    DirMarker = 3
    FirstKeys <- MCFirstKeys
    OtherKeys <- MCOtherKeys
    LocalFiles <- MCLocalFiles
    Size <- MCSize
    MaxDepth = 2
    MaxQueue = 2
    MaxOps = 1
    MaxChanges = 1
INVARIANTS ViewsFresh CursorsValid EventsAccounted OutcomeTrue
PROPERTIES OnlyAskedChanges CancelReturns
CHECK_DEADLOCK FALSE
