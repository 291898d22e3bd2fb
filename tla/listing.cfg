SPECIFICATION Spec
CONSTANTS
  Absent = Absent
  Index <- MCIndex
  Initials <- MCInitials
  Asked <- MCAsked
  Limits <- MCLimits
  MaxChanges = 2
  StreamPrefix <- MCStreamPrefix
  Slash <- MCSlash
  Zero <- MCZero
  VariantsDir <- MCVariantsDir
  InitFile <- MCInitFile
  SegFile <- MCSegFile
  Dot <- MCDot
  Number <- MCNumber
  Padded <- MCPadded
  Meta <- MCMeta
  AskedStreams <- MCAskedStreams
  Ids <- MCIds
  Variants <- MCVariants
  ScanLimit = 100
  VariantScan = 100
  DeletePage = 2
INVARIANTS PagesExact StreamsExact StreamDeleted HlsExact DashReaches
PROPERTIES CursorAdvances
CHECK_DEADLOCK FALSE
