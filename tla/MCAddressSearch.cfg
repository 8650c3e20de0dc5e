SPECIFICATION Spec
CONSTANTS
  Toasts = {"t1", "t2"}
  NoToast = "none"
  Kinds = {"menu", "qr", "search"}
  Follows <- MCFollows
  ToastsOn <- MCToastsOn
  MaxIndex = 1
  Targets <- MCTargets
  SkipStep = 2
  NoIndex = NoIndex
INVARIANTS
  LockIsHeldByTheDrawer
  RestoredUnlessCrossed
  SearchPassesNoAddress
  ReportIsOfTheAddress
CHECK_DEADLOCK FALSE
PROPERTIES
  MainIsNotShutOut
  NewsEndsTheSaver
