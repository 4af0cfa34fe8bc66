SPECIFICATION FairSpec
CONSTANTS
  Watched  <- MCWatched
  Switched <- MCSwitched
  Styles   <- MCStyles
  FirstStyle = "tactical"
  MaxFaults = 1
INVARIANTS ShownIsCurrent HiddenStaysHidden
PROPERTY BlankIsExplained
