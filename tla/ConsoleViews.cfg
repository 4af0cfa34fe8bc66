SPECIFICATION FairSpec
CONSTANTS
  Sites = {"site"}
  Assets = {}
  Signals = {"g"}
  MaxLinks = 1
  MaxUpdates = 1
  Watched <- MCWatched
  MaxFaults = 2
  GlobeUpdates = 3
  Limit = 2
  MaxSignals = 3
  MaxVisits = 2
  MaxAlerts = 2
  MaxRequests = 1
  MaxMoves = 1
  Rules = {"r"}
  MaxEdits = 1
  MaxColleague = 1
  BoardRequests = 2
  MaxClicks = 4
  Lengths <- MCLengths
  MaxTyped = 2
  MaxItems = 4
  MaxAsks = 2
  PageSize = 1
  Mains = {"odd"}
  Queries <- MCQueries
  MaxShown = 4
  DebriefVisits = 2
  DebriefClicks = 3
  MaxEvents = 3
  Spans = {0, 1}
  PageLimit = 1
  MaxBriefings = 2
  MaxExports = 2
INVARIANTS
  AddressIsFollowed GlobeIsCurrent FeedIsComplete CheckedWereListed
  FormStartsClean SavedWhereWritten SavedStaysSelected OneToolAtATime
  RoundingStaysSmall NothingSkipped AppliedIsTheAnswer SomethingHighlighted
  TimelineIsWhole ExportedAsGenerated
PROPERTIES
  FeedStarts AskedIsSent LatestClickWins
CHECK_DEADLOCK FALSE
