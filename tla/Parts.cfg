SPECIFICATION Spec
CONSTANTS
  None = None
  Scenarios = {s1, s2}
  Private = {private}
  Groups = {}
  MaxStories = 3
  MaxReplies = 3
  MaxParts = 2
  MaxFaults = 1
  Users = {u1, u2}
  MaxFailures = 2
  Templates = {t1, t2, t3}
  RecentSize = 2
  MaxText = 6
  Limits = {1, 2, 3, 4}
  Resolvers = {old, new}
  Identities = {player, group}
  MaxOwners = 3
  Catalogued = {scenario}
  Curated = {scenario}
  Requests = {r1, r2}
  MaxStamps = 2
  Actors = {bot, panel}
  MaxRules = 3
  Room = 8
  Prices = {0, 3, 8}
  Sizes = {1, 2, 4}
  MaxRecalled = 3
  Optional = {"notes"}
  MaxHistory = 4
  MaxFragments = 4
  Counters = {turn, worker}
  Texts = {x1, x2, x3}
  CacheSize = 2
  MaxEdits = 2
  Shipped = {a, b}
  Worker = worker
  Refreshes = {refresh}
  Total = 10
  Reserved = 2
  HighWater = 30
  MinFold = 10
  RecapShare = 25
  Costs = {3}
  MaxMessages = 4
SYMMETRY Symmetry
CHECK_DEADLOCK FALSE
INVARIANTS
  ShownRepliesStand
  AccessHolds
  FeedbackTakenBack
  SplitFaithful
  OneOwnerEach
  MemoryKeepsTheStory
  ChatWellFormed
  NoThoughtDelivered
  RecentCountsKept
  ImportRestores
  ImportComplete
  RecapTellsWhatItCovers
  FloorHolds
PROPERTIES
  RequestOutlivesDecision
  WithdrawnStaysAway
  RemovalHitsSeen
  RecapNeverForgets
