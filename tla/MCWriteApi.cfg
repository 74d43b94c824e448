SPECIFICATION FairSpec
CONSTANTS
  p = p
  q = q
  east = east
  west = west
  north = north
  total = total
  profit = profit
  void = void
  Batches <- TwoBatches
  Leaves <- MCLeaves
  Missing <- MCMissing
  Expansion <- MCExpansion
  Requests <- MCRequests
  Aggregating = TRUE
  Initials <- Used
  Text = Text
  None = None
CHECK_DEADLOCK FALSE
INVARIANTS TypeOK RefusedBatchWroteNothing OkBatchWroteItAll SplashReadsBack
PROPERTY EveryBatchIsAnswered
