SPECIFICATION FairSpec
CONSTANTS
  Region = Region
  Product = Product
  north = north
  South = South
  NORTH = NORTH
  n = n
  s = s
  p = p
  q = q
  salesRegion = salesRegion
  salesProduct = salesProduct
  Names <- MCNames
  Keys <- MCKeys
  Key <- MCKey
  Dimensions = {Region, Product}
  Columns = {salesRegion, salesProduct}
  Over <- MCOver
  Batches <- MCBatches
  None = None
CHECK_DEADLOCK FALSE
INVARIANTS AnsweredMembersAreListed CountsAreCurrent
PROPERTY EveryRefreshEnds
