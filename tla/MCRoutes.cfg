SPECIFICATION Spec
CHECK_DEADLOCK FALSE
CONSTANTS
  sales = sales
  notes = notes
  tables = tables
  dimensions = dimensions
  list = list
  region = region
  item = item
  note = note
  boss = boss
  phone = phone
  role = role
  cube = cube
  dimension = dimension
  member = member
  east = east
  west = west
  total = total
  north = north
  pen = pen
  reader = reader
  admin = admin
  ALL = ALL
  nowhere = nowhere
  text = text
  NONE = NONE
  READ = READ
  WRITE = WRITE
  REDA = REDA
  NoneText = NONE
  ReadText = READ
  WriteText = WRITE
  Cubes <- MCCubes
  TableSecurity = tables
  DimensionSecurity = dimensions
  DimensionsOf <- MCDimensionsOf
  AllMembers = ALL
  Aggregating <- MCAggregating
  Derived <- MCDerived
  MeasureOf <- MCMeasureOf
  Under <- MCUnder
  Starts <- MCStarts
  Members <- MCMembers
  Requests <- MCRequests
  Writes <- MCWrites
  MaxWrites = 1
  Admin = admin
  Stale = Stale
  None = None
INVARIANTS  RefusalsHaveARule
