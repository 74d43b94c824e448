SPECIFICATION Spec
CONSTANTS
  sales = sales
  cost = cost
  tax = tax
  apple = apple
  pear = pear
  plum = plum
  fruit = fruit
  east = east
  west = west
  net = net
  note = note
  margin = margin
  safe = safe
  color = color
  size = size
  red = red
  big = big
  Dims <- ThreeAxes
  Leaves <- MCLeaves
  Rollups <- MCRollups
  Default <- MCDefault
  Initial <- MCInitial
  Starts <- MCStarts
  Writes <- MCWrites
  MaxWrites = 2
  Cubes <- MCCubes
  Requests <- Excluding
  Conformed = 2
  Attributes <- MCAttributes
  Tagged <- MCTagged
  Tags <- MCTags
  Formulas <- MCFormulas
  Depth <- MCDepth
  Texts <- MCTexts
  Spelling <- MCSpelling
  Value = Value
  None = None
INVARIANT EveryFilterHolds
