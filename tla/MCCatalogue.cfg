SPECIFICATION CatalogueSpec
CONSTANTS
  a = a
  b = b
  region = region
  item = item
  sales = sales
  notes = notes
  none = none
  Names <- MCNames
  Refs <- MCRefs
  Cubes <- MCCubes
  Shapes <- MCShapes
  Files <- MCFiles
  Trees <- MCTrees
  Spots <- MCSpots
  MaxId = 7
  MaxNamed = 4
  MaxUsed = 3
  MaxCells = 2
  NoName = none
INVARIANTS CellsHaveNames
PROPERTY NoCellIsLost
