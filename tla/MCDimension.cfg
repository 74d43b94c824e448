SPECIFICATION Spec
CONSTANTS
  a = a
  b = b
  c = c
  time = time
  fiscal = fiscal
  none = none
  Names <- MCNames
  Default = time
  Others <- MCOthers
  MaxId = 3
  MaxSize = 4
  NoName = none
SYMMETRY Interchangeable
INVARIANTS TypeOK OneParent MembersAreListed DisplayOrderIsCurrent DefaultIsUsable SharedIdsShareLeaves
PROPERTY DeletedIdsStayDead
