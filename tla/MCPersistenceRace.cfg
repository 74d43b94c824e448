SPECIFICATION Spec
CONSTANTS
  sales = sales
  costs = costs
  jan = jan
  feb = feb
  w1 = w1
  w2 = w2
  s1 = s1
  s2 = s2
  Cubes <- MCCubes
  Members <- MCMembers
  Batches <- MCBatches
  Savers <- TwoSavers
  Builds = {FALSE}
SYMMETRY Interchangeable
INVARIANT AnsweredSavesSurvive
