CONSTANTS
  Documents <- MCDocuments
  Stem <- MCStem
  Contract <- MCContract
  SkillFiles <- MCSkillFiles
  Order <- MCOrder
  Places <- MCPlaces
  InitTrees <- MCTrees
  MaxEvents = 2
SPECIFICATION Spec
INVARIANT TypeOK
PROPERTIES ExitStatusMeans WriteRepairs OthersUntouched
