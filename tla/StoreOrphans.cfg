SPECIFICATION FairSpec
CONSTANTS
  Jobs = {1}
  May <- Either
  RootResolved = TRUE
  MaxKills = 2
PROPERTIES OrphansGo
