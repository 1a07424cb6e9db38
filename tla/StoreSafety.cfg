SPECIFICATION Spec
CONSTANTS
  Jobs = {1, 2}
  May <- OneOfEach
  RootResolved = TRUE
  MaxKills = 2
INVARIANTS ArtifactsAreThere FirstRunHasInput RunKeepsDirectory
