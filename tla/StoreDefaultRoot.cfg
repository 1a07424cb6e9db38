\* jobs_root as it is when nobody sets it: "var/jobs", relative.
SPECIFICATION Spec
CONSTANTS
  Jobs = {1, 2}
  May <- OneOfEach
  RootResolved = FALSE
  MaxKills = 0
INVARIANT OnlyOrphansGo
