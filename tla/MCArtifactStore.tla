--------------------------- MODULE MCArtifactStore ---------------------------
(* Instances of ArtifactStore for TLC.                                       *)
EXTENDS ArtifactStore, TLC

\* The older job is one of the project, the newer one a device simulation.
OneOfEach == (1 :> {"project"}) @@ (2 :> {"devsim"})
\* A job that may turn out to be either.
Either == 1 :> {"project", "devsim"}
=============================================================================
