-------------------------- MODULE MCEditorSession --------------------------
(* Small instances of EditorSession for TLC. *)
EXTENDS EditorSession, TLC

Renamings == Permutations(Paths)

\* A behaviour is followed until the user first does not wait for an answer
\* (nothing is claimed of the path after that) or a PUT of the session is lost:
\* with one visit no later step depends on what the server has stored, and the
\* same steps are followed where the PUT arrived.
Waits == muddled = {} /\ (lossy => ~here)
============================================================================
