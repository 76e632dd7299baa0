----------------------------- MODULE MCSceneModel -----------------------------
(* Small instances of the scene model for TLC. *)
EXTENDS SceneModel

CONSTANTS s1, s2, t1, t2

\* The second scene lacks what the first task speaks of.
MCFitting == {<<t1, s1>>, <<t2, s1>>, <<t2, s2>>}
=============================================================================
