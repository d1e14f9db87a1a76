------------------------------ MODULE MCSeeds ------------------------------
(* Seeds before and during the scan, the harvest pipeline and the SPA pivot. *)
EXTENDS Coordinator

CONSTANTS a, b

MCName == {a, b}
MCTemplate == {a}
MCGenerate == [n \in MCName |-> {}]
\* Two new directories together, one deep path, one plain path.
MCSeedPaths == {<<a, a>>, <<b, a>>}
\* A bundle that is also an ordinary candidate.
MCBundles == {<<a>>}
=============================================================================
