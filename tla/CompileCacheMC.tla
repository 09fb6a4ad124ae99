--------------------------- MODULE CompileCacheMC ---------------------------
(* The instances of CompileCache that TLC checks: two sources that compile *)
(* and one that does not, two callers.                                     *)
EXTENDS CompileCacheProperties

CONSTANTS a, b, s1, s2, bad
TwoCallers == {a, b}
ThreeSources == {s1, s2, bad}
TwoCompile == {s1, s2}
=============================================================================
