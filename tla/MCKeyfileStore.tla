--------------------------- MODULE MCKeyfileStore ---------------------------
(* Small instances of KeyfileStore: which process holds which handle.      *)
EXTENDS KeyfileStoreRefinement, TLC

CONSTANTS app, tool, h1, h2

TogetherInApp == h1 :> app @@ h2 :> app
AppAndTool    == h1 :> app @@ h2 :> tool
AloneInApp    == h1 :> app

(* The two handles, alike in their process or each alone in its own, are   *)
(* interchangeable.                                                        *)
HandleSymmetry == Permutations({h1, h2})
=============================================================================
