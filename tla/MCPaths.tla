------------------------------ MODULE MCPaths ------------------------------
(* "/c" stands for "/config", ".t" for ".tmp", and PATH_MAX is 9.          *)
EXTENDS Paths, TLC

SlashConfig == <<"/", "c">>
DotTmp == <<".", "t">>

(* All of DotTmp fits "a", with room for a domain that is named like its   *)
(* file, which one character of DotTmp fits; just all of it fits "f";      *)
(* nothing of it fits the domain that is named like the file of "f"; and   *)
(* one that is longer than PATH_MAX is cut to the temporary file of "f".   *)
FiveBases ==
  "a" :> <<"a", "a", "a">> @@
  "a/c" :> <<"a", "a", "a", "/", "c">> @@
  "f" :> <<"f", "f", "f", "f">> @@
  "f/c" :> <<"f", "f", "f", "f", "/", "c">> @@
  "f/c.tx" :> <<"f", "f", "f", "f", "/", "c", ".", "t", "x">>
=============================================================================
