----------------------------- MODULE MCLibrary -----------------------------
(* The keyfile backend, another that wants its name, and one of its own.   *)
EXTENDS Library, TLC

CONSTANTS keyfile_backend, rival, custom

ThreeNames ==
  keyfile_backend :> "DEFAULT" @@ rival :> "DEFAULT" @@ custom :> "CUSTOM"
=============================================================================
