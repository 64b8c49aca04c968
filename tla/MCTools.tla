------------------------------- MODULE MCTools -------------------------------
(* Two shells, each running one tool after another on the same domain.      *)
EXTENDS Tools, TLC

CONSTANTS shell1, shell2, h1, h2

TwoShells == h1 :> shell1 @@ h2 :> shell2
=============================================================================
