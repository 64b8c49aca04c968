--------------------------- MODULE MCDirectories ---------------------------
(* Two domains of one user, made by two processes, and a third process     *)
(* that opens the first domain as well.                                    *)
EXTENDS Directories, TLC

CONSTANTS p1, p2, p3

SharedPaths ==
  p1 :> <<"home", "home/.config", "home/.config/app">> @@
  p2 :> <<"home", "home/.config", "home/.config/other">> @@
  p3 :> <<"home", "home/.config", "home/.config/app">>

Names == {"home", "home/.config", "home/.config/app", "home/.config/other"}

Three == [c \in {p1, p2, p3} |-> 3]
=============================================================================
