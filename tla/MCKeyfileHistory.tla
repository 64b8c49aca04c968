-------------------------- MODULE MCKeyfileHistory --------------------------
(* Small instances of KeyfileHistory.                                      *)
EXTENDS KeyfileHistory, MCKeyfileStore, FiniteSets, Naturals

(* Once there is a cause for a torn file and one for a missing one, all    *)
(* the properties of KeyfileHistory are true whatever comes next: there is *)
(* nothing to look for beyond.                                             *)
SomethingToLookFor ==
  \/ blame \cap {"overlap", "nospace", "power"} = {}
  \/ blame \cap {"overlap", "window", "undone"} = {}

(* The bound on the changes of names that wait for the kernel: the rename  *)
(* of a save, and the unlink before it.                                    *)
FewWait == Cardinality(past) <= 2

=============================================================================
