------------------------------- MODULE ConfigDB -------------------------------
(***************************************************************************)
(* What a configuration domain promises its users, with no file in sight:  *)
(* a database, and handles that each edit a private copy of it.  Opening a *)
(* handle takes a snapshot, closing it replaces the whole database by the  *)
(* handle's copy in one step, or leaves the database alone.  The last      *)
(* handle to close wins.  KeyfileStore implements this as long as the      *)
(* closes of a domain do not overlap and no process dies inside one.       *)
(***************************************************************************)
EXTENDS Keyfile

CONSTANT Handle

VARIABLES db,   \* the committed configuration
          open, \* open[h]: handle h exists
          copy  \* copy[h]: the configuration as handle h sees it

vars == <<db, open, copy>>

TypeOK ==
  /\ db \in Keyfile
  /\ open \in [Handle -> BOOLEAN]
  /\ copy \in [Handle -> Keyfile]

Init ==
  /\ db \in Keyfile
  /\ open = [h \in Handle |-> FALSE]
  /\ copy = [h \in Handle |-> KeyfileNew]

Open(h) ==
  /\ ~open[h]
  /\ open' = [open EXCEPT ![h] = TRUE]
  /\ copy' = [copy EXCEPT ![h] = db]
  /\ UNCHANGED db

Set(h, s, k, v) ==
  /\ open[h]
  /\ copy' = [copy EXCEPT ![h] = SetString(@, s, k, v)]
  /\ UNCHANGED <<db, open>>

Unset(h, s, k) ==
  /\ open[h]
  /\ copy' = [copy EXCEPT ![h] = UnsetKey(@, s, k)]
  /\ UNCHANGED <<db, open>>

Forget(h) ==
  /\ open[h]
  /\ open' = [open EXCEPT ![h] = FALSE]
  /\ copy' = [copy EXCEPT ![h] = KeyfileNew]

Commit(h) == Forget(h) /\ db' = copy[h]

Abandon(h) == Forget(h) /\ UNCHANGED db

Next ==
  \E h \in Handle :
    \/ Open(h)
    \/ \E s \in Section, k \in Key : Unset(h, s, k) \/ \E v \in Val : Set(h, s, k, v)
    \/ Commit(h)
    \/ Abandon(h)

Spec == Init /\ [][Next]_vars

=============================================================================
