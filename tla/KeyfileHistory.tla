---------------------------- MODULE KeyfileHistory ----------------------------
(***************************************************************************)
(* KeyfileStore with a memory of what has gone wrong, to say of every bad  *)
(* state of the files which event it takes to get there, and that no other *)
(* event will do.                                                          *)
(***************************************************************************)
EXTENDS KeyfileStoreRefinement

VARIABLES blame, \* the events of Events that have happened
          saved, \* the domain has had a configuration file
          edited, \* edited[h]: Set or Unset has changed what handle h holds
          behind \* behind[h]: the configuration is not what handle h loaded

hvars == <<vars, blame, saved, edited, behind>>

Events == {"overlap", "nospace", "power", "undone", "window", "discard"}

(* The step at hand is event b.                                            *)
Happens(b) ==
  \/ /\ b = "overlap" \* a save begins while another one runs
     /\ \E g, h \in Handle : g # h /\ pc[g] \in Saving /\ OpenTmp(h)
  \/ /\ b = "nospace" \* the output of a save is lost
     /\ \E h \in Handle : SpillFails(h) \/ FcloseFails(h)
  \/ /\ b = "power" \* the machine stops, and something of the files is lost
     /\ PowerLoss
     /\ file' # file
  \/ /\ b = "undone" \* so is a change of the names, the directory not written
     /\ PowerLoss
     /\ NamesChange
  \/ /\ b = "window" \* a save dies between its unlink and its rename
     /\ PowerLoss \/ \E p \in Process : Kill(p)
     /\ \E h \in Handle : pc[h] = "unlinked" /\ pc'[h] = "closed" /\ ~Rename(h)
  \/ /\ b = "discard" \* a save truncates the copy a dead save has left
     /\ ~file[Loc].exists
     /\ file[Tmp].exists
     /\ \E h \in Handle : OpenTmp(h)

(* From this step on handle h does not hold the configuration that the     *)
(* domain has: h finds no file, or cannot open it, although a save is      *)
(* about to bring one or there is one, or another handle's save replaces   *)
(* the file h has loaded.                                                  *)
FallsBehind(h) ==
  \/ New(h) /\ (mem'[h] # file[Loc].text \/ \E g \in Handle : pc[g] = "unlinked")
  \/ \E g \in Handle \ {h} : Unlink(g)

(* What is said of a single handle is said until an event happens.         *)
Calm == blame' = {}

HInit ==
  /\ Init
  /\ blame = {}
  /\ saved = file[Loc].exists
  /\ edited = [h \in Handle |-> FALSE]
  /\ behind = [h \in Handle |-> FALSE]

HNext ==
  /\ Next
  /\ blame' = blame \cup {b \in Events : Happens(b)}
  /\ saved' = (saved \/ file'[Loc].exists)
  /\ edited' = [h \in Handle |->
                  /\ Calm
                  /\ pc'[h] # "closed"
                  /\ edited[h] \/ (pc[h] = "open" /\ mem'[h] # mem[h])]
  /\ behind' = [h \in Handle |-> Calm /\ pc'[h] # "closed" /\ (behind[h] \/ FallsBehind(h))]

HSpec == HInit /\ [][HNext]_hvars

HFairSpec == HSpec /\ \A h \in Handle : WF_vars(SaveStep(h))

-----------------------------------------------------------------------------
(* Half a configuration under the name that is read takes two saves at     *)
(* once, a write that failed, or a power loss before the data was written  *)
(* back.  Kills, fopens that fail, and handles of several processes whose  *)
(* saves do not overlap never do it.                                       *)
TornIsExplained ==
  file[Loc].exists /\ ~file[Loc].whole => blame \cap {"overlap", "nospace", "power"} # {}

(* A domain that has had a configuration file has one, except while a save *)
(* is between unlink and rename, or when a save has died there, or when    *)
(* two saves have overlapped, or when a power loss has taken a rename back *)
(* (mcs_keyfile_destroy, which does not sync the directory).               *)
GoneIsExplained ==
  saved /\ ~file[Loc].exists =>
    \/ \E h \in Handle : pc[h] = "unlinked"
    \/ blame \cap {"overlap", "window", "undone"} # {}

(* When a save has died between unlink and rename and nothing else has     *)
(* gone wrong, all of its configuration is in the temporary file, until a  *)
(* later save of the domain truncates that (the event "discard").          *)
LastSaveRecoverable ==
  saved /\ ~file[Loc].exists /\ blame \subseteq {"window"} =>
    file[Tmp].exists /\ file[Tmp].whole

-----------------------------------------------------------------------------
(* The save of handle h takes effect, nobody having edited what h holds,   *)
(* and nothing having gone wrong before.                                   *)
QuerySaves(h) == pc[h] = "written" /\ pc'[h] = "unlinked" /\ ~edited[h] /\ blame = {}

(* A handle that was only asked for values, as in mcs-getconfval, does not *)
(* change the configuration when it is destroyed, even when its save meets *)
(* no other one and nothing fails.                                         *)
QueryKeepsDatabase == [][\A h \in Handle : QuerySaves(h) => dbBar' = dbBar]_hvars

(* What it takes for such a handle to change the configuration: its load   *)
(* fell into another save's window, or failed, or somebody else has saved  *)
(* since (mcs_new, which tells no missing configuration from an unreadable *)
(* one, and mcs_destroy, which saves whatever mcs_new has made of it).     *)
QueryIsExplained ==
  [][\A h \in Handle : QuerySaves(h) /\ ~behind[h] => dbBar' = dbBar]_hvars

=============================================================================
