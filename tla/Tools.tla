-------------------------------- MODULE Tools --------------------------------
(***************************************************************************)
(* The command-line tools: processes that run at any moment, each a        *)
(* straight line of calls of the library,                                  *)
(*                                                                         *)
(*    mcs_init  mcs_new  (a get, a set, a walk)  unref  mcs_fini           *)
(*                                                                         *)
(* or, for mcs-info and mcs-query-backends, mcs_init, a look at the list   *)
(* of backends, mcs_fini.  A process is known by its handle, and runs one  *)
(* tool after another.                                                     *)
(***************************************************************************)
EXTENDS KeyfileLoad

CONSTANT Installed \* the tools there are

Listing == {"mcs-info", "mcs-query-backends"}
Asking  == {"mcs-getconfval", "mcs-walk-config"}
Tool    == Listing \cup Asking \cup {"mcs-setconfval"}

ASSUME InstalledType == Installed \subseteq Tool

VARIABLES prog, \* prog[h]: the tool that runs
          at,   \* at[h]: "idle", "running", or "asked": its question is done
          calm, \* history: no two tools have run at once, no call failed
          told  \* history: what the domain holds by what the tools were told

tvars == <<lvars, prog, at, calm, told>>

TTypeOK ==
  /\ TypeOK
  /\ LTypeOK
  /\ prog \in [Handle -> Tool \cup {"none"}]
  /\ at \in [Handle -> {"idle", "running", "asked"}]
  /\ calm \in BOOLEAN
  /\ told \in Keyfile

TInit ==
  /\ LInit
  /\ prog = [h \in Handle |-> "none"]
  /\ at = [h \in Handle |-> "idle"]
  /\ calm = TRUE
  /\ told = file[Loc].text

(* Something has come in between: from here on told is nothing to go by.   *)
Disturbed(it) ==
  /\ calm' = (calm /\ ~it)
  /\ told' = IF calm' THEN told ELSE KeyfileNew

-----------------------------------------------------------------------------
(* main, with the arguments it needs, up to mcs_init.                      *)
Start(h, tool) ==
  /\ at[h] = "idle"
  /\ prog' = [prog EXCEPT ![h] = tool]
  /\ at' = [at EXCEPT ![h] = "running"]
  /\ Disturbed(\E g \in Handle : at[g] # "idle")
  /\ UNCHANGED lvars

(* mcs_backend_get_list, printed.                                          *)
ListBackends(h) ==
  /\ at[h] = "running"
  /\ prog[h] \in Listing
  /\ at' = [at EXCEPT ![h] = "asked"]
  /\ UNCHANGED <<lvars, prog, calm, told>>

(* mcs_new: keyfile_open, the reads of its loop, and the end of the file.  *)
Make(h) ==
  /\ at[h] = "running"
  /\ prog[h] \notin Listing
  /\ LoadOpen(h)
  /\ Disturbed(file[Loc].exists /\ pc'[h] = "open")
  /\ UNCHANGED <<prog, at>>

Read(h) == LoadRead(h) /\ UNCHANGED <<prog, at, calm, told>>

\* Mutant: a load whose file has lost its name is not taken for complete.
MadeIfNamed(h) == rd[h] = "here" /\ LoadEnd(h) /\ UNCHANGED <<prog, at, calm, told>>

Made(h) == LoadEnd(h) /\ UNCHANGED <<prog, at, calm, told>>

(* mcs_get_string, or mcs_get_sections and mcs_get_keys of each of them.   *)
Ask(h) ==
  /\ at[h] = "running"
  /\ prog[h] \in Asking
  /\ pc[h] = "open"
  /\ at' = [at EXCEPT ![h] = "asked"]
  /\ UNCHANGED <<lvars, prog, calm, told>>

(* mcs_set_string.                                                         *)
Tell(h, s, k, v) ==
  /\ at[h] = "running"
  /\ prog[h] = "mcs-setconfval"
  /\ Set(h, s, k, v)
  /\ at' = [at EXCEPT ![h] = "asked"]
  /\ told' = IF calm THEN SetString(told, s, k, v) ELSE told
  /\ UNCHANGED <<rd, inode, seen, overlap, prog, calm>>

(* mowgli_object_unref: the handle is saved and freed.                     *)
Unref(h) ==
  /\ at[h] = "asked"
  /\ Destroy(h)
  /\ Disturbed(OpenTmpFails(h) \/ SpillFails(h) \/ FcloseFails(h))
  /\ UNCHANGED <<prog, at>>

\* Mutant: main ends without the unref.
FinishWithoutUnref(h) ==
  /\ at[h] = "asked"
  /\ pc[h] \in {"closed", "open"}
  /\ at' = [at EXCEPT ![h] = "idle"]
  /\ prog' = [prog EXCEPT ![h] = "none"]
  /\ pc' = [pc EXCEPT ![h] = "closed"]
  /\ mem' = [mem EXCEPT ![h] = KeyfileNew]
  /\ UNCHANGED <<fd, lossy, file, disk, past, rd, inode, seen, overlap, calm, told>>

(* mcs_fini, and the end of main.                                          *)
Finish(h) ==
  /\ at[h] = "asked"
  /\ pc[h] = "closed"
  /\ at' = [at EXCEPT ![h] = "idle"]
  /\ prog' = [prog EXCEPT ![h] = "none"]
  /\ UNCHANGED <<lvars, calm, told>>

Step(h) ==
  \/ ListBackends(h)
  \/ Make(h) \/ Read(h) \/ Made(h)
  \/ Ask(h)
  \/ \E s \in Section, k \in Key, v \in Val : Tell(h, s, k, v)
  \/ Unref(h) \/ Finish(h)

TNext == \E h \in Handle : Step(h) \/ \E tool \in Installed : Start(h, tool)

TSpec == TInit /\ [][TNext]_tvars

(* A tool that has been started goes on to its end: it waits for nobody,   *)
(* and the file it reads has one.                                          *)
TFairSpec ==
  TSpec /\ \A h \in Handle : WF_tvars(Step(h)) /\ WF_tvars(Made(h))

-----------------------------------------------------------------------------
(* Every tool that is started comes to its end, whatever the others do.    *)
ToolsEnd == \A h \in Handle : at[h] = "running" ~> at[h] = "idle"

(* Tools that run one after the other, with their files, see and leave     *)
(* what the ones before them were told: the handle of each tool has loaded *)
(* all that was set and nothing else, a query changes nothing, and between *)
(* the tools the file holds it (the README's mcs-setconfval, which         *)
(* instructs mcs to change a value, and mcs-getconfval, which queries it). *)
InTurn ==
  calm =>
    /\ \A h \in Handle :
         at[h] # "idle" /\ pc[h] = "open" => mem[h] = told
    /\ (\A h \in Handle : at[h] = "idle") =>
         file[Loc].text = told /\ ~file[Tmp].exists

=============================================================================
