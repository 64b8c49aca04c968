---------------------------- MODULE KeyfileStore ----------------------------
(***************************************************************************)
(* The default backend's handles over the file system: how                 *)
(* src/src/backends/default/keyfile.c loads a domain's configuration when  *)
(* a handle is made, edits it in memory, and saves the whole of it when    *)
(* the handle is destroyed:                                                *)
(*                                                                         *)
(*    fopen(config.tmp, "w+b")  fprintf...  fsync  fclose                  *)
(*    unlink(config)  rename(config.tmp, config)                           *)
(*                                                                         *)
(* Several handles of one domain may live in one process, which has one    *)
(* thread, or in several processes (an application and the mcs-* tools);   *)
(* nothing locks the files.  Each system call is a step.  A process can be *)
(* killed and the machine can lose power between any two of them, a call   *)
(* can fail, as far as Faults says so.                                     *)
(*                                                                         *)
(* An open file is known by the name its inode bears: a file renamed while *)
(* a handle writes to it takes the handle's descriptor along, and a file   *)
(* without a name can never be read again.                                 *)
(***************************************************************************)
EXTENDS Keyfile

CONSTANTS Handle,  \* the handles of one domain, whatever process holds them
          Process,
          ProcOf,  \* ProcOf[h] is the process that holds handle h
          Faults   \* what may go wrong, see FaultKinds

FaultKinds ==
  {"kill",    \* a process dies
   "power",   \* the machine stops, losing what the disk has not got
   "noread",  \* fopen(config) fails although the file is there
   "nowrite", \* fopen(config.tmp) fails
   "nospace"} \* a write to the file system fails

ASSUME ProcOfType == ProcOf \in [Handle -> Process]
ASSUME FaultsType == Faults \subseteq FaultKinds

VARIABLES pc,    \* pc[h]: where handle h is in its life
          mem,   \* mem[h]: h->kf, the configuration in memory
          fd,    \* fd[h]: the name of the file h has open for writing
          lossy, \* lossy[h]: a write of the running save has failed
          file,  \* file[n]: what a reader of n finds
          disk,  \* disk[n]: what of its data is on stable storage
          past   \* what disk was before the changes of names that the kernel
                 \* has not written yet: nobody calls fsync on the directory

vars == <<pc, mem, fd, lossy, file, disk, past>>

Loc == "config"
Tmp == "config.tmp"
Name == {Loc, Tmp}

(* The points of mcs_keyfile_destroy between its system calls.             *)
Writing == {"writing", "spilled", "synced"} \* f is open
Saving  == Writing \cup {"written", "unlinked"}
PC      == {"closed", "open"} \cup Saving

(* A file: the configuration its text parses to, whether the text is the   *)
(* complete output of one save, and whether two saves have had it open at  *)
(* once.                                                                   *)
File == [exists: BOOLEAN, text: Keyfile, whole: BOOLEAN, shared: BOOLEAN]

NoFile == [exists |-> FALSE, text |-> KeyfileNew, whole |-> FALSE, shared |-> FALSE]

WholeFile(kf) == [exists |-> TRUE, text |-> kf, whole |-> TRUE, shared |-> FALSE]

(* The keyfile has something to write: an empty one calls fprintf never.   *)
HasText(h) == mem[h].sections # {}

(* What fopen for writing leaves of n: the empty text, all of the output   *)
(* of a keyfile without sections.                                          *)
TruncatedFile(h, n) ==
  [exists |-> TRUE, text |-> KeyfileNew, whole |-> ~HasText(h),
   shared |-> \E g \in Handle : fd[g] = n]

TypeOK ==
  /\ pc \in [Handle -> PC]
  /\ mem \in [Handle -> Keyfile]
  /\ fd \in [Handle -> Name \cup {"none", "nameless"}]
  /\ lossy \in [Handle -> BOOLEAN]
  /\ file \in [Name -> File]
  /\ disk \in [Name -> File]
  /\ past \subseteq [Name -> File]

(* A domain that has never been saved, or that was saved long ago.         *)
Init ==
  /\ pc = [h \in Handle |-> "closed"]
  /\ mem = [h \in Handle |-> KeyfileNew]
  /\ fd = [h \in Handle |-> "none"]
  /\ lossy = [h \in Handle |-> FALSE]
  /\ \/ file = [n \in Name |-> NoFile]
     \/ \E kf \in Keyfile : file = [n \in Name |-> IF n = Loc THEN WholeFile(kf) ELSE NoFile]
  /\ disk = file
  /\ past = {}

\* Mutant: two threads of a process destroy handles at once.
HasThreadAlways(h) == TRUE

(* mcs_keyfile_destroy returns before its caller does anything else: while *)
(* one handle of a process is saved the others stand still.                *)
HasThread(h) ==
  \A g \in Handle \ {h} : ProcOf[g] = ProcOf[h] => pc[g] \notin Saving

(* The descriptors follow the inode: to its new name, or to none.          *)
Renamed(old, new) == [h \in Handle |-> IF fd[h] = old THEN new ELSE fd[h]]

(* What a flush leaves in the file h writes to.  If another save has had   *)
(* the same file open, the two write over each other at offsets of their   *)
(* own, and anything may parse out of the result.                          *)
CompleteOutput(h) ==
  IF file[fd[h]].shared
  THEN {f \in File : f.exists /\ f.shared /\ (f.whole => f.text = mem[h])}
  ELSE {WholeFile(mem[h])}

(* Some of the drains of the buffer fail and others succeed: pieces of the *)
(* text are missing, and what is left on both sides of one parses to       *)
(* anything.                                                               *)
HoleyOutput(h) ==
  {f \in File : f.exists /\ ~f.whole /\ f.shared = file[fd[h]].shared}

PartialOutput(h) ==
  {f \in HoleyOutput(h) : f.shared \/ f.text \in Prefixes(mem[h])}

(* The step makes, moves or removes a name.                                *)
NamesChange == \E n \in Name : file'[n].exists # file[n].exists

(* Until the kernel writes the directory a power loss can undo the step.   *)
DirectoryLags ==
  past' = IF "power" \in Faults /\ NamesChange THEN past \cup {disk} ELSE past

-----------------------------------------------------------------------------
(* mcs_new: the handle is made and the configuration loaded.  A file that  *)
(* is not there and one that cannot be opened both give an empty keyfile.  *)
New(h) ==
  /\ pc[h] = "closed"
  /\ HasThread(h)
  /\ \/ mem' = [mem EXCEPT ![h] = file[Loc].text]
     \/ /\ "noread" \in Faults
        /\ file[Loc].exists
        /\ mem' = [mem EXCEPT ![h] = KeyfileNew]
  /\ pc' = [pc EXCEPT ![h] = "open"]
  /\ UNCHANGED <<fd, lossy, file, disk, past>>

Set(h, s, k, v) ==
  /\ pc[h] = "open"
  /\ HasThread(h)
  /\ mem' = [mem EXCEPT ![h] = SetString(@, s, k, v)]
  /\ UNCHANGED <<pc, fd, lossy, file, disk, past>>

Unset(h, s, k) ==
  /\ pc[h] = "open"
  /\ HasThread(h)
  /\ mem' = [mem EXCEPT ![h] = UnsetKey(@, s, k)]
  /\ UNCHANGED <<pc, fd, lossy, file, disk, past>>

\* Mutant: the configuration file is written in place.
OpenInPlace(h) ==
  /\ pc[h] = "open"
  /\ HasThread(h)
  /\ pc' = [pc EXCEPT ![h] = "writing"]
  /\ fd' = [fd EXCEPT ![h] = Loc]
  /\ lossy' = [lossy EXCEPT ![h] = FALSE]
  /\ file' = [file EXCEPT ![Loc] = TruncatedFile(h, Loc)]
  /\ UNCHANGED <<mem, disk, past>>

\* Mutant: the old file is unlinked before the new one is written.
UnlinkFirst(h) ==
  /\ pc[h] = "open"
  /\ HasThread(h)
  /\ pc' = [pc EXCEPT ![h] = "writing"]
  /\ fd' = [fd EXCEPT ![h] = Tmp]
  /\ lossy' = [lossy EXCEPT ![h] = FALSE]
  /\ file' = [file EXCEPT ![Loc] = NoFile, ![Tmp] = TruncatedFile(h, Tmp)]
  /\ disk' = [disk EXCEPT ![Loc] = NoFile]
  /\ DirectoryLags
  /\ UNCHANGED mem

(* mcs_destroy, up to the fopen of keyfile_write, which creates the        *)
(* temporary file or truncates the one it finds.                           *)
OpenTmp(h) ==
  /\ pc[h] = "open"
  /\ HasThread(h)
  /\ pc' = [pc EXCEPT ![h] = "writing"]
  /\ fd' = [fd EXCEPT ![h] = Tmp]
  /\ lossy' = [lossy EXCEPT ![h] = FALSE]
  /\ file' = [file EXCEPT ![Tmp] = TruncatedFile(h, Tmp)]
  /\ disk' = IF file[Tmp].exists THEN disk ELSE [disk EXCEPT ![Tmp] = file'[Tmp]]
  /\ DirectoryLags
  /\ UNCHANGED mem

\* Mutant: mcs_keyfile_destroy does not look at what keyfile_write answers.
OpenTmpFailsGoesOn(h) ==
  /\ "nowrite" \in Faults
  /\ pc[h] = "open"
  /\ HasThread(h)
  /\ pc' = [pc EXCEPT ![h] = "written"]
  /\ mem' = [mem EXCEPT ![h] = KeyfileNew]
  /\ UNCHANGED <<fd, lossy, file, disk, past>>

(* keyfile_write answers MCS_FAIL: nothing is saved, the handle is freed.  *)
OpenTmpFails(h) ==
  /\ "nowrite" \in Faults
  /\ pc[h] = "open"
  /\ HasThread(h)
  /\ pc' = [pc EXCEPT ![h] = "closed"]
  /\ mem' = [mem EXCEPT ![h] = KeyfileNew]
  /\ UNCHANGED <<fd, lossy, file, disk, past>>

(* A text longer than the stdio buffer: fprintf drains the buffer.  The    *)
(* drains of one save but the last are one step.                           *)
Spill(h) ==
  /\ pc[h] = "writing"
  /\ HasText(h)
  /\ fd[h] \in Name
  /\ pc' = [pc EXCEPT ![h] = "spilled"]
  /\ \E f \in PartialOutput(h) : file' = [file EXCEPT ![fd[h]] = f]
  /\ UNCHANGED <<mem, fd, lossy, disk, past>>

(* Nobody looks at the result of fprintf: after a drain that fails the     *)
(* next ones are tried all the same.                                       *)
SpillFails(h) ==
  /\ "nospace" \in Faults
  /\ pc[h] = "writing"
  /\ HasText(h)
  /\ pc' = [pc EXCEPT ![h] = "spilled"]
  /\ lossy' = [lossy EXCEPT ![h] = TRUE]
  /\ \/ UNCHANGED file
     \/ fd[h] \in Name /\ \E f \in HoleyOutput(h) : file' = [file EXCEPT ![fd[h]] = f]
  /\ UNCHANGED <<mem, fd, disk, past>>

(* What stdio still buffers is not in the file yet when fsync runs.        *)
Fsync(h) ==
  /\ pc[h] \in {"writing", "spilled"}
  /\ pc' = [pc EXCEPT ![h] = "synced"]
  /\ disk' = IF fd[h] \in Name THEN [disk EXCEPT ![fd[h]] = file[fd[h]]] ELSE disk
  /\ UNCHANGED <<mem, fd, lossy, file, past>>

(* fclose writes what is still buffered, keyfile_write answers MCS_OK, and *)
(* keyfile_destroy frees the keyfile.                                      *)
CloseFile(h) ==
  /\ pc[h] = "synced"
  /\ pc' = [pc EXCEPT ![h] = "written"]
  /\ mem' = [mem EXCEPT ![h] = KeyfileNew]
  /\ fd' = [fd EXCEPT ![h] = "none"]
  /\ lossy' = [lossy EXCEPT ![h] = FALSE]
  /\ UNCHANGED <<disk, past>>

\* Mutant: keyfile_write never closes the file, nor flushes it.
FcloseForgotten(h) == CloseFile(h) /\ ~lossy[h] /\ UNCHANGED file

Fclose(h) ==
  /\ CloseFile(h)
  /\ ~lossy[h]
  /\ \/ fd[h] = "nameless" /\ UNCHANGED file
     \/ fd[h] \in Name /\ \E f \in CompleteOutput(h) : file' = [file EXCEPT ![fd[h]] = f]

(* The answer is MCS_OK as well when a write has failed, now or before.    *)
FcloseFails(h) ==
  /\ CloseFile(h)
  /\ lossy[h] \/ ("nospace" \in Faults /\ HasText(h))
  /\ \/ UNCHANGED file
     \/ /\ fd[h] \in Name
        /\ \E f \in IF lossy[h] THEN HoleyOutput(h) ELSE PartialOutput(h) :
             file' = [file EXCEPT ![fd[h]] = f]

\* Mutant: an unlink that finds no file is an error, and ends the save.
UnlinkChecked(h) ==
  /\ pc[h] = "written"
  /\ pc' = [pc EXCEPT ![h] = IF file[Loc].exists THEN "unlinked" ELSE "closed"]
  /\ file' = [file EXCEPT ![Loc] = NoFile]
  /\ disk' = [disk EXCEPT ![Loc] = NoFile]
  /\ fd' = Renamed(Loc, "nameless")
  /\ DirectoryLags
  /\ UNCHANGED <<mem, lossy>>

Unlink(h) ==
  /\ pc[h] = "written"
  /\ pc' = [pc EXCEPT ![h] = "unlinked"]
  /\ file' = [file EXCEPT ![Loc] = NoFile]
  /\ disk' = [disk EXCEPT ![Loc] = NoFile]
  /\ fd' = Renamed(Loc, "nameless")
  /\ DirectoryLags
  /\ UNCHANGED <<mem, lossy>>

\* Mutant: mcs_keyfile_destroy tries the rename until it succeeds.
RenameRetried(h) ==
  /\ pc[h] = "unlinked"
  /\ file[Tmp].exists
  /\ pc' = [pc EXCEPT ![h] = "closed"]
  /\ file' = [file EXCEPT ![Loc] = file[Tmp], ![Tmp] = NoFile]
  /\ disk' = [disk EXCEPT ![Loc] = disk[Tmp], ![Tmp] = NoFile]
  /\ fd' = [g \in Handle |-> IF fd[g] = Loc THEN "nameless" ELSE Renamed(Tmp, Loc)[g]]
  /\ DirectoryLags
  /\ UNCHANGED <<mem, lossy>>

(* The handle is freed even when rename finds no temporary file.           *)
Rename(h) ==
  /\ pc[h] = "unlinked"
  /\ pc' = [pc EXCEPT ![h] = "closed"]
  /\ IF file[Tmp].exists
     THEN /\ file' = [file EXCEPT ![Loc] = file[Tmp], ![Tmp] = NoFile]
          /\ disk' = [disk EXCEPT ![Loc] = disk[Tmp], ![Tmp] = NoFile]
          /\ fd' = [g \in Handle |-> IF fd[g] = Loc THEN "nameless"
                                     ELSE Renamed(Tmp, Loc)[g]]
          /\ DirectoryLags
     ELSE UNCHANGED <<file, disk, past, fd>>
  /\ UNCHANGED <<mem, lossy>>

-----------------------------------------------------------------------------
(* The handles of H vanish with their memory, their descriptors and what   *)
(* stdio had buffered.                                                     *)
Vanish(H) ==
  /\ pc' = [h \in Handle |-> IF h \in H THEN "closed" ELSE pc[h]]
  /\ mem' = [h \in Handle |-> IF h \in H THEN KeyfileNew ELSE mem[h]]
  /\ fd' = [h \in Handle |-> IF h \in H THEN "none" ELSE fd[h]]
  /\ lossy' = [h \in Handle |-> IF h \in H THEN FALSE ELSE lossy[h]]

Kill(p) ==
  /\ "kill" \in Faults
  /\ \E h \in Handle : ProcOf[h] = p /\ pc[h] # "closed"
  /\ Vanish({h \in Handle : ProcOf[h] = p})
  /\ UNCHANGED <<file, disk, past>>

(* What is left is what the disk has, the last changes of the names made   *)
(* or not: they reach it in the order of the calls, as in a journal.       *)
PowerLoss ==
  /\ "power" \in Faults
  /\ Vanish(Handle)
  /\ file' \in past \cup {disk}
  /\ disk' = file'
  /\ past' = {}

(* The kernel writes the data of a file back, and the directory, each in   *)
(* its own time.  Only a power loss can tell.                              *)
Writeback(n) ==
  /\ "power" \in Faults
  /\ disk[n] # file[n]
  /\ disk' = [disk EXCEPT ![n] = file[n]]
  /\ UNCHANGED <<pc, mem, fd, lossy, file, past>>

WriteDirectory ==
  /\ past # {}
  /\ past' = {}
  /\ UNCHANGED <<pc, mem, fd, lossy, file, disk>>

-----------------------------------------------------------------------------
SaveStep(h) ==
  \/ Spill(h) \/ SpillFails(h)
  \/ Fsync(h)
  \/ Fclose(h) \/ FcloseFails(h)
  \/ Unlink(h)
  \/ Rename(h)

Next ==
  \/ \E h \in Handle :
       \/ New(h)
       \/ \E s \in Section, k \in Key : Unset(h, s, k) \/ \E v \in Val : Set(h, s, k, v)
       \/ OpenTmp(h)
       \/ OpenTmpFails(h)
       \/ SaveStep(h)
  \/ \E p \in Process : Kill(p)
  \/ PowerLoss
  \/ \E n \in Name : Writeback(n)
  \/ WriteDirectory

Spec == Init /\ [][Next]_vars

(* A save that has begun goes on by itself: mcs_keyfile_destroy is         *)
(* straight-line code that waits for nobody.  Nothing makes an application *)
(* create, edit or destroy a handle.                                       *)
FairSpec == Spec /\ \A h \in Handle : WF_vars(SaveStep(h))

-----------------------------------------------------------------------------
(* The handles share one process, as those of a single application do.     *)
OneProcess == \A g, h \in Handle : ProcOf[g] = ProcOf[h]

(* The configuration file is always the complete output of one save        *)
(* (keyfile_write goes to a temporary name and mcs_keyfile_destroy renames *)
(* the finished file): no kill at whatever step, and no fopen that fails,  *)
(* leaves half a configuration under the name that is read.                *)
NeverTorn == file[Loc].exists => file[Loc].whole

(* A save that starts ends with exactly the handle's configuration under   *)
(* the name that is read (mcs_keyfile_destroy, from fopen to rename).      *)
SaveLands ==
  \A h \in Handle, kf \in Keyfile :
    (pc[h] = "writing" /\ mem[h] = kf) ~> (file[Loc].exists /\ file[Loc].text = kf)

(* However the saves of several processes overlap, they leave no temporary *)
(* file behind: the last rename finds none, or moves it away.              *)
NoLeftover == (\A h \in Handle : pc[h] = "closed") => ~file[Tmp].exists

(* No save waits for another: each one that starts returns to its caller   *)
(* (mcs_keyfile_destroy takes no lock, and goes on when rename fails).     *)
SavesEnd == \A h \in Handle : pc[h] \in Saving ~> pc[h] = "closed"

(* What makes NeverTorn inductive when the handles share one process and   *)
(* writes do not fail: only the one running save touches the temporary     *)
(* file, its descriptor stays on that name, and the file is complete from  *)
(* fclose until rename moves it.                                           *)
SaveInv ==
  /\ \A g, h \in Handle : pc[g] \in Saving /\ pc[h] \in Saving => g = h
  /\ \A h \in Handle :
       /\ fd[h] = IF pc[h] \in Writing THEN Tmp ELSE "none"
       /\ ~lossy[h]
       /\ pc[h] \in Writing => file[Tmp].exists /\ ~file[Tmp].shared
       /\ pc[h] \in {"written", "unlinked"} => file[Tmp].exists /\ file[Tmp].whole
       /\ pc[h] = "unlinked" => ~file[Loc].exists

=============================================================================
