-------------------------- MODULE KeyfileStoreProofs --------------------------
(***************************************************************************)
(* KeyfileStore for every set of handles, processes, sections, keys and    *)
(* values: its types, and why handles of one process never leave half a    *)
(* configuration under the name that is read.                              *)
(***************************************************************************)
EXTENDS KeyfileHistory, Tools, KeyfileProofs, FiniteSetTheorems

LEMMA FileTypes ==
  /\ NoFile \in File
  /\ \A kf \in Keyfile : WholeFile(kf) \in File
  /\ \A h \in Handle, n \in Name : TruncatedFile(h, n) \in File
  BY KeyfileNewType DEF NoFile, WholeFile, TruncatedFile, HasText, File

LEMMA OutputTypes ==
  ASSUME TypeOK, NEW h \in Handle
  PROVE  /\ CompleteOutput(h) \subseteq File
         /\ PartialOutput(h) \subseteq File
         /\ HoleyOutput(h) \subseteq File
  BY FileTypes DEF CompleteOutput, PartialOutput, HoleyOutput, TypeOK

LEMMA DirectoryType ==
  ASSUME TypeOK, DirectoryLags
  PROVE  past' \subseteq [Name -> File]
  BY DEF TypeOK, DirectoryLags

LEMMA InitTypeOK == Init => TypeOK
  <1> SUFFICES ASSUME Init PROVE TypeOK
    OBVIOUS
  <1>1. file \in [Name -> File]
    BY FileTypes DEF Init
  <1> QED
    BY <1>1, KeyfileNewType DEF Init, TypeOK, PC

(* Every system call of a handle leaves the state well typed.              *)
LEMMA HandleTypeOK ==
  ASSUME TypeOK, NEW h \in Handle
  PROVE  /\ New(h) => TypeOK'
         /\ \A s \in Section, k \in Key : Unset(h, s, k) => TypeOK'
         /\ \A s \in Section, k \in Key, v \in Val : Set(h, s, k, v) => TypeOK'
         /\ OpenTmp(h) => TypeOK'
         /\ OpenTmpFails(h) => TypeOK'
         /\ SaveStep(h) => TypeOK'
  <1> USE DEF PC, Saving, Writing
  <1>1. CASE New(h)
    <2>1. file[Loc].text \in Keyfile
      BY DEF TypeOK, File, Name
    <2> QED
      BY <1>1, <2>1, KeyfileNewType DEF New, TypeOK
  <1>2. ASSUME NEW s \in Section, NEW k \in Key, Unset(h, s, k)
        PROVE  TypeOK'
    BY <1>2, UnsetKeyType DEF Unset, TypeOK
  <1>3. ASSUME NEW s \in Section, NEW k \in Key, NEW v \in Val, Set(h, s, k, v)
        PROVE  TypeOK'
    BY <1>3, SetStringType DEF Set, TypeOK
  <1>4. CASE OpenTmp(h)
    <2>1. TruncatedFile(h, Tmp) \in File
      BY FileTypes DEF Name
    <2>2. file' = [file EXCEPT ![Tmp] = TruncatedFile(h, Tmp)]
      BY <1>4 DEF OpenTmp
    <2>3. file' \in [Name -> File] /\ file'[Tmp] \in File
      BY <2>1, <2>2 DEF TypeOK, Name
    <2>4. disk' \in [Name -> File]
      BY <1>4, <2>3 DEF OpenTmp, TypeOK
    <2>5. past' \subseteq [Name -> File]
      BY <1>4, DirectoryType DEF OpenTmp
    <2> QED
      BY <1>4, <2>3, <2>4, <2>5 DEF OpenTmp, TypeOK, Name
  <1>5. CASE OpenTmpFails(h)
    BY <1>5, KeyfileNewType DEF OpenTmpFails, TypeOK
  <1>6. CASE Spill(h)
    BY <1>6, OutputTypes DEF Spill, TypeOK
  <1>7. CASE SpillFails(h)
    BY <1>7, OutputTypes DEF SpillFails, TypeOK
  <1>8. CASE Fsync(h)
    BY <1>8 DEF Fsync, TypeOK
  <1>9. CASE Fclose(h)
    BY <1>9, OutputTypes, KeyfileNewType DEF Fclose, CloseFile, TypeOK
  <1>10. CASE FcloseFails(h)
    BY <1>10, OutputTypes, KeyfileNewType DEF FcloseFails, CloseFile, TypeOK
  <1>11. CASE Unlink(h)
    BY <1>11, FileTypes, DirectoryType DEF Unlink, Renamed, TypeOK
  <1>12. CASE Rename(h)
    <2>1. file' \in [Name -> File] /\ disk' \in [Name -> File]
      BY <1>12, FileTypes DEF Rename, TypeOK, Name
    <2>2. fd' \in [Handle -> Name \cup {"none", "nameless"}]
      BY <1>12 DEF Rename, Renamed, TypeOK, Name
    <2>3. past' \subseteq [Name -> File]
      BY <1>12, DirectoryType DEF Rename, TypeOK
    <2> QED
      BY <1>12, <2>1, <2>2, <2>3 DEF Rename, TypeOK
  <1> QED
    BY <1>1, <1>2, <1>3, <1>4, <1>5, <1>6, <1>7, <1>8, <1>9, <1>10, <1>11, <1>12
    DEF SaveStep

(* So do the end of a process, of the machine, and the kernel's writes.    *)
LEMMA EventTypeOK ==
  ASSUME TypeOK
  PROVE  /\ \A p \in Process : Kill(p) => TypeOK'
         /\ PowerLoss => TypeOK'
         /\ \A n \in Name : Writeback(n) => TypeOK'
         /\ WriteDirectory => TypeOK'
  <1>1. ASSUME NEW H, Vanish(H)
        PROVE  /\ pc' \in [Handle -> PC]
               /\ mem' \in [Handle -> Keyfile]
               /\ fd' \in [Handle -> Name \cup {"none", "nameless"}]
               /\ lossy' \in [Handle -> BOOLEAN]
    BY <1>1, KeyfileNewType DEF Vanish, TypeOK, PC
  <1>2. ASSUME NEW p \in Process, Kill(p)
        PROVE  TypeOK'
    BY <1>1, <1>2 DEF Kill, TypeOK
  <1>3. CASE PowerLoss
    BY <1>1, <1>3 DEF PowerLoss, TypeOK
  <1>4. ASSUME NEW n \in Name, Writeback(n)
        PROVE  TypeOK'
    BY <1>4 DEF Writeback, TypeOK
  <1>5. CASE WriteDirectory
    BY <1>5 DEF WriteDirectory, TypeOK
  <1> QED
    BY <1>2, <1>3, <1>4, <1>5

LEMMA NextTypeOK == TypeOK /\ [Next]_vars => TypeOK'
  <1> SUFFICES ASSUME TypeOK, [Next]_vars PROVE TypeOK'
    OBVIOUS
  <1>1. CASE UNCHANGED vars
    BY <1>1 DEF vars, TypeOK
  <1>2. CASE Next
    BY <1>2, HandleTypeOK, EventTypeOK DEF Next
  <1> QED
    BY <1>1, <1>2

(* Whatever goes wrong, the state of the handles and of the files has the  *)
(* types declared: in particular every file parses to a keyfile whose      *)
(* lines all lie in a section that exists.                                 *)
THEOREM TypeCorrect == Spec => []TypeOK
  BY InitTypeOK, NextTypeOK, PTL DEF Spec

-----------------------------------------------------------------------------
(* The handles of one process, as long as writes succeed and the machine   *)
(* stays up.                                                               *)
Sheltered == OneProcess /\ "nospace" \notin Faults /\ "power" \notin Faults

(* The inductive invariant: NeverTorn says nothing of the temporary file,  *)
(* so a rename of half a file would not be excluded without SaveInv.       *)
IInv == TypeOK /\ SaveInv /\ NeverTorn

(* The thread of the process does one thing at a time.                     *)
LEMMA OneThread ==
  ASSUME OneProcess, NEW h \in Handle, HasThread(h), NEW g \in Handle, g # h
  PROVE  pc[g] \notin Saving
  BY DEF OneProcess, HasThread

LEMMA InitIInv == Init => IInv
  <1> SUFFICES ASSUME Init PROVE SaveInv /\ NeverTorn
    BY InitTypeOK DEF IInv
  <1>1. SaveInv
    BY DEF Init, SaveInv, Saving, Writing
  <1>2. NeverTorn
    BY DEF Init, NeverTorn, NoFile, WholeFile, Name, Loc
  <1> QED
    BY <1>1, <1>2

(* A handle that is made or edited, and one whose temporary file cannot be *)
(* opened, leave the files and the saves as they are.                      *)
LEMMA EditsKeepIInv ==
  ASSUME IInv, TypeOK', NEW h \in Handle,
         \/ New(h) \/ OpenTmpFails(h)
         \/ \E s \in Section, k \in Key : Unset(h, s, k)
         \/ \E s \in Section, k \in Key, v \in Val : Set(h, s, k, v)
  PROVE  IInv'
  <1>1. /\ UNCHANGED <<fd, lossy, file>>
        /\ \A g \in Handle :
             pc'[g] = pc[g] \/ (pc[g] \notin Saving /\ pc'[g] \notin Saving)
    BY DEF New, OpenTmpFails, Unset, Set, IInv, TypeOK, Saving, Writing
  <1>2. SaveInv'
    BY <1>1 DEF IInv, TypeOK, SaveInv, Saving, Writing
  <1>3. NeverTorn'
    BY <1>1 DEF IInv, NeverTorn
  <1> QED
    BY <1>2, <1>3 DEF IInv

(* A save begins: no other one runs, so no descriptor is on the temporary  *)
(* file it creates.                                                        *)
LEMMA OpenTmpKeepsIInv ==
  ASSUME IInv, TypeOK', NEW h \in Handle, OpenTmp(h),
         \A g \in Handle \ {h} : pc[g] \notin Saving
  PROVE  IInv'
  <1>1. /\ pc' = [pc EXCEPT ![h] = "writing"]
        /\ fd' = [fd EXCEPT ![h] = Tmp]
        /\ lossy' = [lossy EXCEPT ![h] = FALSE]
    BY DEF OpenTmp
  <1>2. pc[h] = "open" /\ \A g \in Handle : pc[g] \notin Saving
    BY DEF OpenTmp, Saving, Writing
  <1>3. ~\E g \in Handle : fd[g] = Tmp
    BY <1>2 DEF IInv, SaveInv, Saving, Tmp
  <1>4. file' = [file EXCEPT ![Tmp] = TruncatedFile(h, Tmp)]
    BY DEF OpenTmp
  <1>5. /\ file'[Tmp].exists /\ ~file'[Tmp].shared
        /\ file'[Loc] = file[Loc]
    BY <1>3, <1>4 DEF IInv, TypeOK, TruncatedFile, Name, Loc, Tmp
  <1>6. SaveInv'
    BY <1>1, <1>2, <1>5 DEF IInv, TypeOK, SaveInv, Saving, Writing
  <1>7. NeverTorn'
    BY <1>5 DEF IInv, NeverTorn
  <1> QED
    BY <1>6, <1>7 DEF IInv

(* The steps of a save that write touch the temporary file only, and the   *)
(* one that closes it leaves it complete.                                  *)
LEMMA WritesKeepIInv ==
  ASSUME IInv, TypeOK', NEW h \in Handle,
         Spill(h) \/ Fsync(h) \/ Fclose(h)
  PROVE  IInv'
  <1>1. /\ pc[h] \in Writing
        /\ fd[h] = Tmp
        /\ file[Tmp].exists /\ ~file[Tmp].shared
        /\ \A g \in Handle \ {h} : pc[g] \notin Saving
    BY DEF Spill, Fsync, Fclose, CloseFile, IInv, SaveInv, Saving, Writing
  <1>2. file'[Loc] = file[Loc]
    BY <1>1 DEF Spill, Fsync, Fclose, IInv, TypeOK, Name, Loc, Tmp
  <1>3. NeverTorn'
    BY <1>2 DEF IInv, NeverTorn
  <1>4. CASE Spill(h)
    <2>1. file'[Tmp].exists /\ ~file'[Tmp].shared
      BY <1>1, <1>4 DEF Spill, PartialOutput, HoleyOutput, IInv, TypeOK, Name
    <2> QED
      BY <1>1, <1>2, <1>3, <1>4, <2>1 DEF Spill, IInv, TypeOK, SaveInv, Saving, Writing
  <1>5. CASE Fsync(h)
    BY <1>1, <1>3, <1>5 DEF Fsync, IInv, TypeOK, SaveInv, Saving, Writing
  <1>6. CASE Fclose(h)
    <2>1. file'[Tmp] = WholeFile(mem[h])
      BY <1>1, <1>6 DEF Fclose, CompleteOutput, IInv, TypeOK, Name, Tmp
    <2>2. file'[Tmp].exists /\ file'[Tmp].whole
      BY <2>1 DEF WholeFile
    <2> QED
      BY <1>1, <1>2, <1>3, <1>6, <2>2
      DEF Fclose, CloseFile, IInv, TypeOK, SaveInv, Saving, Writing
  <1> QED
    BY <1>4, <1>5, <1>6

(* The old file goes, and the complete temporary file takes its name.      *)
LEMMA SwapKeepsIInv ==
  ASSUME IInv, TypeOK', NEW h \in Handle, Unlink(h) \/ Rename(h)
  PROVE  IInv'
  <1>1. /\ pc[h] \in {"written", "unlinked"}
        /\ file[Tmp].exists /\ file[Tmp].whole
        /\ \A g \in Handle \ {h} : pc[g] \notin Saving
        /\ \A g \in Handle : fd[g] = "none"
    BY DEF Unlink, Rename, IInv, SaveInv, Saving, Writing
  <1>2. fd' = fd
    BY <1>1 DEF Unlink, Rename, Renamed, IInv, TypeOK, Loc, Tmp
  <1>3. CASE Unlink(h)
    <2>1. file'[Tmp] = file[Tmp] /\ ~file'[Loc].exists
      BY <1>3 DEF Unlink, NoFile, IInv, TypeOK, Name, Loc, Tmp
    <2>2. NeverTorn'
      BY <2>1 DEF NeverTorn
    <2> QED
      BY <1>1, <1>2, <1>3, <2>1, <2>2 DEF Unlink, IInv, TypeOK, SaveInv, Saving, Writing
  <1>4. CASE Rename(h)
    <2>1. file'[Loc] = file[Tmp]
      BY <1>1, <1>4 DEF Rename, IInv, TypeOK, Name, Loc, Tmp
    <2>2. NeverTorn'
      BY <1>1, <2>1 DEF NeverTorn
    <2> QED
      BY <1>1, <1>2, <1>4, <2>2 DEF Rename, IInv, TypeOK, SaveInv, Saving, Writing
  <1> QED
    BY <1>3, <1>4

(* A kill takes its process's save along, and leaves the files.            *)
LEMMA KillKeepsIInv ==
  ASSUME IInv, TypeOK', NEW p \in Process, Kill(p)
  PROVE  IInv'
  <1>1. /\ file' = file
        /\ \A g \in Handle :
             \/ pc'[g] = "closed" /\ fd'[g] = "none" /\ ~lossy'[g]
             \/ pc'[g] = pc[g] /\ fd'[g] = fd[g] /\ lossy'[g] = lossy[g]
    BY DEF Kill, Vanish
  <1>2. SaveInv'
    BY <1>1 DEF IInv, SaveInv, Saving, Writing
  <1>3. NeverTorn'
    BY <1>1 DEF IInv, NeverTorn
  <1> QED
    BY <1>2, <1>3 DEF IInv

(* What the kernel writes in its own time shows in no file.                *)
Kernel == WriteDirectory \/ \E n \in Name : Writeback(n)

LEMMA KernelFrame ==
  ASSUME Kernel
  PROVE  UNCHANGED <<pc, mem, fd, lossy, file>>
  BY DEF Kernel, WriteDirectory, Writeback

LEMMA KernelKeepsIInv ==
  ASSUME IInv, TypeOK', Kernel
  PROVE  IInv'
  BY KernelFrame DEF IInv, SaveInv, NeverTorn

LEMMA NextIInv ==
  ASSUME Sheltered
  PROVE  IInv /\ [Next]_vars => IInv'
  <1> SUFFICES ASSUME IInv, [Next]_vars PROVE IInv'
    OBVIOUS
  <1>0. TypeOK'
    BY NextTypeOK DEF IInv
  <1>1. CASE UNCHANGED vars
    BY <1>1 DEF vars, IInv, TypeOK, SaveInv, NeverTorn
  <1>2. CASE \E h \in Handle :
               \/ New(h) \/ OpenTmpFails(h)
               \/ \E s \in Section, k \in Key :
                    Unset(h, s, k) \/ \E v \in Val : Set(h, s, k, v)
    BY <1>0, <1>2, EditsKeepIInv
  <1>3. CASE \E h \in Handle : OpenTmp(h)
    BY <1>0, <1>3, OneThread, OpenTmpKeepsIInv DEF Sheltered, OpenTmp
  <1>4. CASE \E h \in Handle : SaveStep(h)
    <2> PICK h \in Handle : SaveStep(h)
      BY <1>4
    <2>1. ~SpillFails(h) /\ ~FcloseFails(h)
      BY DEF Sheltered, SpillFails, FcloseFails, IInv, SaveInv
    <2> QED
      BY <1>0, <2>1, WritesKeepIInv, SwapKeepsIInv DEF SaveStep
  <1>5. CASE \E p \in Process : Kill(p)
    BY <1>0, <1>5, KillKeepsIInv
  <1>6. CASE Kernel
    BY <1>0, <1>6, KernelKeepsIInv
  <1>7. ~PowerLoss
    BY DEF Sheltered, PowerLoss
  <1> QED
    BY <1>1, <1>2, <1>3, <1>4, <1>5, <1>6, <1>7 DEF Next, Kernel

(* Handles of one process, made, edited and destroyed in any order, killed *)
(* at any step, or refused their files by fopen, never leave half a        *)
(* configuration under the name that is read.                              *)
THEOREM NeverTornInOneProcess ==
  ASSUME Sheltered
  PROVE  Spec => []NeverTorn
  <1>1. IInv => NeverTorn
    BY DEF IInv
  <1> QED
    BY <1>1, InitIInv, NextIInv, PTL DEF Spec

(* The saves of one process take turns, each with its temporary file.      *)
THEOREM SavesTakeTurns ==
  ASSUME Sheltered
  PROVE  Spec => []SaveInv
  <1>1. IInv => SaveInv
    BY DEF IInv
  <1> QED
    BY <1>1, InitIInv, NextIInv, PTL DEF Spec

-----------------------------------------------------------------------------
(* One save at a time, with a temporary file of its own: SaveInv without   *)
(* what a failing write takes away.                                        *)
Alone ==
  /\ \A g, h \in Handle : pc[g] \in Saving /\ pc[h] \in Saving => g = h
  /\ \A h \in Handle :
       /\ fd[h] = IF pc[h] \in Writing THEN Tmp ELSE "none"
       /\ pc[h] \in Writing => file[Tmp].exists /\ ~file[Tmp].shared
       /\ pc[h] \in {"written", "unlinked"} => file[Tmp].exists
       /\ pc[h] = "unlinked" => ~file[Loc].exists

(* What a step leaves alone, by the kind of step it is.                    *)
Edit(h) ==
  \/ New(h) \/ OpenTmpFails(h)
  \/ \E s \in Section, k \in Key : Unset(h, s, k) \/ \E v \in Val : Set(h, s, k, v)

Write(h) == Spill(h) \/ SpillFails(h) \/ Fsync(h) \/ Fclose(h) \/ FcloseFails(h)

Stop == PowerLoss \/ \E p \in Process : Kill(p)

LEMMA KindsOfSteps ==
  ASSUME Next
  PROVE  \/ \E h \in Handle : Edit(h) \/ OpenTmp(h) \/ Write(h) \/ Unlink(h) \/ Rename(h)
         \/ Stop
         \/ Kernel
  BY DEF Next, SaveStep, Edit, Write, Stop, Kernel

LEMMA EditFrame ==
  ASSUME TypeOK, NEW h \in Handle, Edit(h)
  PROVE  /\ UNCHANGED <<fd, lossy, file>>
         /\ \A g \in Handle :
              pc'[g] = pc[g] \/ (pc[g] \notin Saving /\ pc'[g] \notin Saving)
  BY DEF Edit, New, OpenTmpFails, Unset, Set, TypeOK, Saving, Writing

(* The steps that write change the temporary file only, which stays.       *)
LEMMA WriteFrame ==
  ASSUME TypeOK, Alone, NEW h \in Handle, Write(h)
  PROVE  /\ pc[h] \in Writing
         /\ pc' = [pc EXCEPT ![h] = pc'[h]]
         /\ \/ pc'[h] \in Writing /\ fd' = fd
            \/ pc'[h] = "written" /\ fd' = [fd EXCEPT ![h] = "none"]
         /\ file'[Loc] = file[Loc]
         /\ file'[Tmp].exists
         /\ pc'[h] \in Writing => ~file'[Tmp].shared
  <1>1. fd[h] = Tmp /\ pc[h] \in Writing /\ file[Tmp].exists /\ ~file[Tmp].shared
    BY DEF Write, Spill, SpillFails, Fsync, Fclose, FcloseFails, CloseFile, Alone, Writing
  <1>2. /\ \A f \in HoleyOutput(h) : f.exists /\ f.shared = file[Tmp].shared
        /\ PartialOutput(h) \subseteq HoleyOutput(h)
        /\ \A f \in CompleteOutput(h) : f.exists
    BY <1>1 DEF HoleyOutput, PartialOutput, CompleteOutput, WholeFile
  <1>3. /\ file'[Loc] = file[Loc]
        /\ file'[Tmp].exists
        /\ pc'[h] \in Writing => ~file'[Tmp].shared
    BY <1>1, <1>2
    DEF Write, Spill, SpillFails, Fsync, Fclose, FcloseFails, CloseFile, TypeOK, Name, Loc, Tmp,
        Writing
  <1>4. /\ pc' = [pc EXCEPT ![h] = pc'[h]]
        /\ \/ pc'[h] \in Writing /\ fd' = fd
           \/ pc'[h] = "written" /\ fd' = [fd EXCEPT ![h] = "none"]
    BY DEF Write, Spill, SpillFails, Fsync, Fclose, FcloseFails, CloseFile, TypeOK, Writing
  <1> QED
    BY <1>1, <1>3, <1>4

LEMMA OpenTmpFrame ==
  ASSUME TypeOK, Alone, NEW h \in Handle, OpenTmp(h),
         \A g \in Handle \ {h} : pc[g] \notin Saving
  PROVE  /\ pc' = [pc EXCEPT ![h] = "writing"]
         /\ fd' = [fd EXCEPT ![h] = Tmp]
         /\ \A g \in Handle : pc[g] \notin Saving
         /\ file'[Loc] = file[Loc]
         /\ file'[Tmp].exists /\ ~file'[Tmp].shared
  <1>1. \A g \in Handle : pc[g] \notin Saving
    BY DEF OpenTmp, Saving, Writing
  <1>2. ~\E g \in Handle : fd[g] = Tmp
    BY <1>1 DEF Alone, Saving, Tmp
  <1>3. file' = [file EXCEPT ![Tmp] = TruncatedFile(h, Tmp)]
    BY DEF OpenTmp
  <1>4. /\ file'[Tmp].exists /\ ~file'[Tmp].shared
        /\ file'[Loc] = file[Loc]
    BY <1>2, <1>3 DEF TypeOK, TruncatedFile, Name, Loc, Tmp
  <1> QED
    BY <1>1, <1>4 DEF OpenTmp

LEMMA SwapFrame ==
  ASSUME TypeOK, Alone, NEW h \in Handle, Unlink(h) \/ Rename(h)
  PROVE  /\ fd' = fd
         /\ \A g \in Handle \ {h} : pc[g] \notin Saving /\ pc'[g] = pc[g]
         /\ Unlink(h) => /\ pc'[h] = "unlinked"
                         /\ file'[Tmp] = file[Tmp] /\ file[Tmp].exists
                         /\ ~file'[Loc].exists
         /\ Rename(h) => /\ pc'[h] = "closed"
                         /\ file'[Loc] = file[Tmp] /\ file[Tmp].exists
                         /\ ~file'[Tmp].exists
  <1>1. /\ pc[h] \in {"written", "unlinked"}
        /\ file[Tmp].exists
        /\ \A g \in Handle \ {h} : pc[g] \notin Saving
        /\ \A g \in Handle : fd[g] = "none"
    BY DEF Unlink, Rename, Alone, Saving, Writing
  <1>2. fd' = fd
    BY <1>1 DEF Unlink, Rename, Renamed, TypeOK, Loc, Tmp
  <1>3. CASE Unlink(h)
    <2>1. /\ file' = [file EXCEPT ![Loc] = NoFile]
          /\ pc' = [pc EXCEPT ![h] = "unlinked"]
      BY <1>3 DEF Unlink
    <2>2. ~Rename(h)
      BY <1>3 DEF Unlink, Rename
    <2> QED
      BY <1>1, <1>2, <2>1, <2>2 DEF NoFile, TypeOK, Name, Loc, Tmp
  <1>4. CASE Rename(h)
    <2>1. /\ file' = [file EXCEPT ![Loc] = file[Tmp], ![Tmp] = NoFile]
          /\ pc' = [pc EXCEPT ![h] = "closed"]
      BY <1>1, <1>4 DEF Rename
    <2>2. ~Unlink(h)
      BY <1>4 DEF Unlink, Rename
    <2> QED
      BY <1>1, <1>2, <2>1, <2>2 DEF NoFile, TypeOK, Name, Loc, Tmp
  <1> QED
    BY <1>3, <1>4

(* Handles that vanish leave the others as they are.                       *)
LEMMA StopFrame ==
  ASSUME Stop
  PROVE  /\ \A g \in Handle :
              \/ pc'[g] = "closed" /\ fd'[g] = "none" /\ ~lossy'[g]
              \/ pc'[g] = pc[g] /\ fd'[g] = fd[g] /\ lossy'[g] = lossy[g]
         /\ \/ file' = file
            \/ PowerLoss /\ \A g \in Handle : pc'[g] = "closed" /\ fd'[g] = "none"
  <1>1. CASE \E p \in Process : Kill(p)
    <2>1. PICK p \in Process : Kill(p)
      BY <1>1
    <2>2. Vanish({g \in Handle : ProcOf[g] = p}) /\ file' = file
      BY <2>1 DEF Kill
    <2> QED
      BY <2>2 DEF Vanish
  <1>2. CASE PowerLoss
    BY <1>2 DEF PowerLoss, Vanish
  <1> QED
    BY <1>1, <1>2 DEF Stop

(* The step at hand is not a save that begins while another one runs.      *)
NoneOverlaps ==
  \A h \in Handle : OpenTmp(h) => \A g \in Handle \ {h} : pc[g] \notin Saving

(* Saves that do not overlap stay apart, whatever else goes wrong.         *)
LEMMA NextAlone ==
  ASSUME TypeOK, TypeOK', Alone, Next, NoneOverlaps
  PROVE  Alone'
  <1> USE DEF Saving
  <1>1. ASSUME NEW h \in Handle, Edit(h) PROVE Alone'
    BY <1>1, EditFrame DEF Alone, Writing
  <1>2. ASSUME NEW h \in Handle, OpenTmp(h) PROVE Alone'
    <2>1. /\ pc' = [pc EXCEPT ![h] = "writing"]
          /\ fd' = [fd EXCEPT ![h] = Tmp]
          /\ \A g \in Handle : pc[g] \notin Saving
          /\ file'[Tmp].exists /\ ~file'[Tmp].shared
      BY <1>2, OpenTmpFrame DEF NoneOverlaps
    <2> QED
      BY <2>1 DEF Alone, TypeOK, Writing
  <1>3. ASSUME NEW h \in Handle, Write(h) PROVE Alone'
    <2>1. /\ pc[h] \in Writing
          /\ pc' = [pc EXCEPT ![h] = pc'[h]]
          /\ \/ pc'[h] \in Writing /\ fd' = fd
             \/ pc'[h] = "written" /\ fd' = [fd EXCEPT ![h] = "none"]
          /\ file'[Loc] = file[Loc]
          /\ file'[Tmp].exists
          /\ pc'[h] \in Writing => ~file'[Tmp].shared
      BY <1>3, WriteFrame
    <2>2. \A g \in Handle \ {h} : pc'[g] = pc[g] /\ pc[g] \notin Saving
      BY <2>1 DEF Alone, TypeOK
    <2> QED
      BY <2>1, <2>2 DEF Alone, TypeOK, Writing
  <1>4. ASSUME NEW h \in Handle, Unlink(h) \/ Rename(h) PROVE Alone'
    <2>1. /\ fd' = fd
          /\ \A g \in Handle \ {h} : pc[g] \notin Saving /\ pc'[g] = pc[g]
      BY <1>4, SwapFrame
    <2>2. \A g \in Handle : fd[g] = "none"
      BY <1>4, <2>1 DEF Unlink, Rename, Alone, Writing
    <2>3. \/ pc'[h] = "unlinked" /\ file'[Tmp].exists /\ ~file'[Loc].exists
          \/ pc'[h] = "closed"
      BY <1>4, SwapFrame
    <2> QED
      BY <2>1, <2>2, <2>3 DEF Alone, Writing
  <1>5. CASE Stop
    BY <1>5, StopFrame DEF Alone, Writing
  <1>6. CASE Kernel
    BY <1>6, KernelFrame DEF Alone
  <1> QED
    BY <1>1, <1>2, <1>3, <1>4, <1>5, <1>6, KindsOfSteps

-----------------------------------------------------------------------------
(* A temporary file belongs to a save that runs.                           *)
Owned == file[Tmp].exists => \E h \in Handle : pc[h] \in Saving

LEMMA SaveKeepsOwned ==
  ASSUME TypeOK, Owned, NEW h \in Handle, OpenTmp(h) \/ Write(h) \/ Unlink(h) \/ Rename(h)
  PROVE  Owned'
  <1> USE DEF Saving, Writing
  <1>1. CASE OpenTmp(h) \/ Write(h) \/ Unlink(h)
    <2>1. pc'[h] \in Saving
      BY <1>1 DEF OpenTmp, Write, Spill, SpillFails, Fsync, Fclose, FcloseFails, CloseFile,
                  Unlink, TypeOK
    <2> QED
      BY <2>1 DEF Owned
  <1>2. CASE Rename(h)
    BY <1>2 DEF Rename, Owned, NoFile, TypeOK, Name
  <1> QED
    BY <1>1, <1>2

LEMMA NextOwned ==
  ASSUME "kill" \notin Faults, "power" \notin Faults, TypeOK, Owned, Next
  PROVE  Owned'
  <1>1. ASSUME NEW h \in Handle, Edit(h) PROVE Owned'
    BY <1>1, EditFrame DEF Owned, Saving, Writing
  <1> QED
    <2>1. ~Stop
      BY DEF Stop, Kill, PowerLoss
    <2>2. Kernel => Owned'
      BY KernelFrame DEF Owned
    <2> QED
      BY <1>1, <2>1, <2>2, SaveKeepsOwned, KindsOfSteps

(* In however many processes the handles live, and however their saves     *)
(* overlap, saves that are not cut off leave no temporary file.            *)
THEOREM NothingLeftOver ==
  ASSUME "kill" \notin Faults, "power" \notin Faults
  PROVE  Spec => []NoLeftover
  <1>1. Init => Owned
    BY DEF Init, Owned, NoFile, Name, Loc, Tmp
  <1>2. TypeOK /\ Owned /\ [Next]_vars => Owned'
    <2>1. ASSUME Owned, UNCHANGED vars PROVE Owned'
      BY <2>1 DEF vars, Owned
    <2> QED
      BY <2>1, NextOwned
  <1>3. Owned => NoLeftover
    BY DEF Owned, NoLeftover, Saving, Writing
  <1> QED
    BY <1>1, <1>2, <1>3, InitTypeOK, NextTypeOK, PTL DEF Spec

-----------------------------------------------------------------------------
(***************************************************************************)
(* The handles of one process over the file system implement ConfigDB, for *)
(* every set of handles, sections, keys and values, as long as only the    *)
(* fopen of a temporary file may fail.                                     *)
(***************************************************************************)
Undisturbed == OneProcess /\ Faults \subseteq {"nowrite"}

(* A handle that is closed, or whose configuration is in the file already, *)
(* holds no keyfile.                                                       *)
Freed ==
  \A h \in Handle : pc[h] \in {"closed", "written", "unlinked"} => mem[h] = KeyfileNew

RefInv == IInv /\ Freed

(* The abstract database edits keyfiles as the store does.                 *)
LEMMA SameOperators ==
  /\ DB!Keyfile = Keyfile
  /\ DB!KeyfileNew = KeyfileNew
  /\ \A kf, s, k, v : DB!SetString(kf, s, k, v) = SetString(kf, s, k, v)
  /\ \A kf, s, k : DB!UnsetKey(kf, s, k) = UnsetKey(kf, s, k)
  <1>1. DB!Entry = Entry
    BY DEF DB!Entry, Entry
  <1>2. DB!Keyfile = Keyfile
    BY <1>1 DEF DB!Keyfile, Keyfile
  <1>3. DB!KeyfileNew = KeyfileNew
    BY <1>1 DEF DB!KeyfileNew, KeyfileNew
  <1>4. \A kf, s, k : DB!PatriciaDelete(kf, s, k) = PatriciaDelete(kf, s, k)
    BY DEF DB!PatriciaDelete, PatriciaDelete
  <1>5. \A kf, s, k, v : DB!PatriciaAdd(kf, s, k, v) = PatriciaAdd(kf, s, k, v)
    BY DEF DB!PatriciaAdd, PatriciaAdd
  <1>6. \A kf, s : DB!CreateSection(kf, s) = CreateSection(kf, s)
    BY DEF DB!CreateSection, CreateSection
  <1>7. \A kf, s, k, v : DB!SetString(kf, s, k, v) = SetString(kf, s, k, v)
    BY <1>4, <1>5, <1>6 DEF DB!SetString, SetString
  <1>8. \A kf, s, k : DB!UnsetKey(kf, s, k) = UnsetKey(kf, s, k)
    BY <1>4 DEF DB!UnsetKey, UnsetKey
  <1> QED
    BY <1>2, <1>3, <1>7, <1>8

LEMMA UndisturbedIsSheltered == Undisturbed => Sheltered
  BY DEF Undisturbed, Sheltered

LEMMA InitRefInv == Init => RefInv
  BY InitIInv DEF RefInv, Freed, Init

LEMMA NextRefInv ==
  ASSUME Undisturbed
  PROVE  RefInv /\ [Next]_vars => RefInv'
  <1> SUFFICES ASSUME RefInv, [Next]_vars PROVE Freed'
    BY NextIInv, UndisturbedIsSheltered DEF RefInv
  <1> USE DEF RefInv, IInv, TypeOK, Freed
  <1>1. CASE UNCHANGED vars
    BY <1>1 DEF vars
  <1>2. ASSUME NEW h \in Handle,
               \/ New(h) \/ OpenTmp(h) \/ OpenTmpFails(h)
               \/ \E s \in Section, k \in Key :
                    Unset(h, s, k) \/ \E v \in Val : Set(h, s, k, v)
        PROVE  Freed'
    BY <1>2 DEF New, OpenTmp, OpenTmpFails, Unset, Set
  <1>3. ASSUME NEW h \in Handle, SaveStep(h)
        PROVE  Freed'
    BY <1>3 DEF SaveStep, Spill, SpillFails, Fsync, Fclose, FcloseFails, CloseFile,
                Unlink, Rename
  <1>4. CASE Stop
    BY <1>4 DEF Undisturbed, Stop, Kill, PowerLoss
  <1>5. CASE Kernel
    BY <1>5, KernelFrame
  <1> QED
    BY <1>1, <1>2, <1>3, <1>4, <1>5 DEF Next, Stop, Kernel

-----------------------------------------------------------------------------
(* The file that stands for the database: the configuration file, until    *)
(* the save of h unlinks it.                                               *)
LEMMA WhereDb ==
  ASSUME NEW h \in Handle, \A g \in Handle \ {h} : pc[g] \notin Saving
  PROVE  /\ pc[h] = "unlinked" => dbBar = file[Tmp].text
         /\ pc[h] # "unlinked" => dbBar = file[Loc].text
  BY DEF dbBar, Saving, Writing

LEMMA InitRefines == Init => DB!Init
  <1> SUFFICES ASSUME Init PROVE DB!Init
    OBVIOUS
  <1>1. TypeOK
    BY InitTypeOK
  <1>2. dbBar = file[Loc].text /\ file[Loc].text \in Keyfile
    BY <1>1 DEF Init, dbBar, TypeOK, File, Name
  <1>3. openBar = [h \in Handle |-> FALSE]
    BY DEF Init, openBar
  <1>4. copyBar = [h \in Handle |-> KeyfileNew]
    BY DEF Init, copyBar
  <1> QED
    BY <1>2, <1>3, <1>4, SameOperators DEF DB!Init

(* mcs_new takes a snapshot of the database.                               *)
LEMMA NewRefines ==
  ASSUME Undisturbed, RefInv, RefInv', NEW h \in Handle, New(h)
  PROVE  DB!Open(h)
  <1> USE DEF RefInv, IInv, TypeOK
  <1>1. pc[h] = "closed" /\ \A g \in Handle \ {h} : pc[g] \notin Saving
    BY OneThread DEF New, Undisturbed
  <1>2. /\ pc' = [pc EXCEPT ![h] = "open"]
        /\ mem' = [mem EXCEPT ![h] = file[Loc].text]
        /\ file' = file
    BY DEF New, Undisturbed
  <1>3. dbBar = file[Loc].text /\ dbBar' = dbBar
    BY <1>1, <1>2 DEF dbBar, Saving, Writing
  <1>4. ~openBar[h] /\ openBar' = [openBar EXCEPT ![h] = TRUE]
    BY <1>1, <1>2 DEF openBar
  <1>5. copyBar' = [copyBar EXCEPT ![h] = dbBar]
    BY <1>1, <1>2, <1>3 DEF copyBar, Saving
  <1> QED
    BY <1>3, <1>4, <1>5 DEF DB!Open

(* A change of the keyfile in memory is a change of the private copy.      *)
LEMMA EditRefines ==
  ASSUME RefInv, RefInv', NEW h \in Handle, NEW kf,
         pc[h] = "open",
         mem' = [mem EXCEPT ![h] = kf],
         UNCHANGED <<pc, fd, lossy, file, disk, past>>
  PROVE  /\ openBar[h]
         /\ copyBar[h] = mem[h]
         /\ copyBar' = [copyBar EXCEPT ![h] = kf]
         /\ UNCHANGED <<dbBar, openBar>>
  BY DEF RefInv, IInv, TypeOK, openBar, copyBar, dbBar

(* A save commits with its unlink, and is invisible before and after.      *)
LEMMA SaveRefines ==
  ASSUME Undisturbed, RefInv, RefInv', NEW h \in Handle, OpenTmp(h) \/ SaveStep(h)
  PROVE  DB!Commit(h) \/ UNCHANGED <<dbBar, openBar, copyBar>>
  <1> USE DEF RefInv, IInv, TypeOK
  <1>1. \A g \in Handle \ {h} : pc[g] \notin Saving /\ pc'[g] = pc[g]
    <2>1. \A g \in Handle \ {h} : pc'[g] = pc[g]
      BY DEF OpenTmp, SaveStep, Spill, SpillFails, Fsync, Fclose, FcloseFails, CloseFile,
             Unlink, Rename
    <2>2. CASE OpenTmp(h)
      BY <2>1, <2>2, OneThread DEF OpenTmp, Undisturbed
    <2>3. CASE SaveStep(h)
      <3>1. pc[h] \in Saving
        BY <2>3 DEF SaveStep, Spill, SpillFails, Fsync, Fclose, FcloseFails, CloseFile,
                    Unlink, Rename, Saving, Writing
      <3> QED
        BY <2>1, <3>1 DEF SaveInv
    <2> QED
      BY <2>2, <2>3
  <1>2. /\ pc[h] = "unlinked" => dbBar = file[Tmp].text
        /\ pc[h] # "unlinked" => dbBar = file[Loc].text
    BY <1>1, WhereDb
  <1>3. /\ pc'[h] = "unlinked" => dbBar' = file'[Tmp].text
        /\ pc'[h] # "unlinked" => dbBar' = file'[Loc].text
    BY <1>1 DEF dbBar, Saving, Writing
  <1>4. \A g \in Handle \ {h} : pc[g] # "written" /\ pc'[g] # "written"
    BY <1>1 DEF Saving
  <1>5. CASE OpenTmp(h)
    <2>1. file'[Loc] = file[Loc] /\ mem' = mem /\ pc[h] = "open" /\ pc' = [pc EXCEPT ![h] = "writing"]
      BY <1>5 DEF OpenTmp, Name, Loc, Tmp
    <2>2. dbBar' = dbBar
      BY <1>2, <1>3, <2>1
    <2>3. openBar' = openBar /\ copyBar' = copyBar
      BY <1>4, <2>1 DEF openBar, copyBar
    <2> QED
      BY <2>2, <2>3
  <1>6. CASE Spill(h) \/ Fsync(h)
    <2>1. /\ fd[h] = Tmp
          /\ file'[Loc] = file[Loc] /\ mem' = mem
          /\ pc[h] \in Writing
          /\ pc' \in {[pc EXCEPT ![h] = "spilled"], [pc EXCEPT ![h] = "synced"]}
      BY <1>6 DEF Spill, Fsync, SaveInv, Writing, Name, Loc, Tmp
    <2>2. dbBar' = dbBar
      BY <1>2, <1>3, <2>1 DEF Writing
    <2>3. openBar' = openBar /\ copyBar' = copyBar
      BY <1>4, <2>1 DEF openBar, copyBar, Writing
    <2> QED
      BY <2>2, <2>3
  <1>7. CASE Fclose(h)
    <2>1. /\ pc[h] = "synced" /\ fd[h] = Tmp /\ ~file[Tmp].shared
          /\ pc' = [pc EXCEPT ![h] = "written"]
          /\ mem' = [mem EXCEPT ![h] = KeyfileNew]
      BY <1>7 DEF Fclose, CloseFile, SaveInv, Writing
    <2>2. file' = [file EXCEPT ![Tmp] = WholeFile(mem[h])]
      BY <1>7, <2>1 DEF Fclose, CompleteOutput, Name, Tmp
    <2>3. file'[Loc] = file[Loc] /\ file'[Tmp].text = mem[h]
      BY <2>2 DEF WholeFile, Name, Loc, Tmp
    <2>4. dbBar' = dbBar
      BY <1>2, <1>3, <2>1, <2>3
    <2>5. openBar' = openBar
      BY <2>1 DEF openBar
    <2>6. copyBar' = copyBar
      BY <1>4, <2>1, <2>3 DEF copyBar
    <2> QED
      BY <2>4, <2>5, <2>6
  <1>8. CASE Unlink(h)
    <2>1. /\ pc[h] = "written" /\ pc' = [pc EXCEPT ![h] = "unlinked"]
          /\ mem' = mem /\ mem[h] = KeyfileNew
          /\ file'[Tmp] = file[Tmp]
      BY <1>8 DEF Unlink, Freed, Name, Loc, Tmp
    <2>2. dbBar' = file[Tmp].text
      BY <1>3, <2>1
    <2>3. copyBar[h] = file[Tmp].text
      BY <2>1 DEF copyBar
    <2>4. openBar[h] /\ openBar' = [openBar EXCEPT ![h] = FALSE]
      BY <2>1 DEF openBar
    <2>5. copyBar' = [copyBar EXCEPT ![h] = DB!KeyfileNew]
      BY <1>4, <2>1, SameOperators DEF copyBar
    <2> QED
      BY <2>2, <2>3, <2>4, <2>5 DEF DB!Commit, DB!Forget
  <1>9. CASE Rename(h)
    <2>1. /\ pc[h] = "unlinked" /\ pc' = [pc EXCEPT ![h] = "closed"]
          /\ mem' = mem
          /\ file[Tmp].exists
      BY <1>9 DEF Rename, SaveInv
    <2>2. file'[Loc] = file[Tmp]
      BY <1>9, <2>1 DEF Rename, Name, Loc, Tmp
    <2>3. dbBar' = dbBar
      BY <1>2, <1>3, <2>1, <2>2
    <2>4. openBar' = openBar /\ copyBar' = copyBar
      BY <1>4, <2>1 DEF openBar, copyBar
    <2> QED
      BY <2>3, <2>4
  <1>10. ~SpillFails(h) /\ ~FcloseFails(h)
    BY DEF Undisturbed, SpillFails, FcloseFails, SaveInv
  <1> QED
    BY <1>5, <1>6, <1>7, <1>8, <1>9, <1>10 DEF SaveStep

(* A temporary file that cannot be opened leaves the database alone.       *)
LEMMA OpenTmpFailsRefines ==
  ASSUME Undisturbed, RefInv, RefInv', NEW h \in Handle, OpenTmpFails(h)
  PROVE  DB!Abandon(h)
  <1> USE DEF RefInv, IInv, TypeOK
  <1>1. /\ pc[h] = "open" /\ pc' = [pc EXCEPT ![h] = "closed"]
        /\ mem' = [mem EXCEPT ![h] = KeyfileNew]
        /\ file' = file
    BY DEF OpenTmpFails
  <1>2. dbBar' = dbBar
    BY <1>1 DEF dbBar
  <1>3. openBar[h] /\ openBar' = [openBar EXCEPT ![h] = FALSE]
    BY <1>1 DEF openBar
  <1>4. copyBar' = [copyBar EXCEPT ![h] = DB!KeyfileNew]
    BY <1>1, SameOperators DEF copyBar
  <1> QED
    BY <1>2, <1>3, <1>4 DEF DB!Abandon, DB!Forget

LEMMA NextRefines ==
  ASSUME Undisturbed, RefInv, RefInv', [Next]_vars
  PROVE  [DB!Next]_(DB!vars)
  <1>1. CASE UNCHANGED vars
    BY <1>1 DEF vars, DB!vars, dbBar, openBar, copyBar
  <1>2. ASSUME NEW h \in Handle, New(h)
        PROVE  DB!Next
    BY <1>2, NewRefines DEF DB!Next
  <1>3. ASSUME NEW h \in Handle, NEW s \in Section, NEW k \in Key, Unset(h, s, k)
        PROVE  DB!Next
    <2>1. DB!Unset(h, s, k)
      BY <1>3, EditRefines, SameOperators DEF Unset, DB!Unset
    <2> QED
      BY <2>1 DEF DB!Next
  <1>4. ASSUME NEW h \in Handle, NEW s \in Section, NEW k \in Key, NEW v \in Val, Set(h, s, k, v)
        PROVE  DB!Next
    <2>1. DB!Set(h, s, k, v)
      BY <1>4, EditRefines, SameOperators DEF Set, DB!Set
    <2> QED
      BY <2>1 DEF DB!Next
  <1>5. ASSUME NEW h \in Handle, OpenTmp(h) \/ SaveStep(h)
        PROVE  [DB!Next]_(DB!vars)
    BY <1>5, SaveRefines DEF DB!Next, DB!vars
  <1>6. ASSUME NEW h \in Handle, OpenTmpFails(h)
        PROVE  DB!Next
    BY <1>6, OpenTmpFailsRefines DEF DB!Next
  <1>7. CASE Stop
    BY <1>7 DEF Undisturbed, Stop, Kill, PowerLoss
  <1>8. CASE Kernel
    BY <1>8, KernelFrame DEF DB!vars, dbBar, openBar, copyBar
  <1> QED
    BY <1>1, <1>2, <1>3, <1>4, <1>5, <1>6, <1>7, <1>8 DEF Next, Stop, Kernel

(* Handles of one process see the files as the abstract database: mcs_new  *)
(* takes a snapshot of the configuration that was committed last, and      *)
(* mcs_destroy replaces all of it, or, when it cannot open its temporary   *)
(* file, none of it.                                                       *)
THEOREM StoreImplementsConfigDB ==
  ASSUME Undisturbed
  PROVE  Spec => ImplementsConfigDB
  <1>1. RefInv /\ RefInv' /\ [Next]_vars => [DB!Next]_(DB!vars)
    BY NextRefines
  <1> QED
    BY <1>1, InitRefInv, NextRefInv, InitRefines, PTL DEF Spec, ImplementsConfigDB, DB!Spec

-----------------------------------------------------------------------------
(* Any number of processes, and every fault: what it takes to lose a       *)
(* configuration, or half of one.                                          *)

(* The file is there, or the save that is to bring it is running.          *)
Present == saved => file[Loc].exists \/ \E h \in Handle : pc[h] = "unlinked"

(* When it is not there, the whole of the last save is in the temporary    *)
(* file, and no other save has begun to write over it.                     *)
Recoverable ==
  saved /\ ~file[Loc].exists =>
    /\ file[Tmp].exists /\ file[Tmp].whole
    /\ \A h \in Handle : pc[h] \notin Writing

(* A handle that nobody has edited and that has not fallen behind holds    *)
(* the configuration there is, which no other save is replacing.           *)
Current ==
  \A h \in Handle :
    ~edited[h] /\ ~behind[h] /\ pc[h] \notin {"closed", "unlinked"} =>
      /\ \A g \in Handle : pc[g] # "unlinked"
      /\ pc[h] \in {"open"} \cup Writing => mem[h] = file[Loc].text
      /\ pc[h] = "written" => file[Tmp].text = file[Loc].text

HInv ==
  /\ TypeOK
  /\ "overlap" \notin blame => Alone
  /\ blame \cap {"overlap", "nospace", "power"} = {} => SaveInv /\ NeverTorn
  /\ blame \cap {"overlap", "window", "undone"} = {} => Present
  /\ blame \subseteq {"window"} => Recoverable
  /\ blame = {} => Current

-----------------------------------------------------------------------------
LEMMA NoOverlap ==
  ASSUME ~Happens("overlap")
  PROVE  NoneOverlaps
  BY DEF NoneOverlaps, Happens

(* Nothing that tears a file happens.                                      *)
Quiet == NoneOverlaps /\ ~Happens("nospace") /\ ~Happens("power")

LEMMA NextWhole ==
  ASSUME IInv, TypeOK', Next, Quiet
  PROVE  IInv'
  <1>1. CASE \E h \in Handle :
               \/ New(h) \/ OpenTmpFails(h)
               \/ \E s \in Section, k \in Key :
                    Unset(h, s, k) \/ \E v \in Val : Set(h, s, k, v)
    BY <1>1, EditsKeepIInv
  <1>2. CASE \E h \in Handle : OpenTmp(h)
    BY <1>2, OpenTmpKeepsIInv DEF NoneOverlaps, Quiet
  <1>3. CASE \E h \in Handle : SaveStep(h)
    <2> PICK h \in Handle : SaveStep(h)
      BY <1>3
    <2>1. ~SpillFails(h) /\ ~FcloseFails(h)
      BY DEF Quiet, Happens
    <2> QED
      BY <2>1, WritesKeepIInv, SwapKeepsIInv DEF SaveStep
  <1>4. CASE \E p \in Process : Kill(p)
    BY <1>4, KillKeepsIInv
  <1>5. CASE PowerLoss
    <2>1. file' = file
      BY <1>5 DEF Quiet, Happens
    <2>2. \A g \in Handle : pc'[g] = "closed" /\ fd'[g] = "none" /\ ~lossy'[g]
      BY <1>5 DEF PowerLoss, Vanish
    <2> QED
      BY <2>1, <2>2 DEF IInv, SaveInv, NeverTorn, Saving, Writing
  <1>6. CASE Kernel
    BY <1>6, KernelKeepsIInv
  <1> QED
    BY <1>1, <1>2, <1>3, <1>4, <1>5, <1>6 DEF Next, Kernel

(* A configuration file goes by an unlink, whose rename brings the next    *)
(* one, or with a save that stops between the two, or when a power loss    *)
(* takes back how it came.                                                 *)
LEMMA NextPresent ==
  ASSUME TypeOK, TypeOK', Alone, Present, Next, NoneOverlaps,
         ~Happens("window"), ~Happens("undone"),
         saved' = (saved \/ file'[Loc].exists)
  PROVE  Present'
  <1>0. CASE ~saved
    BY <1>0 DEF Present
  <1> SUFFICES ASSUME saved
               PROVE  file'[Loc].exists \/ \E h \in Handle : pc'[h] = "unlinked"
    BY <1>0 DEF Present
  <1>1. ASSUME NEW h \in Handle, Edit(h)
        PROVE  file'[Loc].exists \/ \E g \in Handle : pc'[g] = "unlinked"
    BY <1>1, EditFrame DEF Present, Saving
  <1>2. ASSUME NEW h \in Handle, OpenTmp(h)
        PROVE  file'[Loc].exists \/ \E g \in Handle : pc'[g] = "unlinked"
    BY <1>2, OpenTmpFrame DEF NoneOverlaps, Present, Saving
  <1>3. ASSUME NEW h \in Handle, Write(h)
        PROVE  file'[Loc].exists \/ \E g \in Handle : pc'[g] = "unlinked"
    BY <1>3, WriteFrame DEF Present, TypeOK, Writing
  <1>4. ASSUME NEW h \in Handle, Unlink(h) \/ Rename(h)
        PROVE  file'[Loc].exists \/ \E g \in Handle : pc'[g] = "unlinked"
    BY <1>4, SwapFrame
  <1>5. CASE Stop
    <2>1. \A n \in Name : file'[n].exists = file[n].exists
      BY <1>5, StopFrame DEF Happens, NamesChange
    <2>2. \A h \in Handle : pc[h] = "unlinked" => pc'[h] = "unlinked"
      <3> SUFFICES ASSUME NEW h \in Handle, pc[h] = "unlinked", pc'[h] = "closed"
                   PROVE  FALSE
        BY <1>5, StopFrame
      <3>1. file'[Tmp].exists
        BY <2>1 DEF Alone, Name
      <3>2. ~Rename(h)
        BY <3>1, SwapFrame
      <3> QED
        BY <1>5, <3>2 DEF Happens, Stop
    <2> QED
      BY <2>1, <2>2 DEF Present, Name
  <1>6. CASE Kernel
    BY <1>6, KernelFrame DEF Present
  <1> QED
    BY <1>1, <1>2, <1>3, <1>4, <1>5, <1>6, KindsOfSteps

(* Between an unlink and a rename the temporary file is whole, and without *)
(* the file of the domain nobody can begin a save but by discarding it.    *)
LEMMA NextRecoverable ==
  ASSUME IInv, TypeOK', Alone, Recoverable, Next, Quiet, ~Happens("discard"),
         saved' = (saved \/ file'[Loc].exists)
  PROVE  Recoverable'
  <1> SUFFICES ASSUME saved, ~file'[Loc].exists
               PROVE  /\ file'[Tmp].exists /\ file'[Tmp].whole
                      /\ \A g \in Handle : pc'[g] \notin Writing
    BY DEF Recoverable
  <1> DEFINE Goal == /\ file'[Tmp].exists /\ file'[Tmp].whole
                     /\ \A g \in Handle : pc'[g] \notin Writing
  <1>0. TypeOK
    BY DEF IInv
  <1>1. ASSUME NEW h \in Handle, Edit(h) PROVE Goal
    BY <1>0, <1>1, EditFrame DEF Recoverable, Saving
  <1>2. ASSUME NEW h \in Handle, OpenTmp(h) PROVE Goal
    <2>1. ~file[Loc].exists
      BY <1>0, <1>2, OpenTmpFrame DEF NoneOverlaps, Quiet
    <2> QED
      BY <1>2, <2>1 DEF Recoverable, Happens
  <1>3. ASSUME NEW h \in Handle, Write(h) PROVE Goal
    BY <1>0, <1>3, WriteFrame DEF Recoverable
  <1>4. ASSUME NEW h \in Handle, Unlink(h) PROVE Goal
    <2>1. file[Tmp].whole
      BY <1>4 DEF IInv, SaveInv, Unlink
    <2> QED
      BY <1>0, <1>4, <2>1, SwapFrame DEF Saving, Writing
  <1>5. ASSUME NEW h \in Handle, Rename(h) PROVE Goal
    BY <1>0, <1>5, SwapFrame
  <1>6. CASE Stop
    <2>1. file' = file
      BY <1>6 DEF Stop, Kill, Quiet, Happens
    <2> QED
      BY <1>6, <2>1, StopFrame DEF Recoverable, Writing
  <1>7. CASE Kernel
    BY <1>7, KernelFrame DEF Recoverable
  <1> QED
    BY <1>1, <1>2, <1>3, <1>4, <1>5, <1>6, <1>7, KindsOfSteps

(* Whoever takes the configuration further leaves the others behind.       *)
LEMMA NextCurrent ==
  ASSUME IInv, TypeOK', Current, HNext, Quiet, Calm
  PROVE  Current'
  <1> DEFINE Good(h) == /\ \A g \in Handle : pc'[g] # "unlinked"
                        /\ pc'[h] \in {"open"} \cup Writing => mem'[h] = file'[Loc].text
                        /\ pc'[h] = "written" => file'[Tmp].text = file'[Loc].text
  <1> SUFFICES ASSUME NEW h \in Handle, ~edited'[h], ~behind'[h],
                      pc'[h] \notin {"closed", "unlinked"}
               PROVE  Good(h)
    BY DEF Current
  <1>0. TypeOK /\ SaveInv /\ Next
    BY DEF IInv, HNext
  <1>1. /\ ~edited[h] /\ ~behind[h] /\ ~FallsBehind(h)
        /\ pc[h] = "open" => mem'[h] = mem[h]
    BY DEF HNext, Calm
  <1>2. pc[h] \notin {"closed", "unlinked"} =>
          /\ \A g \in Handle : pc[g] # "unlinked"
          /\ pc[h] \in {"open"} \cup Writing => mem[h] = file[Loc].text
          /\ pc[h] = "written" => file[Tmp].text = file[Loc].text
    BY <1>1 DEF Current
  <1>3. ASSUME NEW g \in Handle, New(g)
        PROVE  Good(h)
    <2>1. /\ pc' = [pc EXCEPT ![g] = "open"] /\ file' = file
          /\ \A f \in Handle \ {g} : mem'[f] = mem[f]
      BY <1>0, <1>3 DEF New, TypeOK
    <2>2. CASE g = h
      BY <1>0, <1>1, <1>3, <2>1, <2>2 DEF FallsBehind, TypeOK, Writing
    <2>3. CASE g # h
      BY <1>0, <1>2, <2>1, <2>3 DEF TypeOK
    <2> QED
      BY <2>2, <2>3
  <1>4. ASSUME NEW g \in Handle, Edit(g), ~New(g)
        PROVE  Good(h)
    <2>1. /\ file' = file
          /\ \A f \in Handle \ {g} : mem'[f] = mem[f] /\ pc'[f] = pc[f]
          /\ pc'[g] = "closed" \/ (pc[g] = "open" /\ pc' = pc)
      BY <1>0, <1>4 DEF Edit, OpenTmpFails, Set, Unset, TypeOK
    <2>2. pc'[h] = pc[h] /\ mem'[h] = mem[h] /\ \A f \in Handle : pc'[f] \in {pc[f], "closed"}
      BY <1>1, <2>1
    <2> QED
      BY <1>2, <2>1, <2>2
  <1>5. ASSUME NEW g \in Handle, OpenTmp(g)
        PROVE  Good(h)
    <2>1. /\ file'[Loc] = file[Loc] /\ mem' = mem
          /\ pc[g] = "open" /\ pc' = [pc EXCEPT ![g] = "writing"]
          /\ \A f \in Handle \ {g} : pc[f] \notin Saving
      BY <1>0, <1>5 DEF OpenTmp, Quiet, NoneOverlaps, TypeOK, Name, Loc, Tmp
    <2> QED
      BY <1>0, <1>2, <2>1 DEF TypeOK, Saving, Writing
  <1>6. ASSUME NEW g \in Handle, Write(g)
        PROVE  Good(h)
    <2>1. Spill(g) \/ Fsync(g) \/ Fclose(g)
      BY <1>6 DEF Write, Quiet, Happens
    <2>2. /\ pc[g] \in Writing /\ fd[g] = Tmp /\ ~file[Tmp].shared
          /\ \A f \in Handle \ {g} : pc[f] \notin Saving /\ pc'[f] = pc[f] /\ mem'[f] = mem[f]
          /\ pc'[g] \in Writing \cup {"written"}
      BY <1>0, <2>1 DEF Spill, Fsync, Fclose, CloseFile, SaveInv, TypeOK, Saving, Writing
    <2>3. file'[Loc] = file[Loc]
      BY <1>0, <2>1, <2>2 DEF Spill, Fsync, Fclose, TypeOK, Name, Loc, Tmp
    <2>4. CASE h # g
      BY <1>0, <1>2, <2>2, <2>3, <2>4 DEF TypeOK, PC, Saving, Writing
    <2>5. CASE h = g /\ ~Fclose(g)
      <3>1. mem' = mem /\ pc'[h] \in Writing
        BY <1>0, <2>1, <2>5 DEF Spill, Fsync, TypeOK, Writing
      <3> QED
        BY <1>2, <2>2, <2>3, <2>5, <3>1 DEF Saving, Writing
    <2>6. CASE h = g /\ Fclose(g)
      <3>1. pc'[h] = "written" /\ file'[Tmp] = WholeFile(mem[h])
        BY <1>0, <2>2, <2>6 DEF Fclose, CloseFile, CompleteOutput, TypeOK, Name, Tmp
      <3>2. file'[Tmp].text = mem[h]
        BY <3>1 DEF WholeFile
      <3> QED
        BY <1>2, <2>2, <2>3, <2>6, <3>1, <3>2 DEF Saving, Writing
    <2> QED
      BY <2>4, <2>5, <2>6
  <1>7. ASSUME NEW g \in Handle, Unlink(g)
        PROVE  FALSE
    BY <1>0, <1>1, <1>7 DEF FallsBehind, Unlink, TypeOK
  <1>8. ASSUME NEW g \in Handle, Rename(g)
        PROVE  FALSE
    BY <1>0, <1>2, <1>8 DEF Rename, TypeOK
  <1>9. CASE Stop
    <2>1. file' = file
      BY <1>9 DEF Stop, Kill, Quiet, Happens
    <2>2. \A f \in Handle : pc'[f] = "closed" \/ (pc'[f] = pc[f] /\ mem'[f] = mem[f])
      <3>1. CASE PowerLoss
        BY <3>1 DEF PowerLoss, Vanish
      <3>2. CASE \E p \in Process : Kill(p)
        <4>1. PICK p \in Process : Kill(p)
          BY <3>2
        <4>2. Vanish({f \in Handle : ProcOf[f] = p})
          BY <4>1 DEF Kill
        <4> QED
          BY <4>2 DEF Vanish
      <3> QED
        BY <1>9, <3>1, <3>2 DEF Stop
    <2> QED
      BY <1>2, <2>1, <2>2
  <1>10. CASE Kernel
    BY <1>2, <1>10, KernelFrame
  <1> QED
    BY <1>0, <1>3, <1>4, <1>5, <1>6, <1>7, <1>8, <1>9, <1>10, KindsOfSteps

-----------------------------------------------------------------------------
LEMMA InitHInv == HInit => HInv
  <1> SUFFICES ASSUME HInit PROVE HInv
    OBVIOUS
  <1>1. IInv
    BY InitIInv DEF HInit
  <1>2. Alone
    BY DEF HInit, Init, Alone, Saving, Writing
  <1>3. Present /\ Recoverable
    BY DEF HInit, Present, Recoverable
  <1>4. Current
    BY DEF HInit, Init, Current
  <1> QED
    BY <1>1, <1>2, <1>3, <1>4 DEF HInv, IInv

LEMMA NextHInv == HInv /\ [HNext]_hvars => HInv'
  <1> SUFFICES ASSUME HInv, [HNext]_hvars PROVE HInv'
    OBVIOUS
  <1>1. CASE UNCHANGED hvars
    BY <1>1 DEF hvars, vars, HInv, TypeOK, Alone, SaveInv, NeverTorn, Present,
                Recoverable, Current
  <1>2. CASE HNext
    <2>1. /\ Next
          /\ blame' = blame \cup {b \in Events : Happens(b)}
          /\ saved' = (saved \/ file'[Loc].exists)
      BY <1>2 DEF HNext
    <2>2. TypeOK /\ TypeOK'
      BY <2>1, NextTypeOK DEF HInv
    <2>3. \A b \in Events : b \notin blame' => b \notin blame /\ ~Happens(b)
      BY <2>1
    <2>4. ASSUME "overlap" \notin blame' PROVE Alone /\ NoneOverlaps
      BY <2>3, <2>4, NoOverlap DEF HInv, Events
    <2>5. ASSUME blame' \cap {"overlap", "nospace", "power"} = {} PROVE IInv /\ Quiet
      BY <2>2, <2>3, <2>5, NoOverlap DEF HInv, IInv, Quiet, Events
    <2>6. ASSUME blame' \cap {"overlap", "window", "undone"} = {}
          PROVE  Present /\ ~Happens("window") /\ ~Happens("undone")
      BY <2>3, <2>6 DEF HInv, Events
    <2>7. ASSUME blame' \subseteq {"window"}
          PROVE  /\ "overlap" \notin blame'
                 /\ blame' \cap {"overlap", "nospace", "power"} = {}
                 /\ Recoverable /\ ~Happens("discard")
      BY <2>1, <2>3, <2>7 DEF HInv, Events
    <2>8. "overlap" \notin blame' => Alone'
      BY <2>1, <2>2, <2>4, NextAlone
    <2>9. blame' \cap {"overlap", "nospace", "power"} = {} => SaveInv' /\ NeverTorn'
      BY <2>1, <2>2, <2>5, NextWhole DEF IInv
    <2>10. blame' \cap {"overlap", "window", "undone"} = {} => Present'
      BY <2>1, <2>2, <2>4, <2>6, NextPresent
    <2>11. blame' \subseteq {"window"} => Recoverable'
      BY <2>1, <2>2, <2>4, <2>5, <2>7, NextRecoverable
    <2>12. blame' = {} => Current'
      BY <1>2, <2>1, <2>2, <2>5, NextCurrent DEF HInv, Calm
    <2> QED
      BY <2>2, <2>8, <2>9, <2>10, <2>11, <2>12 DEF HInv
  <1> QED
    BY <1>1, <1>2

(* Half a configuration under the name that is read takes two saves at     *)
(* once, a write that failed, or a power loss before the data was written  *)
(* back, in however many processes the handles live.                       *)
THEOREM NobodyElseTears == HSpec => []TornIsExplained
  <1>1. HInv => TornIsExplained
    BY DEF HInv, NeverTorn, TornIsExplained
  <1> QED
    BY <1>1, InitHInv, NextHInv, PTL DEF HSpec

(* A domain that has had a configuration file is without one only while a  *)
(* save is between unlink and rename, or after one has stopped there, two  *)
(* have overlapped, or a power loss has taken changes of the directory     *)
(* back: no write that fails and no other stop does it.                    *)
THEOREM NobodyElseLoses == HSpec => []GoneIsExplained
  <1>1. HInv => GoneIsExplained
    BY DEF HInv, Present, GoneIsExplained
  <1> QED
    BY <1>1, InitHInv, NextHInv, PTL DEF HSpec

(* What a save that stopped between unlink and rename has left can be had  *)
(* from the temporary file, until a later save truncates it.               *)
THEOREM LastSaveStays == HSpec => []LastSaveRecoverable
  <1>1. HInv => LastSaveRecoverable
    BY DEF HInv, Recoverable, LastSaveRecoverable
  <1> QED
    BY <1>1, InitHInv, NextHInv, PTL DEF HSpec

(* The step that makes a save take effect is its unlink.                   *)
LEMMA UnlinkCommits ==
  ASSUME TypeOK, Next, NEW h \in Handle, pc[h] = "written", pc'[h] = "unlinked"
  PROVE  Unlink(h)
  <1>1. ASSUME NEW g \in Handle, Edit(g) \/ OpenTmp(g) \/ Write(g) \/ Rename(g)
        PROVE  FALSE
    BY <1>1 DEF Edit, New, OpenTmpFails, Set, Unset, OpenTmp, Write, Spill, SpillFails, Fsync,
                Fclose, FcloseFails, CloseFile, Rename, TypeOK
  <1>2. ASSUME NEW g \in Handle, Unlink(g) PROVE g = h
    BY <1>2 DEF Unlink, TypeOK
  <1>3. ~Stop /\ ~Kernel
    BY StopFrame, KernelFrame
  <1> QED
    BY <1>1, <1>2, <1>3, KindsOfSteps

(* A handle that was only asked for values changes the configuration, as   *)
(* long as nothing has gone wrong, only when its load met another save's   *)
(* window or could not open the file, or another handle has saved since.   *)
THEOREM QueriesAreExplained == HSpec => QueryIsExplained
  <1>1. HInv /\ [HNext]_hvars =>
          [\A h \in Handle : QuerySaves(h) /\ ~behind[h] => dbBar' = dbBar]_hvars
    <2> SUFFICES ASSUME HInv, HNext, NEW h \in Handle, QuerySaves(h), ~behind[h]
                 PROVE  dbBar' = dbBar
      OBVIOUS
    <2>1. /\ Unlink(h) /\ TypeOK
          /\ pc'[h] = "unlinked"
      BY UnlinkCommits DEF HInv, HNext, QuerySaves
    <2>2. /\ \A g \in Handle : pc[g] # "unlinked"
          /\ file[Tmp].text = file[Loc].text
      BY DEF HInv, Current, QuerySaves
    <2>3. file'[Tmp] = file[Tmp]
      BY <2>1 DEF Unlink, TypeOK, Name, Loc, Tmp
    <2> QED
      BY <2>1, <2>2, <2>3 DEF dbBar
  <1> QED
    BY <1>1, InitHInv, NextHInv, PTL DEF HSpec, QueryIsExplained

-----------------------------------------------------------------------------
(***************************************************************************)
(* Tools for every number of processes, and every fault of Faults: what a  *)
(* load reads while others save, and what tools that run one after the     *)
(* other tell each other.                                                  *)
(***************************************************************************)

(* What Destroy does to the variables of KeyfileStore.                     *)
LEMMA DestroyIsNext ==
  ASSUME NEW h \in Handle, Destroy(h)
  PROVE  /\ Next
         /\ OpenTmp(h) \/ OpenTmpFails(h) \/ Write(h) \/ Unlink(h) \/ Rename(h)
  BY DEF Destroy, Next, SaveStep, Write

(* A step of a handle is not the begin of another one's save.              *)
LEMMA DestroyOverlaps ==
  ASSUME TypeOK, NEW h \in Handle, Destroy(h), ~overlap'
  PROVE  NoneOverlaps
  <1> SUFFICES ASSUME NEW g \in Handle, OpenTmp(g)
               PROVE  \A f \in Handle \ {g} : pc[f] \notin Saving
    BY DEF NoneOverlaps
  <1>1. pc[g] = "open" /\ pc'[g] = "writing" /\ \A f \in Handle \ {g} : pc'[f] = pc[f]
    BY DEF OpenTmp, TypeOK
  <1>2. pc'[h] # pc[h]
    <2>1. pc = [f \in Handle |-> pc[f]]
      BY DEF TypeOK
    <2>2. CASE OpenTmp(h) \/ OpenTmpFails(h)
      BY <2>1, <2>2 DEF OpenTmp, OpenTmpFails
    <2>3. CASE Write(h)
      BY <2>1, <2>3 DEF Write, Spill, SpillFails, Fsync, Fclose, FcloseFails, CloseFile
    <2>4. CASE Unlink(h) \/ Rename(h)
      BY <2>1, <2>4 DEF Unlink, Rename
    <2> QED
      BY <2>2, <2>3, <2>4, DestroyIsNext
  <1>3. g = h
    BY <1>1, <1>2
  <1> QED
    BY <1>3 DEF Destroy, Saving

LEMMA InitTTypeOK == TInit => TTypeOK
  <1> SUFFICES ASSUME TInit PROVE TTypeOK
    OBVIOUS
  <1>1. TypeOK
    BY InitTypeOK DEF TInit, LInit
  <1>2. file[Loc].text \in Keyfile
    BY <1>1 DEF TypeOK, Name, File
  <1> QED
    BY <1>1, <1>2, KeyfileNewType DEF TInit, LInit, TTypeOK, LTypeOK

LEMMA DisturbedType ==
  ASSUME NEW it, Disturbed(it), calm \in BOOLEAN, told \in Keyfile
  PROVE  calm' \in BOOLEAN /\ told' \in Keyfile
  BY KeyfileNewType DEF Disturbed

LEMMA NextTTypeOK == TTypeOK /\ [TNext]_tvars => TTypeOK'
  <1> SUFFICES ASSUME TTypeOK, [TNext]_tvars PROVE TTypeOK'
    OBVIOUS
  <1>0. /\ TypeOK /\ LTypeOK
        /\ file[Loc].text \in Keyfile
    BY DEF TTypeOK, TypeOK, Name, File
  <1>1. CASE UNCHANGED tvars
    BY <1>1 DEF tvars, lvars, vars, TTypeOK, TypeOK, LTypeOK
  <1>2. ASSUME NEW h \in Handle, NEW tool \in Installed, Start(h, tool)
        PROVE  TTypeOK'
    <2>1. tool \in Tool
      BY InstalledType
    <2> QED
      BY <1>2, <2>1, DisturbedType DEF Start, lvars, vars, TTypeOK, TypeOK, LTypeOK
  <1>3. ASSUME NEW h \in Handle, ListBackends(h) \/ Ask(h)
        PROVE  TTypeOK'
    BY <1>3 DEF ListBackends, Ask, lvars, vars, TTypeOK, TypeOK, LTypeOK
  <1>4. ASSUME NEW h \in Handle, Make(h)
        PROVE  TTypeOK'
    <2>1. TypeOK' /\ LTypeOK'
      BY <1>0, <1>4, KeyfileNewType DEF Make, LoadOpen, TypeOK, LTypeOK, PC
    <2> QED
      BY <1>4, <2>1, DisturbedType DEF Make, TTypeOK
  <1>5. ASSUME NEW h \in Handle, Read(h)
        PROVE  TTypeOK'
    <2>1. Readable(h) \subseteq Keyfile
      BY <1>0 DEF Readable, LTypeOK
    <2>2. LTypeOK'
      BY <1>0, <1>5, <2>1 DEF Read, LoadRead, LTypeOK
    <2> QED
      BY <1>5, <2>2 DEF Read, LoadRead, vars, TTypeOK, TypeOK
  <1>6. ASSUME NEW h \in Handle, Made(h)
        PROVE  TTypeOK'
    <2>1. TypeOK' /\ LTypeOK'
      BY <1>0, <1>6, KeyfileNewType DEF Made, LoadEnd, TypeOK, LTypeOK, PC
    <2> QED
      BY <1>6, <2>1 DEF Made, TTypeOK
  <1>7. ASSUME NEW h \in Handle, NEW s \in Section, NEW k \in Key, NEW v \in Val, Tell(h, s, k, v)
        PROVE  TTypeOK'
    <2>1. TypeOK' /\ told' \in Keyfile
      BY <1>0, <1>7, HandleTypeOK, SetStringType DEF Tell, TTypeOK
    <2> QED
      BY <1>7, <2>1 DEF Tell, Set, TTypeOK, LTypeOK
  <1>8. ASSUME NEW h \in Handle, Unref(h)
        PROVE  TTypeOK'
    <2>1. TypeOK'
      BY <1>0, <1>8, HandleTypeOK DEF Unref, Destroy
    <2>2. LTypeOK'
      BY <1>0, <1>8 DEF Unref, Destroy, LTypeOK
    <2> QED
      BY <1>8, <2>1, <2>2, DisturbedType DEF Unref, TTypeOK
  <1>9. ASSUME NEW h \in Handle, Finish(h)
        PROVE  TTypeOK'
    BY <1>9 DEF Finish, lvars, vars, TTypeOK, TypeOK, LTypeOK
  <1> QED
    BY <1>1, <1>2, <1>3, <1>4, <1>5, <1>6, <1>7, <1>8, <1>9 DEF TNext, Step

(* The state of the tools, of what they read and of the files has the      *)
(* types declared.                                                         *)
THEOREM ToolsTypeCorrect == TSpec => []TTypeOK
  BY InitTTypeOK, NextTTypeOK, PTL DEF TSpec

-----------------------------------------------------------------------------
(* What h has read, before it has a keyfile, is the text of the inode it   *)
(* has open.                                                               *)
Fresh(h) ==
  /\ rd[h] # "none" => pc[h] = "closed"
  /\ rd[h] = "none" => seen[h] = {}
  /\ rd[h] = "here" => seen[h] \subseteq {file[Loc].text}
  /\ rd[h] = "gone" => seen[h] \subseteq {inode[h]}

RInv == TTypeOK /\ (~overlap => Alone /\ \A h \in Handle : Fresh(h))

LEMMA InitRInv == TInit => RInv
  <1> SUFFICES ASSUME TInit PROVE Alone /\ \A h \in Handle : Fresh(h)
    BY InitTTypeOK DEF RInv
  <1>1. Alone
    BY DEF TInit, LInit, Init, Alone, Saving, Writing
  <1>2. \A h \in Handle : Fresh(h)
    BY DEF TInit, LInit, Fresh
  <1> QED
    BY <1>1, <1>2

(* A save leaves what the others read as it is, or takes only its name.    *)
LEMMA DestroyKeepsFresh ==
  ASSUME TTypeOK, Alone, NEW h \in Handle, Destroy(h), NoneOverlaps,
         \A g \in Handle : Fresh(g)
  PROVE  \A g \in Handle : Fresh(g)'
  <1>0. TypeOK /\ LTypeOK
    BY DEF TTypeOK
  <1>1. pc[h] # "closed" /\ \A g \in Handle \ {h} : pc'[g] = pc[g]
    BY <1>0, DestroyIsNext
    DEF OpenTmp, OpenTmpFails, Write, Spill, SpillFails, Fsync, Fclose, FcloseFails, CloseFile,
        Unlink, Rename, TypeOK
  <1>2. CASE NameMoves(h)
    <2>1. /\ rd' = [g \in Handle |-> IF g \in Readers THEN "gone" ELSE rd[g]]
          /\ inode' = [g \in Handle |-> IF g \in Readers THEN file[Loc].text ELSE inode[g]]
          /\ seen' = seen
      BY <1>2 DEF Destroy
    <2> QED
      BY <1>0, <1>1, <2>1 DEF Fresh, Readers, LTypeOK
  <1>3. CASE ~NameMoves(h)
    <2>1. UNCHANGED <<rd, inode, seen>>
      BY <1>3 DEF Destroy
    <2>2. ~Unlink(h) /\ ~Rename(h)
      <3>1. Rename(h) => file[Tmp].exists
        BY DEF Rename, Alone
      <3> QED
        BY <1>3, <3>1 DEF NameMoves
    <2>3. file'[Loc] = file[Loc]
      <3>1. CASE OpenTmp(h)
        BY <1>0, <3>1, OpenTmpFrame DEF NoneOverlaps
      <3>2. CASE OpenTmpFails(h)
        BY <3>2 DEF OpenTmpFails
      <3>3. CASE Write(h)
        BY <1>0, <3>3, WriteFrame
      <3> QED
        BY <2>2, <3>1, <3>2, <3>3, DestroyIsNext
    <2> QED
      BY <1>1, <2>1, <2>3 DEF Fresh
  <1> QED
    BY <1>2, <1>3

(* The steps of tools that leave the files and the descriptors alone.      *)
Elsewhere(h) ==
  \/ ListBackends(h) \/ Make(h) \/ Read(h) \/ Made(h) \/ Ask(h) \/ Finish(h)
  \/ \E s \in Section, k \in Key, v \in Val : Tell(h, s, k, v)
  \/ \E tool \in Installed : Start(h, tool)

LEMMA ElsewhereKeepsAlone ==
  ASSUME TTypeOK, Alone, NEW h \in Handle, Elsewhere(h), Fresh(h)
  PROVE  Alone' /\ overlap' = overlap
  <1>1. /\ UNCHANGED <<fd, lossy, file, disk, overlap>>
        /\ \A g \in Handle :
             pc'[g] = pc[g] \/ (pc[g] \notin Saving /\ pc'[g] \notin Saving)
    <2>1. CASE Make(h)
      BY <2>1 DEF Make, LoadOpen, TTypeOK, TypeOK, Saving, Writing
    <2>2. CASE Made(h)
      BY <2>2 DEF Made, LoadEnd, Fresh, TTypeOK, TypeOK, Saving, Writing
    <2>3. CASE \/ ListBackends(h) \/ Read(h) \/ Ask(h) \/ Finish(h)
               \/ \E s \in Section, k \in Key, v \in Val : Tell(h, s, k, v)
               \/ \E tool \in Installed : Start(h, tool)
      BY <2>3 DEF ListBackends, Read, LoadRead, Ask, Finish, Tell, Set, Start, lvars, vars
    <2> QED
      BY <2>1, <2>2, <2>3 DEF Elsewhere
  <1> QED
    BY <1>1 DEF Alone, Saving, Writing

LEMMA ElsewhereKeepsFresh ==
  ASSUME TTypeOK, Alone, NEW h \in Handle, Elsewhere(h), \A g \in Handle : Fresh(g)
  PROVE  \A g \in Handle : Fresh(g)'
  <1> USE DEF TTypeOK, LTypeOK
  <1>1. CASE Make(h)
    BY <1>1 DEF Make, LoadOpen, Fresh, TypeOK
  <1>2. CASE Read(h)
    <2>1. Readable(h) = IF rd[h] = "here" THEN {file[Loc].text} ELSE {inode[h]}
      BY DEF Readable, Alone, Tmp
    <2>2. /\ rd[h] # "none"
          /\ \E text \in Readable(h) : seen' = [seen EXCEPT ![h] = @ \cup {text}]
          /\ UNCHANGED <<rd, inode, file, pc>>
      BY <1>2 DEF Read, LoadRead, vars
    <2> QED
      BY <2>1, <2>2 DEF Fresh
  <1>3. CASE Made(h)
    BY <1>3 DEF Made, LoadEnd, Fresh, TypeOK
  <1>4. CASE \/ ListBackends(h) \/ Ask(h) \/ Finish(h)
             \/ \E s \in Section, k \in Key, v \in Val : Tell(h, s, k, v)
             \/ \E tool \in Installed : Start(h, tool)
    <2>1. UNCHANGED <<pc, rd, inode, seen, file>>
      BY <1>4 DEF ListBackends, Ask, Finish, Tell, Set, Start, lvars, vars
    <2> QED
      BY <2>1 DEF Fresh
  <1> QED
    BY <1>1, <1>2, <1>3, <1>4 DEF Elsewhere

LEMMA NextRInv == RInv /\ [TNext]_tvars => RInv'
  <1> SUFFICES ASSUME RInv, [TNext]_tvars, ~overlap'
               PROVE  Alone' /\ \A h \in Handle : Fresh(h)'
    BY NextTTypeOK DEF RInv
  <1>0. TTypeOK /\ TTypeOK'
    BY NextTTypeOK DEF RInv
  <1>1. CASE UNCHANGED tvars
    BY <1>1 DEF tvars, lvars, vars, RInv, Alone, Fresh
  <1>2. ASSUME NEW h \in Handle, Elsewhere(h)
        PROVE  Alone' /\ \A g \in Handle : Fresh(g)'
    <2>1. ~overlap
      BY <1>2 DEF Elsewhere, ListBackends, Make, LoadOpen, Read, LoadRead, Made, LoadEnd, Ask,
                  Finish, Tell, Set, Start, lvars
    <2> QED
      BY <1>0, <1>2, <2>1, ElsewhereKeepsAlone, ElsewhereKeepsFresh DEF RInv
  <1>3. ASSUME NEW h \in Handle, Unref(h)
        PROVE  Alone' /\ \A g \in Handle : Fresh(g)'
    <2>1. Destroy(h) /\ ~overlap
      BY <1>3 DEF Unref, Destroy
    <2>2. NoneOverlaps /\ Next
      BY <1>0, <2>1, DestroyIsNext, DestroyOverlaps DEF TTypeOK
    <2> QED
      BY <1>0, <2>1, <2>2, NextAlone, DestroyKeepsFresh DEF RInv, TTypeOK
  <1> QED
    BY <1>1, <1>2, <1>3 DEF TNext, Step, Elsewhere

(* A load reads the text of one save, and none of another, in however many *)
(* processes others save meanwhile, unless two of their saves overlap.     *)
THEOREM LoadsAreWhole == TSpec => []LoadsOneSave
  <1>1. RInv => LoadsOneSave
    <2> SUFFICES ASSUME RInv, ~overlap, NEW h \in Handle
                 PROVE  Cardinality(seen[h]) <= 1
      BY DEF LoadsOneSave
    <2>1. \E text : seen[h] \subseteq {text}
      BY DEF RInv, Fresh, TTypeOK, LTypeOK
    <2>2. seen[h] = {} \/ \E text : seen[h] = {text}
      BY <2>1
    <2> QED
      <3>1. Cardinality(seen[h]) = 0 \/ Cardinality(seen[h]) = 1
        BY <2>2, FS_EmptySet, FS_Singleton
      <3> QED
        BY <3>1
  <1> QED
    BY <1>1, InitRInv, NextRInv, PTL DEF TSpec

-----------------------------------------------------------------------------
(* One tool at a time is the only one with a handle, which holds what the  *)
(* tools were told, and so does the file it saves it to.                   *)
Turn(h) ==
  /\ at[h] = "idle" => pc[h] = "closed" /\ rd[h] = "none"
  /\ at[h] = "running" => pc[h] \in {"closed", "open"} /\ rd[h] # "gone"
  /\ at[h] = "asked" => rd[h] = "none"
  /\ prog[h] \in Listing => pc[h] = "closed" /\ rd[h] = "none"
  /\ rd[h] # "none" => pc[h] = "closed"
  /\ seen[h] \subseteq {told}
  /\ rd[h] = "none" => seen[h] = {}
  /\ ~lossy[h]
  /\ pc[h] \in {"open"} \cup Writing => mem[h] = told
  /\ pc[h] \in {"written", "unlinked"} => file[Tmp].text = told

TurnInv ==
  /\ \A g, h \in Handle : at[g] # "idle" /\ at[h] # "idle" => g = h
  /\ \A h \in Handle : Turn(h)
  /\ Alone
  /\ file[Tmp].exists => \E h \in Handle : pc[h] \in Saving
  /\ file[Loc].exists \/ file[Loc].text = KeyfileNew
  /\ (\A h \in Handle : pc[h] = "closed") => file[Loc].text = told

CInv == TTypeOK /\ (calm => TurnInv)

LEMMA InitCInv == TInit => CInv
  <1> SUFFICES ASSUME TInit PROVE TurnInv
    BY InitTTypeOK DEF CInv
  <1>1. Alone
    BY DEF TInit, LInit, Init, Alone, Saving, Writing
  <1>2. \A h \in Handle : Turn(h)
    BY DEF TInit, LInit, Init, Turn, Writing
  <1>3. ~file[Tmp].exists /\ (file[Loc].exists \/ file[Loc].text = KeyfileNew)
    BY DEF TInit, LInit, Init, NoFile, WholeFile, Name, Loc, Tmp
  <1> QED
    BY <1>1, <1>2, <1>3 DEF TInit, TurnInv

(* While a tool runs undisturbed the others are idle.                      *)
LEMMA OthersIdle ==
  ASSUME TTypeOK, TurnInv, NEW h \in Handle, at[h] # "idle"
  PROVE  \A g \in Handle \ {h} : /\ at[g] = "idle" /\ pc[g] = "closed" /\ rd[g] = "none"
                                 /\ seen[g] = {} /\ fd[g] = "none" /\ ~lossy[g]
  BY DEF TTypeOK, TypeOK, TurnInv, Turn, Alone, Writing

(* To keep TurnInv it is enough to keep Turn of the tool that runs and the *)
(* facts about the files.                                                  *)
LEMMA TurnByOne ==
  ASSUME TTypeOK, TTypeOK', TurnInv, NEW h \in Handle, at[h] # "idle", Turn(h)', Alone',
         \A g \in Handle \ {h} : /\ at'[g] = at[g] /\ prog'[g] = prog[g]
                                 /\ pc'[g] = pc[g] /\ rd'[g] = rd[g]
                                 /\ seen'[g] = seen[g] /\ lossy'[g] = lossy[g],
         file'[Tmp].exists => pc'[h] \in Saving,
         file'[Loc].exists \/ file'[Loc].text = KeyfileNew,
         pc'[h] = "closed" => file'[Loc].text = told'
  PROVE  TurnInv'
  <1>1. \A g \in Handle \ {h} : Turn(g)' /\ at'[g] = "idle"
    BY OthersIdle DEF Turn, Writing
  <1> QED
    BY <1>1 DEF TurnInv

LEMMA StartKeepsTurn ==
  ASSUME TTypeOK, TTypeOK', TurnInv, calm', NEW h \in Handle, NEW tool \in Installed,
         Start(h, tool)
  PROVE  TurnInv'
  <1>1. /\ \A g \in Handle : at[g] = "idle"
        /\ told' = told
        /\ at' = [at EXCEPT ![h] = "running"]
        /\ UNCHANGED lvars
    BY DEF Start, Disturbed, TTypeOK
  <1>2. \A g \in Handle : Turn(g)'
    BY <1>1 DEF TurnInv, Turn, TTypeOK, lvars, vars
  <1>3. Alone'
    BY <1>1 DEF TurnInv, Alone, lvars, vars
  <1> QED
    BY <1>1, <1>2, <1>3 DEF TurnInv, TTypeOK, lvars, vars

(* The end of a tool, and what it does without the file system.            *)
LEMMA QuestionsKeepTurn ==
  ASSUME TTypeOK, TTypeOK', TurnInv, NEW h \in Handle,
         ListBackends(h) \/ Ask(h) \/ Finish(h)
  PROVE  TurnInv'
  <1>1. /\ at[h] # "idle" /\ told' = told /\ UNCHANGED lvars
        /\ at' = [at EXCEPT ![h] = at'[h]]
    BY DEF ListBackends, Ask, Finish, TTypeOK
  <1>2. \A g \in Handle : Turn(g)'
    BY <1>1 DEF ListBackends, Ask, Finish, TurnInv, Turn, TTypeOK, Listing, lvars, vars
  <1>3. \A f, g \in Handle : at'[f] # "idle" /\ at'[g] # "idle" => f = g
    BY <1>1 DEF TurnInv, TTypeOK
  <1> QED
    BY <1>1, <1>2, <1>3 DEF TurnInv, Alone, lvars, vars

LEMMA LoadKeepsTurn ==
  ASSUME TTypeOK, TTypeOK', TurnInv, calm', NEW h \in Handle, Make(h) \/ Read(h) \/ Made(h)
  PROVE  TurnInv'
  <1> USE DEF Saving, Writing
  <1>0. /\ at[h] = "running" => (file[Loc].text = told /\ ~file[Tmp].exists) \/ pc[h] = "open"
        /\ rd[h] # "none" => at[h] = "running" /\ rd[h] = "here" /\ pc[h] = "closed"
        /\ Turn(h)
    BY OthersIdle DEF TurnInv, Turn, TTypeOK, LTypeOK
  <1>1. CASE Make(h)
    <2>1. /\ at[h] = "running" /\ pc[h] = "closed" /\ rd[h] = "none" /\ told' = told
          /\ prog[h] \notin Listing
          /\ file[Loc].text = told /\ ~file[Tmp].exists
          /\ UNCHANGED <<fd, lossy, file, disk, seen, at, prog>>
      BY <1>0, <1>1 DEF Make, LoadOpen, Disturbed
    <2>2. \/ rd' = [rd EXCEPT ![h] = "here"] /\ UNCHANGED <<pc, mem>>
          \/ /\ pc' = [pc EXCEPT ![h] = "open"] /\ mem' = [mem EXCEPT ![h] = KeyfileNew]
             /\ rd' = rd
      BY <1>1 DEF Make, LoadOpen
    <2>3. pc'[h] = "open" => told = KeyfileNew /\ mem'[h] = KeyfileNew
      <3> SUFFICES ASSUME pc'[h] = "open" PROVE told = KeyfileNew /\ mem'[h] = KeyfileNew
        OBVIOUS
      <3>1. ~file[Loc].exists
        BY <1>1 DEF Make, Disturbed
      <3> QED
        BY <2>1, <2>2, <3>1 DEF TurnInv, TTypeOK, TypeOK
    <2>4. Turn(h)'
      BY <1>0, <2>1, <2>2, <2>3 DEF Turn, TTypeOK, TypeOK, LTypeOK
    <2>5. Alone'
      BY <2>1, <2>2 DEF TurnInv, Alone, TTypeOK, TypeOK
    <2> QED
      BY <2>1, <2>2, <2>4, <2>5, TurnByOne DEF TurnInv, TTypeOK, TypeOK, LTypeOK
  <1>2. CASE Read(h)
    <2>1. /\ rd[h] = "here" /\ at[h] = "running" /\ pc[h] = "closed"
          /\ file[Loc].text = told /\ ~file[Tmp].exists
          /\ UNCHANGED <<vars, rd, at, prog, calm, told>>
      BY <1>0, <1>2 DEF Read, LoadRead
    <2>2. seen' = [seen EXCEPT ![h] = @ \cup {told}]
      BY <1>2, <2>1 DEF Read, LoadRead, Readable
    <2>3. Turn(h)'
      BY <1>0, <2>1, <2>2 DEF Turn, LTypeOK, TTypeOK, vars
    <2>4. Alone'
      BY <2>1 DEF TurnInv, Alone, vars
    <2> QED
      BY <2>1, <2>2, <2>3, <2>4, TurnByOne DEF TurnInv, TTypeOK, LTypeOK, vars
  <1>3. CASE Made(h)
    <2>1. /\ rd[h] = "here" /\ at[h] = "running" /\ pc[h] = "closed" /\ seen[h] = {told}
          /\ file[Loc].text = told /\ ~file[Tmp].exists
          /\ UNCHANGED <<fd, lossy, file, disk, at, prog, calm, told>>
          /\ pc' = [pc EXCEPT ![h] = "open"]
          /\ rd' = [rd EXCEPT ![h] = "none"]
          /\ seen' = [seen EXCEPT ![h] = {}]
      BY <1>0, <1>3 DEF Made, LoadEnd, Turn
    <2>2. told \in Keyfile
      BY DEF TTypeOK
    <2>3. mem' = [mem EXCEPT ![h] = told]
      BY <1>3, <2>1, <2>2 DEF Made, LoadEnd
    <2>4. Turn(h)'
      BY <1>0, <2>1, <2>3 DEF Turn, TTypeOK, TypeOK, LTypeOK
    <2>5. Alone'
      BY <2>1 DEF TurnInv, Alone, TTypeOK, TypeOK
    <2> QED
      BY <2>1, <2>4, <2>5, TurnByOne DEF TurnInv, TTypeOK, TypeOK, LTypeOK
  <1> QED
    BY <1>1, <1>2, <1>3

LEMMA TellKeepsTurn ==
  ASSUME TTypeOK, TTypeOK', TurnInv, calm, NEW h \in Handle,
         NEW s \in Section, NEW k \in Key, NEW v \in Val, Tell(h, s, k, v)
  PROVE  TurnInv'
  <1> USE DEF Saving, Writing
  <1>1. /\ at[h] = "running" /\ pc[h] = "open"
        /\ at' = [at EXCEPT ![h] = "asked"]
        /\ mem' = [mem EXCEPT ![h] = SetString(@, s, k, v)]
        /\ told' = SetString(told, s, k, v)
        /\ UNCHANGED <<pc, fd, lossy, file, disk, rd, seen, prog>>
    BY DEF Tell, Set
  <1>2. Turn(h) /\ rd[h] = "none" /\ mem[h] = told
    BY <1>1 DEF TurnInv, Turn
  <1>3. mem'[h] = told'
    BY <1>1, <1>2 DEF TTypeOK, TypeOK
  <1>4. Turn(h)'
    BY <1>1, <1>2, <1>3 DEF Turn, TTypeOK
  <1>5. Alone'
    BY <1>1 DEF TurnInv, Alone
  <1>6. ~file[Tmp].exists
    BY <1>1, OthersIdle DEF TurnInv
  <1> QED
    BY <1>1, <1>4, <1>5, <1>6, TurnByOne DEF TurnInv, TTypeOK

LEMMA UnrefKeepsTurn ==
  ASSUME TTypeOK, TTypeOK', TurnInv, calm', NEW h \in Handle, Unref(h)
  PROVE  TurnInv'
  <1> USE DEF Saving, Writing
  <1>1. /\ at[h] = "asked" /\ rd[h] = "none" /\ seen[h] = {} /\ Turn(h) /\ Alone
        /\ TypeOK /\ LTypeOK
        /\ \A g \in Handle \ {h} : pc[g] = "closed"
    BY OthersIdle DEF Unref, TurnInv, Turn, TTypeOK
  <1>2. /\ Destroy(h) /\ UNCHANGED <<at, prog, seen, told>>
        /\ ~OpenTmpFails(h) /\ ~SpillFails(h) /\ ~FcloseFails(h)
    BY DEF Unref, Destroy, Disturbed
  <1>3. Readers = {}
    BY <1>1, OthersIdle DEF Readers
  <1>4. \A g \in Handle : rd'[g] = rd[g]
    BY <1>1, <1>2, <1>3 DEF Destroy, LTypeOK
  <1>5. Alone'
    <2>1. NoneOverlaps
      BY <1>1 DEF NoneOverlaps, OpenTmp, TypeOK
    <2> QED
      BY <1>1, <1>2, <2>1, DestroyIsNext, NextAlone DEF TTypeOK
  <1>6. CASE OpenTmp(h)
    <2>1. /\ pc' = [pc EXCEPT ![h] = "writing"] /\ pc[h] = "open"
          /\ lossy' = [lossy EXCEPT ![h] = FALSE]
          /\ mem' = mem
      BY <1>6 DEF OpenTmp
    <2>2. file'[Loc] = file[Loc]
      BY <1>1, <1>6, OpenTmpFrame
    <2> QED
      BY <1>1, <1>2, <1>4, <1>5, <2>1, <2>2, TurnByOne DEF TurnInv, Turn, TypeOK
  <1>7. CASE Spill(h) \/ Fsync(h)
    <2>1. /\ pc[h] \in Writing /\ pc'[h] \in Writing
          /\ \A g \in Handle \ {h} : pc'[g] = pc[g]
          /\ lossy' = lossy /\ mem' = mem
      BY <1>1, <1>7 DEF Spill, Fsync, TypeOK
    <2>2. file'[Loc] = file[Loc]
      BY <1>1, <1>7, WriteFrame DEF Write
    <2> QED
      BY <1>1, <1>2, <1>4, <1>5, <2>1, <2>2, TurnByOne DEF TurnInv, Turn, TypeOK
  <1>8. CASE Fclose(h)
    <2>1. /\ pc[h] = "synced" /\ pc' = [pc EXCEPT ![h] = "written"]
          /\ lossy' = [lossy EXCEPT ![h] = FALSE]
          /\ fd[h] = Tmp /\ ~file[Tmp].shared
          /\ mem[h] = told
      BY <1>1, <1>8 DEF Fclose, CloseFile, Alone, Turn
    <2>2. file'[Tmp] = WholeFile(told)
      BY <1>1, <1>8, <2>1 DEF Fclose, CompleteOutput, TypeOK, Name, Tmp
    <2>3. file'[Tmp].text = told
      BY <2>2 DEF WholeFile
    <2>4. file'[Loc] = file[Loc]
      BY <1>1, <1>8, WriteFrame DEF Write
    <2> QED
      BY <1>1, <1>2, <1>4, <1>5, <2>1, <2>3, <2>4, TurnByOne DEF TurnInv, Turn, TypeOK
  <1>9. CASE Unlink(h)
    <2>1. /\ pc[h] = "written" /\ pc' = [pc EXCEPT ![h] = "unlinked"]
          /\ file' = [file EXCEPT ![Loc] = NoFile]
          /\ lossy' = lossy
      BY <1>9 DEF Unlink
    <2>2. file'[Tmp] = file[Tmp] /\ file'[Loc].text = KeyfileNew
      BY <1>1, <2>1 DEF TypeOK, NoFile, Name, Loc, Tmp
    <2> QED
      BY <1>1, <1>2, <1>4, <1>5, <2>1, <2>2, TurnByOne DEF Turn, TypeOK
  <1>10. CASE Rename(h)
    <2>1. /\ pc[h] = "unlinked" /\ pc' = [pc EXCEPT ![h] = "closed"]
          /\ lossy' = lossy
      BY <1>10 DEF Rename
    <2>2. /\ file'[Loc] = file[Tmp] /\ file[Tmp].exists
          /\ ~file'[Tmp].exists
      BY <1>1, <1>10, SwapFrame
    <2>3. file[Tmp].text = told
      BY <1>1, <2>1 DEF Turn
    <2> QED
      BY <1>1, <1>2, <1>4, <1>5, <2>1, <2>2, <2>3, TurnByOne DEF Turn, TypeOK
  <1> QED
    BY <1>2, <1>6, <1>7, <1>8, <1>9, <1>10, DestroyIsNext DEF Write

LEMMA NextCInv == CInv /\ [TNext]_tvars => CInv'
  <1> SUFFICES ASSUME CInv, [TNext]_tvars, calm' PROVE TurnInv'
    BY NextTTypeOK DEF CInv
  <1>0. TTypeOK /\ TTypeOK'
    BY NextTTypeOK DEF CInv
  <1>1. CASE UNCHANGED tvars
    BY <1>1 DEF tvars, lvars, vars, CInv, TurnInv, Turn, Alone
  <1>2. CASE TNext
    <2>1. PICK h \in Handle : Step(h) \/ \E tool \in Installed : Start(h, tool)
      BY <1>2 DEF TNext
    <2>2. calm
      BY <2>1 DEF Step, ListBackends, Make, Read, Made, Ask, Tell, Unref, Finish, Start, Disturbed
    <2>3. TurnInv
      BY <2>2 DEF CInv
    <2> QED
      BY <1>0, <2>1, <2>2, <2>3, StartKeepsTurn, QuestionsKeepTurn, LoadKeepsTurn, TellKeepsTurn,
         UnrefKeepsTurn DEF Step
  <1> QED
    BY <1>1, <1>2

(* As long as tools run one after the other and no call of theirs fails,   *)
(* the handle of each holds all that was set before it, a query changes    *)
(* nothing, and between them so does the file: for every number of shells  *)
(* and every set of sections, keys and values.                             *)
THEOREM ToolsTellEachOther == TSpec => []InTurn
  <1>1. CInv => InTurn
    <2> SUFFICES ASSUME TurnInv, TTypeOK
                 PROVE  /\ \A h \in Handle : at[h] # "idle" /\ pc[h] = "open" => mem[h] = told
                        /\ (\A h \in Handle : at[h] = "idle") =>
                             file[Loc].text = told /\ ~file[Tmp].exists
      BY DEF CInv, InTurn
    <2> QED
      BY DEF TurnInv, Turn, Saving, Writing
  <1> QED
    BY <1>1, InitCInv, NextCInv, PTL DEF TSpec

-----------------------------------------------------------------------------
(* A process that loads is not one that saves.                             *)
OInv ==
  /\ TTypeOK
  /\ Owned
  /\ \A h \in Handle : rd[h] # "none" => pc[h] = "closed"

LEMMA NextOInv == OInv /\ [TNext]_tvars => OInv'
  <1> SUFFICES ASSUME OInv, [TNext]_tvars
               PROVE  Owned' /\ \A g \in Handle : rd'[g] # "none" => pc'[g] = "closed"
    BY NextTTypeOK DEF OInv
  <1> USE DEF Saving, Writing
  <1>0. TTypeOK /\ TypeOK /\ LTypeOK /\ Owned
    BY DEF OInv, TTypeOK
  <1>1. CASE UNCHANGED tvars
    BY <1>1 DEF tvars, lvars, vars, OInv, Owned
  <1>2. ASSUME NEW h \in Handle, Elsewhere(h)
        PROVE  Owned' /\ \A g \in Handle : rd'[g] # "none" => pc'[g] = "closed"
    <2>1. CASE Make(h)
      BY <1>0, <2>1 DEF Make, LoadOpen, OInv, Owned, TypeOK, LTypeOK
    <2>2. CASE Made(h)
      BY <1>0, <2>2 DEF Made, LoadEnd, OInv, Owned, TypeOK, LTypeOK
    <2>3. CASE \/ ListBackends(h) \/ Read(h) \/ Ask(h) \/ Finish(h)
               \/ \E s \in Section, k \in Key, v \in Val : Tell(h, s, k, v)
               \/ \E tool \in Installed : Start(h, tool)
      <3>1. UNCHANGED <<pc, rd, file>>
        BY <2>3 DEF ListBackends, Read, LoadRead, Ask, Finish, Tell, Set, Start, lvars, vars
      <3> QED
        BY <3>1 DEF OInv, Owned
    <2> QED
      BY <1>2, <2>1, <2>2, <2>3 DEF Elsewhere
  <1>3. ASSUME NEW h \in Handle, Unref(h)
        PROVE  Owned' /\ \A g \in Handle : rd'[g] # "none" => pc'[g] = "closed"
    <2>1. Destroy(h)
      BY <1>3 DEF Unref
    <2>2. Owned'
      <3>1. CASE OpenTmpFails(h)
        BY <1>0, <3>1 DEF OpenTmpFails, Owned, TypeOK
      <3> QED
        BY <1>0, <2>1, <3>1, SaveKeepsOwned, DestroyIsNext
    <2>3. pc[h] # "closed" /\ \A g \in Handle \ {h} : pc'[g] = pc[g]
      BY <1>0, <2>1, DestroyIsNext
      DEF OpenTmp, OpenTmpFails, Write, Spill, SpillFails, Fsync, Fclose, FcloseFails, CloseFile,
          Unlink, Rename, TypeOK
    <2>4. \A g \in Handle : rd'[g] # "none" => rd[g] # "none"
      BY <1>0, <2>1 DEF Destroy, Readers, LTypeOK
    <2> QED
      BY <2>2, <2>3, <2>4 DEF OInv
  <1> QED
    BY <1>1, <1>2, <1>3 DEF TNext, Step, Elsewhere

(* Whatever tools run at once, and whichever of their calls fail, when     *)
(* they are done they leave no temporary file behind (mcs_keyfile_destroy, *)
(* of which only the fopen makes one, and rename is the last).             *)
THEOREM ToolsLeaveNothing == TSpec => []NoLeftover
  <1>1. TInit => OInv
    <2>1. TInit => Owned /\ \A h \in Handle : rd[h] # "none" => pc[h] = "closed"
      BY DEF TInit, LInit, Init, Owned, NoFile, Name, Loc, Tmp
    <2> QED
      BY <2>1, InitTTypeOK DEF OInv
  <1>2. OInv => NoLeftover
    BY DEF OInv, Owned, NoLeftover, Saving, Writing
  <1> QED
    BY <1>1, <1>2, NextOInv, PTL DEF TSpec

=============================================================================
