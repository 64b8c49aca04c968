----------------------------- MODULE KeyfileLoad -----------------------------
(***************************************************************************)
(* KeyfileStore with a load that takes its time: keyfile_open reads the    *)
(* file through stdio, one buffer after another, while other processes go  *)
(* on saving.  What it reads is the inode it has opened, wherever its name *)
(* has gone meanwhile.  A handle is made by LoadOpen, LoadRead and LoadEnd *)
(* here, of which KeyfileStore's New is one step; each process has one     *)
(* handle.                                                                 *)
(***************************************************************************)
EXTENDS KeyfileStore, Naturals, FiniteSets

ASSUME OneHandleEach == \A g, h \in Handle : ProcOf[g] = ProcOf[h] => g = h

VARIABLES rd,      \* rd[h]: h has the file open for reading, under its name,
                   \* or "gone" when another one, or none, has the name
          inode,   \* inode[h]: the text of the file that has lost its name
          seen,    \* seen[h]: the texts the file has had at h's reads
          overlap  \* history: a save has begun while another one ran

lvars == <<vars, rd, inode, seen, overlap>>

LTypeOK ==
  /\ rd \in [Handle -> {"none", "here", "gone"}]
  /\ inode \in [Handle -> Keyfile]
  /\ seen \in [Handle -> SUBSET Keyfile]
  /\ overlap \in BOOLEAN

LInit ==
  /\ Init
  /\ rd = [h \in Handle |-> "none"]
  /\ inode = [h \in Handle |-> KeyfileNew]
  /\ seen = [h \in Handle |-> {}]
  /\ overlap = FALSE

-----------------------------------------------------------------------------
(* fopen: without a file keyfile_open is done.                             *)
LoadOpen(h) ==
  /\ pc[h] = "closed"
  /\ rd[h] = "none"
  /\ \/ /\ file[Loc].exists
        /\ rd' = [rd EXCEPT ![h] = "here"]
        /\ UNCHANGED <<pc, mem>>
     \/ /\ ~file[Loc].exists \/ "noread" \in Faults
        /\ pc' = [pc EXCEPT ![h] = "open"]
        /\ mem' = [mem EXCEPT ![h] = KeyfileNew]
        /\ UNCHANGED rd
  /\ UNCHANGED <<fd, lossy, file, disk, past, inode, seen, overlap>>

(* What the inode holds.  A save that still writes to a file without a     *)
(* name may be writing to this one.                                        *)
Readable(h) ==
  IF rd[h] = "here" THEN {file[Loc].text}
  ELSE IF \E g \in Handle : fd[g] = "nameless" THEN Keyfile
  ELSE {inode[h]}

(* stdio fills its buffer.                                                 *)
LoadRead(h) ==
  /\ rd[h] # "none"
  /\ \E text \in Readable(h) : seen' = [seen EXCEPT ![h] = @ \cup {text}]
  /\ UNCHANGED <<vars, rd, inode, overlap>>

(* The end of the file.  Parts of two texts parse to anything.             *)
LoadEnd(h) ==
  /\ rd[h] # "none"
  /\ seen[h] # {}
  /\ \E kf \in IF \E text \in Keyfile : seen[h] = {text} THEN seen[h] ELSE Keyfile :
       mem' = [mem EXCEPT ![h] = kf]
  /\ pc' = [pc EXCEPT ![h] = "open"]
  /\ rd' = [rd EXCEPT ![h] = "none"]
  /\ inode' = [inode EXCEPT ![h] = KeyfileNew]
  /\ seen' = [seen EXCEPT ![h] = {}]
  /\ UNCHANGED <<fd, lossy, file, disk, past, overlap>>

(* Whoever reads the file under its name keeps it open when the name goes  *)
(* to another one, or to none.                                             *)
NameMoves(h) == Unlink(h) \/ (Rename(h) /\ file[Tmp].exists)

Readers == {g \in Handle : rd[g] = "here"}

Destroy(h) ==
  /\ OpenTmp(h) \/ OpenTmpFails(h) \/ SaveStep(h)
  /\ IF NameMoves(h)
     THEN /\ rd' = [g \in Handle |-> IF g \in Readers THEN "gone" ELSE rd[g]]
          /\ inode' = [g \in Handle |-> IF g \in Readers THEN file[Loc].text ELSE inode[g]]
     ELSE UNCHANGED <<rd, inode>>
  /\ overlap' = (overlap \/ (OpenTmp(h) /\ \E g \in Handle \ {h} : pc[g] \in Saving))
  /\ UNCHANGED seen

-----------------------------------------------------------------------------
(* A load reads the text of one save, and none of another, whatever is     *)
(* saved while it reads: the file it has open is not written to, unless    *)
(* two saves have overlapped (keyfile_write to a name of its own, and      *)
(* mcs_keyfile_destroy, which unlinks and renames but never truncates).    *)
LoadsOneSave == overlap \/ \A h \in Handle : Cardinality(seen[h]) <= 1

=============================================================================
