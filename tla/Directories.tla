----------------------------- MODULE Directories -----------------------------
(***************************************************************************)
(* mcs_create_directory of src/src/libmcs/mcs_util.c: a process makes the  *)
(* directories of a path one by one, from the root, while other processes  *)
(* make theirs, which may share a part of the path (every domain lives     *)
(* under $HOME/.config).  Each mkdir is a step.                            *)
(*                                                                         *)
(* A path is the function from 1..Depth[c] to the directories it goes      *)
(* through, the root left out.                                             *)
(***************************************************************************)
EXTENDS Naturals

CONSTANTS Caller, \* the processes that create a directory
          Dir,    \* the names on their paths
          Depth,  \* Depth[c]: how many names the path of c has
          PathOf, \* PathOf[c][d]: the first d names of it
          Faults  \* "mkdir": any mkdir may fail; "rmdir": others remove things

ASSUME DepthType == Depth \in [Caller -> Nat] /\ \A c \in Caller : Depth[c] > 0
ASSUME PathType == \A c \in Caller : PathOf[c] \in [1..Depth[c] -> Dir]
ASSUME OneTree ==
  \A a, b \in Caller : \A i \in 1..Depth[a], j \in 1..Depth[b] :
    PathOf[a][i] = PathOf[b][j] => i = j /\ \A k \in 1..i : PathOf[a][k] = PathOf[b][k]

VARIABLES node, \* node[p]: what stands at p
          at,   \* at[c]: how many names of its path c has dealt with
          ret,  \* ret[c]: c is "idle", "running", or has been answered
          happened \* the faults there have been

vars == <<node, at, ret, happened>>

TypeOK ==
  /\ node \in [Dir -> {"none", "dir", "file"}]
  /\ at \in [Caller -> Nat] /\ \A c \in Caller : at[c] <= Depth[c]
  /\ ret \in [Caller -> {"idle", "running", "zero", "minus one"}]
  /\ happened \subseteq {"mkdir", "rmdir"}

(* What stands right above the d-th name of c's path.                      *)
Above(c, d) == IF d = 1 THEN "dir" ELSE node[PathOf[c][d - 1]]

(* Some of the names are there already, as directories or files.           *)
Init ==
  /\ node \in [Dir -> {"none", "dir", "file"}]
  /\ \A c \in Caller : \A d \in 1..Depth[c] :
       node[PathOf[c][d]] # "none" => Above(c, d) = "dir"
  /\ at = [c \in Caller |-> 0]
  /\ ret = [c \in Caller |-> "idle"]
  /\ happened = {}

-----------------------------------------------------------------------------
Call(c) ==
  /\ ret[c] # "running"
  /\ ret' = [ret EXCEPT ![c] = "running"]
  /\ at' = [at EXCEPT ![c] = 0]
  /\ UNCHANGED <<node, happened>>

(* The mkdir of the next name: of a part of the path in the loop, of the   *)
(* whole of it after the loop.                                             *)
Mkdir(c) ==
  /\ ret[c] = "running"
  /\ at[c] < Depth[c]

Proceed(c) ==
  /\ Mkdir(c)
  /\ at' = [at EXCEPT ![c] = @ + 1]
  /\ UNCHANGED <<ret, happened>>

MkdirMakes(c) ==
  /\ Proceed(c)
  /\ Above(c, at[c] + 1) = "dir"
  /\ node[PathOf[c][at[c] + 1]] = "none"
  /\ node' = [node EXCEPT ![PathOf[c][at[c] + 1]] = "dir"]

\* Mutant: a directory that another process has just made is an error.
MkdirFindsIsError(c) ==
  /\ Mkdir(c)
  /\ Above(c, at[c] + 1) = "dir"
  /\ node[PathOf[c][at[c] + 1]] # "none"
  /\ IF at[c] = 0
     THEN at' = [at EXCEPT ![c] = @ + 1] /\ UNCHANGED ret
     ELSE ret' = [ret EXCEPT ![c] = "minus one"] /\ UNCHANGED at
  /\ UNCHANGED <<node, happened>>

\* Mutant: the mkdir is tried until it makes the directory itself.
MkdirFindsRetries(c) ==
  /\ Mkdir(c)
  /\ Above(c, at[c] + 1) = "dir"
  /\ node[PathOf[c][at[c] + 1]] # "none"
  /\ UNCHANGED vars

(* EEXIST is no error, whoever was first and whatever it is that exists.   *)
MkdirFinds(c) ==
  /\ Proceed(c)
  /\ Above(c, at[c] + 1) = "dir"
  /\ node[PathOf[c][at[c] + 1]] # "none"
  /\ UNCHANGED node

\* Mutant: the loop goes on after a mkdir that has failed.
MkdirRefusedGoesOn(c) ==
  /\ Proceed(c)
  /\ Above(c, at[c] + 1) # "dir"
  /\ UNCHANGED node

(* The call ends at a mkdir that fails, with ENOENT or ENOTDIR here.       *)
MkdirRefused(c) ==
  /\ Mkdir(c)
  /\ Above(c, at[c] + 1) # "dir"
  /\ ret' = [ret EXCEPT ![c] = "minus one"]
  /\ UNCHANGED <<node, at, happened>>

(* And with any other error: a full disk, a directory without write access. *)
MkdirFails(c) ==
  /\ "mkdir" \in Faults
  /\ Mkdir(c)
  /\ ret' = [ret EXCEPT ![c] = "minus one"]
  /\ happened' = happened \cup {"mkdir"}
  /\ UNCHANGED <<node, at>>

Return(c) ==
  /\ ret[c] = "running"
  /\ at[c] = Depth[c]
  /\ ret' = [ret EXCEPT ![c] = "zero"]
  /\ UNCHANGED <<node, at, happened>>

(* Somebody else removes a file or an empty directory.                     *)
Rmdir(p) ==
  /\ "rmdir" \in Faults
  /\ node[p] # "none"
  /\ \A c \in Caller : \A d \in 2..Depth[c] :
       PathOf[c][d - 1] = p => node[PathOf[c][d]] = "none"
  /\ node' = [node EXCEPT ![p] = "none"]
  /\ happened' = happened \cup {"rmdir"}
  /\ UNCHANGED <<at, ret>>

Step(c) == MkdirMakes(c) \/ MkdirFinds(c) \/ MkdirRefused(c) \/ Return(c)

Next ==
  \/ \E c \in Caller : Call(c) \/ Step(c) \/ MkdirFails(c)
  \/ \E p \in Dir : Rmdir(p)

Spec == Init /\ [][Next]_vars

(* The loop waits for nobody; no mkdir need ever fail.                     *)
FairSpec == Spec /\ \A c \in Caller : WF_vars(Step(c))

-----------------------------------------------------------------------------
(* What mcs_util.c:81-88 says: the call creates a directory, and 0 is      *)
(* success.  Until somebody removes something, all of the path is then     *)
(* directories.  The code takes EEXIST for success whatever it is that     *)
(* exists, and does not do this.                                           *)
ZeroMeansDirectory ==
  "rmdir" \notin happened =>
    \A c \in Caller : ret[c] = "zero" =>
      \A d \in 1..Depth[c] : node[PathOf[c][d]] = "dir"

(* What the code does do: a file at the last name of the path is the one   *)
(* thing that passes for a directory.  A file further up, which the loop   *)
(* also steps over, or a name that is not there, never does.               *)
FileAtEnd(c, d) == d = Depth[c] /\ node[PathOf[c][d]] = "file"

ZeroMeansThere ==
  "rmdir" \notin happened =>
    \A c \in Caller : ret[c] = "zero" =>
      \A d \in 1..Depth[c] : node[PathOf[c][d]] = "dir" \/ FileAtEnd(c, d)

(* Callers never make each other fail: an answer of -1 needs a file on the *)
(* way, an error of mkdir or a removal (EEXIST is tolerated in the loop    *)
(* and after it).                                                          *)
FailsForAReason ==
  happened = {} =>
    \A c \in Caller : ret[c] = "minus one" =>
      \E d \in 1..(Depth[c] - 1) : node[PathOf[c][d]] = "file"

(* Every call is answered, whatever others make or remove meanwhile.       *)
Answered == \A c \in Caller : ret[c] = "running" ~> ret[c] # "running"

=============================================================================
