-------------------------------- MODULE Paths --------------------------------
(***************************************************************************)
(* The file names of the default backend, put together in buffers of       *)
(* PATH_MAX characters that cut what does not fit (mcs_keyfile_new,        *)
(* mcs_keyfile_destroy, mcs_strlcat and mcs_strlcpy), the directories they *)
(* need (mcs_create_directory, mcs_strndup), and what a load and a save    *)
(* find behind them.  A domain may be a path itself, below the file or     *)
(* the directory of another.  A string is the sequence of its characters,  *)
(* and two strings are two files (a//b for a/b is left out); a call is one *)
(* step here: KeyfileStore takes saves apart, Directories takes            *)
(* mcs_create_directory apart.                                             *)
(***************************************************************************)
EXTENDS Naturals, SequencesExt

CONSTANTS PathMax,
          Char,    \* the characters
          Config,  \* "/config"
          Suffix,  \* ".tmp"
          Domain,
          Base,    \* Base[d]: the directory of a domain, before it is cut
          Content, \* what a configuration may hold
          Nothing

ASSUME PathMaxType == PathMax \in Nat /\ PathMax > 1
ASSUME ConfigType ==
  /\ Config \in Seq(Char) /\ Len(Config) > 1
  /\ Config[1] = "/" /\ \A i \in 2..Len(Config) : Config[i] # "/"
ASSUME SuffixType ==
  Suffix \in Seq(Char) /\ Suffix # <<>> /\ \A i \in 1..Len(Suffix) : Suffix[i] # "/"
ASSUME BaseType == \A d \in Domain : Base[d] \in Seq(Char) /\ Base[d] # <<>>
ASSUME BaseApart == \A d, e \in Domain : Base[d] = Base[e] => d = e
ASSUME NothingType == Nothing \notin Content

VARIABLES files,  \* what is behind a name; directories are not in it
          dirs,   \* the directories
          handle, \* handle[d]: the open handle of d, or NoHandle
          saved   \* saved[d]: what the last mcs_destroy had to save

vars == <<files, dirs, handle, saved>>

NoHandle == [loc |-> <<>>, kf |-> Nothing]

-----------------------------------------------------------------------------
Strlcpy(src) == SubSeq(src, 1, Min({Len(src), PathMax - 1}))

\* Mutant: room is kept for two terminators.
StrlcatShort(dest, src) ==
  dest \o SubSeq(src, 1, Min({Len(src), Max({0, PathMax - 2 - Len(dest)})}))

Strlcat(dest, src) ==
  dest \o SubSeq(src, 1, Min({Len(src), PathMax - 1 - Len(dest)}))

(* snprintf cuts like mcs_strlcpy.                                         *)
Scratch(d) == Strlcpy(Base[d])

Loc(d) == Strlcat(Scratch(d), Config)

Tfile(loc) == Strlcat(Strlcpy(loc), Suffix)

(* mcs_strndup, by the length mcs_strnlen finds.                           *)
Strndup(src, n) == SubSeq(src, 1, Min({Len(src), n}))

(* What comes before each "/" but one at the start.                        *)
Parents(path) == {Strndup(path, i - 1) : i \in {j \in 2..Len(path) : path[j] = "/"}}

\* Mutant: a file of that name makes way for the directory.
CreatedOver(path) == Parents(path) \cup {path}

(* The mkdirs of mcs_create_directory: EEXIST is passed over, whatever it  *)
(* is that exists; below a file there is ENOTDIR, and the end.             *)
Created(path) ==
  {p \in Parents(path) \cup {path} : DOMAIN files \cap (Parents(p) \cup {p}) = {}}

(* fopen: the name is not a directory's, and those above it are.           *)
Opens(path) == path \notin dirs /\ Last(path) # "/" /\ Parents(path) \subseteq dirs

(* keyfile_open: nothing is read of a file that is not there or not one.   *)
Read(path) == IF path \in DOMAIN files /\ Opens(path) THEN files[path] ELSE Nothing

Write(fs, path, content) == [p \in DOMAIN fs \cup {path} |-> IF p = path THEN content ELSE fs[p]]

Unlink(fs, path) == [p \in DOMAIN fs \ {path} |-> fs[p]]

(* rename finds nothing to rename, or replaces what is there.              *)
Rename(fs, old, new) ==
  IF old \in DOMAIN fs THEN Write(Unlink(fs, old), new, fs[old]) ELSE fs

-----------------------------------------------------------------------------
Init ==
  /\ files = <<>>
  /\ dirs = {}
  /\ handle = [d \in Domain |-> NoHandle]
  /\ saved = [d \in Domain |-> Nothing]

New(d) ==
  /\ handle[d] = NoHandle
  /\ dirs' = dirs \cup Created(Scratch(d))
  /\ handle' = [handle EXCEPT ![d] = [loc |-> Loc(d), kf |-> Read(Loc(d))]]
  /\ UNCHANGED <<files, saved>>

Set(d, content) ==
  /\ handle[d] # NoHandle
  /\ handle' = [handle EXCEPT ![d].kf = content]
  /\ UNCHANGED <<files, dirs, saved>>

(* The answer of mcs_create_directory is not looked at, nor that of        *)
(* unlink; a directory is neither unlinked nor replaced by rename.         *)
Destroy(d) ==
  /\ handle[d] # NoHandle
  /\ LET loc == handle[d].loc
         tfile == Tfile(loc)
         written == Write(files, tfile, handle[d].kf)
     IN  files' = IF ~Opens(tfile) THEN files
                  ELSE IF loc \in dirs THEN written
                  ELSE Rename(Unlink(written, loc), tfile, loc)
  /\ saved' = [saved EXCEPT ![d] = handle[d].kf]
  /\ handle' = [handle EXCEPT ![d] = NoHandle]
  /\ UNCHANGED dirs

Next ==
  \E d \in Domain : New(d) \/ Destroy(d) \/ \E content \in Content : Set(d, content)

Spec == Init /\ [][Next]_vars

-----------------------------------------------------------------------------
(* The name of the configuration file leaves room for a character more.    *)
Fits(d) == Len(Base[d]) + Len(Config) < PathMax - 1

(* Another domain has a directory where this one has its file, or a file   *)
(* where this one needs a directory.                                       *)
InTheWay(d) ==
  \/ Loc(d) \in dirs
  \/ DOMAIN files \cap (Parents(Scratch(d)) \cup {Scratch(d)}) # {}

(* The temporary files of saves that have found a directory in the place   *)
(* of their file.                                                          *)
Leftover == {Tfile(Loc(d)) : d \in {e \in Domain : Fits(e) /\ Loc(e) \in dirs}}

(* What is saved of a domain is what its next mcs_new reads, whatever is   *)
(* saved of others in between, exactly if its file name fits and no other  *)
(* domain is in the way: a name that fills its buffer is the temporary     *)
(* name as well, and mcs_keyfile_destroy unlinks what it has written.  A   *)
(* domain whose directory is the temporary file of another stops the saves *)
(* of that one, and takes nothing of it away.  No file is left behind but  *)
(* the temporary one of a save that finds a directory in its place.        *)
SavedIsFound ==
  /\ \A d \in Domain :
       /\ Fits(d) /\ Tfile(Loc(d)) \notin dirs =>
            Read(Loc(d)) = IF InTheWay(d) THEN Nothing ELSE saved[d]
       /\ ~Fits(d) /\ Loc(d) \notin Leftover => Read(Loc(d)) = Nothing
  /\ DOMAIN files \subseteq {Loc(d) : d \in {e \in Domain : Fits(e)}} \cup Leftover

(* Nothing but a save of the domain itself changes what is read of it, and *)
(* not even that does when its temporary file cannot be written: what the  *)
(* loads and saves of others make, write, rename and unlink is their own.  *)
OthersLeaveIt ==
  [][\A d \in Domain : \A loc \in {Loc(d)} :
       Fits(d) /\ Read(loc)' # Read(loc) =>
         Destroy(d) /\ Opens(Tfile(loc)) /\ loc \notin dirs]_<<files, dirs>>

=============================================================================
