------------------------------- MODULE Keyfile -------------------------------
(***************************************************************************)
(* The in-memory configuration of one handle: keyfile_t of                 *)
(* src/src/backends/default/keyfile.c, a dictionary of sections, each a    *)
(* dictionary of lines.  A keyfile is a value here; the modules that own   *)
(* one as state apply these operators to it.                               *)
(*                                                                         *)
(* The two levels of mowgli_patricia_t are one record: the names present   *)
(* in the outer dictionary, and what mowgli_patricia_retrieve answers for  *)
(* a line (NULL when it has no such key).                                  *)
(***************************************************************************)
CONSTANTS Section, \* section names
          Key,     \* key names
          Val,     \* values: the strings a line can hold
          NULL     \* what a failing retrieve returns

ASSUME NullIsNoValue == NULL \notin Val

Entry == Section \X Key

(* The keyfiles the operators below can build: a line belongs to a section *)
(* that exists.                                                            *)
Keyfile ==
  {kf \in [sections: SUBSET Section, lines: [Entry -> Val \cup {NULL}]] :
     \A e \in Entry : kf.lines[e] # NULL => e[1] \in kf.sections}

KeyfileNew == [sections |-> {}, lines |-> [e \in Entry |-> NULL]]

-----------------------------------------------------------------------------
(* mowgli_patricia_add does not replace: a second add of a key is refused.  *)
PatriciaAdd(kf, s, k, v) ==
  IF kf.lines[<<s, k>>] = NULL
  THEN [kf EXCEPT !.lines = [@ EXCEPT ![<<s, k>>] = v]]
  ELSE kf

PatriciaDelete(kf, s, k) ==
  [kf EXCEPT !.lines = [@ EXCEPT ![<<s, k>>] = NULL]]

CreateSection(kf, s) == [kf EXCEPT !.sections = @ \cup {s}]

\* Mutant: keyfile_set_string forgets to link a new section to its keyfile.
SetStringOrphan(kf, s, k, v) == PatriciaAdd(PatriciaDelete(kf, s, k), s, k, v)

SetString(kf, s, k, v) ==
  PatriciaAdd(PatriciaDelete(CreateSection(kf, s), s, k), s, k, v)

(* The section stays when its last line goes.                              *)
UnsetKey(kf, s, k) ==
  IF s \in kf.sections THEN PatriciaDelete(kf, s, k) ELSE kf

(* NULL stands for MCS_FAIL: no such section, or no such line in it.       *)
GetString(kf, s, k) ==
  IF s \in kf.sections THEN kf.lines[<<s, k>>] ELSE NULL

-----------------------------------------------------------------------------
(* What keyfile_open can find in a file that holds only a leading part of  *)
(* the text of kf: some sections, some of the lines, and at most one line  *)
(* cut inside its value, which then reads as another value.  A header cut  *)
(* before its bracket and a line cut before its value are ignored by the   *)
(* parser.  The order of the lines in the text is that of the patricia     *)
(* tree, so any of them can be the missing ones.                           *)
Prefixes(kf) ==
  {part \in Keyfile :
     /\ part.sections \subseteq kf.sections
     /\ \A e \in Entry : part.lines[e] # NULL => kf.lines[e] # NULL
     /\ LET cut == {e \in Entry : part.lines[e] \notin {NULL, kf.lines[e]}}
        IN  \A x, y \in cut : x = y}

=============================================================================
