---------------------------- MODULE KeyfileProofs ----------------------------
(***************************************************************************)
(* What the operations of an in-memory keyfile do, for every set of names  *)
(* and values.                                                             *)
(***************************************************************************)
EXTENDS Keyfile, TLAPS

(* keyfile_new gives a keyfile.                                            *)
LEMMA KeyfileNewType == KeyfileNew \in Keyfile
  BY DEF KeyfileNew, Keyfile

(* Two keyfiles with the same sections and the same lines are one.         *)
LEMMA SameKeyfile ==
  ASSUME NEW kf \in Keyfile, NEW kg \in Keyfile,
         kf.sections = kg.sections,
         \A e \in Entry : kf.lines[e] = kg.lines[e]
  PROVE  kf = kg
  <1>1. kf.lines = kg.lines
    BY DEF Keyfile
  <1> QED
    BY <1>1 DEF Keyfile

(* mowgli_patricia_delete touches one line, and no section.                *)
LEMMA DeleteFields ==
  ASSUME NEW kf \in Keyfile, NEW s, NEW k
  PROVE  /\ PatriciaDelete(kf, s, k).sections = kf.sections
         /\ PatriciaDelete(kf, s, k).lines = [kf.lines EXCEPT ![<<s, k>>] = NULL]
  BY DEF PatriciaDelete, Keyfile

(* mowgli_patricia_add of a key that is not there does the same.           *)
LEMMA AddFields ==
  ASSUME NEW kf \in Keyfile, NEW s, NEW k, NEW v, kf.lines[<<s, k>>] = NULL
  PROVE  /\ PatriciaAdd(kf, s, k, v).sections = kf.sections
         /\ PatriciaAdd(kf, s, k, v).lines = [kf.lines EXCEPT ![<<s, k>>] = v]
  BY DEF PatriciaAdd, Keyfile

(* A line is removed and added in a section that is there, and the result  *)
(* is a keyfile (mowgli_patricia_delete, mowgli_patricia_add).             *)
LEMMA PatriciaType ==
  ASSUME NEW kf \in Keyfile, NEW s \in Section, NEW k \in Key
  PROVE  /\ PatriciaDelete(kf, s, k) \in Keyfile
         /\ \A v \in Val : s \in kf.sections => PatriciaAdd(kf, s, k, v) \in Keyfile
  <1>1. <<s, k>> \in Entry /\ <<s, k>>[1] = s
    BY DEF Entry
  <1>2. /\ kf.sections \in SUBSET Section
        /\ kf.lines \in [Entry -> Val \cup {NULL}]
        /\ \A e \in Entry : kf.lines[e] # NULL => e[1] \in kf.sections
        /\ kf = [sections |-> kf.sections, lines |-> kf.lines]
    BY DEF Keyfile
  <1>3. ASSUME NEW v \in Val \cup {NULL}, v = NULL \/ s \in kf.sections
        PROVE  [kf EXCEPT !.lines = [@ EXCEPT ![<<s, k>>] = v]] \in Keyfile
    <2> DEFINE lines == [kf.lines EXCEPT ![<<s, k>>] = v]
    <2>1. lines \in [Entry -> Val \cup {NULL}]
      BY <1>2
    <2>2. \A e \in Entry : lines[e] # NULL => e[1] \in kf.sections
      BY <1>1, <1>2, <1>3
    <2>3. [kf EXCEPT !.lines = lines] = [sections |-> kf.sections, lines |-> lines]
      BY <1>2
    <2> HIDE DEF lines
    <2>4. [sections |-> kf.sections, lines |-> lines] \in Keyfile
      BY <1>2, <2>1, <2>2 DEF Keyfile
    <2> QED
      BY <2>3, <2>4 DEF lines
  <1>4. PatriciaDelete(kf, s, k) \in Keyfile
    BY <1>3 DEF PatriciaDelete
  <1> QED
    BY <1>3, <1>4 DEF PatriciaAdd

(* keyfile_create_section adds a section and no line.                      *)
LEMMA CreateSectionType ==
  ASSUME NEW kf \in Keyfile, NEW s \in Section
  PROVE  /\ CreateSection(kf, s) \in Keyfile
         /\ s \in CreateSection(kf, s).sections
         /\ CreateSection(kf, s).lines = kf.lines
  BY DEF Keyfile, CreateSection

(* keyfile_set_string keeps every line in a section that exists.           *)
LEMMA SetStringType ==
  ASSUME NEW kf \in Keyfile, NEW s \in Section, NEW k \in Key, NEW v \in Val
  PROVE  SetString(kf, s, k, v) \in Keyfile
  <1> DEFINE made == CreateSection(kf, s)
             cleared == PatriciaDelete(made, s, k)
  <1>1. made \in Keyfile /\ s \in made.sections
    BY CreateSectionType
  <1>2. cleared \in Keyfile
    BY <1>1, PatriciaType
  <1>3. s \in cleared.sections
    BY <1>1 DEF PatriciaDelete, Keyfile
  <1>4. PatriciaAdd(cleared, s, k, v) \in Keyfile
    BY <1>2, <1>3, PatriciaType
  <1> QED
    BY <1>4 DEF SetString

LEMMA UnsetKeyType ==
  ASSUME NEW kf \in Keyfile, NEW s \in Section, NEW k \in Key
  PROVE  UnsetKey(kf, s, k) \in Keyfile
  BY PatriciaType DEF UnsetKey

(* keyfile_set_string puts the new value in place of an old one (the       *)
(* delete before mowgli_patricia_add, which would refuse a key it has),    *)
(* and touches no other line.                                              *)
THEOREM SetThenGet ==
  ASSUME NEW kf \in Keyfile, NEW s \in Section, NEW k \in Key, NEW v \in Val
  PROVE  LET new == SetString(kf, s, k, v) IN
           /\ GetString(new, s, k) = v
           /\ \A t \in Section, j \in Key :
                <<t, j>> # <<s, k>> => GetString(new, t, j) = GetString(kf, t, j)
  <1> DEFINE made == CreateSection(kf, s)
             cleared == PatriciaDelete(made, s, k)
             new == SetString(kf, s, k, v)
  <1>1. <<s, k>> \in Entry /\ DOMAIN kf.lines = Entry
    BY DEF Entry, Keyfile
  <1>2. /\ made.lines = kf.lines
        /\ made.sections = kf.sections \cup {s}
        /\ made \in Keyfile
    BY CreateSectionType DEF CreateSection, Keyfile
  <1>3. /\ cleared.lines = [kf.lines EXCEPT ![<<s, k>>] = NULL]
        /\ cleared.sections = kf.sections \cup {s}
        /\ cleared \in Keyfile
    BY <1>2, PatriciaType DEF PatriciaDelete, Keyfile
  <1>4. cleared.lines[<<s, k>>] = NULL
    BY <1>1, <1>3
  <1>5. new = [cleared EXCEPT !.lines = [@ EXCEPT ![<<s, k>>] = v]]
    BY <1>4 DEF SetString, PatriciaAdd
  <1>6. /\ new.lines = [kf.lines EXCEPT ![<<s, k>>] = v]
        /\ new.sections = kf.sections \cup {s}
    BY <1>3, <1>5 DEF Keyfile
  <1>7. GetString(new, s, k) = v
    BY <1>1, <1>6 DEF GetString
  <1>8. ASSUME NEW t \in Section, NEW j \in Key, <<t, j>> # <<s, k>>
        PROVE  GetString(new, t, j) = GetString(kf, t, j)
    <2>1. <<t, j>> \in Entry
      BY DEF Entry
    <2>2. new.lines[<<t, j>>] = kf.lines[<<t, j>>]
      BY <1>1, <1>6, <1>8, <2>1
    <2>3. CASE t \in kf.sections
      BY <2>2, <2>3, <1>6 DEF GetString
    <2>4. CASE t \notin kf.sections
      BY <2>1, <2>2, <2>4, <1>6 DEF GetString, Keyfile
    <2> QED
      BY <2>3, <2>4
  <1> QED
    BY <1>7, <1>8

(* keyfile_unset_key removes the line it names and no other.               *)
THEOREM UnsetThenGet ==
  ASSUME NEW kf \in Keyfile, NEW s \in Section, NEW k \in Key
  PROVE  LET new == UnsetKey(kf, s, k) IN
           /\ GetString(new, s, k) = NULL
           /\ \A t \in Section, j \in Key :
                <<t, j>> # <<s, k>> => GetString(new, t, j) = GetString(kf, t, j)
  <1>1. <<s, k>> \in Entry /\ DOMAIN kf.lines = Entry
    BY DEF Entry, Keyfile
  <1>2. CASE s \in kf.sections
    <2>1. /\ UnsetKey(kf, s, k).lines = [kf.lines EXCEPT ![<<s, k>>] = NULL]
          /\ UnsetKey(kf, s, k).sections = kf.sections
      BY <1>2 DEF UnsetKey, PatriciaDelete, Keyfile
    <2> QED
      BY <1>1, <2>1 DEF GetString, Entry
  <1>3. CASE s \notin kf.sections
    BY <1>3 DEF UnsetKey, GetString
  <1> QED
    BY <1>2, <1>3

=============================================================================
