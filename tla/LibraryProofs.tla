---------------------------- MODULE LibraryProofs ----------------------------
(***************************************************************************)
(* Library for any backends, names and handles.                            *)
(***************************************************************************)
EXTENDS Library, TLAPS

(* Every name stands for a backend that has it and was accepted, and every *)
(* accepted backend is what its name stands for, unless one of it was lost. *)
Agree ==
  /\ \A n \in Name : backends[n] # None =>
       backends[n] \in accepted /\ CanonName[backends[n]] = n
  /\ \A b \in accepted : CanonName[b] \notin lost => backends[CanonName[b]] = b

(* A handle keeps the table of the backend that has made it.               *)
KeepsMaker == \A h \in Handle : handle[h] # None => handle[h].base = handle[h].from

LEMMA InitTypeOK == Init => TypeOK
  BY DEF Init, TypeOK, Empty

LEMMA NextTypeOK == TypeOK /\ [Next]_vars => TypeOK'
  <1> SUFFICES ASSUME TypeOK, [Next]_vars PROVE TypeOK'
    OBVIOUS
  <1>1. CASE UNCHANGED vars
    BY <1>1 DEF vars, TypeOK
  <1>2. CASE McsInit \/ McsFini
    BY <1>2, KeyfileType, NameType DEF McsInit, McsFini, PatriciaAdd, Empty, TypeOK
  <1>3. ASSUME NEW b \in Backend, Register(b) \/ Unregister(b)
        PROVE  TypeOK'
    BY <1>3, NameType DEF Register, Unregister, PatriciaAdd, PatriciaDelete, TypeOK
  <1>4. ASSUME NEW h \in Handle, New(h)
        PROVE  TypeOK'
    <2>1. backends[Select] \in Backend \cup {None}
      BY KeyfileType, NameType DEF Select, TypeOK
    <2> QED
      BY <1>4, <2>1 DEF New, Object, TypeOK
  <1>5. ASSUME NEW h \in Handle, Destroy(h)
        PROVE  TypeOK'
    BY <1>5 DEF Destroy, Get, Object, TypeOK
  <1>6. ASSUME NEW h \in Handle, NEW v \in Value, Set(h, v)
        PROVE  TypeOK'
    BY <1>6 DEF Set, Object, TypeOK
  <1> QED
    BY <1>1, <1>2, <1>3, <1>4, <1>5, <1>6 DEF Next

-----------------------------------------------------------------------------
LEMMA AgreeStays == TypeOK /\ Agree /\ [Next]_vars => Agree'
  <1> SUFFICES ASSUME TypeOK, Agree, [Next]_vars PROVE Agree'
    OBVIOUS
  <1>1. CASE McsFini
    BY <1>1 DEF McsFini, Empty, Agree
  <1>2. ASSUME NEW b \in Backend, Register(b)
        PROVE  Agree'
    <2>1. /\ accepted' = accepted \cup {b}
          /\ lost' = lost \cup {n \in {CanonName[b]} : backends[n] # None}
      BY <1>2 DEF Register
    <2>2. CanonName[b] \in Name /\ b # None
      BY NameType, NoneType
    <2>3. CASE backends[CanonName[b]] # None
      <3>1. backends' = backends /\ CanonName[b] \in lost' /\ lost \subseteq lost'
        BY <1>2, <2>1, <2>3 DEF Register, PatriciaAdd
      <3> QED
        BY <2>1, <3>1 DEF Agree
    <2>4. CASE backends[CanonName[b]] = None
      <3>1. backends' = [backends EXCEPT ![CanonName[b]] = b] /\ lost' = lost
        <4>1. backends' = [backends EXCEPT ![CanonName[b]] = b]
          BY <1>2, <2>4, Zenon DEF Register, PatriciaAdd
        <4> QED
          BY <2>1, <2>4, <4>1
      <3>2. \A c \in accepted : CanonName[c] \in Name /\ c # None
        BY NameType, NoneType DEF TypeOK
      <3>3. \A c \in accepted : CanonName[c] \notin lost => CanonName[c] # CanonName[b]
        BY <2>4, <3>2 DEF Agree
      <3> QED
        BY <2>1, <2>2, <3>1, <3>2, <3>3 DEF Agree, TypeOK
    <2> QED
      BY <2>3, <2>4
  <1>3. ASSUME NEW b \in Backend, Unregister(b)
        PROVE  Agree'
    <2>1. /\ backends' = [backends EXCEPT ![CanonName[b]] = None]
          /\ accepted' = accepted \ {b}
          /\ b \in accepted
          /\ lost' = {n \in lost : \E c \in accepted' : CanonName[c] = n}
      BY <1>3 DEF Unregister, PatriciaDelete
    <2>2. \A c \in accepted' : CanonName[c] \in Name /\ c \in accepted /\ c # b
      BY <2>1, NameType DEF TypeOK
    <2>3. ASSUME NEW c \in accepted', CanonName[c] \notin lost'
          PROVE  CanonName[c] \notin lost /\ CanonName[c] # CanonName[b]
      <3>1. CanonName[c] \notin lost
        BY <2>1, <2>3
      <3> QED
        BY <2>1, <2>2, <3>1 DEF Agree
    <2>4. CanonName[b] \in Name
      BY NameType
    <2> QED
      BY <2>1, <2>2, <2>3, <2>4 DEF Agree, TypeOK
  <1>4. CASE UNCHANGED <<backends, accepted, lost>>
    BY <1>4 DEF Agree
  <1>5. CASE McsInit
    <2>1. CanonName[KeyfileBackend] \in Name /\ KeyfileBackend # None
      BY KeyfileType, NameType, NoneType
    <2>2. backends' = [Empty EXCEPT ![CanonName[KeyfileBackend]] = KeyfileBackend]
      BY <1>5, <2>1 DEF McsInit, PatriciaAdd, Empty
    <2>3. \A b \in accepted' : CanonName[b] \notin lost' => b = KeyfileBackend
      BY <1>5 DEF McsInit
    <2>4. KeyfileBackend \in accepted'
      BY <1>5 DEF McsInit
    <2> QED
      BY <2>1, <2>2, <2>3, <2>4 DEF Empty, Agree
  <1> QED
    BY <1>1, <1>2, <1>3, <1>4, <1>5 DEF Next, New, Destroy, Set, vars

LEMMA AgreeImplies == TypeOK /\ Agree => RegisteredIsListed
  BY NameType, NoneType DEF TypeOK, Agree, RegisteredIsListed, GetList

(* Nothing is listed that was not answered MCS_OK, and everything that was *)
(* but under the names that were registered twice or before another        *)
(* mcs_init: for any number of backends and names.                         *)
THEOREM RegistryTellsTheTruth == Spec => []RegisteredIsListed
  <1>1. Init => Agree
    BY DEF Init, Empty, Agree
  <1> QED
    BY <1>1, InitTypeOK, NextTypeOK, AgreeStays, AgreeImplies, PTL DEF Spec

-----------------------------------------------------------------------------
LEMMA MakerStays == TypeOK /\ KeepsMaker /\ [Next]_vars => KeepsMaker'
  <1> SUFFICES ASSUME TypeOK, KeepsMaker, [Next]_vars, NEW h \in Handle, handle'[h] # None
               PROVE  handle'[h].base = handle'[h].from
    BY DEF KeepsMaker
  <1>1. ASSUME NEW g \in Handle, New(g)
        PROVE  handle'[h].base = handle'[h].from
    BY <1>1 DEF New, KeepsMaker, TypeOK
  <1>2. ASSUME NEW g \in Handle, NEW v \in Value, Set(g, v)
        PROVE  handle'[h].base = handle'[h].from
    BY <1>2 DEF Set, KeepsMaker, Object, TypeOK
  <1>3. ASSUME NEW g \in Handle, Destroy(g)
        PROVE  handle'[h].base = handle'[h].from
    BY <1>3 DEF Destroy, KeepsMaker, TypeOK
  <1>4. CASE UNCHANGED handle
    BY <1>4 DEF KeepsMaker
  <1> QED
    BY <1>1, <1>2, <1>3, <1>4 DEF Next, McsInit, McsFini, Register, Unregister, vars

LEMMA OnlyDestroySaves ==
  ASSUME TypeOK, KeepsMaker, [Next]_vars, NEW b \in Backend, db'[b] # db[b]
  PROVE  \E h \in Handle : handle[h] # None /\ handle[h].from = b /\ db'[b] = Get(h)
  <1>1. PICK h \in Handle : Destroy(h)
    BY DEF Next, McsInit, McsFini, Register, Unregister, New, Set, vars
  <1>2. /\ handle[h] # None
        /\ db' = [db EXCEPT ![handle[h].base] = Get(h)]
        /\ handle[h].base = handle[h].from
    BY <1>1 DEF Destroy, KeepsMaker
  <1>3. handle[h].base = b /\ db'[b] = Get(h)
    BY <1>2 DEF TypeOK
  <1> QED
    BY <1>2, <1>3

(* Whatever the registry goes through between mcs_new and mcs_destroy, a   *)
(* handle is saved to the database it was loaded from.                     *)
THEOREM SavesGoHome == Spec => SavedWhereLoaded
  <1>1. Init => KeepsMaker
    BY DEF Init, KeepsMaker
  <1>2. TypeOK /\ KeepsMaker /\ [Next]_vars =>
          [\A b \in Backend : db'[b] # db[b] =>
             \E h \in Handle : handle[h] # None /\ handle[h].from = b /\ db'[b] = Get(h)]_vars
    BY OnlyDestroySaves
  <1> QED
    BY <1>1, <1>2, InitTypeOK, NextTypeOK, MakerStays, PTL DEF Spec, SavedWhereLoaded

=============================================================================
