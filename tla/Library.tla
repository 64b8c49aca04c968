------------------------------- MODULE Library -------------------------------
(***************************************************************************)
(* The backend registry and the handles of one process: mcs_init.c,        *)
(* mcs_backends.c and mcs_handle_factory.c.  A backend is a table of       *)
(* functions and the database behind it, of which a handle has a copy;     *)
(* KeyfileStore opens up the one backend libmcs ships.                     *)
(***************************************************************************)
EXTENDS FiniteSets

CONSTANTS Backend,        \* the mcs_backend_t of the process
          KeyfileBackend, \* the one mcs_init registers
          Name,           \* backend names, in upper case
          CanonName,      \* CanonName[b]: b->name after mcs_strcasecanon
          Handle, Value,
          None            \* no backend, or no handle

ASSUME KeyfileType == KeyfileBackend \in Backend
ASSUME NameType == CanonName \in [Backend -> Name]
ASSUME NoneType == None \notin Backend

VARIABLES up,       \* between mcs_init and mcs_fini
          backends, \* mcs_backends: what the dictionary has for a name
          accepted, \* registrations answered MCS_OK and not taken back
          lost,     \* history: the names of which a registration was lost, as
                    \* the name was taken or mcs_init has made the dictionary
                    \* anew, until nobody has the name any more
          handle,   \* the handles made and not destroyed
          db        \* db[b]: what the database of b holds

vars == <<up, backends, accepted, lost, handle, db>>

(* base: the table the calls go through; from: the backend that has made   *)
(* the handle; copy: what it has in memory.                                *)
Object == [base : Backend, from : Backend, copy : Value]

ASSUME NoObject == None \notin Object

TypeOK ==
  /\ up \in BOOLEAN
  /\ backends \in [Name -> Backend \cup {None}]
  /\ accepted \subseteq Backend
  /\ lost \subseteq Name
  /\ handle \in [Handle -> Object \cup {None}]
  /\ db \in [Backend -> Value]

Empty == [n \in Name |-> None]

(* mowgli_patricia_add refuses a name it has.                              *)
PatriciaAdd(dict, b) ==
  IF dict[CanonName[b]] = None THEN [dict EXCEPT ![CanonName[b]] = b] ELSE dict

\* Mutant: the name that is selected goes, not the name of the backend.
PatriciaDeleteSelected(dict, b) == [dict EXCEPT ![CanonName[KeyfileBackend]] = None]

PatriciaDelete(dict, b) == [dict EXCEPT ![CanonName[b]] = None]

GetList == {backends[n] : n \in Name} \ {None}

(* mcs_backend_select always answers "default", the name of the keyfile     *)
(* backend; MCS_BACKEND is read nowhere.                                   *)
Select == CanonName[KeyfileBackend]

Init ==
  /\ up = FALSE
  /\ backends = Empty
  /\ accepted = {}
  /\ lost = {}
  /\ handle = [h \in Handle |-> None]
  /\ db \in [Backend -> Value]

-----------------------------------------------------------------------------
(* A second mcs_init, of a library that uses libmcs next to its            *)
(* application, starts with an empty dictionary as well.                   *)
McsInit ==
  /\ up' = TRUE
  /\ backends' = PatriciaAdd(Empty, KeyfileBackend)
  /\ accepted' = accepted \cup {KeyfileBackend}
  /\ lost' = {CanonName[b] : b \in accepted \ {KeyfileBackend}}
  /\ UNCHANGED <<handle, db>>

(* Handles may be left; they have their table of functions still.          *)
McsFini ==
  /\ up
  /\ up' = FALSE
  /\ backends' = Empty
  /\ accepted' = {}
  /\ lost' = {}
  /\ UNCHANGED <<handle, db>>

(* The answer is MCS_OK whether the dictionary takes the backend or not.   *)
Register(b) ==
  /\ up
  /\ b \notin accepted
  /\ backends' = PatriciaAdd(backends, b)
  /\ accepted' = accepted \cup {b}
  /\ lost' = lost \cup {n \in {CanonName[b]} : backends[n] # None}
  /\ UNCHANGED <<up, handle, db>>

(* By name: whichever backend has it goes.  The keyfile backend may go,    *)
(* to make room for another that mcs_new is to use.                        *)
Unregister(b) ==
  /\ up
  /\ b \in accepted
  /\ backends' = PatriciaDelete(backends, b)
  /\ accepted' = accepted \ {b}
  /\ lost' = {n \in lost : \E c \in accepted' : CanonName[c] = n}
  /\ UNCHANGED <<up, handle, db>>

(* NULL, and no handle, when no backend has the name.                      *)
New(h) ==
  /\ up
  /\ handle[h] = None
  /\ LET b == backends[Select]
     IN  IF b = None THEN UNCHANGED handle
         ELSE handle' = [handle EXCEPT ![h] = [base |-> b, from |-> b, copy |-> db[b]]]
  /\ UNCHANGED <<up, backends, accepted, lost, db>>

Get(h) == handle[h].copy

Set(h, v) ==
  /\ handle[h] # None
  /\ handle' = [handle EXCEPT ![h].copy = v]
  /\ UNCHANGED <<up, backends, accepted, lost, db>>

\* Mutant: the destructor of the backend that is selected now.
DestroySelected(h) ==
  /\ handle[h] # None
  /\ LET b == IF backends[Select] = None THEN handle[h].base ELSE backends[Select]
     IN  db' = [db EXCEPT ![b] = handle[h].copy]
  /\ handle' = [handle EXCEPT ![h] = None]
  /\ UNCHANGED <<up, backends, accepted, lost>>

(* mowgli_object_unref of the only reference: the destructor goes through  *)
(* self->base, after mcs_fini as well.                                     *)
Destroy(h) ==
  /\ handle[h] # None
  /\ db' = [db EXCEPT ![handle[h].base] = Get(h)]
  /\ handle' = [handle EXCEPT ![h] = None]
  /\ UNCHANGED <<up, backends, accepted, lost>>

Next ==
  \/ McsInit \/ McsFini
  \/ \E b \in Backend : Register(b) \/ Unregister(b)
  \/ \E h \in Handle : New(h) \/ Destroy(h) \/ \E v \in Value : Set(h, v)

Spec == Init /\ [][Next]_vars

-----------------------------------------------------------------------------
(* Backends that are listed were answered MCS_OK by mcs_backend_register   *)
(* and not unregistered.  Those answered MCS_OK are listed, but for the    *)
(* names that were registered twice or before another mcs_init, and for    *)
(* these again once all that had such a name are unregistered (register    *)
(* and unregister agree on what a name is, what happens to one name does   *)
(* nothing to another, and mcs_fini leaves nothing).                       *)
RegisteredIsListed ==
  /\ GetList \subseteq accepted
  /\ \A b \in accepted : CanonName[b] \notin lost => b \in GetList

(* A handle is saved to the database it was loaded from, whatever has      *)
(* been registered, unregistered or finished since mcs_new (the dispatch   *)
(* through self->base), and nothing else writes a database.                *)
SavedWhereLoaded ==
  [][\A b \in Backend : db'[b] # db[b] =>
       \E h \in Handle : handle[h] # None /\ handle[h].from = b /\ db'[b] = Get(h)]_vars

=============================================================================
