------------------------------ MODULE KeyfileHeap ------------------------------
(***************************************************************************)
(* Who owns the heap blocks behind one handle of the default backend: the  *)
(* sections, their names and their values (keyfile.c), the strings and     *)
(* queues the listings hand out, and the program that gets them, which     *)
(* frees them as mcs-walk-config does.  A block is freed by an explicit    *)
(* free() far from the place that allocated it, and malloc hands a freed   *)
(* block out again: a second owner, a block nobody frees, or a string that *)
(* is freed too early show only many calls later.                          *)
(*                                                                         *)
(* Blocks that are allocated and freed together (mcs_handle_t,             *)
(* mcs_keyfile_handle_t, its loc and keyfile_t) are one block here.  The   *)
(* nodes of libmowgli's trees and queues are its own affair: a tree is a   *)
(* function from names, a queue the sequence of the pointers it holds.     *)
(***************************************************************************)
EXTENDS Keyfile, Naturals, Sequences, FiniteSets, Functions

CONSTANTS Block,    \* the blocks of the heap
          Malloc(_) \* the one malloc chooses when these are free

ASSUME MallocType == \A free \in (SUBSET Block) \ {{}} : Malloc(free) \in free
ASSUME NullIsNoBlock == NULL \notin Block

(* A heap has so many blocks, and a file so many names.                    *)
ASSUME HeapIsFinite == IsFiniteSet(Block)
ASSUME NamesAreFinite == IsFiniteSet(Section) /\ IsFiniteSet(Key)

VARIABLES db,       \* what the configuration file holds
          heap,     \* heap[b]: what is in block b
          handle,   \* the handle's own block, or NULL
          sections, \* h->kf->sections: the keyfile_section_t of a name
          pc,       \* the loop the library is in, or "closed", or "open"
          todo,     \* what that loop has still to visit
          foo,      \* the string mcs_get_string has handed out
          groups,   \* the queue mcs_get_sections has handed out
          keys      \* the queue mcs_get_keys has handed out

store == <<handle, sections>>
client == <<foo, groups, keys>>
vars == <<db, heap, store, pc, todo, client>>

Free        == [type |-> "free"]
HandleBlock == [type |-> "handle"]
String(x)   == [type |-> "string", text |-> x]

(* keyfile_section_t, whose lines are pointers to strings.                 *)
SectionBlock(name) ==
  [type |-> "section", name |-> name, lines |-> [k \in Key |-> NULL]]

Available == {b \in Block : heap[b] = Free}

(* No call begins without the blocks it will ask for: malloc does not      *)
(* fail, which the code does not look at.  Block bounds what a caller can  *)
(* have at once.                                                           *)
Room(n) == Cardinality(Available) >= n

TypeOK ==
  /\ db \in Keyfile
  /\ heap \in [Block -> {Free, HandleBlock}
                  \cup {String(x) : x \in Section \cup Key \cup Val}
                  \cup [type : {"section"}, name : Block, lines : [Key -> Block \cup {NULL}]]]
  /\ handle \in Block \cup {NULL}
  /\ sections \in [Section -> Block \cup {NULL}]
  /\ pc \in {"closed", "loading", "open", "sections", "keys"}
  /\ todo \subseteq {<<s>> : s \in Section} \cup Entry
  /\ foo \in Block \cup {NULL}
  /\ groups \in Seq(Block)
  /\ keys \in Seq(Block)

-----------------------------------------------------------------------------
\* Mutant: keyfile_create_section does not copy the name.
CreatedNameless(s) ==
  LET b == Malloc(Available)
  IN  [heap |-> [heap EXCEPT ![b] = SectionBlock(NULL)],
       sections |-> [sections EXCEPT ![s] = b]]

(* keyfile_create_section: a block for the section and one for its name.   *)
Created(s) ==
  LET b == Malloc(Available)
      n == Malloc(Available \ {b})
  IN  [heap |-> [heap EXCEPT ![b] = SectionBlock(n), ![n] = String(s)],
       sections |-> [sections EXCEPT ![s] = b]]

(* The keyfile with the section s, made if it is not there.                *)
WithSection(s) ==
  IF sections[s] # NULL THEN [heap |-> heap, sections |-> sections] ELSE Created(s)

\* Mutant: keyfile_set_string and keyfile_unset_key do not free the value.
WithoutLineLeaks(hp, sec, k) == [hp EXCEPT ![sec].lines[k] = NULL]

\* Mutant: keyfile_set_string adds the value without a look at the old one.
WithoutLineKept(hp, sec, k) == hp

(* free() of a line's value and mowgli_patricia_delete, if it is there.    *)
WithoutLine(hp, sec, k) ==
  LET v == hp[sec].lines[k]
  IN  IF v = NULL THEN hp ELSE [hp EXCEPT ![v] = Free, ![sec].lines[k] = NULL]

(* mowgli_patricia_add of a copy of the value; a key that is there stays   *)
(* as it is.                                                               *)
WithLine(hp, sec, k, v) ==
  LET b == Malloc({c \in Block : hp[c] = Free})
  IN  IF hp[sec].lines[k] # NULL THEN [hp EXCEPT ![b] = String(v)]
      ELSE [hp EXCEPT ![b] = String(v), ![sec].lines[k] = b]

(* What mowgli_patricia_retrieve answers for a line.                       *)
LineOf(e) ==
  IF sections[e[1]] = NULL THEN NULL ELSE heap[sections[e[1]]].lines[e[2]]

(* The configuration these blocks stand for.                               *)
Contents ==
  [sections |-> {s \in Section : sections[s] # NULL},
   lines |-> [e \in Entry |-> IF LineOf(e) = NULL THEN NULL ELSE heap[LineOf(e)].text]]

-----------------------------------------------------------------------------
Init ==
  /\ db \in Keyfile
  /\ heap = [b \in Block |-> Free]
  /\ handle = NULL
  /\ sections = [s \in Section |-> NULL]
  /\ pc = "closed"
  /\ todo = {}
  /\ foo = NULL
  /\ groups = <<>>
  /\ keys = <<>>

(* mcs_keyfile_new, up to the loop of keyfile_open.                        *)
New ==
  /\ pc = "closed"
  /\ Room(1 + 2 * Cardinality(db.sections) + Cardinality({e \in Entry : db.lines[e] # NULL}))
  /\ handle' = Malloc(Available)
  /\ heap' = [heap EXCEPT ![Malloc(Available)] = HandleBlock]
  /\ pc' = "loading"
  /\ todo' = {<<s>> : s \in db.sections} \cup {e \in Entry : db.lines[e] # NULL}
  /\ UNCHANGED <<db, sections, client>>

(* A header of the file.                                                   *)
LoadSection(s) ==
  /\ pc = "loading"
  /\ <<s>> \in todo
  /\ heap' = WithSection(s).heap
  /\ sections' = WithSection(s).sections
  /\ todo' = todo \ {<<s>>}
  /\ UNCHANGED <<db, handle, pc, client>>

(* A line of it, which comes after the header of its section.              *)
LoadLine(e) ==
  /\ pc = "loading"
  /\ e \in todo
  /\ sections[e[1]] # NULL
  /\ heap' = WithLine(heap, sections[e[1]], e[2], db.lines[e])
  /\ todo' = todo \ {e}
  /\ UNCHANGED <<db, store, pc, client>>

(* The loop at hand has come to its end.                                   *)
LoopEnds ==
  /\ pc \in {"loading", "sections", "keys"}
  /\ todo = {}
  /\ pc' = "open"
  /\ UNCHANGED <<db, heap, store, todo, client>>

Set(s, k, v) ==
  /\ pc = "open"
  /\ Room(3)
  /\ LET kf == WithSection(s)
         sec == kf.sections[s]
     IN  /\ heap' = WithLine(WithoutLine(kf.heap, sec, k), sec, k, v)
         /\ sections' = kf.sections
  /\ UNCHANGED <<db, handle, pc, todo, client>>

Unset(s, k) ==
  /\ pc = "open"
  /\ sections[s] # NULL
  /\ heap' = WithoutLine(heap, sections[s], k)
  /\ UNCHANGED <<db, store, pc, todo, client>>

\* Mutant: the string of the keyfile itself is handed out.
GetAlias(s, k) ==
  /\ pc = "open"
  /\ foo = NULL
  /\ foo' = LineOf(<<s, k>>)
  /\ UNCHANGED <<db, heap, store, pc, todo, groups, keys>>

(* mcs_get_string: a copy for the caller, or MCS_FAIL and no string.       *)
Get(s, k) ==
  /\ pc = "open"
  /\ foo = NULL
  /\ LineOf(<<s, k>>) # NULL
  /\ Room(1)
  /\ foo' = Malloc(Available)
  /\ heap' = [heap EXCEPT ![foo'] = heap[LineOf(<<s, k>>)]]
  /\ UNCHANGED <<db, store, pc, todo, groups, keys>>

(* mcs_get_sections: the callback runs once for each section.              *)
GetSections ==
  /\ pc = "open"
  /\ groups = <<>>
  /\ pc' = "sections"
  /\ todo' = {<<s>> : s \in Contents.sections}
  /\ Room(Cardinality(todo'))
  /\ UNCHANGED <<db, heap, store, client>>

(* mcs_get_keys of a name, as mcs-walk-config takes it from its queue of   *)
(* groups, or of a section that is not there: the queue is NULL then.      *)
GetKeys(s) ==
  /\ pc = "open"
  /\ keys = <<>>
  /\ pc' = "keys"
  /\ todo' = {e \in Entry : e[1] = s /\ LineOf(e) # NULL}
  /\ Room(Cardinality(todo'))
  /\ UNCHANGED <<db, heap, store, client>>

\* Mutant: the queue that mowgli_queue_shift answers is not kept.
CollectRestarts(s) ==
  /\ pc = "sections"
  /\ <<s>> \in todo
  /\ heap' = [heap EXCEPT ![Malloc(Available)] = String(s)]
  /\ groups' = <<Malloc(Available)>>
  /\ todo' = todo \ {<<s>>}
  /\ UNCHANGED <<db, store, pc, foo, keys>>

(* keyfile_collect_lines_cb: a copy of the name goes to the head.          *)
CollectSection(s) ==
  /\ pc = "sections"
  /\ <<s>> \in todo
  /\ heap' = [heap EXCEPT ![Malloc(Available)] = String(s)]
  /\ groups' = <<Malloc(Available)>> \o groups
  /\ todo' = todo \ {<<s>>}
  /\ UNCHANGED <<db, store, pc, foo, keys>>

CollectKey(e) ==
  /\ pc = "keys"
  /\ e \in todo
  /\ heap' = [heap EXCEPT ![Malloc(Available)] = String(e[2])]
  /\ keys' = <<Malloc(Available)>> \o keys
  /\ todo' = todo \ {e}
  /\ UNCHANGED <<db, store, pc, foo, groups>>

(* mcs_keyfile_destroy: the whole configuration is saved, or none of it if *)
(* the file cannot be opened, and the blocks keyfile_destroy walks through *)
(* go: each section with its name and the values of its lines.             *)
Destroy ==
  /\ pc = "open"
  /\ db' \in {db, Contents}
  /\ heap' = [b \in Block |->
                IF \/ b = handle
                   \/ b \in Range(sections)
                   \/ \E s \in Contents.sections : b = heap[sections[s]].name
                   \/ \E e \in Entry : b = LineOf(e)
                THEN Free ELSE heap[b]]
  /\ handle' = NULL
  /\ sections' = [s \in Section |-> NULL]
  /\ pc' = "closed"
  /\ UNCHANGED <<todo, client>>

(* The caller's side, between two calls: it frees what it was given, while *)
(* the handle is open or after it is gone.                                 *)
Calling == pc \in {"open", "closed"}

FreeFoo ==
  /\ Calling
  /\ foo # NULL
  /\ heap' = [heap EXCEPT ![foo] = Free]
  /\ foo' = NULL
  /\ UNCHANGED <<db, store, pc, todo, groups, keys>>

(* free of each name in the queue, then mowgli_queue_destroy.              *)
FreeGroups ==
  /\ Calling
  /\ groups # <<>>
  /\ heap' = [b \in Block |-> IF b \in Range(groups) THEN Free ELSE heap[b]]
  /\ groups' = <<>>
  /\ UNCHANGED <<db, store, pc, todo, foo, keys>>

FreeKeys ==
  /\ Calling
  /\ keys # <<>>
  /\ heap' = [b \in Block |-> IF b \in Range(keys) THEN Free ELSE heap[b]]
  /\ keys' = <<>>
  /\ UNCHANGED <<db, store, pc, todo, foo, groups>>

Next ==
  \/ New \/ LoopEnds \/ GetSections \/ Destroy
  \/ FreeFoo \/ FreeGroups \/ FreeKeys
  \/ \E s \in Section : LoadSection(s) \/ GetKeys(s) \/ CollectSection(s)
  \/ \E e \in Entry : LoadLine(e) \/ CollectKey(e)
  \/ \E s \in Section, k \in Key :
       Unset(s, k) \/ Get(s, k) \/ \E v \in Val : Set(s, k, v)

Spec == Init /\ [][Next]_vars

-----------------------------------------------------------------------------
(* The pointers to a block, each by the place that holds it.               *)
Owners(b) ==
  {<<"handle">> : x \in {handle} \cap {b}} \cup
  {<<"section", s>> : s \in {s \in Section : sections[s] = b}} \cup
  {<<"name", s>> : s \in {s \in Contents.sections : heap[sections[s]].name = b}} \cup
  {<<"line", e>> : e \in {e \in Entry : LineOf(e) = b}} \cup
  {<<"foo">> : x \in {foo} \cap {b}} \cup
  {<<"group", i>> : i \in {i \in DOMAIN groups : groups[i] = b}} \cup
  {<<"key", i>> : i \in {i \in DOMAIN keys : keys[i] = b}}

(* Every allocated block has exactly one owner, and no pointer leads to a  *)
(* block that is free: nothing is freed twice, used after it was freed, or *)
(* lost (keyfile_section_free_cb, keyfile_line_free_cb, the free() calls   *)
(* of keyfile_set_string and keyfile_unset_key, and the copies of          *)
(* keyfile_get_string and keyfile_collect_lines_cb).                       *)
OneOwner ==
  \A b \in Block : Cardinality(Owners(b)) = IF heap[b] = Free THEN 0 ELSE 1

(* What the caller was given says the same until the caller frees it,      *)
(* whatever is set, unset, destroyed or loaded in between (strdup in       *)
(* keyfile_get_string and keyfile_collect_lines_cb).                       *)
HandedOut == ({foo} \ {NULL}) \cup Range(groups) \cup Range(keys)

HandedOutStays ==
  [][\A b \in HandedOut : b \in HandedOut' => heap'[b] = heap[b]]_vars

(* A listing names every section, or every key of the section asked for,   *)
(* once and nothing else (mcs_keyfile_get_sections, mcs_keyfile_get_keys): *)
(* on its way, what it holds and what it has still to visit are all of it. *)
Names(queue) == {heap[queue[i]].text : i \in DOMAIN queue}

ListingIsComplete ==
  /\ pc = "sections" =>
       /\ Names(groups) \cup {x[1] : x \in todo} = Contents.sections
       /\ Len(groups) + Cardinality(todo) = Cardinality(Contents.sections)
  /\ pc = "keys" =>
       \E s \in Section :
         LET there == {e \in Entry : e[1] = s /\ LineOf(e) # NULL}
         IN  /\ Names(keys) \cup {x[2] : x \in todo} = {e[2] : e \in there}
             /\ Len(keys) + Cardinality(todo) = Cardinality(there)

(* The blocks do to the configuration they stand for what Keyfile says of  *)
(* the calls, so that blocks malloc hands out again never mix two values   *)
(* up and mowgli_patricia_add never refuses a value that is to replace     *)
(* another: what was loaded is what the file holds, each set and unset     *)
(* takes, and what is handed out or saved is what is there.                *)
ActsAsKeyfile ==
  [][/\ pc = "loading" /\ LoopEnds => Contents' = db
     /\ \A s \in Section, k \in Key :
          /\ \A v \in Val : Set(s, k, v) => Contents' = SetString(Contents, s, k, v)
          /\ Unset(s, k) => Contents' = UnsetKey(Contents, s, k)
          /\ Get(s, k) => heap'[foo'].text = GetString(Contents, s, k)
     /\ pc = "open" /\ pc' # "closed" /\ Contents' # Contents =>
          \E s \in Section, k \in Key : Unset(s, k) \/ \E v \in Val : Set(s, k, v)
     /\ db' # db => pc = "open" /\ pc' = "closed" /\ db' = Contents]_vars

=============================================================================
