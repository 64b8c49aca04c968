--------------------------- MODULE KeyfileHeapProofs ---------------------------
(***************************************************************************)
(* The blocks behind a handle, for every heap, every malloc that hands out *)
(* a free block, and every set of names and values.                        *)
(***************************************************************************)
EXTENDS KeyfileHeap, KeyfileProofs, FiniteSetTheorems

SectionBlocks == [type : {"section"}, name : Block, lines : [Key -> Block \cup {NULL}]]

Strings == {String(x) : x \in Section \cup Key \cup Val}

Heap == [Block -> {Free, HandleBlock} \cup Strings \cup SectionBlocks]

(* The steps of mcs_set_string go through heaps that are no state, so what *)
(* follows is said of a heap hp and of the sections secs of a handle.      *)
NamesIn(hp, queue) == {hp[queue[i]].text : i \in DOMAIN queue}

AvailableIn(hp) == {b \in Block : hp[b] = Free}

LineAt(hp, secs, e) ==
  IF secs[e[1]] = NULL THEN NULL ELSE hp[secs[e[1]]].lines[e[2]]

StandFor(hp, secs) ==
  [sections |-> {s \in Section : secs[s] # NULL},
   lines |-> [e \in Entry |->
                IF LineAt(hp, secs, e) = NULL THEN NULL ELSE hp[LineAt(hp, secs, e)].text]]

(* The place x of the handle holds a pointer to the block b.               *)
Leads(x, b, hp, hd, secs) ==
  \/ x = <<"handle">> /\ hd = b
  \/ \E s \in Section : x = <<"section", s>> /\ secs[s] = b
  \/ \E s \in Section : x = <<"name", s>> /\ secs[s] # NULL /\ hp[secs[s]].name = b
  \/ \E e \in Entry : x = <<"line", e>> /\ LineAt(hp, secs, e) = b

(* The same for what the caller was given, the string f and the queues g   *)
(* and q.                                                                  *)
Holds(x, b, f, g, q) ==
  \/ x = <<"foo">> /\ f = b
  \/ \E i \in DOMAIN g : x = <<"group", i>> /\ g[i] = b
  \/ \E i \in DOMAIN q : x = <<"key", i>> /\ q[i] = b

Given(x, b) == Holds(x, b, foo, groups, keys)

(* A block is in use if it is the handle's, at one place of it, or one of  *)
(* out, the blocks that were handed out; a section is where a pointer to   *)
(* one leads, and a line is a value.                                       *)
Sound(hp, hd, secs, out) ==
  /\ hp \in Heap
  /\ secs \in [Section -> Block \cup {NULL}]
  /\ hd \in Block \cup {NULL}
  /\ out \subseteq Block
  /\ \A s \in Section : secs[s] # NULL => hp[secs[s]] \in SectionBlocks
  /\ \A e \in Entry : LineAt(hp, secs, e) # NULL =>
       \E v \in Val : hp[LineAt(hp, secs, e)] = String(v)
  /\ \A b \in Block : hp[b] # Free <=> b \in out \/ \E x : Leads(x, b, hp, hd, secs)
  /\ \A b \in Block : \A x, y : Leads(x, b, hp, hd, secs) /\ Leads(y, b, hp, hd, secs) => x = y
  /\ \A b \in out : \A x : ~Leads(x, b, hp, hd, secs)

(* Each string is handed out once.                                         *)
GivenOnce == \A b \in Block : \A x, y : Given(x, b) /\ Given(y, b) => x = y

(* The same, place by place.                                               *)
Apart(f, g, q) ==
  /\ \A i, j \in DOMAIN g : g[i] = g[j] => i = j
  /\ \A i, j \in DOMAIN q : q[i] = q[j] => i = j
  /\ \A i \in DOMAIN g : g[i] # f /\ \A j \in DOMAIN q : g[i] # q[j]
  /\ \A j \in DOMAIN q : q[j] # f

(* Between the calls there is no loop, and no handle after the last one.   *)
Phases ==
  /\ pc = "closed" => handle = NULL /\ \A s \in Section : sections[s] = NULL
  /\ pc \in {"closed", "open"} => todo = {}

(* What is loaded and what is still to come is the file, each line once,   *)
(* and there is room for the rest.                                         *)
Loading ==
  pc = "loading" =>
    /\ todo \subseteq {<<s>> : s \in db.sections} \cup {e \in Entry : db.lines[e] # NULL}
    /\ Contents.sections = {s \in db.sections : <<s>> \notin todo}
    /\ \A e \in Entry : Contents.lines[e] = IF e \in todo THEN NULL ELSE db.lines[e]
    /\ Room(2 * Cardinality({s \in Section : <<s>> \in todo}) + Cardinality(todo \cap Entry))

ListingHasRoom ==
  /\ pc = "sections" => todo \subseteq {<<s>> : s \in Section}
  /\ pc = "keys" => todo \subseteq Entry
  /\ pc \in {"sections", "keys"} => Room(Cardinality(todo))

HInv ==
  /\ TypeOK
  /\ Sound(heap, handle, sections, HandedOut)
  /\ GivenOnce
  /\ Phases
  /\ Loading
  /\ ListingHasRoom
  /\ ListingIsComplete

-----------------------------------------------------------------------------
(* The kinds of blocks differ.                                             *)
LEMMA BlockKinds ==
  /\ Free # HandleBlock
  /\ \A x : /\ String(x) \notin {Free, HandleBlock}
            /\ String(x) \notin SectionBlocks
            /\ String(x).text = x
  /\ \A c \in SectionBlocks :
       /\ c \notin {Free, HandleBlock}
       /\ c.type = "section"
       /\ c.name \in Block
       /\ c.lines \in [Key -> Block \cup {NULL}]
  BY DEF Free, HandleBlock, String, SectionBlocks

LEMMA EntryIs ==
  /\ \A s \in Section, k \in Key :
       <<s, k>> \in Entry /\ <<s, k>>[1] = s /\ <<s, k>>[2] = k
  /\ \A e \in Entry : e[1] \in Section /\ e[2] \in Key /\ e = <<e[1], e[2]>>
  /\ \A s : <<s>> \notin Entry
  BY DEF Entry

(* malloc hands out a block that is free.                                  *)
LEMMA MallocIsFresh ==
  ASSUME NEW free \in SUBSET Block, free # {}
  PROVE  Malloc(free) \in free
  BY MallocType

(* One block fewer is left when one is taken.                              *)
LEMMA RoomFor ==
  ASSUME NEW free \in SUBSET Block
  PROVE  /\ Cardinality(free) \in Nat
         /\ free # {} <=> Cardinality(free) >= 1
         /\ \A b : Cardinality(free \ {b}) =
                    IF b \in free THEN Cardinality(free) - 1 ELSE Cardinality(free)
  <1>1. IsFiniteSet(free) /\ Cardinality(free) \in Nat
    BY HeapIsFinite, FS_Subset, FS_CardinalityType
  <1>2. free # {} <=> Cardinality(free) >= 1
    BY <1>1, FS_EmptySet
  <1> QED
    BY <1>1, <1>2, FS_RemoveElement

(* A pointer of a sound handle leads to a block in use, of the kind that   *)
(* belongs there, and to none another pointer leads to.                    *)
LEMMA SoundSections ==
  ASSUME NEW hp, NEW hd, NEW secs, NEW out, Sound(hp, hd, secs, out),
         NEW s \in Section, secs[s] # NULL
  PROVE  /\ secs[s] \in Block \ out
         /\ hp[secs[s]] \in SectionBlocks
         /\ secs[s] # hd
         /\ \A t \in Section : secs[t] = secs[s] => t = s
         /\ \A t \in Section : secs[t] # NULL => hp[secs[t]].name # secs[s]
         /\ \A e \in Entry : LineAt(hp, secs, e) # secs[s]
  <1>1. secs[s] \in Block /\ hp[secs[s]] \in SectionBlocks
    BY DEF Sound
  <1>2. Leads(<<"section", s>>, secs[s], hp, hd, secs)
    BY DEF Leads
  <1>3. \A x : Leads(x, secs[s], hp, hd, secs) => x = <<"section", s>>
    BY <1>1, <1>2 DEF Sound
  <1>4. secs[s] \notin out
    BY <1>1, <1>2 DEF Sound
  <1>5. secs[s] # hd
    <2> SUFFICES ASSUME secs[s] = hd PROVE FALSE
      OBVIOUS
    <2>1. Leads(<<"handle">>, secs[s], hp, hd, secs)
      BY DEF Leads
    <2> QED
      BY <2>1, <1>3
  <1>6. ASSUME NEW t \in Section, secs[t] = secs[s]
        PROVE  t = s
    <2>1. Leads(<<"section", t>>, secs[s], hp, hd, secs)
      BY <1>6 DEF Leads
    <2> QED
      BY <2>1, <1>3
  <1>7. ASSUME NEW t \in Section, secs[t] # NULL, hp[secs[t]].name = secs[s]
        PROVE  FALSE
    <2>1. Leads(<<"name", t>>, secs[s], hp, hd, secs)
      BY <1>7 DEF Leads
    <2> QED
      BY <2>1, <1>3
  <1>8. ASSUME NEW e \in Entry, LineAt(hp, secs, e) = secs[s]
        PROVE  FALSE
    <2>1. Leads(<<"line", e>>, secs[s], hp, hd, secs)
      BY <1>8 DEF Leads
    <2> QED
      BY <2>1, <1>3
  <1> QED
    BY <1>1, <1>4, <1>5, <1>6, <1>7, <1>8

LEMMA SoundLines ==
  ASSUME NEW hp, NEW hd, NEW secs, NEW out, Sound(hp, hd, secs, out),
         NEW e \in Entry, LineAt(hp, secs, e) # NULL
  PROVE  LET v == LineAt(hp, secs, e) IN
           /\ v \in Block \ out
           /\ \E x \in Val : hp[v] = String(x)
           /\ secs[e[1]] \in Block
           /\ \A x : Leads(x, v, hp, hd, secs) <=> x = <<"line", e>>
           /\ \A f \in Entry : LineAt(hp, secs, f) = v => f = e
  <1> DEFINE v == LineAt(hp, secs, e)
  <1>1. secs[e[1]] # NULL /\ e[1] \in Section /\ e[2] \in Key
    BY EntryIs DEF LineAt
  <1>2. hp[secs[e[1]]] \in SectionBlocks /\ secs[e[1]] \in Block
    BY <1>1 DEF Sound
  <1>3. v \in Block
    BY <1>1, <1>2, BlockKinds DEF LineAt
  <1>4. Leads(<<"line", e>>, v, hp, hd, secs)
    BY DEF Leads
  <1>5. \A x : Leads(x, v, hp, hd, secs) <=> x = <<"line", e>>
    BY <1>3, <1>4 DEF Sound
  <1>6. v \notin out /\ \E x \in Val : hp[v] = String(x)
    BY <1>3, <1>4 DEF Sound
  <1>7. ASSUME NEW f \in Entry, LineAt(hp, secs, f) = v
        PROVE  f = e
    <2>1. Leads(<<"line", f>>, v, hp, hd, secs)
      BY <1>7 DEF Leads
    <2> QED
      BY <2>1, <1>5
  <1> QED
    BY <1>2, <1>3, <1>5, <1>6, <1>7

(* What a sound handle stands for is a keyfile.                            *)
LEMMA SoundKeyfile ==
  ASSUME NEW hp, NEW hd, NEW secs, NEW out, Sound(hp, hd, secs, out)
  PROVE  /\ StandFor(hp, secs) \in Keyfile
         /\ \A s \in Section : s \in StandFor(hp, secs).sections <=> secs[s] # NULL
         /\ \A e \in Entry :
              StandFor(hp, secs).lines[e] = NULL <=> LineAt(hp, secs, e) = NULL
  <1> DEFINE lines == [e \in Entry |-> IF LineAt(hp, secs, e) = NULL THEN NULL
                                       ELSE hp[LineAt(hp, secs, e)].text]
  <1>1. \A e \in Entry : LineAt(hp, secs, e) # NULL =>
          /\ hp[LineAt(hp, secs, e)].text \in Val
          /\ secs[e[1]] # NULL /\ e[1] \in Section
    <2> TAKE e \in Entry
    <2> HAVE LineAt(hp, secs, e) # NULL
    <2>1. PICK v \in Val : hp[LineAt(hp, secs, e)] = String(v)
      BY DEF Sound
    <2>2. hp[LineAt(hp, secs, e)].text = v
      BY <2>1, BlockKinds
    <2>3. e[1] \in Section
      BY EntryIs
    <2>4. secs[e[1]] # NULL
      BY DEF LineAt
    <2> QED
      BY <2>2, <2>3, <2>4
  <1>2. lines \in [Entry -> Val \cup {NULL}]
    BY <1>1
  <1>3. \A e \in Entry : lines[e] = NULL <=> LineAt(hp, secs, e) = NULL
    BY <1>1, NullIsNoValue
  <1>4. \A e \in Entry : lines[e] # NULL => e[1] \in {s \in Section : secs[s] # NULL}
    BY <1>1, <1>3
  <1> HIDE DEF lines
  <1> DEFINE names == {s \in Section : secs[s] # NULL}
             kf == [sections |-> names, lines |-> lines]
  <1>5. StandFor(hp, secs) = kf
    BY DEF StandFor, lines
  <1>6. kf \in [sections : SUBSET Section, lines : [Entry -> Val \cup {NULL}]]
    BY <1>2
  <1>7. kf \in Keyfile
    BY <1>4, <1>6 DEF Keyfile
  <1> QED
    BY <1>3, <1>5, <1>7

-----------------------------------------------------------------------------
(* What the functions of keyfile.c that allocate and free do to a handle.  *)
(* keyfile_create_section takes two free blocks, for a section that is not *)
(* there.                                                                  *)
LEMMA CreatedIsSound ==
  ASSUME NEW out, Sound(heap, handle, sections, out), Room(2),
         NEW s \in Section, sections[s] = NULL
  PROVE  LET c == Created(s) IN
           /\ Sound(c.heap, handle, c.sections, out)
           /\ c.sections[s] # NULL
           /\ \A t \in Section : sections[t] # NULL => c.sections[t] = sections[t]
           /\ StandFor(c.heap, c.sections) = CreateSection(StandFor(heap, sections), s)
           /\ \A b \in Block : heap[b] # Free => c.heap[b] = heap[b]
           /\ \A n \in Nat : Room(n + 2) => Cardinality(AvailableIn(c.heap)) >= n
  <1> DEFINE b == Malloc(Available)
             n == Malloc(Available \ {b})
             h2 == Created(s).heap
             s2 == Created(s).sections
  <1>1. b \in Available /\ n \in Available \ {b}
    <2>1. Available \in SUBSET Block /\ Available \ {b} \in SUBSET Block
      BY DEF Available
    <2>2. Cardinality(Available) \in Nat /\ Cardinality(Available) >= 2
      BY <2>1, RoomFor DEF Room
    <2>3. Available # {}
      BY <2>1, <2>2, RoomFor
    <2>4. b \in Available
      BY <2>1, <2>3, MallocIsFresh
    <2>5. Cardinality(Available \ {b}) >= 1
      BY <2>1, <2>2, <2>4, RoomFor
    <2>6. Available \ {b} # {}
      BY <2>1, <2>5, RoomFor
    <2> QED
      BY <2>1, <2>4, <2>6, MallocIsFresh
  <1>2. /\ b \in Block /\ n \in Block /\ b # n
        /\ heap[b] = Free /\ heap[n] = Free
    BY <1>1 DEF Available
  <1>3. /\ h2 = [heap EXCEPT ![b] = SectionBlock(n), ![n] = String(s)]
        /\ s2 = [sections EXCEPT ![s] = b]
    BY DEF Created
  <1> HIDE DEF b, n, h2, s2
  <1>4. /\ h2[b] = SectionBlock(n) /\ h2[n] = String(s)
        /\ \A c \in Block \ {b, n} : h2[c] = heap[c]
        /\ s2[s] = b
        /\ \A t \in Section \ {s} : s2[t] = sections[t]
    BY <1>2, <1>3 DEF Sound, Heap
  <1>5. SectionBlock(n) \in SectionBlocks /\ String(s) \in Strings
    BY <1>2 DEF SectionBlock, SectionBlocks, Strings
  <1>6. /\ h2 \in Heap
        /\ s2 \in [Section -> Block \cup {NULL}]
    BY <1>2, <1>3, <1>5 DEF Sound, Heap
  <1>7. \A t \in Section : sections[t] # NULL =>
          s2[t] = sections[t] /\ sections[t] \in Block /\ h2[sections[t]] = heap[sections[t]]
    BY <1>2, <1>4, SoundSections, BlockKinds
  <1>8. \A e \in Entry :
          /\ LineAt(h2, s2, e) = LineAt(heap, sections, e)
          /\ LineAt(heap, sections, e) # NULL =>
               h2[LineAt(heap, sections, e)] = heap[LineAt(heap, sections, e)]
    <2> TAKE e \in Entry
    <2>1. e[1] \in Section /\ e[2] \in Key
      BY EntryIs
    <2>2. CASE e[1] = s
      BY <1>2, <1>4, <2>1, <2>2, NullIsNoBlock DEF LineAt, SectionBlock
    <2>3. CASE e[1] # s
      <3>1. LineAt(h2, s2, e) = LineAt(heap, sections, e)
        BY <1>4, <1>7, <2>1, <2>3 DEF LineAt
      <3>2. LineAt(heap, sections, e) # NULL => LineAt(heap, sections, e) \notin {b, n}
        BY <1>2, SoundLines, BlockKinds
      <3> QED
        BY <1>4, <3>1, <3>2, SoundLines
    <2> QED
      BY <2>2, <2>3
  <1>9. \A x : \A c \in Block :
          Leads(x, c, h2, handle, s2) <=>
            \/ Leads(x, c, heap, handle, sections)
            \/ x = <<"section", s>> /\ c = b
            \/ x = <<"name", s>> /\ c = n
    <2> TAKE x
    <2> TAKE c \in Block
    <2>1. c # NULL /\ b # NULL
      BY <1>2, NullIsNoBlock
    <2>2. (\E t \in Section : x = <<"section", t>> /\ s2[t] = c) <=>
            \/ \E t \in Section : x = <<"section", t>> /\ sections[t] = c
            \/ x = <<"section", s>> /\ c = b
      BY <1>4, <2>1
    <2>3. (\E t \in Section : x = <<"name", t>> /\ s2[t] # NULL /\ h2[s2[t]].name = c) <=>
            \/ \E t \in Section : x = <<"name", t>> /\ sections[t] # NULL /\ heap[sections[t]].name = c
            \/ x = <<"name", s>> /\ c = n
      <3>1. h2[s2[s]].name = n
        BY <1>4 DEF SectionBlock
      <3> QED
        BY <1>4, <1>7, <2>1, <3>1
    <2> QED
      BY <1>8, <2>2, <2>3 DEF Leads
  <1>10. \A x : ~Leads(x, b, heap, handle, sections) /\ ~Leads(x, n, heap, handle, sections)
    BY <1>2 DEF Sound
  <1>11. Sound(h2, handle, s2, out)
    <2>1. \A t \in Section : s2[t] # NULL => h2[s2[t]] \in SectionBlocks
      BY <1>4, <1>5, <1>7 DEF Sound
    <2>2. \A e \in Entry : LineAt(h2, s2, e) # NULL =>
            \E v \in Val : h2[LineAt(h2, s2, e)] = String(v)
      BY <1>8 DEF Sound
    <2>3. b \notin out /\ n \notin out
      BY <1>2 DEF Sound
    <2>4. \A c \in Block : h2[c] # Free <=> c \in out \/ \E x : Leads(x, c, h2, handle, s2)
      <3> TAKE c \in Block
      <3>1. CASE c \in {b, n}
        BY <1>4, <1>5, <1>9, <3>1, BlockKinds
      <3>2. CASE c \notin {b, n}
        BY <1>4, <1>9, <3>2 DEF Sound
      <3> QED
        BY <3>1, <3>2
    <2>5. \A c \in Block : \A x, y :
            Leads(x, c, h2, handle, s2) /\ Leads(y, c, h2, handle, s2) => x = y
      BY <1>2, <1>9, <1>10 DEF Sound
    <2>6. \A c \in out : \A x : ~Leads(x, c, h2, handle, s2)
      BY <1>9, <2>3 DEF Sound
    <2>7. handle \in Block \cup {NULL} /\ out \subseteq Block
      BY DEF Sound
    <2> QED
      BY <1>6, <2>1, <2>2, <2>4, <2>5, <2>6, <2>7 DEF Sound
  <1>12. StandFor(h2, s2) = CreateSection(StandFor(heap, sections), s)
    <2>1. {t \in Section : s2[t] # NULL} = {t \in Section : sections[t] # NULL} \cup {s}
      BY <1>2, <1>4, NullIsNoBlock
    <2>2. /\ StandFor(h2, s2) \in Keyfile
          /\ StandFor(heap, sections) \in Keyfile
      BY <1>11, SoundKeyfile
    <2>3. \A e \in Entry : StandFor(h2, s2).lines[e] = StandFor(heap, sections).lines[e]
      BY <1>8 DEF StandFor
    <2>4. StandFor(h2, s2).sections = StandFor(heap, sections).sections \cup {s}
      BY <2>1 DEF StandFor
    <2> DEFINE made == CreateSection(StandFor(heap, sections), s)
    <2>5. /\ made \in Keyfile
          /\ made.lines = StandFor(heap, sections).lines
          /\ made.sections = StandFor(heap, sections).sections \cup {s}
      BY <2>2, CreateSectionType DEF CreateSection, Keyfile
    <2>6. /\ StandFor(h2, s2).sections = made.sections
          /\ \A e \in Entry : StandFor(h2, s2).lines[e] = made.lines[e]
      BY <2>3, <2>4, <2>5
    <2> HIDE DEF made
    <2>7. StandFor(h2, s2) = made
      BY <2>2, <2>5, <2>6, SameKeyfile
    <2> QED
      BY <2>7 DEF made
  <1>13. \A m \in Nat : Room(m + 2) => Cardinality(AvailableIn(h2)) >= m
    <2> TAKE m \in Nat
    <2> HAVE Room(m + 2)
    <2>1. AvailableIn(h2) = (Available \ {b}) \ {n}
      BY <1>2, <1>4, <1>5, BlockKinds DEF AvailableIn, Available
    <2>2. Available \in SUBSET Block /\ Available \ {b} \in SUBSET Block
      BY DEF Available
    <2>3. Cardinality(Available) \in Nat /\ Cardinality(Available) >= m + 2
      BY <2>2, RoomFor DEF Room
    <2>4. Cardinality(Available \ {b}) = Cardinality(Available) - 1
      BY <1>1, <2>2, RoomFor
    <2>5. Cardinality((Available \ {b}) \ {n}) = Cardinality(Available \ {b}) - 1
      BY <1>1, <2>2, RoomFor
    <2> QED
      BY <2>1, <2>3, <2>4, <2>5
  <1> QED
    BY <1>2, <1>4, <1>7, <1>11, <1>12, <1>13, NullIsNoBlock DEF h2, s2

(* A section that is there is taken as it is.                              *)
LEMMA WithSectionIsSound ==
  ASSUME NEW out, Sound(heap, handle, sections, out), Room(2), NEW s \in Section
  PROVE  LET c == WithSection(s) IN
           /\ Sound(c.heap, handle, c.sections, out)
           /\ c.sections[s] # NULL
           /\ StandFor(c.heap, c.sections) = CreateSection(StandFor(heap, sections), s)
           /\ \A b \in Block : heap[b] # Free => c.heap[b] = heap[b]
           /\ \A n \in Nat : Room(n + 2) => Cardinality(AvailableIn(c.heap)) >= n
  <1>1. CASE sections[s] = NULL
    BY <1>1, CreatedIsSound DEF WithSection
  <1>2. CASE sections[s] # NULL
    <2>1. WithSection(s).heap = heap /\ WithSection(s).sections = sections
      BY <1>2 DEF WithSection
    <2>2. StandFor(heap, sections) = CreateSection(StandFor(heap, sections), s)
      <3> DEFINE kf == StandFor(heap, sections)
      <3>1. kf \in Keyfile /\ s \in kf.sections
        BY <1>2, SoundKeyfile
      <3> HIDE DEF kf
      <3>2. kf = [kf EXCEPT !.sections = @ \cup {s}]
        BY <3>1 DEF Keyfile
      <3> QED
        BY <3>2 DEF CreateSection, kf
    <2>3. \A n \in Nat : Room(n + 2) => Cardinality(AvailableIn(heap)) >= n
      <3> TAKE n \in Nat
      <3>1. Available = AvailableIn(heap) /\ Available \in SUBSET Block
        BY DEF Available, AvailableIn
      <3> QED
        BY <3>1, RoomFor DEF Room
    <2> QED
      BY <1>2, <2>1, <2>2, <2>3
  <1> QED
    BY <1>1, <1>2

(* free() of the value of a line, and of nothing else of the handle.       *)
LEMMA WithoutLineIsSound ==
  ASSUME NEW hp, NEW hd, NEW secs, NEW out, Sound(hp, hd, secs, out),
         NEW s \in Section, NEW k \in Key,
         NEW sec, secs[s] = sec, sec # NULL
  PROVE  LET h2 == WithoutLine(hp, sec, k) IN
           /\ Sound(h2, hd, secs, out)
           /\ LineAt(h2, secs, <<s, k>>) = NULL
           /\ StandFor(h2, secs) = PatriciaDelete(StandFor(hp, secs), s, k)
           /\ \A b \in out : h2[b] = hp[b]
           /\ AvailableIn(hp) \subseteq AvailableIn(h2)
  <1> DEFINE v == hp[sec].lines[k]
             h2 == WithoutLine(hp, sec, k)
             kf == StandFor(hp, secs)
             e0 == <<s, k>>
  <1>0. e0 \in Entry /\ LineAt(hp, secs, e0) = v
    BY EntryIs DEF LineAt
  <1>1. kf \in Keyfile
    BY SoundKeyfile
  <1>2. CASE v = NULL
    <2>1. h2 = hp
      BY <1>2 DEF WithoutLine
    <2>2. kf.lines[e0] = NULL
      BY <1>0, <1>2 DEF StandFor
    <2>3. kf = PatriciaDelete(kf, s, k)
      <3> HIDE DEF kf
      <3>1. kf = [kf EXCEPT !.lines = [@ EXCEPT ![e0] = NULL]]
        BY <1>1, <2>2 DEF Keyfile
      <3> QED
        BY <3>1 DEF PatriciaDelete
    <2> QED
      BY <1>0, <1>2, <2>1, <2>3
  <1>3. CASE v # NULL
    <2>1. /\ v \in Block \ out
          /\ \A x : Leads(x, v, hp, hd, secs) <=> x = <<"line", e0>>
          /\ \A f \in Entry : LineAt(hp, secs, f) = v => f = e0
      BY <1>0, <1>3, SoundLines
    <2>2. /\ sec \in Block \ out /\ hp[sec] \in SectionBlocks
          /\ \A t \in Section : secs[t] = sec => t = s
          /\ \A e \in Entry : LineAt(hp, secs, e) # sec
      BY SoundSections
    <2>3. sec # v
      BY <1>0, <2>2
    <2>4. h2 = [hp EXCEPT ![v] = Free, ![sec].lines[k] = NULL]
      BY <1>3 DEF WithoutLine
    <2>5. /\ hp \in Heap
          /\ secs \in [Section -> Block \cup {NULL}]
      BY DEF Sound
    <2> HIDE DEF v, h2, kf, e0
    <2>6. /\ h2[v] = Free
          /\ h2[sec] = [type |-> "section", name |-> hp[sec].name,
                        lines |-> [hp[sec].lines EXCEPT ![k] = NULL]]
          /\ \A b \in Block \ {v, sec} : h2[b] = hp[b]
          /\ DOMAIN h2 = Block
      BY <2>1, <2>2, <2>3, <2>4, <2>5 DEF SectionBlocks, Heap
    <2>7. /\ h2[sec] \in SectionBlocks
          /\ h2[sec].name = hp[sec].name
          /\ h2[sec].lines = [hp[sec].lines EXCEPT ![k] = NULL]
      BY <2>2, <2>6 DEF SectionBlocks
    <2>8. h2 \in Heap
      <3>1. \A b \in Block : h2[b] \in {Free, HandleBlock} \cup Strings \cup SectionBlocks
        BY <2>5, <2>6, <2>7 DEF Heap
      <3>2. h2 = [b \in Block |-> h2[b]]
        BY <2>4, <2>5 DEF Heap
      <3> QED
        BY <3>1, <3>2 DEF Heap
    <2>9. \A t \in Section : secs[t] # NULL =>
            /\ secs[t] \in Block /\ secs[t] # v
            /\ h2[secs[t]] \in SectionBlocks
            /\ h2[secs[t]].name = hp[secs[t]].name
      <3> TAKE t \in Section
      <3> HAVE secs[t] # NULL
      <3>1. secs[t] \in Block /\ hp[secs[t]] \in SectionBlocks /\ LineAt(hp, secs, e0) # secs[t]
        BY <1>0, SoundSections
      <3>2. secs[t] # v
        BY <1>0, <3>1
      <3> QED
        BY <2>6, <2>7, <3>1, <3>2
    <2>10. /\ LineAt(h2, secs, e0) = NULL
           /\ \A e \in Entry \ {e0} : LineAt(h2, secs, e) = LineAt(hp, secs, e)
      <3>1. LineAt(h2, secs, e0) = NULL
        BY <2>2, <2>7, EntryIs DEF LineAt, e0, SectionBlocks
      <3>2. ASSUME NEW e \in Entry, e # e0
            PROVE  LineAt(h2, secs, e) = LineAt(hp, secs, e)
        <4>1. e[1] \in Section /\ e[2] \in Key /\ e = <<e[1], e[2]>>
          BY EntryIs
        <4>2. CASE e[1] = s
          <5>1. e[2] # k
            BY <3>2, <4>1, <4>2 DEF e0
          <5>2. h2[sec].lines[e[2]] = hp[sec].lines[e[2]]
            BY <2>2, <2>7, <4>1, <5>1 DEF SectionBlocks
          <5> QED
            BY <4>2, <5>2 DEF LineAt
        <4>3. CASE e[1] # s /\ secs[e[1]] # NULL
          <5>1. secs[e[1]] \in Block \ {v, sec}
            BY <2>2, <2>9, <4>1, <4>3
          <5> QED
            BY <2>6, <5>1 DEF LineAt
        <4>4. CASE secs[e[1]] = NULL
          BY <4>4 DEF LineAt
        <4> QED
          BY <4>2, <4>3, <4>4
      <3> QED
        BY <3>1, <3>2
    <2>11. \A e \in Entry \ {e0} : LineAt(hp, secs, e) # NULL =>
             /\ LineAt(hp, secs, e) \in Block \ {v, sec}
             /\ h2[LineAt(hp, secs, e)] = hp[LineAt(hp, secs, e)]
      BY <2>1, <2>2, <2>6, SoundLines
    <2>12. \A x : \A b \in Block :
             Leads(x, b, h2, hd, secs) <=> Leads(x, b, hp, hd, secs) /\ x # <<"line", e0>>
      <3> TAKE x
      <3> TAKE b \in Block
      <3>1. b # NULL
        BY NullIsNoBlock
      <3>2. (\E t \in Section : x = <<"name", t>> /\ secs[t] # NULL /\ h2[secs[t]].name = b) <=>
              \E t \in Section : x = <<"name", t>> /\ secs[t] # NULL /\ hp[secs[t]].name = b
        BY <2>9
      <3>3. (\E e \in Entry : x = <<"line", e>> /\ LineAt(h2, secs, e) = b) <=>
              (\E e \in Entry : x = <<"line", e>> /\ LineAt(hp, secs, e) = b) /\ x # <<"line", e0>>
        BY <2>10, <3>1
      <3> QED
        BY <3>2, <3>3 DEF Leads
    <2>13. Sound(h2, hd, secs, out)
      <3>1. \A e \in Entry : LineAt(h2, secs, e) # NULL =>
              \E w \in Val : h2[LineAt(h2, secs, e)] = String(w)
        BY <2>10, <2>11 DEF Sound
      <3>2. \A b \in Block : h2[b] # Free <=> b \in out \/ \E x : Leads(x, b, h2, hd, secs)
        <4> TAKE b \in Block
        <4>1. CASE b = v
          BY <2>1, <2>6, <2>12, <4>1
        <4>2. CASE b # v
          <5>1. h2[b] = Free <=> hp[b] = Free
            BY <2>2, <2>6, <2>7, <4>2, BlockKinds
          <5>2. \A x : Leads(x, b, hp, hd, secs) => x # <<"line", e0>>
            <6>1. Leads(<<"line", e0>>, v, hp, hd, secs)
              BY <2>1
            <6>2. ~Leads(<<"line", e0>>, b, hp, hd, secs)
              BY <1>0, <4>2 DEF Leads
            <6> QED
              BY <6>2
          <5>3. \A x : Leads(x, b, h2, hd, secs) <=> Leads(x, b, hp, hd, secs)
            BY <2>12, <5>2
          <5> QED
            BY <5>1, <5>3 DEF Sound
        <4> QED
          BY <4>1, <4>2
      <3>3. \A b \in Block : \A x, y :
              Leads(x, b, h2, hd, secs) /\ Leads(y, b, h2, hd, secs) => x = y
        BY <2>12 DEF Sound
      <3>4. \A b \in out : \A x : ~Leads(x, b, h2, hd, secs)
        BY <2>12 DEF Sound
      <3>5. hd \in Block \cup {NULL} /\ out \subseteq Block
        BY DEF Sound
      <3> QED
        BY <2>5, <2>8, <2>9, <3>1, <3>2, <3>3, <3>4, <3>5 DEF Sound
    <2>14. StandFor(h2, secs) = PatriciaDelete(kf, s, k)
      <3> DEFINE cleared == PatriciaDelete(kf, s, k)
      <3>1. /\ cleared \in Keyfile
            /\ cleared.sections = kf.sections
            /\ cleared.lines = [kf.lines EXCEPT ![e0] = NULL]
        <4>1. cleared \in Keyfile
          BY <1>1, PatriciaType
        <4>2. /\ cleared.sections = kf.sections
              /\ cleared.lines = [kf.lines EXCEPT ![<<s, k>>] = NULL]
          BY <1>1, DeleteFields
        <4> HIDE DEF cleared
        <4> QED
          BY <4>1, <4>2 DEF e0
      <3>2. StandFor(h2, secs) \in Keyfile /\ StandFor(h2, secs).sections = kf.sections
        <4>1. StandFor(h2, secs) \in Keyfile
          BY <2>13, SoundKeyfile
        <4>2. StandFor(h2, secs).sections = kf.sections
          BY DEF StandFor, kf
        <4> QED
          BY <4>1, <4>2
      <3>3. StandFor(h2, secs).lines[e0] = NULL
        BY <1>0, <2>10 DEF StandFor
      <3>4. \A e \in Entry \ {e0} : StandFor(h2, secs).lines[e] = kf.lines[e]
        BY <2>10, <2>11 DEF StandFor, kf
      <3>5. \A e \in Entry : StandFor(h2, secs).lines[e] = cleared.lines[e]
        BY <1>0, <1>1, <3>1, <3>3, <3>4 DEF Keyfile
      <3> HIDE DEF cleared
      <3>6. StandFor(h2, secs) = cleared
        BY <3>1, <3>2, <3>5, SameKeyfile
      <3> QED
        BY <3>6 DEF cleared
    <2>15. \A b \in out : h2[b] = hp[b]
      BY <2>1, <2>2, <2>6 DEF Sound
    <2>16. AvailableIn(hp) \subseteq AvailableIn(h2)
      BY <2>2, <2>6, BlockKinds DEF AvailableIn
    <2> QED
      BY <2>10, <2>13, <2>14, <2>15, <2>16 DEF h2, kf, e0
  <1> QED
    BY <1>2, <1>3

(* strdup of a value and mowgli_patricia_add of a key that is not there.   *)
LEMMA WithLineIsSound ==
  ASSUME NEW hp, NEW hd, NEW secs, NEW out, Sound(hp, hd, secs, out),
         AvailableIn(hp) # {}, NEW s \in Section, NEW k \in Key,
         NEW sec, secs[s] = sec, sec # NULL,
         LineAt(hp, secs, <<s, k>>) = NULL, NEW v \in Val
  PROVE  LET h2 == WithLine(hp, sec, k, v) IN
           /\ Sound(h2, hd, secs, out)
           /\ StandFor(h2, secs) = PatriciaAdd(StandFor(hp, secs), s, k, v)
           /\ \A c \in out : h2[c] = hp[c]
           /\ Cardinality(AvailableIn(h2)) = Cardinality(AvailableIn(hp)) - 1
  <1> DEFINE b == Malloc(AvailableIn(hp))
             h2 == WithLine(hp, sec, k, v)
             kf == StandFor(hp, secs)
             e0 == <<s, k>>
  <1>0. e0 \in Entry /\ hp[sec].lines[k] = NULL
    BY EntryIs DEF LineAt
  <1>1. kf \in Keyfile
    BY SoundKeyfile
  <1>2. b \in Block /\ hp[b] = Free
    <2>1. AvailableIn(hp) \in SUBSET Block
      BY DEF AvailableIn
    <2>2. b \in AvailableIn(hp)
      BY <2>1, MallocIsFresh
    <2> QED
      BY <2>2 DEF AvailableIn
  <1>3. h2 = [hp EXCEPT ![b] = String(v), ![sec].lines[k] = b]
    BY <1>0 DEF WithLine, AvailableIn
  <1>4. /\ sec \in Block \ out /\ hp[sec] \in SectionBlocks
        /\ \A t \in Section : secs[t] = sec => t = s
        /\ \A e \in Entry : LineAt(hp, secs, e) # sec
    BY SoundSections
  <1>5. sec # b
    BY <1>2, <1>4, BlockKinds
  <1>6. /\ hp \in Heap
        /\ secs \in [Section -> Block \cup {NULL}]
    BY DEF Sound
  <1>7. String(v) \in Strings /\ String(v) # Free
    BY BlockKinds DEF Strings
  <1> HIDE DEF b, h2, kf, e0
  <1>8. /\ h2[b] = String(v)
        /\ h2[sec] = [type |-> "section", name |-> hp[sec].name,
                      lines |-> [hp[sec].lines EXCEPT ![k] = b]]
        /\ \A c \in Block \ {b, sec} : h2[c] = hp[c]
        /\ DOMAIN h2 = Block
    BY <1>2, <1>3, <1>4, <1>5, <1>6 DEF SectionBlocks, Heap
  <1>9. /\ h2[sec] \in SectionBlocks
        /\ h2[sec].name = hp[sec].name
        /\ h2[sec].lines = [hp[sec].lines EXCEPT ![k] = b]
    BY <1>2, <1>4, <1>8 DEF SectionBlocks
  <1>10. h2 \in Heap
    <2>1. \A c \in Block : h2[c] \in {Free, HandleBlock} \cup Strings \cup SectionBlocks
      BY <1>6, <1>7, <1>8, <1>9 DEF Heap
    <2>2. h2 = [c \in Block |-> h2[c]]
      BY <1>3, <1>6 DEF Heap
    <2> QED
      BY <2>1, <2>2 DEF Heap
  <1>11. \A t \in Section : secs[t] # NULL =>
           /\ secs[t] \in Block /\ secs[t] # b
           /\ h2[secs[t]] \in SectionBlocks
           /\ h2[secs[t]].name = hp[secs[t]].name
    <2> TAKE t \in Section
    <2> HAVE secs[t] # NULL
    <2>1. secs[t] \in Block /\ hp[secs[t]] \in SectionBlocks
      BY SoundSections
    <2>2. secs[t] # b
      BY <1>2, <2>1, BlockKinds
    <2> QED
      BY <1>8, <1>9, <2>1, <2>2
  <1>12. /\ LineAt(h2, secs, e0) = b
         /\ \A e \in Entry \ {e0} : LineAt(h2, secs, e) = LineAt(hp, secs, e)
    <2>1. LineAt(h2, secs, e0) = b
      BY <1>4, <1>9, EntryIs DEF LineAt, e0, SectionBlocks
    <2>2. ASSUME NEW e \in Entry, e # e0
          PROVE  LineAt(h2, secs, e) = LineAt(hp, secs, e)
      <3>1. e[1] \in Section /\ e[2] \in Key /\ e = <<e[1], e[2]>>
        BY EntryIs
      <3>2. CASE e[1] = s
        <4>1. e[2] # k
          BY <2>2, <3>1, <3>2 DEF e0
        <4>2. h2[sec].lines[e[2]] = hp[sec].lines[e[2]]
          BY <1>4, <1>9, <3>1, <4>1 DEF SectionBlocks
        <4> QED
          BY <3>2, <4>2 DEF LineAt
      <3>3. CASE e[1] # s /\ secs[e[1]] # NULL
        <4>1. secs[e[1]] \in Block \ {b, sec}
          BY <1>4, <1>11, <3>1, <3>3
        <4> QED
          BY <1>8, <4>1 DEF LineAt
      <3>4. CASE secs[e[1]] = NULL
        BY <3>4 DEF LineAt
      <3> QED
        BY <3>2, <3>3, <3>4
    <2> QED
      BY <2>1, <2>2
  <1>13. \A e \in Entry \ {e0} : LineAt(hp, secs, e) # NULL =>
           /\ LineAt(hp, secs, e) \in Block \ {b, sec}
           /\ h2[LineAt(hp, secs, e)] = hp[LineAt(hp, secs, e)]
    BY <1>2, <1>4, <1>8, SoundLines, BlockKinds
  <1>14. \A x : \A c \in Block :
           Leads(x, c, h2, hd, secs) <=>
             Leads(x, c, hp, hd, secs) \/ (x = <<"line", e0>> /\ c = b)
    <2> TAKE x
    <2> TAKE c \in Block
    <2>1. c # NULL
      BY NullIsNoBlock
    <2>2. (\E t \in Section : x = <<"name", t>> /\ secs[t] # NULL /\ h2[secs[t]].name = c) <=>
            \E t \in Section : x = <<"name", t>> /\ secs[t] # NULL /\ hp[secs[t]].name = c
      BY <1>11
    <2>3. LineAt(hp, secs, e0) = NULL
      BY DEF e0
    <2>4. (\E e \in Entry : x = <<"line", e>> /\ LineAt(h2, secs, e) = c) <=>
            (\E e \in Entry : x = <<"line", e>> /\ LineAt(hp, secs, e) = c)
              \/ (x = <<"line", e0>> /\ c = b)
      BY <1>0, <1>12, <2>1, <2>3
    <2> QED
      BY <2>2, <2>4 DEF Leads
  <1>15. \A x : ~Leads(x, b, hp, hd, secs)
    BY <1>2 DEF Sound
  <1>16. Sound(h2, hd, secs, out)
    <2>1. \A e \in Entry : LineAt(h2, secs, e) # NULL =>
            \E w \in Val : h2[LineAt(h2, secs, e)] = String(w)
      BY <1>8, <1>12, <1>13 DEF Sound
    <2>2. b \notin out
      BY <1>2 DEF Sound
    <2>3. \A c \in Block : h2[c] # Free <=> c \in out \/ \E x : Leads(x, c, h2, hd, secs)
      <3> TAKE c \in Block
      <3>1. CASE c = b
        BY <1>7, <1>8, <1>14, <3>1
      <3>2. CASE c # b
        <4>1. h2[c] = Free <=> hp[c] = Free
          BY <1>4, <1>8, <1>9, <3>2, BlockKinds
        <4> QED
          BY <1>14, <3>2, <4>1 DEF Sound
      <3> QED
        BY <3>1, <3>2
    <2>4. \A c \in Block : \A x, y :
            Leads(x, c, h2, hd, secs) /\ Leads(y, c, h2, hd, secs) => x = y
      BY <1>14, <1>15 DEF Sound
    <2>5. \A c \in out : \A x : ~Leads(x, c, h2, hd, secs)
      BY <1>14, <2>2 DEF Sound
    <2>6. hd \in Block \cup {NULL} /\ out \subseteq Block
      BY DEF Sound
    <2> QED
      BY <1>6, <1>10, <1>11, <2>1, <2>3, <2>4, <2>5, <2>6 DEF Sound
  <1>17. StandFor(h2, secs) = PatriciaAdd(kf, s, k, v)
    <2> DEFINE added == PatriciaAdd(kf, s, k, v)
    <2>1. kf.lines[e0] = NULL /\ s \in kf.sections
      BY <1>0, SoundKeyfile DEF kf, e0
    <2>2. /\ added \in Keyfile
          /\ added.sections = kf.sections
          /\ added.lines = [kf.lines EXCEPT ![e0] = v]
      <3>1. added \in Keyfile
        BY <1>1, <2>1, PatriciaType
      <3>2. kf.lines[<<s, k>>] = NULL
        BY <2>1 DEF e0
      <3>3. /\ added.sections = kf.sections
            /\ added.lines = [kf.lines EXCEPT ![<<s, k>>] = v]
        <4> HIDE DEF kf
        <4> QED
          BY <1>1, <3>2, AddFields
      <3> HIDE DEF added
      <3> QED
        BY <3>1, <3>3 DEF e0
    <2>3. StandFor(h2, secs) \in Keyfile /\ StandFor(h2, secs).sections = kf.sections
      <3>1. StandFor(h2, secs) \in Keyfile
        BY <1>16, SoundKeyfile
      <3>2. StandFor(h2, secs).sections = kf.sections
        BY DEF StandFor, kf
      <3> QED
        BY <3>1, <3>2
    <2>4. StandFor(h2, secs).lines[e0] = v
      BY <1>0, <1>2, <1>8, <1>12, NullIsNoBlock, BlockKinds DEF StandFor
    <2>5. \A e \in Entry \ {e0} : StandFor(h2, secs).lines[e] = kf.lines[e]
      BY <1>12, <1>13 DEF StandFor, kf
    <2>6. \A e \in Entry : StandFor(h2, secs).lines[e] = added.lines[e]
      BY <1>0, <1>1, <2>2, <2>4, <2>5 DEF Keyfile
    <2> HIDE DEF added
    <2>7. StandFor(h2, secs) = added
      BY <2>2, <2>3, <2>6, SameKeyfile
    <2> QED
      BY <2>7 DEF added
  <1>18. \A c \in out : h2[c] = hp[c]
    BY <1>2, <1>4, <1>8 DEF Sound
  <1>19. Cardinality(AvailableIn(h2)) = Cardinality(AvailableIn(hp)) - 1
    <2>1. AvailableIn(h2) = AvailableIn(hp) \ {b}
      BY <1>4, <1>7, <1>8, <1>9, BlockKinds DEF AvailableIn
    <2>2. AvailableIn(hp) \in SUBSET Block /\ b \in AvailableIn(hp)
      BY <1>2 DEF AvailableIn
    <2> QED
      BY <2>1, <2>2, RoomFor
  <1> QED
    BY <1>16, <1>17, <1>18, <1>19 DEF h2, kf

-----------------------------------------------------------------------------
(* What a handle stands for lies in its own blocks: those that are free or *)
(* the caller's may change.                                                *)
LEMMA OwnBlocks ==
  ASSUME NEW hp, NEW hd, NEW secs, NEW out, Sound(hp, hd, secs, out), NEW h2,
         \A b \in Block \ out : hp[b] # Free => h2[b] = hp[b]
  PROVE  /\ \A s \in Section : secs[s] # NULL => h2[secs[s]] = hp[secs[s]]
         /\ \A e \in Entry :
              /\ LineAt(h2, secs, e) = LineAt(hp, secs, e)
              /\ LineAt(hp, secs, e) # NULL => h2[LineAt(hp, secs, e)] = hp[LineAt(hp, secs, e)]
         /\ \A x, b : Leads(x, b, h2, hd, secs) <=> Leads(x, b, hp, hd, secs)
         /\ StandFor(h2, secs) = StandFor(hp, secs)
  <1>1. \A s \in Section : secs[s] # NULL => h2[secs[s]] = hp[secs[s]]
    BY SoundSections, BlockKinds
  <1>2. \A e \in Entry : LineAt(h2, secs, e) = LineAt(hp, secs, e)
    BY <1>1, EntryIs DEF LineAt
  <1>3. \A e \in Entry :
          LineAt(hp, secs, e) # NULL => h2[LineAt(hp, secs, e)] = hp[LineAt(hp, secs, e)]
    BY SoundLines, BlockKinds
  <1>4. ASSUME NEW x, NEW b
        PROVE  Leads(x, b, h2, hd, secs) <=> Leads(x, b, hp, hd, secs)
    <2>1. (\E s \in Section : x = <<"name", s>> /\ secs[s] # NULL /\ h2[secs[s]].name = b) <=>
            \E s \in Section : x = <<"name", s>> /\ secs[s] # NULL /\ hp[secs[s]].name = b
      BY <1>1
    <2>2. (\E e \in Entry : x = <<"line", e>> /\ LineAt(h2, secs, e) = b) <=>
            \E e \in Entry : x = <<"line", e>> /\ LineAt(hp, secs, e) = b
      BY <1>2
    <2> QED
      BY <2>1, <2>2 DEF Leads
  <1>5. \A e \in Entry :
          (IF LineAt(h2, secs, e) = NULL THEN NULL ELSE h2[LineAt(h2, secs, e)].text)
            = IF LineAt(hp, secs, e) = NULL THEN NULL ELSE hp[LineAt(hp, secs, e)].text
    BY <1>2, <1>3
  <1>6. StandFor(h2, secs) = StandFor(hp, secs)
    BY <1>5, Zenon DEF StandFor
  <1> QED
    BY <1>1, <1>2, <1>3, <1>4, <1>6

(* strdup for the caller.                                                  *)
LEMMA HandOutIsSound ==
  ASSUME NEW hp, NEW hd, NEW secs, NEW out, Sound(hp, hd, secs, out),
         NEW b \in Block, hp[b] = Free, NEW c \in Strings,
         NEW h2 \in Heap, h2[b] = c, \A d \in Block \ {b} : h2[d] = hp[d]
  PROVE  /\ Sound(h2, hd, secs, out \cup {b})
         /\ StandFor(h2, secs) = StandFor(hp, secs)
         /\ \A e \in Entry : LineAt(h2, secs, e) = LineAt(hp, secs, e)
         /\ b \notin out
         /\ Cardinality(AvailableIn(h2)) = Cardinality(AvailableIn(hp)) - 1
  <1>3. c # Free
    BY BlockKinds DEF Strings
  <1>4. \A d \in Block \ out : hp[d] # Free => h2[d] = hp[d]
    OBVIOUS
  <1>5. /\ \A s \in Section : secs[s] # NULL => h2[secs[s]] = hp[secs[s]]
        /\ \A e \in Entry :
             /\ LineAt(h2, secs, e) = LineAt(hp, secs, e)
             /\ LineAt(hp, secs, e) # NULL => h2[LineAt(hp, secs, e)] = hp[LineAt(hp, secs, e)]
        /\ \A x, d : Leads(x, d, h2, hd, secs) <=> Leads(x, d, hp, hd, secs)
        /\ StandFor(h2, secs) = StandFor(hp, secs)
    BY <1>4, OwnBlocks
  <1>6. b \notin out /\ \A x : ~Leads(x, b, hp, hd, secs)
    BY DEF Sound
  <1>7. Sound(h2, hd, secs, out \cup {b})
    <2>1. \A s \in Section : secs[s] # NULL => h2[secs[s]] \in SectionBlocks
      BY <1>5 DEF Sound
    <2>2. \A e \in Entry : LineAt(h2, secs, e) # NULL =>
            \E v \in Val : h2[LineAt(h2, secs, e)] = String(v)
      BY <1>5 DEF Sound
    <2>3. \A d \in Block : h2[d] # Free <=> d \in out \cup {b} \/ \E x : Leads(x, d, h2, hd, secs)
      BY <1>3, <1>5 DEF Sound
    <2>4. \A d \in Block : \A x, y :
            Leads(x, d, h2, hd, secs) /\ Leads(y, d, h2, hd, secs) => x = y
      BY <1>5 DEF Sound
    <2>5. \A d \in out \cup {b} : \A x : ~Leads(x, d, h2, hd, secs)
      BY <1>5, <1>6 DEF Sound
    <2>6. /\ secs \in [Section -> Block \cup {NULL}]
          /\ hd \in Block \cup {NULL} /\ out \cup {b} \subseteq Block
      BY DEF Sound
    <2> QED
      BY <2>1, <2>2, <2>3, <2>4, <2>5, <2>6 DEF Sound
  <1>8. Cardinality(AvailableIn(h2)) = Cardinality(AvailableIn(hp)) - 1
    <2>1. AvailableIn(h2) = AvailableIn(hp) \ {b}
      BY <1>3 DEF AvailableIn
    <2>2. AvailableIn(hp) \in SUBSET Block /\ b \in AvailableIn(hp)
      BY DEF AvailableIn
    <2> QED
      BY <2>1, <2>2, RoomFor
  <1> QED
    BY <1>5, <1>6, <1>7, <1>8

(* free() of what the caller was given.                                    *)
LEMMA TakeBackIsSound ==
  ASSUME NEW hp, NEW hd, NEW secs, NEW out, Sound(hp, hd, secs, out), NEW h2 \in Heap,
         NEW keep, \A b \in keep : b \in out,
         \A b \in Block : h2[b] = IF b \in out \ keep THEN Free ELSE hp[b]
  PROVE  /\ Sound(h2, hd, secs, keep)
         /\ StandFor(h2, secs) = StandFor(hp, secs)
  <1>2. /\ \A b \in out \ keep : b \in Block /\ h2[b] = Free
        /\ \A b \in keep : b \in Block /\ h2[b] = hp[b]
        /\ \A b \in Block \ out : h2[b] = hp[b]
    BY DEF Sound
  <1>3. \A b \in Block \ out : hp[b] # Free => h2[b] = hp[b]
    BY <1>2
  <1>4. /\ \A s \in Section : secs[s] # NULL => h2[secs[s]] = hp[secs[s]]
        /\ \A e \in Entry :
             /\ LineAt(h2, secs, e) = LineAt(hp, secs, e)
             /\ LineAt(hp, secs, e) # NULL => h2[LineAt(hp, secs, e)] = hp[LineAt(hp, secs, e)]
        /\ \A x, b : Leads(x, b, h2, hd, secs) <=> Leads(x, b, hp, hd, secs)
        /\ StandFor(h2, secs) = StandFor(hp, secs)
    BY <1>3, OwnBlocks
  <1>5. Sound(h2, hd, secs, keep)
    <2>1. \A s \in Section : secs[s] # NULL => h2[secs[s]] \in SectionBlocks
      BY <1>4 DEF Sound
    <2>2. \A e \in Entry : LineAt(h2, secs, e) # NULL =>
            \E v \in Val : h2[LineAt(h2, secs, e)] = String(v)
      BY <1>4 DEF Sound
    <2>3. \A b \in Block : h2[b] # Free <=> b \in keep \/ \E x : Leads(x, b, h2, hd, secs)
      BY <1>2, <1>4 DEF Sound
    <2>4. \A b \in Block : \A x, y :
            Leads(x, b, h2, hd, secs) /\ Leads(y, b, h2, hd, secs) => x = y
      BY <1>4 DEF Sound
    <2>5. \A b \in keep : \A x : ~Leads(x, b, h2, hd, secs)
      BY <1>4 DEF Sound
    <2>6. /\ secs \in [Section -> Block \cup {NULL}]
          /\ hd \in Block \cup {NULL} /\ keep \subseteq Block
      BY DEF Sound
    <2> QED
      BY <1>2, <2>1, <2>2, <2>3, <2>4, <2>5, <2>6 DEF Sound
  <1> QED
    BY <1>4, <1>5

(* mcs_keyfile_new takes a block for a handle that has no section yet.     *)
LEMMA BegunIsSound ==
  ASSUME NEW hp, NEW secs, NEW out, Sound(hp, NULL, secs, out),
         \A s \in Section : secs[s] = NULL, NEW b \in Block, hp[b] = Free,
         NEW h2 \in Heap, h2[b] = HandleBlock, \A c \in Block \ {b} : h2[c] = hp[c]
  PROVE  /\ Sound(h2, b, secs, out)
         /\ StandFor(h2, secs).sections = {}
         /\ \A e \in Entry : StandFor(h2, secs).lines[e] = NULL
         /\ \A c \in out : h2[c] = hp[c]
         /\ Cardinality(AvailableIn(h2)) = Cardinality(AvailableIn(hp)) - 1
  <1>3. \A e \in Entry : LineAt(h2, secs, e) = NULL /\ LineAt(hp, secs, e) = NULL
    BY EntryIs DEF LineAt
  <1>4. /\ \A x : \A c \in Block : ~Leads(x, c, hp, NULL, secs)
        /\ \A x : \A c \in Block : Leads(x, c, h2, b, secs) <=> x = <<"handle">> /\ c = b
    BY <1>3, NullIsNoBlock DEF Leads
  <1>5. b \notin out
    BY DEF Sound
  <1>6. Sound(h2, b, secs, out)
    <2>1. \A c \in Block : h2[c] # Free <=> c \in out \/ \E x : Leads(x, c, h2, b, secs)
      <3> TAKE c \in Block
      <3>1. CASE c = b
        BY <1>4, <3>1, BlockKinds
      <3>2. CASE c # b
        BY <1>4, <3>2 DEF Sound
      <3> QED
        BY <3>1, <3>2
    <2>2. secs \in [Section -> Block \cup {NULL}] /\ out \subseteq Block
      BY DEF Sound
    <2>3. \A c \in Block : \A x, y : Leads(x, c, h2, b, secs) /\ Leads(y, c, h2, b, secs) => x = y
      BY <1>4
    <2>4. \A c \in out : \A x : ~Leads(x, c, h2, b, secs)
      BY <1>4, <1>5, <2>2
    <2> QED
      BY <1>3, <2>1, <2>2, <2>3, <2>4 DEF Sound
  <1>7. /\ StandFor(h2, secs).sections = {}
        /\ \A e \in Entry : StandFor(h2, secs).lines[e] = NULL
    BY <1>3 DEF StandFor
  <1>8. Cardinality(AvailableIn(h2)) = Cardinality(AvailableIn(hp)) - 1
    <2>1. AvailableIn(h2) = AvailableIn(hp) \ {b}
      BY BlockKinds DEF AvailableIn
    <2>2. AvailableIn(hp) \in SUBSET Block /\ b \in AvailableIn(hp)
      BY DEF AvailableIn
    <2> QED
      BY <2>1, <2>2, RoomFor
  <1>9. \A c \in out : h2[c] = hp[c]
    BY <1>5 DEF Sound
  <1> QED
    BY <1>6, <1>7, <1>8, <1>9

(* Where the handle leads, as keyfile_destroy walks through it.            *)
LEMMA LeadsIs ==
  ASSUME NEW hp, NEW hd, NEW secs, NEW out, Sound(hp, hd, secs, out), NEW b \in Block
  PROVE  (\E x : Leads(x, b, hp, hd, secs)) <=>
           \/ b = hd
           \/ b \in Range(secs)
           \/ \E s \in StandFor(hp, secs).sections : b = hp[secs[s]].name
           \/ \E e \in Entry : b = LineAt(hp, secs, e)
  <1>1. b \in Range(secs) <=> \E s \in Section : secs[s] = b
    BY DEF Range, Sound
  <1>2. StandFor(hp, secs).sections = {s \in Section : secs[s] # NULL}
    BY DEF StandFor
  <1> QED
    BY <1>1, <1>2 DEF Leads

(* keyfile_destroy frees every block the handle leads to, and no other.    *)
LEMMA DestroyedIsSound ==
  ASSUME NEW hp, NEW hd, NEW secs, NEW out, Sound(hp, hd, secs, out), NEW h2 \in Heap,
         \A b \in Block : h2[b] = IF \E x : Leads(x, b, hp, hd, secs) THEN Free ELSE hp[b],
         NEW s2 \in [Section -> {NULL}]
  PROVE  /\ Sound(h2, NULL, s2, out)
         /\ \A b \in out : h2[b] = hp[b]
  <1>1. \A e \in Entry : LineAt(h2, s2, e) = NULL
    BY EntryIs DEF LineAt
  <1>2. \A x : \A b \in Block : ~Leads(x, b, h2, NULL, s2)
    BY <1>1, NullIsNoBlock DEF Leads
  <1>3. \A b \in out : b \in Block /\ h2[b] = hp[b]
    BY DEF Sound
  <1>4. \A b \in Block : h2[b] # Free <=> b \in out
    BY <1>3 DEF Sound
  <1>5. /\ s2 \in [Section -> Block \cup {NULL}] /\ out \subseteq Block
        /\ \A s \in Section : s2[s] = NULL
    BY <1>3
  <1>6. Sound(h2, NULL, s2, out)
    BY <1>1, <1>2, <1>3, <1>4, <1>5 DEF Sound
  <1> QED
    BY <1>3, <1>6

-----------------------------------------------------------------------------
(* The names of a loop are finite, and as many as their 1-tuples.          *)
LEMMA Singles ==
  ASSUME NEW S, IsFiniteSet(S)
  PROVE  /\ IsFiniteSet({<<s>> : s \in S})
         /\ Cardinality({<<s>> : s \in S}) = Cardinality(S)
         /\ {x[1] : x \in {<<s>> : s \in S}} = S
  <1>1. [s \in S |-> <<s>>] \in Bijection(S, {<<s>> : s \in S})
    BY DEF Bijection, Injection, Surjection, IsInjective
  <1>2. ExistsBijection(S, {<<s>> : s \in S})
    BY <1>1 DEF ExistsBijection
  <1>3. \A s : <<s>>[1] = s
    OBVIOUS
  <1>4. {x[1] : x \in {<<s>> : s \in S}} = S
    <2>1. \A x \in {<<s>> : s \in S} : x[1] \in S
      BY <1>3
    <2>2. \A s \in S : <<s>> \in {<<r>> : r \in S} /\ <<s>>[1] = s
      BY <1>3
    <2> QED
      BY <2>1, <2>2
  <1> QED
    BY <1>2, <1>4, FS_Bijection

LEMMA TodoIsFinite ==
  /\ \A S \in SUBSET ({<<s>> : s \in Section} \cup Entry) : IsFiniteSet(S) /\ Cardinality(S) \in Nat
  /\ \A S \in SUBSET Section : IsFiniteSet(S) /\ Cardinality(S) \in Nat
  <1>1. IsFiniteSet(Entry)
    BY NamesAreFinite, FS_Product DEF Entry
  <1>2. IsFiniteSet({<<s>> : s \in Section})
    BY NamesAreFinite, Singles
  <1>3. IsFiniteSet({<<s>> : s \in Section} \cup Entry)
    BY <1>1, <1>2, FS_Union
  <1> QED
    BY <1>3, NamesAreFinite, FS_Subset, FS_CardinalityType

(* mowgli_node_add_head.                                                   *)
LEMMA Prepended ==
  ASSUME NEW queue \in Seq(Block), NEW b \in Block
  PROVE  LET longer == <<b>> \o queue IN
           /\ longer \in Seq(Block)
           /\ Len(longer) = Len(queue) + 1
           /\ DOMAIN queue = 1..Len(queue) /\ DOMAIN longer = 1..Len(queue) + 1
           /\ longer[1] = b
           /\ \A i \in DOMAIN longer : i = 1 \/ (i - 1 \in DOMAIN queue /\ longer[i] = queue[i - 1])
           /\ \A i \in DOMAIN queue : i + 1 \in DOMAIN longer /\ longer[i + 1] = queue[i]
  OBVIOUS

(* What was handed out is a set of blocks, each held somewhere.            *)
LEMMA HandedOutIs ==
  ASSUME TypeOK
  PROVE  /\ HandedOut \subseteq Block
         /\ \A b \in Block : b \in HandedOut <=> \E x : Given(x, b)
  <1>1. Range(groups) \subseteq Block /\ Range(keys) \subseteq Block
    BY DEF TypeOK, Range
  <1>2. \A b : b \in Range(groups) <=> \E i \in DOMAIN groups : groups[i] = b
    BY DEF Range
  <1>3. \A b : b \in Range(keys) <=> \E i \in DOMAIN keys : keys[i] = b
    BY DEF Range
  <1>4. foo \in Block \cup {NULL}
    BY DEF TypeOK
  <1> QED
    BY <1>1, <1>2, <1>3, <1>4, NullIsNoBlock DEF HandedOut, Given, Holds

LEMMA ApartAre ==
  ASSUME NEW f \in Block \cup {NULL}, NEW g \in Seq(Block), NEW q \in Seq(Block)
  PROVE  (\A b \in Block : \A x, y : Holds(x, b, f, g, q) /\ Holds(y, b, f, g, q) => x = y)
           <=> Apart(f, g, q)
  <1>1. ASSUME \A b \in Block : \A x, y : Holds(x, b, f, g, q) /\ Holds(y, b, f, g, q) => x = y
        PROVE  Apart(f, g, q)
    <2>1. /\ \A i \in DOMAIN g : g[i] \in Block /\ Holds(<<"group", i>>, g[i], f, g, q)
          /\ \A i \in DOMAIN q : q[i] \in Block /\ Holds(<<"key", i>>, q[i], f, g, q)
          /\ Holds(<<"foo">>, f, f, g, q)
      BY DEF Holds
    <2>2. \A i, j \in DOMAIN g : g[i] = g[j] => i = j
      <3> TAKE i, j \in DOMAIN g
      <3> HAVE g[i] = g[j]
      <3>1. <<"group", i>> = <<"group", j>>
        BY <1>1, <2>1
      <3> QED
        BY <3>1
    <2>3. \A i, j \in DOMAIN q : q[i] = q[j] => i = j
      <3> TAKE i, j \in DOMAIN q
      <3> HAVE q[i] = q[j]
      <3>1. <<"key", i>> = <<"key", j>>
        BY <1>1, <2>1
      <3> QED
        BY <3>1
    <2>4. \A i \in DOMAIN g : g[i] # f /\ \A j \in DOMAIN q : g[i] # q[j]
      <3> TAKE i \in DOMAIN g
      <3>1. g[i] = f => <<"group", i>> = <<"foo">>
        BY <1>1, <2>1
      <3>2. \A j \in DOMAIN q : g[i] = q[j] => <<"group", i>> = <<"key", j>>
        BY <1>1, <2>1
      <3> QED
        BY <3>1, <3>2
    <2>5. \A j \in DOMAIN q : q[j] # f
      <3> TAKE j \in DOMAIN q
      <3>1. q[j] = f => <<"key", j>> = <<"foo">>
        BY <1>1, <2>1
      <3> QED
        BY <3>1
    <2> QED
      BY <2>2, <2>3, <2>4, <2>5 DEF Apart
  <1>2. ASSUME Apart(f, g, q), NEW b \in Block, NEW x, NEW y,
               Holds(x, b, f, g, q), Holds(y, b, f, g, q)
        PROVE  x = y
    BY <1>2 DEF Apart, Holds
  <1> QED
    BY <1>1, <1>2

-----------------------------------------------------------------------------
LEMMA InitHInv == Init => HInv
  <1> SUFFICES ASSUME Init PROVE HInv
    OBVIOUS
  <1>1. TypeOK
    BY DEF Init, TypeOK
  <1>2. Sound(heap, handle, sections, HandedOut)
    <2>1. \A e \in Entry : LineAt(heap, sections, e) = NULL
      BY EntryIs DEF Init, LineAt
    <2>2. \A x : \A b \in Block : ~Leads(x, b, heap, handle, sections)
      BY <2>1, NullIsNoBlock DEF Init, Leads
    <2>3. HandedOut = {}
      BY DEF Init, HandedOut, Range
    <2>4. /\ heap \in Heap
          /\ \A b \in Block : heap[b] = Free
          /\ sections \in [Section -> Block \cup {NULL}]
          /\ \A s \in Section : sections[s] = NULL
          /\ handle = NULL
      BY DEF Init, Heap
    <2> QED
      BY <2>1, <2>2, <2>3, <2>4 DEF Sound
  <1>3. GivenOnce
    BY NullIsNoBlock DEF Init, GivenOnce, Given, Holds
  <1>4. Phases /\ Loading /\ ListingHasRoom /\ ListingIsComplete
    BY DEF Init, Phases, Loading, ListingHasRoom, ListingIsComplete
  <1> QED
    BY <1>1, <1>2, <1>3, <1>4 DEF HInv

(* A step of the library that hands nothing out.                           *)
LEMMA LibraryStep ==
  ASSUME HInv, UNCHANGED client, Sound(heap', handle', sections', HandedOut),
         db' \in Keyfile, pc' \in {"closed", "loading", "open", "sections", "keys"},
         todo' \subseteq {<<s>> : s \in Section} \cup Entry
  PROVE  TypeOK' /\ Sound(heap, handle, sections, HandedOut)' /\ GivenOnce'
  <1>1. foo' = foo /\ groups' = groups /\ keys' = keys
    BY DEF client
  <1>2. TypeOK'
    BY <1>1 DEF HInv, TypeOK, Sound, Strings, SectionBlocks, Heap
  <1>3. HandedOut' = HandedOut
    BY <1>1 DEF HandedOut
  <1>4. GivenOnce'
    BY <1>1 DEF HInv, GivenOnce, Given
  <1> QED
    BY <1>2, <1>3, <1>4

LEMMA ContentsIs ==
  /\ Contents = StandFor(heap, sections)
  /\ Contents' = StandFor(heap', sections')
  /\ \A e : LineOf(e) = LineAt(heap, sections, e)
  /\ \A e : LineOf(e)' = LineAt(heap', sections', e)
  /\ Available = AvailableIn(heap)
  /\ Available' = AvailableIn(heap')
  BY DEF Contents, StandFor, LineOf, LineAt, Available, AvailableIn

LEMMA NewActs ==
  ASSUME HInv, New
  PROVE  HInv' /\ \A d \in HandedOut : heap'[d] = heap[d]
  <1> DEFINE b == Malloc(Available)
             n == Cardinality({s \in Section : <<s>> \in todo'})
             m == Cardinality(todo' \cap Entry)
  <1>1. /\ pc = "closed" /\ pc' = "loading"
        /\ handle' = b /\ heap' = [heap EXCEPT ![b] = HandleBlock]
        /\ UNCHANGED <<db, sections, client>>
        /\ todo' = {<<s>> : s \in db.sections} \cup {e \in Entry : db.lines[e] # NULL}
    BY DEF New
  <1>2. db.sections \subseteq Section /\ db \in Keyfile
    BY DEF HInv, TypeOK, Keyfile
  <1>3. /\ todo' \subseteq {<<s>> : s \in Section} \cup Entry
        /\ {s \in Section : <<s>> \in todo'} = db.sections
        /\ todo' \cap Entry = {e \in Entry : db.lines[e] # NULL}
    BY <1>1, <1>2, EntryIs
  <1>4. n \in Nat /\ m \in Nat
    BY <1>3, TodoIsFinite
  <1>5. Cardinality(Available) >= 1 + 2 * n + m
    BY <1>3 DEF New, Room
  <1>6. b \in Block /\ heap[b] = Free /\ Cardinality(Available) \in Nat
    <2>1. Available \in SUBSET Block
      BY DEF Available
    <2>2. Cardinality(Available) \in Nat
      BY <2>1, RoomFor
    <2>3. Available # {}
      BY <1>4, <1>5, <2>1, <2>2, RoomFor
    <2>4. b \in Available
      BY <2>1, <2>3, MallocIsFresh
    <2> QED
      BY <2>2, <2>4 DEF Available
  <1>7. Sound(heap, NULL, sections, HandedOut) /\ \A s \in Section : sections[s] = NULL
    BY <1>1 DEF HInv, Phases
  <1> HIDE DEF b, n, m
  <1>8. /\ heap' \in Heap /\ heap'[b] = HandleBlock
        /\ \A c \in Block \ {b} : heap'[c] = heap[c]
    BY <1>1, <1>6, <1>7 DEF Sound, Heap
  <1>9. /\ Sound(heap', b, sections, HandedOut)
        /\ StandFor(heap', sections).sections = {}
        /\ \A e \in Entry : StandFor(heap', sections).lines[e] = NULL
        /\ \A c \in HandedOut : heap'[c] = heap[c]
        /\ Cardinality(AvailableIn(heap')) = Cardinality(AvailableIn(heap)) - 1
    BY <1>6, <1>7, <1>8, BegunIsSound
  <1>10. TypeOK' /\ Sound(heap, handle, sections, HandedOut)' /\ GivenOnce'
    BY <1>1, <1>2, <1>3, <1>9, LibraryStep
  <1>11. Loading'
    <2>1. todo' \subseteq {<<s>> : s \in db'.sections} \cup {e \in Entry : db'.lines[e] # NULL}
      BY <1>1
    <2>2. Contents'.sections = {s \in db'.sections : <<s>> \notin todo'}
      BY <1>1, <1>9, ContentsIs
    <2>3. \A e \in Entry : Contents'.lines[e] = IF e \in todo' THEN NULL ELSE db'.lines[e]
      BY <1>1, <1>9, ContentsIs
    <2>4. Cardinality(Available') >= 2 * n + m
      BY <1>4, <1>5, <1>6, <1>9, ContentsIs
    <2> QED
      BY <2>1, <2>2, <2>3, <2>4 DEF Loading, Room, n, m
  <1>12. Phases' /\ ListingHasRoom' /\ ListingIsComplete'
    BY <1>1 DEF Phases, ListingHasRoom, ListingIsComplete
  <1> QED
    BY <1>9, <1>10, <1>11, <1>12 DEF HInv

(* A step of the loop of keyfile_open, which comes nearer to its end.      *)
LEMMA LoadSectionActs ==
  ASSUME HInv, NEW s \in Section, LoadSection(s)
  PROVE  HInv' /\ \A b \in HandedOut : heap'[b] = heap[b]
  <1> DEFINE C == {t \in Section : <<t>> \in todo}
             D == todo \cap Entry
             n == 2 * (Cardinality(C) - 1) + Cardinality(D)
  <1>1. /\ pc = "loading" /\ pc' = pc /\ handle' = handle
        /\ <<s>> \in todo /\ todo' = todo \ {<<s>>}
        /\ heap' = WithSection(s).heap /\ sections' = WithSection(s).sections
        /\ UNCHANGED <<db, client>>
    BY DEF LoadSection
  <1>2. /\ todo \subseteq {<<t>> : t \in db.sections} \cup {e \in Entry : db.lines[e] # NULL}
        /\ Contents.sections = {t \in db.sections : <<t>> \notin todo}
        /\ \A e \in Entry : Contents.lines[e] = IF e \in todo THEN NULL ELSE db.lines[e]
        /\ Room(2 * Cardinality(C) + Cardinality(D))
    BY <1>1 DEF HInv, Loading
  <1>3. db \in Keyfile /\ db.sections \subseteq Section /\ todo \subseteq {<<t>> : t \in Section} \cup Entry
    BY DEF HInv, TypeOK, Keyfile
  <1>4. /\ {t \in Section : <<t>> \in todo'} = C \ {s}
        /\ todo' \cap Entry = D
        /\ s \in C /\ s \in db.sections
    BY <1>1, <1>2, <1>3, EntryIs
  <1> HIDE DEF C, D
  <1>5. /\ Cardinality(C) \in Nat /\ Cardinality(C) >= 1 /\ Cardinality(D) \in Nat
        /\ Cardinality(C \ {s}) = Cardinality(C) - 1
    <2>1. IsFiniteSet(C) /\ Cardinality(C) \in Nat /\ Cardinality(D) \in Nat
      BY TodoIsFinite DEF C, D
    <2>2. Cardinality(C) # 0
      BY <1>4, <2>1, FS_EmptySet
    <2>3. Cardinality(C \ {s}) = Cardinality(C) - 1
      BY <1>4, <2>1, FS_RemoveElement
    <2> QED
      BY <2>1, <2>2, <2>3
  <1>6. /\ n \in Nat /\ Room(n + 2) /\ Room(2)
        /\ n = 2 * Cardinality(C \ {s}) + Cardinality(D)
    <2>1. Cardinality(Available) \in Nat
      BY RoomFor DEF Available
    <2> QED
      BY <1>2, <1>5, <2>1 DEF Room
  <1> HIDE DEF n
  <1>7. /\ Sound(heap', handle, sections', HandedOut)
        /\ StandFor(heap', sections') = CreateSection(StandFor(heap, sections), s)
        /\ \A b \in Block : heap[b] # Free => heap'[b] = heap[b]
        /\ Cardinality(AvailableIn(heap')) >= n
    BY <1>1, <1>6, WithSectionIsSound DEF HInv
  <1>8. TypeOK' /\ Sound(heap, handle, sections, HandedOut)' /\ GivenOnce'
    BY <1>1, <1>3, <1>7, LibraryStep
  <1>9. Loading'
    <2>1. Contents' = CreateSection(Contents, s)
      BY <1>7, ContentsIs
    <2>2. Contents \in Keyfile
      BY SoundKeyfile, ContentsIs DEF HInv
    <2>3. Contents'.sections = Contents.sections \cup {s} /\ Contents'.lines = Contents.lines
      BY <2>1, <2>2 DEF CreateSection, Keyfile
    <2>4. todo' \subseteq {<<t>> : t \in db'.sections} \cup {e \in Entry : db'.lines[e] # NULL}
      BY <1>1, <1>2
    <2>5. Contents'.sections = {t \in db'.sections : <<t>> \notin todo'}
      BY <1>1, <1>2, <1>4, <2>3
    <2>6. \A e \in Entry : Contents'.lines[e] = IF e \in todo' THEN NULL ELSE db'.lines[e]
      BY <1>1, <1>2, <2>3, EntryIs
    <2>7. Room(2 * Cardinality({t \in Section : <<t>> \in todo}) + Cardinality(todo \cap Entry))'
      BY <1>4, <1>6, <1>7, ContentsIs DEF Room
    <2> QED
      BY <2>4, <2>5, <2>6, <2>7 DEF Loading
  <1>10. Phases' /\ ListingHasRoom' /\ ListingIsComplete'
    BY <1>1 DEF Phases, ListingHasRoom, ListingIsComplete
  <1>11. \A b \in HandedOut : heap'[b] = heap[b]
    BY <1>7 DEF HInv, Sound
  <1> QED
    BY <1>8, <1>9, <1>10, <1>11 DEF HInv

LEMMA LoadLineActs ==
  ASSUME HInv, NEW e \in Entry, LoadLine(e)
  PROVE  HInv' /\ \A b \in HandedOut : heap'[b] = heap[b]
  <1> DEFINE C == {t \in Section : <<t>> \in todo}
             D == todo \cap Entry
             n == 2 * Cardinality(C) + (Cardinality(D) - 1)
             s == e[1]
             k == e[2]
             v == db.lines[e]
  <1>1. /\ pc = "loading" /\ pc' = pc /\ handle' = handle /\ sections' = sections
        /\ e \in todo /\ todo' = todo \ {e} /\ sections[s] # NULL
        /\ heap' = WithLine(heap, sections[s], k, v)
        /\ UNCHANGED <<db, client>>
    BY DEF LoadLine, store
  <1>2. /\ todo \subseteq {<<t>> : t \in db.sections} \cup {f \in Entry : db.lines[f] # NULL}
        /\ Contents.sections = {t \in db.sections : <<t>> \notin todo}
        /\ \A f \in Entry : Contents.lines[f] = IF f \in todo THEN NULL ELSE db.lines[f]
        /\ Room(2 * Cardinality(C) + Cardinality(D))
    BY <1>1 DEF HInv, Loading
  <1>3. db \in Keyfile /\ todo \subseteq {<<t>> : t \in Section} \cup Entry
    BY DEF HInv, TypeOK
  <1>4. /\ {t \in Section : <<t>> \in todo'} = C
        /\ todo' \cap Entry = D \ {e}
        /\ s \in Section /\ k \in Key /\ e = <<s, k>>
        /\ e \in D
    BY <1>1, EntryIs
  <1>5. v \in Val
    BY <1>1, <1>2, <1>3, EntryIs DEF Keyfile
  <1> HIDE DEF C, D
  <1>6. /\ Cardinality(C) \in Nat /\ Cardinality(D) \in Nat /\ Cardinality(D) >= 1
        /\ Cardinality(D \ {e}) = Cardinality(D) - 1
    <2>1. IsFiniteSet(D) /\ Cardinality(C) \in Nat /\ Cardinality(D) \in Nat
      BY TodoIsFinite DEF C, D
    <2>2. Cardinality(D) # 0
      BY <1>4, <2>1, FS_EmptySet
    <2>3. Cardinality(D \ {e}) = Cardinality(D) - 1
      BY <1>4, <2>1, FS_RemoveElement
    <2> QED
      BY <2>1, <2>2, <2>3
  <1>7. /\ n = 2 * Cardinality(C) + Cardinality(D \ {e})
        /\ n \in Nat /\ Cardinality(Available) >= n + 1 /\ Available # {}
    <2>1. Cardinality(Available) \in Nat /\ Available \in SUBSET Block
      BY RoomFor DEF Available
    <2>2. n \in Nat /\ Cardinality(Available) >= n + 1
      BY <1>2, <1>6, <2>1 DEF Room
    <2> QED
      BY <1>6, <2>1, <2>2, RoomFor
  <1>8. Contents \in Keyfile /\ LineAt(heap, sections, <<s, k>>) = NULL
    <2>1. Contents.lines[e] = NULL
      BY <1>1, <1>2
    <2> QED
      BY <1>4, <2>1, SoundKeyfile, ContentsIs DEF HInv
  <1> HIDE DEF n, s, k, v
  <1>9. /\ Sound(heap', handle, sections, HandedOut)
        /\ StandFor(heap', sections) = PatriciaAdd(StandFor(heap, sections), s, k, v)
        /\ \A c \in HandedOut : heap'[c] = heap[c]
        /\ Cardinality(AvailableIn(heap')) = Cardinality(AvailableIn(heap)) - 1
    BY <1>1, <1>4, <1>5, <1>7, <1>8, WithLineIsSound, ContentsIs DEF HInv
  <1>10. TypeOK' /\ Sound(heap, handle, sections, HandedOut)' /\ GivenOnce'
    BY <1>1, <1>3, <1>9, LibraryStep
  <1>11. Loading'
    <2>1. Contents' = PatriciaAdd(Contents, s, k, v) /\ Contents.lines[e] = NULL
      BY <1>1, <1>2, <1>9, ContentsIs
    <2>2. Contents'.sections = Contents.sections /\ Contents'.lines = [Contents.lines EXCEPT ![e] = v]
      BY <1>4, <1>8, <2>1 DEF PatriciaAdd, Keyfile
    <2>3. todo' \subseteq {<<t>> : t \in db'.sections} \cup {f \in Entry : db'.lines[f] # NULL}
      BY <1>1, <1>2
    <2>4. Contents'.sections = {t \in db'.sections : <<t>> \notin todo'}
      <3>1. \A t : <<t>> # e
        BY EntryIs
      <3> QED
        BY <1>1, <1>2, <2>2, <3>1
    <2>5. \A f \in Entry : Contents'.lines[f] = IF f \in todo' THEN NULL ELSE db'.lines[f]
      BY <1>1, <1>2, <1>8, <2>2 DEF Keyfile, v
    <2>6. Room(2 * Cardinality({t \in Section : <<t>> \in todo}) + Cardinality(todo \cap Entry))'
      <3>1. Cardinality(Available) \in Nat
        BY RoomFor DEF Available
      <3>2. Cardinality(AvailableIn(heap')) >= n
        BY <1>7, <1>9, <3>1, ContentsIs
      <3> QED
        BY <1>4, <1>7, <3>2, ContentsIs DEF Room
    <2> QED
      BY <2>3, <2>4, <2>5, <2>6 DEF Loading
  <1>12. Phases' /\ ListingHasRoom' /\ ListingIsComplete'
    BY <1>1 DEF Phases, ListingHasRoom, ListingIsComplete
  <1> QED
    BY <1>9, <1>10, <1>11, <1>12 DEF HInv

(* At the end of it the handle is what the file holds.                     *)
LEMMA LoopEndsActs ==
  ASSUME HInv, LoopEnds
  PROVE  HInv' /\ (pc = "loading" => Contents' = db)
  <1>1. /\ todo = {} /\ todo' = {} /\ pc' = "open"
        /\ UNCHANGED <<db, heap, handle, sections, client>>
    BY DEF LoopEnds, store
  <1>2. TypeOK' /\ Sound(heap, handle, sections, HandedOut)' /\ GivenOnce'
    BY <1>1, LibraryStep DEF HInv, TypeOK
  <1>3. Phases' /\ Loading' /\ ListingHasRoom' /\ ListingIsComplete'
    BY <1>1 DEF Phases, Loading, ListingHasRoom, ListingIsComplete
  <1>4. ASSUME pc = "loading" PROVE Contents' = db
    <2>1. Contents' = Contents
      BY <1>1, ContentsIs
    <2>2. /\ Contents.sections = db.sections
          /\ \A e \in Entry : Contents.lines[e] = db.lines[e]
      BY <1>1, <1>4 DEF HInv, Loading, TypeOK, Keyfile
    <2>3. Contents \in Keyfile /\ db \in Keyfile
      BY SoundKeyfile, ContentsIs DEF HInv, TypeOK
    <2> QED
      BY <2>1, <2>2, <2>3, SameKeyfile
  <1> QED
    BY <1>2, <1>3, <1>4 DEF HInv

(* mcs_set_string: the section is made, the old value is freed, and the    *)
(* new one added.                                                          *)
LEMMA SetActs ==
  ASSUME HInv, NEW s \in Section, NEW k \in Key, NEW v \in Val, Set(s, k, v)
  PROVE  /\ Sound(heap', handle, sections', HandedOut)
         /\ Contents' = SetString(Contents, s, k, v)
         /\ \A b \in HandedOut : heap'[b] = heap[b]
  <1> DEFINE h1 == WithSection(s).heap
             s1 == WithSection(s).sections
             h2 == WithoutLine(h1, s1[s], k)
             h3 == WithLine(h2, s1[s], k, v)
  <1>1. heap' = h3 /\ sections' = s1 /\ Room(3)
    BY DEF Set
  <1>2. Sound(heap, handle, sections, HandedOut)
    BY DEF HInv
  <1>3. Room(2) /\ Room(1 + 2)
    <2>1. Cardinality(Available) \in Nat
      BY RoomFor DEF Available
    <2> QED
      BY <1>1, <2>1 DEF Room
  <1>4. /\ Sound(h1, handle, s1, HandedOut)
        /\ s1[s] # NULL
        /\ StandFor(h1, s1) = CreateSection(StandFor(heap, sections), s)
        /\ \A b \in Block : heap[b] # Free => h1[b] = heap[b]
        /\ Cardinality(AvailableIn(h1)) >= 1
    BY <1>2, <1>3, WithSectionIsSound
  <1> HIDE DEF h1, s1
  <1>5. /\ Sound(h2, handle, s1, HandedOut)
        /\ LineAt(h2, s1, <<s, k>>) = NULL
        /\ StandFor(h2, s1) = PatriciaDelete(StandFor(h1, s1), s, k)
        /\ \A b \in HandedOut : h2[b] = h1[b]
        /\ AvailableIn(h1) \subseteq AvailableIn(h2)
    BY <1>4, WithoutLineIsSound
  <1>6. AvailableIn(h2) # {}
    <2>1. AvailableIn(h1) # {}
      BY <1>4, RoomFor DEF AvailableIn
    <2> QED
      BY <1>5, <2>1
  <1> HIDE DEF h2
  <1>7. /\ Sound(h3, handle, s1, HandedOut)
        /\ StandFor(h3, s1) = PatriciaAdd(StandFor(h2, s1), s, k, v)
        /\ \A b \in HandedOut : h3[b] = h2[b]
    BY <1>4, <1>5, <1>6, WithLineIsSound
  <1> HIDE DEF h3
  <1>8. Contents' = SetString(Contents, s, k, v)
    BY <1>1, <1>4, <1>5, <1>7, ContentsIs DEF SetString
  <1>9. \A b \in HandedOut : heap'[b] = heap[b]
    <2>1. \A b \in HandedOut : b \in Block /\ heap[b] # Free
      BY <1>2 DEF Sound
    <2> QED
      BY <1>1, <1>4, <1>5, <1>7, <2>1
  <1> QED
    BY <1>1, <1>7, <1>8, <1>9

LEMMA UnsetActs ==
  ASSUME HInv, NEW s \in Section, NEW k \in Key, Unset(s, k)
  PROVE  /\ Sound(heap', handle, sections, HandedOut)
         /\ Contents' = UnsetKey(Contents, s, k)
         /\ \A b \in HandedOut : heap'[b] = heap[b]
  <1>1. /\ sections[s] # NULL /\ heap' = WithoutLine(heap, sections[s], k)
        /\ sections' = sections
    BY DEF Unset, store
  <1>2. /\ Sound(heap', handle, sections, HandedOut)
        /\ StandFor(heap', sections) = PatriciaDelete(StandFor(heap, sections), s, k)
        /\ \A b \in HandedOut : heap'[b] = heap[b]
    <2> DEFINE hp == heap
               hd == handle
               secs == sections
               out == HandedOut
               h2 == WithoutLine(hp, secs[s], k)
    <2>1. Sound(hp, hd, secs, out) /\ secs[s] # NULL
      BY <1>1 DEF HInv
    <2>2. heap' = h2
      BY <1>1
    <2> HIDE DEF hp, hd, secs, out
    <2>3. /\ Sound(h2, hd, secs, out)
          /\ LineAt(h2, secs, <<s, k>>) = NULL
          /\ StandFor(h2, secs) = PatriciaDelete(StandFor(hp, secs), s, k)
          /\ \A b \in out : h2[b] = hp[b]
          /\ AvailableIn(hp) \subseteq AvailableIn(h2)
      BY <2>1, WithoutLineIsSound
    <2> HIDE DEF h2
    <2> QED
      BY <2>2, <2>3 DEF hp, hd, secs, out
  <1>3. s \in Contents.sections
    BY <1>1, SoundKeyfile, ContentsIs DEF HInv
  <1> QED
    BY <1>1, <1>2, <1>3, ContentsIs DEF UnsetKey

LEMMA DestroyActs ==
  ASSUME HInv, Destroy
  PROVE  /\ Sound(heap', handle', sections', HandedOut)
         /\ \A b \in HandedOut : heap'[b] = heap[b]
         /\ db' \in Keyfile
  <1>1. /\ handle' = NULL /\ sections' = [s \in Section |-> NULL]
        /\ db' \in {db, Contents}
        /\ heap' = [b \in Block |->
                      IF \/ b = handle
                         \/ b \in Range(sections)
                         \/ \E s \in Contents.sections : b = heap[sections[s]].name
                         \/ \E e \in Entry : b = LineOf(e)
                      THEN Free ELSE heap[b]]
    BY DEF Destroy
  <1>2. Sound(heap, handle, sections, HandedOut)
    BY DEF HInv
  <1>3. \A b \in Block :
          heap'[b] = IF \E x : Leads(x, b, heap, handle, sections) THEN Free ELSE heap[b]
    <2> TAKE b \in Block
    <2> DEFINE hit == \/ b = handle
                      \/ b \in Range(sections)
                      \/ \E s \in Contents.sections : b = heap[sections[s]].name
                      \/ \E e \in Entry : b = LineOf(e)
    <2>1. heap'[b] = IF hit THEN Free ELSE heap[b]
      BY <1>1
    <2>2. hit <=> \E x : Leads(x, b, heap, handle, sections)
      BY <1>2, LeadsIs, ContentsIs
    <2> HIDE DEF hit
    <2> QED
      BY <2>1, <2>2
  <1>4. heap' \in Heap
    <2>1. heap \in Heap
      BY <1>2 DEF Sound
    <2>2. \A b \in Block : heap'[b] \in {Free, HandleBlock} \cup Strings \cup SectionBlocks
      BY <1>3, <2>1 DEF Heap
    <2>3. heap' = [b \in Block |-> heap'[b]]
      BY <1>1, Zenon
    <2> QED
      BY <2>2, <2>3 DEF Heap
  <1>5. db' \in Keyfile
    BY <1>1, <1>2, SoundKeyfile, ContentsIs DEF HInv, TypeOK
  <1>6. sections' \in [Section -> {NULL}]
    BY <1>1
  <1>7. Sound(heap', NULL, sections', HandedOut) /\ \A b \in HandedOut : heap'[b] = heap[b]
    <2> DEFINE hp == heap
               hd == handle
               secs == sections
               out == HandedOut
               h2 == heap'
               s2 == sections'
    <2>1. /\ Sound(hp, hd, secs, out) /\ h2 \in Heap /\ s2 \in [Section -> {NULL}]
          /\ \A b \in Block : h2[b] = IF \E x : Leads(x, b, hp, hd, secs) THEN Free ELSE hp[b]
      BY <1>2, <1>3, <1>4, <1>6
    <2> HIDE DEF hp, hd, secs, out, h2, s2
    <2>2. Sound(h2, NULL, s2, out) /\ \A b \in out : h2[b] = hp[b]
      BY <2>1, DestroyedIsSound
    <2> QED
      BY <2>2 DEF hp, out, h2, s2
  <1> QED
    BY <1>1, <1>5, <1>7

(* Between the loops only the blocks are at stake.                         *)
LEMMA CallsKeep ==
  ASSUME HInv,
         \/ Destroy
         \/ \E s \in Section, k \in Key : Unset(s, k) \/ \E v \in Val : Set(s, k, v)
  PROVE  HInv'
  <1>1. /\ Sound(heap', handle', sections', HandedOut)
        /\ db' \in Keyfile
    BY SetActs, UnsetActs, DestroyActs DEF HInv, TypeOK, Set, Unset, store
  <1>2. /\ pc = "open" /\ pc' \in {"open", "closed"}
        /\ pc' = "closed" => handle' = NULL /\ sections' = [s \in Section |-> NULL]
        /\ UNCHANGED <<todo, client>>
    BY DEF Set, Unset, Destroy
  <1>3. TypeOK' /\ Sound(heap, handle, sections, HandedOut)' /\ GivenOnce'
    BY <1>1, <1>2, LibraryStep DEF HInv, TypeOK
  <1>4. Phases'
    BY <1>2 DEF HInv, Phases
  <1>5. Loading' /\ ListingHasRoom' /\ ListingIsComplete'
    BY <1>2 DEF Loading, ListingHasRoom, ListingIsComplete
  <1> QED
    BY <1>3, <1>4, <1>5 DEF HInv

-----------------------------------------------------------------------------
(* A step of the caller's side leaves the handle alone.                    *)
LEMMA CallerStep ==
  ASSUME HInv, UNCHANGED <<db, store>>, Sound(heap', handle, sections, HandedOut'),
         foo' \in Block \cup {NULL}, groups' \in Seq(Block), keys' \in Seq(Block),
         Apart(foo', groups', keys'),
         pc' \in {"closed", "loading", "open", "sections", "keys"},
         todo' \subseteq {<<s>> : s \in Section} \cup Entry
  PROVE  TypeOK' /\ Sound(heap, handle, sections, HandedOut)' /\ GivenOnce'
  <1>1. db' = db /\ handle' = handle /\ sections' = sections
    BY DEF store
  <1>2. TypeOK'
    BY <1>1 DEF HInv, TypeOK, Sound, Strings, SectionBlocks, Heap
  <1>3. GivenOnce'
    BY ApartAre DEF GivenOnce, Given
  <1> QED
    BY <1>1, <1>2, <1>3

LEMMA HeldApart ==
  ASSUME HInv
  PROVE  /\ Apart(foo, groups, keys)
         /\ foo \in Block \cup {NULL} /\ groups \in Seq(Block) /\ keys \in Seq(Block)
         /\ pc \in {"closed", "loading", "open", "sections", "keys"}
         /\ todo \subseteq {<<s>> : s \in Section} \cup Entry
  BY ApartAre DEF HInv, TypeOK, GivenOnce, Given

(* strdup: a block that was free is the caller's.                          *)
LEMMA Strduped ==
  ASSUME HInv, NEW n \in Nat, n >= 1, Room(n), NEW b, b = Malloc(Available),
         NEW c \in Strings, heap' = [heap EXCEPT ![b] = c]
  PROVE  /\ b \in Block \ HandedOut
         /\ heap'[b] = c /\ \A d \in Block \ {b} : heap'[d] = heap[d]
         /\ Sound(heap', handle, sections, HandedOut \cup {b})
         /\ StandFor(heap', sections) = StandFor(heap, sections)
         /\ \A e \in Entry : LineAt(heap', sections, e) = LineAt(heap, sections, e)
         /\ Cardinality(AvailableIn(heap')) \in Nat
         /\ Cardinality(AvailableIn(heap')) >= n - 1
  <1>1. Available \in SUBSET Block /\ Cardinality(Available) \in Nat /\ Available # {}
    BY RoomFor DEF Available, Room
  <1>2. b \in Block /\ heap[b] = Free
    <2>1. b \in Available
      BY <1>1, MallocIsFresh
    <2> QED
      BY <2>1 DEF Available
  <1>3. Sound(heap, handle, sections, HandedOut)
    BY DEF HInv
  <1>4. /\ heap' \in Heap /\ heap'[b] = c
        /\ \A d \in Block \ {b} : heap'[d] = heap[d]
    BY <1>2, <1>3 DEF Sound, Heap
  <1> DEFINE hp == heap
             hd == handle
             secs == sections
             out == HandedOut
             h2 == heap'
  <1>5. /\ Sound(hp, hd, secs, out) /\ hp[b] = Free /\ h2 \in Heap /\ h2[b] = c
        /\ \A d \in Block \ {b} : h2[d] = hp[d]
    BY <1>2, <1>3, <1>4
  <1> HIDE DEF hp, hd, secs, out, h2
  <1>6. /\ Sound(h2, hd, secs, out \cup {b})
        /\ StandFor(h2, secs) = StandFor(hp, secs)
        /\ \A e \in Entry : LineAt(h2, secs, e) = LineAt(hp, secs, e)
        /\ b \notin out
        /\ Cardinality(AvailableIn(h2)) = Cardinality(AvailableIn(hp)) - 1
    BY <1>2, <1>5, HandOutIsSound
  <1>7. Cardinality(Available) >= n /\ Available = AvailableIn(heap)
    BY ContentsIs DEF Room
  <1>8. AvailableIn(heap') \in SUBSET Block
    BY DEF AvailableIn
  <1>9. Cardinality(AvailableIn(heap')) \in Nat
    BY <1>8, RoomFor
  <1>10. Cardinality(AvailableIn(heap')) >= n - 1
    BY <1>1, <1>6, <1>7 DEF hp, h2
  <1> QED
    BY <1>2, <1>4, <1>6, <1>9, <1>10 DEF hp, hd, secs, out, h2

(* mcs_get_string hands out a copy of what is there.                       *)
LEMMA GetActs ==
  ASSUME HInv, NEW s \in Section, NEW k \in Key, Get(s, k)
  PROVE  /\ HInv'
         /\ Contents' = Contents
         /\ heap'[foo'].text = GetString(Contents, s, k)
         /\ \A b \in HandedOut : heap'[b] = heap[b]
  <1> DEFINE e == <<s, k>>
             c == heap[LineOf(e)]
  <1>1. /\ pc = "open" /\ pc' = pc /\ todo' = todo /\ foo = NULL /\ LineOf(e) # NULL /\ Room(1)
        /\ foo' = Malloc(Available) /\ heap' = [heap EXCEPT ![foo'] = c]
        /\ UNCHANGED <<db, store, groups, keys>>
    BY DEF Get
  <1>2. e \in Entry
    BY EntryIs
  <1>3. c \in Strings
    BY <1>1, <1>2, ContentsIs DEF HInv, Sound, Strings
  <1> DEFINE n == 1
             b == foo'
  <1>4. n \in Nat /\ n >= 1 /\ Room(n) /\ b = Malloc(Available) /\ heap' = [heap EXCEPT ![b] = c]
    BY <1>1
  <1> HIDE DEF c, n, b
  <1>5. /\ b \in Block \ HandedOut
        /\ heap'[b] = c /\ \A d \in Block \ {b} : heap'[d] = heap[d]
        /\ Sound(heap', handle, sections, HandedOut \cup {b})
        /\ StandFor(heap', sections) = StandFor(heap, sections)
        /\ \A f \in Entry : LineAt(heap', sections, f) = LineAt(heap, sections, f)
        /\ Cardinality(AvailableIn(heap')) \in Nat
        /\ Cardinality(AvailableIn(heap')) >= n - 1
    BY <1>3, <1>4, Strduped
  <1> USE DEF b
  <1>6. HandedOut' = HandedOut \cup {foo'}
    BY <1>1, <1>5, NullIsNoBlock DEF HandedOut
  <1>7. Apart(foo', groups', keys')
    BY <1>1, <1>5, HeldApart DEF Apart, HandedOut, Range
  <1>8. TypeOK' /\ Sound(heap, handle, sections, HandedOut)' /\ GivenOnce'
    BY <1>1, <1>5, <1>6, <1>7, HeldApart, CallerStep
  <1>9. Phases' /\ Loading' /\ ListingHasRoom' /\ ListingIsComplete'
    BY <1>1 DEF HInv, Phases, Loading, ListingHasRoom, ListingIsComplete, store
  <1>10. Contents' = Contents
    BY <1>1, <1>5, ContentsIs DEF store
  <1>11. heap'[foo'].text = GetString(Contents, s, k)
    <2>1. Contents.lines[e] = c.text
      BY <1>1, <1>2 DEF Contents, c
    <2>2. s \in Contents.sections
      BY <1>1, EntryIs DEF Contents, LineOf
    <2> QED
      BY <1>5, <2>1, <2>2 DEF GetString
  <1>12. \A d \in HandedOut : heap'[d] = heap[d]
    BY <1>5, HandedOutIs DEF HInv
  <1> QED
    BY <1>8, <1>9, <1>10, <1>11, <1>12 DEF HInv

(* free() of what the caller holds in one place; its other blocks stay.    *)
LEMMA TakenBack ==
  ASSUME HInv, NEW back \in SUBSET HandedOut,
         heap' \in Heap, \A b \in Block : heap'[b] = IF b \in back THEN Free ELSE heap[b]
  PROVE  /\ Sound(heap', handle, sections, HandedOut \ back)
         /\ StandFor(heap', sections) = StandFor(heap, sections)
         /\ \A b \in HandedOut \ back : heap'[b] = heap[b]
  <1> DEFINE hp == heap
             hd == handle
             secs == sections
             out == HandedOut
             h2 == heap'
  <1> DEFINE keep == HandedOut \ back
  <1>1. /\ Sound(hp, hd, secs, out) /\ h2 \in Heap /\ \A b \in keep : b \in out
        /\ \A b \in Block : h2[b] = IF b \in out \ keep THEN Free ELSE hp[b]
    BY DEF HInv
  <1> HIDE DEF hp, hd, secs, out, h2, keep
  <1>2. /\ Sound(h2, hd, secs, keep)
        /\ StandFor(h2, secs) = StandFor(hp, secs)
    BY <1>1, TakeBackIsSound
  <1>3. \A b \in keep : h2[b] = hp[b]
    BY <1>1 DEF Sound
  <1> QED
    BY <1>2, <1>3 DEF hp, hd, secs, out, h2, keep

(* The caller's frees come between two calls, where no loop is under way.  *)
LEMMA FreedKeeps ==
  ASSUME HInv, pc \in {"open", "closed"}, UNCHANGED <<db, store, pc, todo>>,
         NEW back \in SUBSET HandedOut, HandedOut' = HandedOut \ back,
         heap' \in Heap, \A b \in Block : heap'[b] = IF b \in back THEN Free ELSE heap[b],
         foo' \in Block \cup {NULL}, groups' \in Seq(Block), keys' \in Seq(Block),
         Apart(foo', groups', keys')
  PROVE  /\ HInv'
         /\ Contents' = Contents
         /\ \A b \in HandedOut \cap HandedOut' : heap'[b] = heap[b]
  <1>1. /\ Sound(heap', handle, sections, HandedOut')
        /\ StandFor(heap', sections) = StandFor(heap, sections)
        /\ \A b \in HandedOut \cap HandedOut' : heap'[b] = heap[b]
    BY TakenBack
  <1>2. TypeOK' /\ Sound(heap, handle, sections, HandedOut)' /\ GivenOnce'
    BY <1>1, HeldApart, CallerStep
  <1>3. Phases' /\ Loading' /\ ListingHasRoom' /\ ListingIsComplete'
    BY DEF HInv, Phases, Loading, ListingHasRoom, ListingIsComplete, store
  <1>4. Contents' = Contents
    BY <1>1, ContentsIs DEF store
  <1> QED
    BY <1>1, <1>2, <1>3, <1>4 DEF HInv

LEMMA FreeFooActs ==
  ASSUME HInv, FreeFoo
  PROVE  HInv' /\ Contents' = Contents /\ \A b \in HandedOut \cap HandedOut' : heap'[b] = heap[b]
  <1>1. /\ pc \in {"open", "closed"} /\ UNCHANGED <<db, store, pc, todo, groups, keys>>
        /\ foo # NULL /\ foo' = NULL /\ heap' = [heap EXCEPT ![foo] = Free]
    BY DEF FreeFoo, Calling
  <1>2. /\ Apart(foo, groups, keys) /\ groups \in Seq(Block) /\ keys \in Seq(Block)
        /\ foo \in Block /\ heap \in Heap
    BY <1>1, HeldApart DEF HInv, Sound
  <1>3. /\ heap' \in Heap
        /\ \A b \in Block : heap'[b] = IF b \in {foo} THEN Free ELSE heap[b]
    BY <1>1, <1>2 DEF Heap
  <1>4. {foo} \in SUBSET HandedOut /\ HandedOut' = HandedOut \ {foo}
    BY <1>1, <1>2 DEF HandedOut, Range, Apart
  <1>5. Apart(foo', groups', keys')
    <2>1. \A i \in DOMAIN groups : groups[i] # NULL
      BY <1>2, NullIsNoBlock
    <2>2. \A i \in DOMAIN keys : keys[i] # NULL
      BY <1>2, NullIsNoBlock
    <2> QED
      BY <1>1, <1>2, <2>1, <2>2 DEF Apart
  <1> QED
    BY <1>1, <1>2, <1>3, <1>4, <1>5, FreedKeeps

LEMMA FreeGroupsActs ==
  ASSUME HInv, FreeGroups
  PROVE  HInv' /\ Contents' = Contents /\ \A b \in HandedOut \cap HandedOut' : heap'[b] = heap[b]
  <1>1. /\ pc \in {"open", "closed"} /\ UNCHANGED <<db, store, pc, todo, foo, keys>>
        /\ groups' = <<>>
        /\ heap' = [b \in Block |-> IF b \in Range(groups) THEN Free ELSE heap[b]]
    BY DEF FreeGroups, Calling
  <1>2. /\ Apart(foo, groups, keys) /\ groups \in Seq(Block) /\ keys \in Seq(Block)
        /\ foo \in Block \cup {NULL} /\ heap \in Heap
    BY <1>1, HeldApart DEF HInv, Sound
  <1>3. \A b \in Block : heap'[b] = IF b \in Range(groups) THEN Free ELSE heap[b]
    BY <1>1
  <1>4. heap' \in Heap
    BY <1>1, <1>2 DEF Heap
  <1>5. Range(groups) \in SUBSET HandedOut /\ HandedOut' = HandedOut \ Range(groups)
    <2>1. Range(groups') = {}
      BY <1>1 DEF Range
    <2>2. Range(groups) \cap (({foo} \ {NULL}) \cup Range(keys)) = {}
      BY <1>2 DEF Range, Apart
    <2> QED
      BY <1>1, <2>1, <2>2 DEF HandedOut
  <1>6. Apart(foo', groups', keys') /\ groups' \in Seq(Block)
    BY <1>1, <1>2 DEF Apart
  <1> QED
    BY <1>1, <1>2, <1>3, <1>4, <1>5, <1>6, FreedKeeps

LEMMA FreeKeysActs ==
  ASSUME HInv, FreeKeys
  PROVE  HInv' /\ Contents' = Contents /\ \A b \in HandedOut \cap HandedOut' : heap'[b] = heap[b]
  <1>1. /\ pc \in {"open", "closed"} /\ UNCHANGED <<db, store, pc, todo, foo, groups>>
        /\ keys' = <<>>
        /\ heap' = [b \in Block |-> IF b \in Range(keys) THEN Free ELSE heap[b]]
    BY DEF FreeKeys, Calling
  <1>2. /\ Apart(foo, groups, keys) /\ groups \in Seq(Block) /\ keys \in Seq(Block)
        /\ foo \in Block \cup {NULL} /\ heap \in Heap
    BY <1>1, HeldApart DEF HInv, Sound
  <1>3. \A b \in Block : heap'[b] = IF b \in Range(keys) THEN Free ELSE heap[b]
    BY <1>1
  <1>4. heap' \in Heap
    BY <1>1, <1>2 DEF Heap
  <1>5. Range(keys) \in SUBSET HandedOut /\ HandedOut' = HandedOut \ Range(keys)
    <2>1. Range(keys') = {}
      BY <1>1 DEF Range
    <2>2. Range(keys) \cap (({foo} \ {NULL}) \cup Range(groups)) = {}
      BY <1>2 DEF Range, Apart
    <2> QED
      BY <1>1, <2>1, <2>2 DEF HandedOut
  <1>6. Apart(foo', groups', keys') /\ keys' \in Seq(Block)
    BY <1>1, <1>2 DEF Apart
  <1> QED
    BY <1>1, <1>2, <1>3, <1>4, <1>5, <1>6, FreedKeeps

-----------------------------------------------------------------------------
(* A listing begins with every name to visit, and none in the queue.       *)
LEMMA GetSectionsKeeps ==
  ASSUME HInv, GetSections
  PROVE  HInv'
  <1>1. /\ pc = "open" /\ pc' = "sections" /\ groups = <<>> /\ groups' = <<>>
        /\ todo' = {<<s>> : s \in Contents.sections} /\ Room(Cardinality(todo'))
        /\ UNCHANGED <<db, heap, handle, sections, client>>
    BY DEF GetSections, client, store
  <1>2. Contents.sections \in SUBSET Section
    BY DEF Contents
  <1>3. TypeOK' /\ Sound(heap, handle, sections, HandedOut)' /\ GivenOnce'
    BY <1>1, <1>2, LibraryStep DEF HInv, TypeOK
  <1>4. Contents' = Contents /\ Available' = Available
    BY <1>1, ContentsIs
  <1>5. ListingHasRoom'
    BY <1>1, <1>2, <1>4 DEF ListingHasRoom, Room
  <1>6. ListingIsComplete'
    <2>1. {heap'[groups'[i]].text : i \in DOMAIN groups'} = {} /\ Len(groups') = 0
      BY <1>1
    <2> DEFINE S == Contents.sections
    <2>2. todo' = {<<s>> : s \in S} /\ IsFiniteSet(S) /\ Cardinality(S) \in Nat
      BY <1>1, <1>2, TodoIsFinite
    <2> HIDE DEF S
    <2>3. Cardinality(todo') = Cardinality(S) /\ {x[1] : x \in todo'} = S
      BY <2>2, Singles
    <2>4. Names(groups)' = {}
      BY <2>1 DEF Names
    <2> QED
      BY <1>1, <1>4, <2>1, <2>2, <2>3, <2>4 DEF ListingIsComplete, S
  <1>7. Phases' /\ Loading'
    BY <1>1 DEF Phases, Loading
  <1> QED
    BY <1>3, <1>5, <1>6, <1>7 DEF HInv

LEMMA GetKeysKeeps ==
  ASSUME HInv, NEW s \in Section, GetKeys(s)
  PROVE  HInv'
  <1> DEFINE there == {e \in Entry : e[1] = s /\ LineOf(e) # NULL}
  <1>1. /\ pc = "open" /\ pc' = "keys" /\ keys = <<>> /\ keys' = <<>>
        /\ todo' = there /\ Room(Cardinality(todo'))
        /\ UNCHANGED <<db, heap, handle, sections, client>>
    BY DEF GetKeys, client, store
  <1>2. there \in SUBSET Entry
    OBVIOUS
  <1>3. TypeOK' /\ Sound(heap, handle, sections, HandedOut)' /\ GivenOnce'
    BY <1>1, <1>2, LibraryStep DEF HInv, TypeOK
  <1>4. Available' = Available /\ \A e : LineOf(e)' = LineOf(e)
    BY <1>1, ContentsIs
  <1>5. ListingHasRoom'
    BY <1>1, <1>2, <1>4 DEF ListingHasRoom, Room
  <1>6. ListingIsComplete'
    <2>1. {heap'[keys'[i]].text : i \in DOMAIN keys'} = {} /\ Len(keys') = 0
      BY <1>1
    <2>2. {e \in Entry : e[1] = s /\ LineOf(e)' # NULL} = todo'
      BY <1>1, <1>4
    <2>3. Cardinality(todo') \in Nat
      BY <1>1, <1>2, TodoIsFinite
    <2>4. Names(keys)' = {}
      BY <2>1 DEF Names
    <2> HIDE DEF there
    <2>5. /\ Names(keys)' \cup {x[2] : x \in todo'} = {e[2] : e \in todo'}
          /\ Len(keys') + Cardinality(todo') = Cardinality(todo')
      BY <2>1, <2>3, <2>4
    <2> QED
      BY <1>1, <2>2, <2>5 DEF ListingIsComplete
  <1>7. Phases' /\ Loading'
    BY <1>1 DEF Phases, Loading
  <1> QED
    BY <1>3, <1>5, <1>6, <1>7 DEF HInv

(* keyfile_collect_lines_cb takes one name from what is to be visited, and *)
(* puts a copy of it, b, at the head of the queue, which becomes longer.   *)
Collects(queue, x, name, b, longer) ==
  /\ pc \in {"sections", "keys"}
  /\ queue \in Seq(Block) /\ Range(queue) \subseteq HandedOut
  /\ x \in todo /\ todo' = todo \ {x}
  /\ name \in Section \cup Key
  /\ b = Malloc(Available)
  /\ heap' = [heap EXCEPT ![b] = String(name)]
  /\ longer = <<b>> \o queue

(* The heap stays sound with b handed out and with nothing else changed,   *)
(* and what is left to visit still has its room.                           *)
LEMMA Collected ==
  ASSUME HInv, NEW queue, NEW x, NEW name, NEW b, NEW longer, Collects(queue, x, name, b, longer)
  PROVE  /\ b \in Block \ HandedOut
         /\ Sound(heap', handle, sections, HandedOut \cup {b})
         /\ StandFor(heap', sections) = StandFor(heap, sections)
         /\ \A e \in Entry : LineAt(heap', sections, e) = LineAt(heap, sections, e)
         /\ Cardinality(AvailableIn(heap')) >= Cardinality(todo')
         /\ \A d \in HandedOut : heap'[d] = heap[d]
         /\ NamesIn(heap', longer) = NamesIn(heap, queue) \cup {name}
         /\ Len(longer) + Cardinality(todo') = Len(queue) + Cardinality(todo)
  <1> USE DEF Collects
  <1> DEFINE n == Cardinality(todo)
  <1>1. /\ IsFiniteSet(todo) /\ n \in Nat /\ n >= 1
        /\ Cardinality(todo') = n - 1
    <2>1. IsFiniteSet(todo) /\ n \in Nat
      BY HeldApart, TodoIsFinite
    <2>2. n # 0
      BY <2>1, FS_EmptySet
    <2>3. Cardinality(todo') = n - 1
      BY <2>1, FS_RemoveElement
    <2> QED
      BY <2>1, <2>2, <2>3
  <1>2. Room(n)
    BY DEF HInv, ListingHasRoom
  <1>3. String(name) \in Strings
    BY DEF Strings
  <1> HIDE DEF n
  <1>4. /\ b \in Block \ HandedOut
        /\ heap'[b] = String(name) /\ \A d \in Block \ {b} : heap'[d] = heap[d]
        /\ Sound(heap', handle, sections, HandedOut \cup {b})
        /\ StandFor(heap', sections) = StandFor(heap, sections)
        /\ \A e \in Entry : LineAt(heap', sections, e) = LineAt(heap, sections, e)
        /\ Cardinality(AvailableIn(heap')) >= n - 1
    BY <1>1, <1>2, <1>3, Strduped
  <1>5. \A d \in HandedOut : heap'[d] = heap[d]
    BY <1>4, HandedOutIs DEF HInv
  <1>6. /\ DOMAIN longer = 1..Len(queue) + 1 /\ DOMAIN queue = 1..Len(queue)
        /\ longer[1] = b /\ Len(longer) = Len(queue) + 1 /\ Len(queue) \in Nat
        /\ \A i \in DOMAIN longer : i = 1 \/ (i - 1 \in DOMAIN queue /\ longer[i] = queue[i - 1])
        /\ \A i \in DOMAIN queue : i + 1 \in DOMAIN longer /\ longer[i + 1] = queue[i]
    BY <1>4, Prepended
  <1>7. \A i \in DOMAIN queue : heap'[queue[i]] = heap[queue[i]]
    BY <1>5 DEF Range
  <1>8. heap'[b].text = name
    BY <1>4, BlockKinds
  <1>9. NamesIn(heap', longer) = NamesIn(heap, queue) \cup {name}
    <2>1. ASSUME NEW i \in DOMAIN longer
          PROVE  heap'[longer[i]].text \in NamesIn(heap, queue) \cup {name}
      <3>1. CASE i = 1
        BY <1>6, <1>8, <3>1
      <3>2. CASE i # 1
        BY <1>6, <1>7, <3>2 DEF NamesIn
      <3> QED
        BY <3>1, <3>2
    <2>2. ASSUME NEW j \in DOMAIN queue
          PROVE  heap[queue[j]].text \in NamesIn(heap', longer)
      <3>1. j + 1 \in DOMAIN longer /\ longer[j + 1] = queue[j]
        BY <1>6
      <3>2. heap'[longer[j + 1]].text = heap[queue[j]].text
        BY <1>7, <3>1
      <3> QED
        BY <3>1, <3>2 DEF NamesIn
    <2>3. name \in NamesIn(heap', longer)
      <3>1. 1 \in DOMAIN longer
        BY <1>6
      <3> QED
        BY <1>6, <1>8, <3>1 DEF NamesIn
    <2>4. \A r \in NamesIn(heap', longer) : r \in NamesIn(heap, queue) \cup {name}
      BY <2>1 DEF NamesIn
    <2>5. \A r \in NamesIn(heap, queue) : r \in NamesIn(heap', longer)
      BY <2>2 DEF NamesIn
    <2> QED
      BY <2>3, <2>4, <2>5
  <1>10. Len(longer) + Cardinality(todo') = Len(queue) + n
    BY <1>1, <1>6
  <1> QED
    BY <1>1, <1>4, <1>5, <1>9, <1>10 DEF n

LEMMA CollectSectionActs ==
  ASSUME HInv, NEW s \in Section, CollectSection(s)
  PROVE  HInv' /\ Contents' = Contents /\ \A b \in HandedOut : heap'[b] = heap[b]
  <1> DEFINE b == Malloc(Available)
  <1>1. /\ pc = "sections" /\ pc' = pc /\ <<s>> \in todo /\ todo' = todo \ {<<s>>}
        /\ heap' = [heap EXCEPT ![b] = String(s)] /\ groups' = <<b>> \o groups
        /\ UNCHANGED <<db, store, foo, keys>>
    BY DEF CollectSection
  <1>2. /\ Apart(foo, groups, keys) /\ groups \in Seq(Block) /\ keys \in Seq(Block)
        /\ foo \in Block \cup {NULL}
        /\ todo \subseteq {<<t>> : t \in Section} /\ todo' \subseteq {<<t>> : t \in Section}
    BY <1>1, HeldApart DEF HInv, ListingHasRoom
  <1>3. Range(groups) \subseteq HandedOut
    BY DEF HandedOut
  <1> HIDE DEF b
  <1>4. /\ b \in Block \ HandedOut
        /\ Sound(heap', handle, sections, HandedOut \cup {b})
        /\ StandFor(heap', sections) = StandFor(heap, sections)
        /\ \A f \in Entry : LineAt(heap', sections, f) = LineAt(heap, sections, f)
        /\ Cardinality(AvailableIn(heap')) >= Cardinality(todo')
        /\ \A d \in HandedOut : heap'[d] = heap[d]
        /\ NamesIn(heap', groups') = NamesIn(heap, groups) \cup {s}
        /\ Len(groups') + Cardinality(todo') = Len(groups) + Cardinality(todo)
    <2> DEFINE queue == groups
               longer == groups'
               x == <<s>>
    <2>1. /\ pc \in {"sections", "keys"} /\ queue \in Seq(Block) /\ Range(queue) \subseteq HandedOut
          /\ x \in todo /\ todo' = todo \ {x}
          /\ s \in Section \cup Key /\ b = Malloc(Available)
          /\ heap' = [heap EXCEPT ![b] = String(s)] /\ longer = <<b>> \o queue
      BY <1>1, <1>2, <1>3 DEF b
    <2> HIDE DEF queue, longer, x
    <2>2. /\ b \in Block \ HandedOut
          /\ Sound(heap', handle, sections, HandedOut \cup {b})
          /\ StandFor(heap', sections) = StandFor(heap, sections)
          /\ \A f \in Entry : LineAt(heap', sections, f) = LineAt(heap, sections, f)
          /\ Cardinality(AvailableIn(heap')) >= Cardinality(todo')
          /\ \A d \in HandedOut : heap'[d] = heap[d]
          /\ NamesIn(heap', longer) = NamesIn(heap, queue) \cup {s}
          /\ Len(longer) + Cardinality(todo') = Len(queue) + Cardinality(todo)
      <3>1. Collects(queue, x, s, b, longer)
        BY <2>1 DEF Collects
      <3> QED
        BY <3>1, Collected
    <2> QED
      BY <2>2 DEF queue, longer
  <1>5. /\ DOMAIN groups' = 1..Len(groups) + 1 /\ DOMAIN groups = 1..Len(groups)
        /\ Len(groups) \in Nat /\ groups'[1] = b /\ groups' \in Seq(Block)
        /\ \A i \in DOMAIN groups' : i = 1 \/ (i - 1 \in DOMAIN groups /\ groups'[i] = groups[i - 1])
        /\ \A i \in DOMAIN groups : i + 1 \in DOMAIN groups' /\ groups'[i + 1] = groups[i]
    BY <1>1, <1>2, <1>4, Prepended
  <1>6. HandedOut' = HandedOut \cup {b}
    <2>1. Range(groups') = Range(groups) \cup {b}
      <3>1. 1 \in DOMAIN groups'
        BY <1>5
      <3> QED
        BY <1>5, <3>1 DEF Range
    <2> QED
      BY <1>1, <2>1 DEF HandedOut
  <1>7. Apart(foo', groups', keys')
    <2>1. /\ \A i \in DOMAIN groups : groups[i] # b
          /\ \A i \in DOMAIN keys : keys[i] # b
          /\ foo # b
      BY <1>4, NullIsNoBlock DEF HandedOut, Range
    <2>2. \A i, j \in DOMAIN groups' : groups'[i] = groups'[j] => i = j
      BY <1>2, <1>5, <2>1 DEF Apart
    <2>3. \A i \in DOMAIN groups' : groups'[i] # foo /\ \A j \in DOMAIN keys : groups'[i] # keys[j]
      BY <1>2, <1>5, <2>1 DEF Apart
    <2> QED
      BY <1>1, <1>2, <2>2, <2>3 DEF Apart
  <1>8. TypeOK' /\ Sound(heap, handle, sections, HandedOut)' /\ GivenOnce'
    BY <1>1, <1>2, <1>4, <1>5, <1>6, <1>7, CallerStep
  <1>9. Contents' = Contents
    BY <1>1, <1>4, ContentsIs DEF store
  <1>10. ListingIsComplete'
    <2>1. {x[1] : x \in todo} = {x[1] : x \in todo'} \cup {s}
      BY <1>1, <1>2
    <2>2. Names(groups)' = Names(groups) \cup {s}
      BY <1>4 DEF Names, NamesIn
    <2>3. /\ Names(groups) \cup {x[1] : x \in todo} = Contents.sections
          /\ Len(groups) + Cardinality(todo) = Cardinality(Contents.sections)
      BY <1>1 DEF HInv, ListingIsComplete
    <2>4. Names(groups)' \cup {x[1] : x \in todo'} = Names(groups) \cup {x[1] : x \in todo}
      BY <2>1, <2>2
    <2>5. Len(groups') + Cardinality(todo') = Len(groups) + Cardinality(todo)
      BY <1>4
    <2> QED
      BY <1>1, <1>9, <2>3, <2>4, <2>5 DEF ListingIsComplete
  <1>11. ListingHasRoom'
    BY <1>1, <1>2, <1>4, ContentsIs DEF ListingHasRoom, Room
  <1>12. Phases' /\ Loading'
    BY <1>1 DEF Phases, Loading
  <1> QED
    BY <1>4, <1>8, <1>9, <1>10, <1>11, <1>12 DEF HInv

LEMMA CollectKeyActs ==
  ASSUME HInv, NEW e \in Entry, CollectKey(e)
  PROVE  HInv' /\ Contents' = Contents /\ \A b \in HandedOut : heap'[b] = heap[b]
  <1> DEFINE b == Malloc(Available)
             k == e[2]
  <1>1. /\ pc = "keys" /\ pc' = pc /\ e \in todo /\ todo' = todo \ {e}
        /\ heap' = [heap EXCEPT ![b] = String(k)] /\ keys' = <<b>> \o keys
        /\ UNCHANGED <<db, store, foo, groups>>
    BY DEF CollectKey
  <1>2. /\ Apart(foo, groups, keys) /\ groups \in Seq(Block) /\ keys \in Seq(Block)
        /\ foo \in Block \cup {NULL} /\ k \in Key
        /\ todo \subseteq Entry /\ todo' \subseteq Entry
    BY <1>1, HeldApart, EntryIs DEF HInv, ListingHasRoom
  <1>3. Range(keys) \subseteq HandedOut
    BY DEF HandedOut
  <1> HIDE DEF b
  <1>4. /\ b \in Block \ HandedOut
        /\ Sound(heap', handle, sections, HandedOut \cup {b})
        /\ StandFor(heap', sections) = StandFor(heap, sections)
        /\ \A f \in Entry : LineAt(heap', sections, f) = LineAt(heap, sections, f)
        /\ Cardinality(AvailableIn(heap')) >= Cardinality(todo')
        /\ \A d \in HandedOut : heap'[d] = heap[d]
        /\ NamesIn(heap', keys') = NamesIn(heap, keys) \cup {k}
        /\ Len(keys') + Cardinality(todo') = Len(keys) + Cardinality(todo)
    <2> DEFINE queue == keys
               longer == keys'
               x == e
    <2>1. /\ pc \in {"sections", "keys"} /\ queue \in Seq(Block) /\ Range(queue) \subseteq HandedOut
          /\ x \in todo /\ todo' = todo \ {x}
          /\ k \in Section \cup Key /\ b = Malloc(Available)
          /\ heap' = [heap EXCEPT ![b] = String(k)] /\ longer = <<b>> \o queue
      BY <1>1, <1>2, <1>3 DEF b
    <2> HIDE DEF queue, longer, x, k
    <2>2. /\ b \in Block \ HandedOut
          /\ Sound(heap', handle, sections, HandedOut \cup {b})
          /\ StandFor(heap', sections) = StandFor(heap, sections)
          /\ \A f \in Entry : LineAt(heap', sections, f) = LineAt(heap, sections, f)
          /\ Cardinality(AvailableIn(heap')) >= Cardinality(todo')
          /\ \A d \in HandedOut : heap'[d] = heap[d]
          /\ NamesIn(heap', longer) = NamesIn(heap, queue) \cup {k}
          /\ Len(longer) + Cardinality(todo') = Len(queue) + Cardinality(todo)
      <3>1. Collects(queue, x, k, b, longer)
        BY <2>1 DEF Collects
      <3> QED
        BY <3>1, Collected
    <2> QED
      BY <2>2 DEF queue, longer
  <1>5. /\ DOMAIN keys' = 1..Len(keys) + 1 /\ DOMAIN keys = 1..Len(keys)
        /\ Len(keys) \in Nat /\ keys'[1] = b /\ keys' \in Seq(Block)
        /\ \A i \in DOMAIN keys' : i = 1 \/ (i - 1 \in DOMAIN keys /\ keys'[i] = keys[i - 1])
        /\ \A i \in DOMAIN keys : i + 1 \in DOMAIN keys' /\ keys'[i + 1] = keys[i]
    BY <1>1, <1>2, <1>4, Prepended
  <1>6. HandedOut' = HandedOut \cup {b}
    <2>1. Range(keys') = Range(keys) \cup {b}
      <3>1. 1 \in DOMAIN keys'
        BY <1>5
      <3> QED
        BY <1>5, <3>1 DEF Range
    <2> QED
      BY <1>1, <2>1 DEF HandedOut
  <1>7. Apart(foo', groups', keys')
    <2>1. /\ \A i \in DOMAIN groups : groups[i] # b
          /\ \A i \in DOMAIN keys : keys[i] # b
          /\ foo # b
      BY <1>4, NullIsNoBlock DEF HandedOut, Range
    <2>2. \A i, j \in DOMAIN keys' : keys'[i] = keys'[j] => i = j
      BY <1>2, <1>5, <2>1 DEF Apart
    <2>3. \A j \in DOMAIN keys' : keys'[j] # foo /\ \A i \in DOMAIN groups : groups[i] # keys'[j]
      BY <1>2, <1>5, <2>1 DEF Apart
    <2> QED
      BY <1>1, <1>2, <2>2, <2>3 DEF Apart
  <1>8. TypeOK' /\ Sound(heap, handle, sections, HandedOut)' /\ GivenOnce'
    BY <1>1, <1>2, <1>4, <1>5, <1>6, <1>7, CallerStep
  <1>9. Contents' = Contents
    BY <1>1, <1>4, ContentsIs DEF store
  <1>10. ListingIsComplete'
    <2>1. {x[2] : x \in todo} = {x[2] : x \in todo'} \cup {k}
      BY <1>1, <1>2
    <2>2. PICK s \in Section :
            LET there == {f \in Entry : f[1] = s /\ LineOf(f) # NULL}
            IN  /\ Names(keys) \cup {x[2] : x \in todo} = {f[2] : f \in there}
                /\ Len(keys) + Cardinality(todo) = Cardinality(there)
      BY <1>1 DEF HInv, ListingIsComplete
    <2> DEFINE there == {f \in Entry : f[1] = s /\ LineOf(f) # NULL}
    <2>3. {f \in Entry : f[1] = s /\ LineOf(f)' # NULL} = there
      BY <1>1, <1>4, ContentsIs DEF store
    <2>4. Names(keys)' = Names(keys) \cup {k}
      BY <1>4 DEF Names, NamesIn
    <2>5. Names(keys)' \cup {x[2] : x \in todo'} = Names(keys) \cup {x[2] : x \in todo}
      BY <2>1, <2>4
    <2>6. Len(keys') + Cardinality(todo') = Len(keys) + Cardinality(todo)
      BY <1>4
    <2>7. /\ Names(keys)' \cup {x[2] : x \in todo'} = {f[2] : f \in there}
          /\ Len(keys') + Cardinality(todo') = Cardinality(there)
      BY <2>2, <2>5, <2>6
    <2> HIDE DEF there
    <2> QED
      BY <1>1, <2>3, <2>7 DEF ListingIsComplete
  <1>11. ListingHasRoom'
    BY <1>1, <1>2, <1>4, ContentsIs DEF ListingHasRoom, Room
  <1>12. Phases' /\ Loading'
    BY <1>1 DEF Phases, Loading
  <1> QED
    BY <1>4, <1>8, <1>9, <1>10, <1>11, <1>12 DEF HInv

-----------------------------------------------------------------------------
(* What every step keeps, and what it may do: what the caller holds stays, *)
(* an open handle changes in mcs_set_string and mcs_unset_key only, and    *)
(* the file in mcs_destroy.                                                *)
Edits ==
  \E s \in Section, k \in Key : Unset(s, k) \/ \E v \in Val : Set(s, k, v)

LEMMA StepActs ==
  ASSUME HInv, Next
  PROVE  /\ HInv'
         /\ \A b \in HandedOut \cap HandedOut' : heap'[b] = heap[b]
         /\ pc = "open" /\ pc' # "closed" => Contents' = Contents \/ Edits
         /\ db' = db \/ (pc = "open" /\ pc' = "closed" /\ db' = Contents)
  <1>1. CASE New
    BY <1>1, NewActs DEF New
  <1>2. CASE LoopEnds
    <2>1. heap' = heap /\ db' = db /\ pc # "open"
      BY <1>2 DEF LoopEnds
    <2> QED
      BY <1>2, <2>1, LoopEndsActs
  <1>3. CASE GetSections
    <2>1. heap' = heap /\ sections' = sections /\ db' = db
      BY <1>3 DEF GetSections, store
    <2> QED
      BY <1>3, <2>1, GetSectionsKeeps, ContentsIs
  <1>4. CASE Destroy
    <2>1. /\ pc = "open" /\ pc' = "closed" /\ db' \in {db, Contents}
          /\ \A b \in HandedOut : heap'[b] = heap[b]
      BY <1>4, DestroyActs DEF Destroy
    <2> QED
      BY <1>4, <2>1, CallsKeep
  <1>5. CASE FreeFoo
    BY <1>5, FreeFooActs DEF FreeFoo
  <1>6. CASE FreeGroups
    BY <1>6, FreeGroupsActs DEF FreeGroups
  <1>7. CASE FreeKeys
    BY <1>7, FreeKeysActs DEF FreeKeys
  <1>8. ASSUME NEW s \in Section, LoadSection(s) \/ GetKeys(s) \/ CollectSection(s)
        PROVE  /\ HInv'
               /\ \A b \in HandedOut \cap HandedOut' : heap'[b] = heap[b]
               /\ pc = "open" => Contents' = Contents
               /\ db' = db
    <2>1. CASE LoadSection(s)
      BY <2>1, LoadSectionActs DEF LoadSection
    <2>2. CASE GetKeys(s)
      <3>1. heap' = heap /\ sections' = sections /\ db' = db
        BY <2>2 DEF GetKeys, store
      <3> QED
        BY <2>2, <3>1, GetKeysKeeps, ContentsIs
    <2>3. CASE CollectSection(s)
      BY <2>3, CollectSectionActs DEF CollectSection
    <2> QED
      BY <1>8, <2>1, <2>2, <2>3
  <1>9. ASSUME NEW e \in Entry, LoadLine(e) \/ CollectKey(e)
        PROVE  /\ HInv'
               /\ \A b \in HandedOut \cap HandedOut' : heap'[b] = heap[b]
               /\ pc # "open"
               /\ db' = db
    <2>1. CASE LoadLine(e)
      BY <2>1, LoadLineActs DEF LoadLine
    <2>2. CASE CollectKey(e)
      BY <2>2, CollectKeyActs DEF CollectKey
    <2> QED
      BY <1>9, <2>1, <2>2
  <1>10. CASE Edits
    <2>1. \A b \in HandedOut : heap'[b] = heap[b]
      BY <1>10, SetActs, UnsetActs DEF Edits
    <2>2. db' = db
      BY <1>10 DEF Edits, Set, Unset
    <2>3. HInv'
      BY <1>10, CallsKeep DEF Edits
    <2> QED
      BY <1>10, <2>1, <2>2, <2>3
  <1>11. ASSUME NEW s \in Section, NEW k \in Key, Get(s, k)
         PROVE  /\ HInv'
                /\ \A b \in HandedOut \cap HandedOut' : heap'[b] = heap[b]
                /\ Contents' = Contents
                /\ db' = db
    BY <1>11, GetActs DEF Get
  <1>12. \/ New \/ LoopEnds \/ GetSections \/ Destroy
         \/ FreeFoo \/ FreeGroups \/ FreeKeys
         \/ \E s \in Section : LoadSection(s) \/ GetKeys(s) \/ CollectSection(s)
         \/ \E e \in Entry : LoadLine(e) \/ CollectKey(e)
         \/ Edits
         \/ \E s \in Section, k \in Key : Get(s, k)
    BY DEF Next, Edits
  <1> QED
    BY <1>1, <1>2, <1>3, <1>4, <1>5, <1>6, <1>7, <1>8, <1>9, <1>10, <1>11, <1>12

LEMMA StutterActs ==
  ASSUME HInv, UNCHANGED vars
  PROVE  /\ HInv'
         /\ UNCHANGED <<db, heap, pc>>
         /\ Contents' = Contents
  <1>1. /\ UNCHANGED <<db, heap, handle, sections, pc, todo, client>>
        /\ UNCHANGED <<foo, groups, keys>>
    BY DEF vars, store, client
  <1>2. TypeOK' /\ Sound(heap, handle, sections, HandedOut)' /\ GivenOnce'
    BY <1>1, LibraryStep DEF HInv, TypeOK
  <1>3. Contents' = Contents /\ Available' = Available /\ \A e : LineOf(e)' = LineOf(e)
    BY <1>1, ContentsIs
  <1>4. Phases' /\ Loading' /\ ListingHasRoom'
    BY <1>1, <1>3 DEF HInv, Phases, Loading, ListingHasRoom, Room
  <1>5. ListingIsComplete'
    <2>1. Names(groups)' = Names(groups) /\ Names(keys)' = Names(keys)
      BY <1>1 DEF Names
    <2>2. \A s \in Section :
            {e \in Entry : e[1] = s /\ LineOf(e)' # NULL} = {e \in Entry : e[1] = s /\ LineOf(e) # NULL}
      BY <1>3
    <2>3. CASE pc = "sections"
      BY <1>1, <1>3, <2>1, <2>3 DEF HInv, ListingIsComplete
    <2>4. CASE pc = "keys"
      <3>1. PICK s \in Section :
              LET there == {e \in Entry : e[1] = s /\ LineOf(e) # NULL}
              IN  /\ Names(keys) \cup {x[2] : x \in todo} = {e[2] : e \in there}
                  /\ Len(keys) + Cardinality(todo) = Cardinality(there)
        BY <2>4 DEF HInv, ListingIsComplete
      <3> DEFINE there == {e \in Entry : e[1] = s /\ LineOf(e) # NULL}
      <3>2. /\ Names(keys)' \cup {x[2] : x \in todo'} = {e[2] : e \in there}
            /\ Len(keys') + Cardinality(todo') = Cardinality(there)
        BY <1>1, <2>1, <3>1
      <3>3. {e \in Entry : e[1] = s /\ LineOf(e)' # NULL} = there
        BY <2>2
      <3> HIDE DEF there
      <3> QED
        BY <1>1, <2>4, <3>2, <3>3 DEF ListingIsComplete
    <2> QED
      BY <1>1, <2>3, <2>4 DEF ListingIsComplete
  <1> QED
    BY <1>1, <1>2, <1>3, <1>4, <1>5 DEF HInv

LEMMA NextHInv == HInv /\ [Next]_vars => HInv'
  BY StepActs, StutterActs

(* The places of OneOwner are those a handle leads to, and those of the    *)
(* caller.                                                                 *)
LEMMA OwnersAre ==
  ASSUME TypeOK, NEW b \in Block
  PROVE  \A x : x \in Owners(b) <=> Leads(x, b, heap, handle, sections) \/ Given(x, b)
  <1> TAKE x
  <1>1. \A s \in Section : s \in Contents.sections <=> sections[s] # NULL
    BY DEF Contents
  <1>2. x \in {<<"name", s>> : s \in {s \in Contents.sections : heap[sections[s]].name = b}} <=>
          \E s \in Section : x = <<"name", s>> /\ sections[s] # NULL /\ heap[sections[s]].name = b
    BY <1>1 DEF Contents
  <1>3. x \in {<<"line", e>> : e \in {e \in Entry : LineOf(e) = b}} <=>
          \E e \in Entry : x = <<"line", e>> /\ LineAt(heap, sections, e) = b
    BY ContentsIs
  <1>4. x \in {<<"handle">> : y \in {handle} \cap {b}} <=> x = <<"handle">> /\ handle = b
    OBVIOUS
  <1>5. x \in {<<"section", s>> : s \in {s \in Section : sections[s] = b}} <=>
          \E s \in Section : x = <<"section", s>> /\ sections[s] = b
    OBVIOUS
  <1>6. x \in {<<"foo">> : y \in {foo} \cap {b}} <=> x = <<"foo">> /\ foo = b
    OBVIOUS
  <1>7. x \in {<<"group", i>> : i \in {i \in DOMAIN groups : groups[i] = b}} <=>
          \E i \in DOMAIN groups : x = <<"group", i>> /\ groups[i] = b
    OBVIOUS
  <1>8. x \in {<<"key", i>> : i \in {i \in DOMAIN keys : keys[i] = b}} <=>
          \E i \in DOMAIN keys : x = <<"key", i>> /\ keys[i] = b
    OBVIOUS
  <1> QED
    BY <1>2, <1>3, <1>4, <1>5, <1>6, <1>7, <1>8 DEF Owners, Leads, Given, Holds

LEMMA HInvOneOwner == HInv => OneOwner
  <1> SUFFICES ASSUME HInv, NEW b \in Block
               PROVE  Cardinality(Owners(b)) = IF heap[b] = Free THEN 0 ELSE 1
    BY DEF OneOwner
  <1>1. \A x : x \in Owners(b) <=> Leads(x, b, heap, handle, sections) \/ Given(x, b)
    BY OwnersAre DEF HInv
  <1>2. b \in HandedOut <=> \E x : Given(x, b)
    BY HandedOutIs DEF HInv
  <1>3. /\ heap[b] # Free <=> b \in HandedOut \/ \E x : Leads(x, b, heap, handle, sections)
        /\ b \in HandedOut => \A x : ~Leads(x, b, heap, handle, sections)
        /\ \A x, y : Leads(x, b, heap, handle, sections) /\ Leads(y, b, heap, handle, sections)
                       => x = y
        /\ \A x, y : Given(x, b) /\ Given(y, b) => x = y
    BY DEF HInv, Sound, GivenOnce
  <1>4. CASE heap[b] = Free
    <2>1. Owners(b) = {}
      BY <1>1, <1>2, <1>3, <1>4
    <2> QED
      BY <1>4, <2>1, FS_EmptySet
  <1>5. CASE heap[b] # Free
    <2>1. PICK x : Leads(x, b, heap, handle, sections) \/ Given(x, b)
      BY <1>2, <1>3, <1>5
    <2>2. \A y : y \in Owners(b) <=> y = x
      BY <1>1, <1>2, <1>3, <2>1
    <2>3. Owners(b) = {x}
      BY <2>2
    <2> QED
      BY <1>5, <2>3, FS_Singleton
  <1> QED
    BY <1>4, <1>5

-----------------------------------------------------------------------------
(* The heap, the handle and the caller's pointers hold what the code puts  *)
(* there, in every state.                                                  *)
THEOREM HeapTypeCorrect == Spec => []TypeOK
  <1>1. HInv => TypeOK
    BY DEF HInv
  <1> QED
    BY <1>1, InitHInv, NextHInv, PTL DEF Spec

(* No block is lost, freed twice or used after it was freed: a block in    *)
(* use has one owner, and a free one none, whatever malloc hands out.      *)
THEOREM NoBlockIsLost == Spec => []OneOwner
  BY HInvOneOwner, InitHInv, NextHInv, PTL DEF Spec

(* keyfile_get_sections and keyfile_get_keys list each name once.          *)
THEOREM ListingsAreComplete == Spec => []ListingIsComplete
  <1>1. HInv => ListingIsComplete
    BY DEF HInv
  <1> QED
    BY <1>1, InitHInv, NextHInv, PTL DEF Spec

(* What was handed out is the caller's own: no set, unset, destroy or load *)
(* changes it.                                                             *)
THEOREM StringsAreTheCallers == Spec => HandedOutStays
  <1>1. HInv /\ [Next]_vars =>
          [\A b \in HandedOut : b \in HandedOut' => heap'[b] = heap[b]]_vars
    BY StepActs
  <1> QED
    BY <1>1, InitHInv, NextHInv, PTL DEF Spec, HandedOutStays

(* With all its blocks, the library does to the configuration what the     *)
(* operators of Keyfile say of the calls.                                  *)
THEOREM BlocksActAsKeyfile == Spec => ActsAsKeyfile
  <1> DEFINE Acts ==
        /\ pc = "loading" /\ LoopEnds => Contents' = db
        /\ \A s \in Section, k \in Key :
             /\ \A v \in Val : Set(s, k, v) => Contents' = SetString(Contents, s, k, v)
             /\ Unset(s, k) => Contents' = UnsetKey(Contents, s, k)
             /\ Get(s, k) => heap'[foo'].text = GetString(Contents, s, k)
        /\ pc = "open" /\ pc' # "closed" /\ Contents' # Contents =>
             \E s \in Section, k \in Key : Unset(s, k) \/ \E v \in Val : Set(s, k, v)
        /\ db' # db => pc = "open" /\ pc' = "closed" /\ db' = Contents
  <1>1. HInv /\ [Next]_vars => [Acts]_vars
    <2> SUFFICES ASSUME HInv, Next PROVE Acts
      OBVIOUS
    <2>1. pc = "loading" /\ LoopEnds => Contents' = db
      BY LoopEndsActs
    <2>2. \A s \in Section, k \in Key :
            /\ \A v \in Val : Set(s, k, v) => Contents' = SetString(Contents, s, k, v)
            /\ Unset(s, k) => Contents' = UnsetKey(Contents, s, k)
            /\ Get(s, k) => heap'[foo'].text = GetString(Contents, s, k)
      BY SetActs, UnsetActs, GetActs
    <2>3. pc = "open" /\ pc' # "closed" /\ Contents' # Contents =>
            \E s \in Section, k \in Key : Unset(s, k) \/ \E v \in Val : Set(s, k, v)
      BY StepActs DEF Edits
    <2>4. db' # db => pc = "open" /\ pc' = "closed" /\ db' = Contents
      BY StepActs
    <2> QED
      BY <2>1, <2>2, <2>3, <2>4
  <1> QED
    BY <1>1, InitHInv, NextHInv, PTL DEF Spec, ActsAsKeyfile

=============================================================================
