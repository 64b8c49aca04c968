----------------------------- MODULE KeyfileText -----------------------------
(***************************************************************************)
(* The text of a configuration file, and what becomes of a keyfile on its  *)
(* way through it (src/src/backends/default/keyfile.c): keyfile_write      *)
(* prints sections and lines one by one, the file may end early (a save    *)
(* that was cut), and keyfile_open reads it, one fgets at a time.  The     *)
(* next handle then saves what it has read, and so on.                     *)
(*                                                                         *)
(* Texts are sequences of characters.  A keyfile is a function from the    *)
(* names of its sections to functions from keys to values.                 *)
(***************************************************************************)
EXTENDS Naturals, Sequences, FiniteSetsExt, Functions

CONSTANTS Char,     \* the characters
          Keyfiles, \* the keyfiles an application has built
          Scripts,  \* the files a user has written by hand
          BufSize   \* 4096: fgets reads one character less

ASSUME BufSizeType == BufSize \in Nat /\ BufSize > 1

NL == "\n"

ASSUME CharType == {"[", "]", "=", "#", NL} \subseteq Char

Text == Seq(Char)

(* What Keyfile.tla says of a keyfile, with the names as strings.          *)
IsKeyfile(f) ==
  /\ f = [s \in DOMAIN f |-> f[s]]
  /\ \A s \in DOMAIN f :
       /\ s \in Text
       /\ f[s] = [k \in DOMAIN f[s] |-> f[s][k]]
       /\ \A k \in DOMAIN f[s] : k \in Text /\ f[s][k] \in Text

ASSUME KeyfilesType == \A f \in Keyfiles : IsKeyfile(f)
ASSUME ScriptsType == Scripts \subseteq Text

VARIABLES phase, \* "made", then "saving", "loading", "loaded" in turn
          kf,    \* the keyfile that is saved
          todo,  \* the sections still to print
          lines, \* the lines of the section at hand still to print
          text,  \* the file: what is written, or what is still to be read
          sec,   \* the section the writer or the reader is in: {} or {name}
          out,   \* what the reader has found
          whole, \* the file is read as it was written
          plain  \* no fgets has met a '=' as its first character

vars == <<phase, kf, todo, lines, text, sec, out, whole, plain>>

EmptyKeyfile == [s \in {} |-> {}]

(* The first handle of the domain either finds a file made by hand, or     *)
(* finds none, is given a keyfile, and is destroyed.                       *)
Init ==
  /\ \/ phase = "made" /\ out \in Keyfiles /\ text = <<>>
     \/ phase = "loading" /\ out = EmptyKeyfile /\ text \in Scripts
  /\ kf = EmptyKeyfile
  /\ todo = {} /\ lines = {} /\ sec = {}
  /\ whole = FALSE /\ plain = TRUE

-----------------------------------------------------------------------------
(* keyfile_write truncates the file and walks the sections.                *)
Save ==
  /\ phase \in {"made", "loaded"}
  /\ phase' = "saving"
  /\ kf' = out
  /\ todo' = DOMAIN out
  /\ text' = <<>>
  /\ sec' = {}
  /\ UNCHANGED <<lines, out, whole, plain>>

Header(s) == <<"[">> \o s \o <<"]", NL>>

Line(k, v) == k \o <<"=">> \o v \o <<NL>>

(* mowgli_patricia_foreach has an order of its own.                        *)
WriteSection(s) ==
  /\ phase = "saving" /\ lines = {}
  /\ text' = text \o Header(s)
  /\ todo' = todo \ {s}
  /\ lines' = DOMAIN kf[s]
  /\ sec' = {s}
  /\ UNCHANGED <<phase, kf, out, whole, plain>>

WriteLine(s, k) ==
  /\ phase = "saving"
  /\ text' = text \o Line(k, kf[s][k])
  /\ lines' = lines \ {k}
  /\ UNCHANGED <<phase, kf, todo, sec, out, whole, plain>>

(* keyfile_open, on the whole text or on what a cut has left of it.        *)
Open(n) ==
  /\ phase = "saving" /\ lines = {} /\ todo = {}
  /\ phase' = "loading"
  /\ text' = SubSeq(text, 1, n)
  /\ whole' = (n = Len(text))
  /\ sec' = {} /\ out' = EmptyKeyfile /\ plain' = TRUE
  /\ UNCHANGED <<kf, todo, lines>>

-----------------------------------------------------------------------------
(* strchr: the first place of c in b, 0 if there is none.                  *)
Strchr(b, c) ==
  LET places == {i \in DOMAIN b : b[i] = c} IN IF places = {} THEN 0 ELSE Min(places)

(* fgets: up to and including the next newline, if that fits the buffer.   *)
\* Mutant: the buffer holds one character more.
FgetsLengthFull ==
  Min({Len(text), BufSize} \cup ({Strchr(text, NL)} \ {0}))

FgetsLength ==
  Min({Len(text), BufSize - 1} \cup ({Strchr(text, NL)} \ {0}))

(* What strtok(buffer, "=") leaves after the characters it skips, and what *)
(* it and strtok(NULL, "\n") answer; an empty key or value is a NULL.      *)
Unskipped(b) ==
  LET kept == {i \in DOMAIN b : b[i] # "="}
  IN  IF kept = {} THEN <<>> ELSE SubSeq(b, Min(kept), Len(b))

Token(b, c) == IF Strchr(b, c) = 0 THEN b ELSE SubSeq(b, 1, Strchr(b, c) - 1)

KeyIn(b) == Token(Unskipped(b), "=")

ValueIn(b) ==
  Token(SubSeq(Unskipped(b), Len(KeyIn(b)) + 2, Len(Unskipped(b))), NL)

(* mowgli_patricia_add, which refuses a name that is there.                *)
Extend(f, x, y) ==
  [z \in DOMAIN f \cup {x} |-> IF z \in DOMAIN f THEN f[z] ELSE y]

Fgets(b) ==
  /\ phase = "loading" /\ text # <<>>
  /\ b = SubSeq(text, 1, FgetsLength)
  /\ text' = SubSeq(text, FgetsLength + 1, Len(text))
  /\ plain' = (plain /\ b[1] # "=")
  /\ UNCHANGED <<phase, kf, todo, lines, whole>>

\* Mutant: a header need not end in a bracket.
ReadHeaderOpen(b) ==
  /\ Fgets(b)
  /\ b[1] = "["
  /\ LET name == SelectSeq(Tail(b), LAMBDA c : c \notin {"]", NL}) IN
       /\ sec' = {name}
       /\ out' = Extend(out, name, [k \in {} |-> <<>>])

(* A section that is there already is entered again.                       *)
ReadHeader(b) ==
  /\ Fgets(b)
  /\ b[1] = "[" /\ Strchr(b, "]") # 0
  /\ LET name == SubSeq(b, 2, Strchr(b, "]") - 1) IN
       /\ sec' = {name}
       /\ out' = Extend(out, name, [k \in {} |-> <<>>])

\* Mutant: a line that begins with '#' is not a comment.
ReadLineHash(b) ==
  /\ Fgets(b)
  /\ b[1] # "[" /\ Strchr(b, "=") # 0
  /\ ValueIn(b) # <<>>
  /\ \E s \in sec : out' = [out EXCEPT ![s] = Extend(@, KeyIn(b), ValueIn(b))]
  /\ UNCHANGED sec

(* The first of two lines of one key counts.                               *)
ReadLine(b) ==
  /\ Fgets(b)
  /\ b[1] \notin {"[", "#"} /\ Strchr(b, "=") # 0
  /\ ValueIn(b) # <<>>
  /\ \E s \in sec : out' = [out EXCEPT ![s] = Extend(@, KeyIn(b), ValueIn(b))]
  /\ UNCHANGED sec

(* A header without its bracket, a comment, a line before any section, one *)
(* without '=' or without a value.                                         *)
ReadNothing(b) ==
  /\ Fgets(b)
  /\ IF b[1] = "["
     THEN Strchr(b, "]") = 0
     ELSE b[1] = "#" \/ sec = {} \/ Strchr(b, "=") = 0 \/ ValueIn(b) = <<>>
  /\ UNCHANGED <<sec, out>>

ReadEnd ==
  /\ phase = "loading" /\ text = <<>>
  /\ phase' = "loaded"
  /\ UNCHANGED <<kf, todo, lines, text, sec, out, whole, plain>>

Read(b) == ReadHeader(b) \/ ReadLine(b) \/ ReadNothing(b)

Next ==
  \/ Save
  \/ \E s \in todo : WriteSection(s)
  \/ \E s \in sec, k \in lines : WriteLine(s, k)
  \/ \E n \in 0..Len(text) : Open(n)
  \/ \E b \in {SubSeq(text, 1, FgetsLength)} : Read(b)
  \/ ReadEnd

Spec == Init /\ [][Next]_vars

-----------------------------------------------------------------------------
(* What the text can hold: keyfile_write escapes nothing, and keyfile_open *)
(* reads what fits its buffer.                                             *)
Printable(f) ==
  \A s \in DOMAIN f :
    /\ {"]", NL} \cap Range(s) = {}
    /\ Len(s) + 2 < BufSize
    /\ \A k \in DOMAIN f[s] :
         /\ k # <<>> /\ k[1] \notin {"[", "#"} /\ {"=", NL} \cap Range(k) = {}
         /\ f[s][k] # <<>> /\ NL \notin Range(f[s][k])
         /\ Len(k) + 1 + Len(f[s][k]) < BufSize

(* A keyfile is read as it was written exactly if the format can hold it:  *)
(* keyfile_open has no rule that Printable misses, and keyfile_write meets *)
(* all of them.  An empty value, which keyfile_set_string accepts, is one  *)
(* that does not come back.                                                *)
RoundTrip == phase = "loaded" /\ whole => (out = kf <=> Printable(kf))

(* What keyfile_open makes of any file at all can be saved and read again  *)
(* without a change, unless some line, or some piece of an overlong line,  *)
(* begins with '='.                                                        *)
LoadedIsPrintable == phase = "loaded" /\ plain => Printable(out)

(* The keyfiles of Keyfile.tla over the names at hand.                     *)
Mem(f) == INSTANCE Keyfile WITH
  Section <- DOMAIN f,
  Key     <- UNION {DOMAIN f[s] : s \in DOMAIN f},
  Val     <- Text \ {<<>>},
  NULL    <- <<>>

(* f as a keyfile over the sections and keys of g.                         *)
AsMem(f, g) ==
  [sections |-> DOMAIN f,
   lines |-> [e \in Mem(g)!Entry |->
                IF e[1] \in DOMAIN f /\ e[2] \in DOMAIN f[e[1]]
                THEN f[e[1]][e[2]]
                ELSE <<>>]]

(* Wherever a text is cut, keyfile_open makes of it one of the keyfiles    *)
(* that KeyfileStore expects: a part of the keyfile that was saved, with   *)
(* one value cut short at most.                                            *)
TornIsPrefix ==
  phase = "loaded" /\ Printable(kf) /\ kf # EmptyKeyfile =>
    /\ \A s \in DOMAIN out : s \in DOMAIN kf /\ DOMAIN out[s] \subseteq DOMAIN kf[s]
    /\ AsMem(out, kf) \in Mem(kf)!Prefixes(AsMem(kf, kf))

=============================================================================
