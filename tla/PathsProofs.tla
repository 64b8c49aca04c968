------------------------------ MODULE PathsProofs ------------------------------
(***************************************************************************)
(* Paths for every PATH_MAX, and for every set of domains, however their   *)
(* names are cut and whichever lies below which.                           *)
(***************************************************************************)
EXTENDS Paths, TLAPS

(* Directories stay, and a file that is in the way of a domain whose name  *)
(* fits does, because no save of another moves it.  What a handle writes   *)
(* to is below its directory, or something is in the way.                  *)
DirsInv ==
  /\ DOMAIN files \cap dirs = {}
  /\ \A p \in DOMAIN files : Opens(p)
  /\ \A d \in Domain :
       Fits(d) /\ handle[d] # NoHandle /\ ~InTheWay(d) => Parents(Loc(d)) \subseteq dirs

(* The files that may be there, and what those that may be read hold.      *)
FilesInv ==
  /\ DOMAIN files \subseteq {Loc(d) : d \in {e \in Domain : Fits(e)}} \cup Leftover
  /\ \A d \in Domain :
       Fits(d) /\ Tfile(Loc(d)) \notin dirs /\ ~InTheWay(d) =>
         saved[d] = IF Loc(d) \in DOMAIN files THEN files[Loc(d)] ELSE Nothing

TypeOK ==
  /\ files \in [DOMAIN files -> Content \cup {Nothing}]
  /\ dirs \subseteq Seq(Char)
  /\ handle \in [Domain -> [loc : Seq(Char), kf : Content \cup {Nothing}]]
  /\ saved \in [Domain -> Content \cup {Nothing}]
  /\ \A d \in Domain : handle[d] # NoHandle => handle[d].loc = Loc(d)

IInv == TypeOK /\ DirsInv /\ FilesInv

-----------------------------------------------------------------------------
(* Strings.                                                                *)
Str == Seq(Char)

LEMMA MinOfTwo ==
  ASSUME NEW m \in Int, NEW n \in Int
  PROVE  Min({m, n}) = IF m <= n THEN m ELSE n
  <1> DEFINE least == IF m <= n THEN m ELSE n
  <1>1. least \in {m, n} /\ \A y \in {m, n} : least <= y
    OBVIOUS
  <1>2. \A x \in {m, n} : (\A y \in {m, n} : x <= y) => x = least
    OBVIOUS
  <1> HIDE DEF least
  <1>3. Min({m, n}) = least
    BY <1>1, <1>2 DEF Min
  <1> QED
    BY <1>3 DEF least

LEMMA CutIs ==
  ASSUME NEW s \in Str, NEW n \in Nat, n <= Len(s)
  PROVE  /\ SubSeq(s, 1, n) \in Str /\ Len(SubSeq(s, 1, n)) = n
         /\ \A i \in 1..n : SubSeq(s, 1, n)[i] = s[i]
  BY DEF Str

LEMMA JoinIs ==
  ASSUME NEW s \in Str, NEW t \in Str
  PROVE  /\ s \o t \in Str /\ Len(s \o t) = Len(s) + Len(t)
         /\ \A i \in 1..Len(s) : (s \o t)[i] = s[i]
         /\ \A i \in 1..Len(t) : (s \o t)[Len(s) + i] = t[i]
  BY DEF Str

LEMMA StringIs ==
  ASSUME NEW s \in Str
  PROVE  Len(s) \in Nat /\ (s # <<>> <=> Len(s) > 0)
  BY DEF Str

LEMMA SameString ==
  ASSUME NEW s \in Str, NEW t \in Str, Len(s) = Len(t), \A i \in 1..Len(s) : s[i] = t[i]
  PROVE  s = t
  BY DEF Str

(* The buffers: what does not fit is cut.                                  *)
LEMMA StrlcpyIs ==
  ASSUME NEW s \in Str
  PROVE  LET c == Strlcpy(s) IN
           /\ c \in Str
           /\ Len(c) = IF Len(s) < PathMax THEN Len(s) ELSE PathMax - 1
           /\ \A i \in 1..Len(c) : c[i] = s[i]
           /\ Len(s) < PathMax => c = s
  <1> DEFINE n == IF Len(s) < PathMax THEN Len(s) ELSE PathMax - 1
  <1>1. Len(s) \in Nat /\ PathMax \in Nat /\ PathMax - 1 \in Nat
    BY StringIs, PathMaxType
  <1>2. n \in Nat /\ n <= Len(s)
    BY <1>1
  <1>3. Min({Len(s), PathMax - 1}) = n
    BY <1>1, MinOfTwo
  <1> HIDE DEF n
  <1>4. Strlcpy(s) = SubSeq(s, 1, n)
    BY <1>3 DEF Strlcpy
  <1>5. Len(s) < PathMax => n = Len(s)
    BY DEF n
  <1> DEFINE c == Strlcpy(s)
  <1>6. c \in Str /\ Len(c) = n /\ \A i \in 1..Len(c) : c[i] = s[i]
    BY <1>2, <1>4, CutIs
  <1> HIDE DEF c
  <1>7. Len(s) < PathMax => c = s
    BY <1>5, <1>6, SameString
  <1> QED
    BY <1>6, <1>7 DEF n, c

LEMMA StrlcatIs ==
  ASSUME NEW s \in Str, NEW t \in Str, Len(s) < PathMax
  PROVE  LET c == Strlcat(s, t) IN
           /\ c \in Str
           /\ Len(c) = IF Len(s) + Len(t) < PathMax THEN Len(s) + Len(t) ELSE PathMax - 1
           /\ \A i \in 1..Len(s) : c[i] = s[i]
           /\ \A i \in 1..(Len(c) - Len(s)) : c[Len(s) + i] = t[i]
  <1> DEFINE room == (PathMax - 1) - Len(s)
             n == IF Len(t) <= room THEN Len(t) ELSE room
  <1>1. Len(s) \in Nat /\ Len(t) \in Nat /\ PathMax \in Nat /\ room \in Nat
    BY StringIs, PathMaxType
  <1>2. n \in Nat /\ n <= Len(t)
    BY <1>1
  <1>3. Min({Len(t), (PathMax - 1) - Len(s)}) = n
    BY <1>1, MinOfTwo
  <1>4. Len(s) + n = IF Len(s) + Len(t) < PathMax THEN Len(s) + Len(t) ELSE PathMax - 1
    BY <1>1
  <1> DEFINE u == SubSeq(t, 1, n)
             c == Strlcat(s, t)
  <1>5. u \in Str /\ Len(u) = n /\ \A i \in 1..n : u[i] = t[i]
    <2> HIDE DEF n
    <2> QED
      BY <1>2, CutIs
  <1>6. c = s \o u
    BY <1>3 DEF Strlcat
  <1> HIDE DEF n, u, c, room
  <1>7. /\ c \in Str /\ Len(c) = Len(s) + n
        /\ \A i \in 1..Len(s) : c[i] = s[i]
        /\ \A i \in 1..n : c[Len(s) + i] = u[i]
    BY <1>5, <1>6, JoinIs
  <1>8. Len(c) - Len(s) = n
    BY <1>1, <1>2, <1>7
  <1> QED
    BY <1>4, <1>5, <1>7, <1>8 DEF c

(* A directory on the way to a path ends before one of its slashes.        *)
Before(q, path) ==
  /\ q \in Str /\ 0 < Len(q) /\ Len(q) < Len(path)
  /\ path[Len(q) + 1] = "/"
  /\ \A i \in 1..Len(q) : q[i] = path[i]

LEMMA ParentsAre ==
  ASSUME NEW path \in Str
  PROVE  \A q : q \in Parents(path) <=> Before(q, path)
  <1>1. ASSUME NEW i \in 2..Len(path)
        PROVE  LET q == Strndup(path, i - 1) IN
                 q \in Str /\ Len(q) = i - 1 /\ \A k \in 1..Len(q) : q[k] = path[k]
    <2>1. Len(path) \in Nat /\ i - 1 \in Nat /\ i - 1 <= Len(path) /\ ~(Len(path) <= i - 1)
      BY StringIs
    <2>2. Min({Len(path), i - 1}) = i - 1
      BY <2>1, MinOfTwo
    <2>3. Strndup(path, i - 1) = SubSeq(path, 1, i - 1)
      BY <2>2 DEF Strndup
    <2>4. /\ SubSeq(path, 1, i - 1) \in Str /\ Len(SubSeq(path, 1, i - 1)) = i - 1
          /\ \A k \in 1..(i - 1) : SubSeq(path, 1, i - 1)[k] = path[k]
      BY <2>1, CutIs
    <2> QED
      BY <2>3, <2>4
  <1> SUFFICES ASSUME NEW q PROVE q \in Parents(path) <=> Before(q, path)
    OBVIOUS
  <1>2. ASSUME q \in Parents(path) PROVE Before(q, path)
    <2>1. PICK i \in 2..Len(path) : path[i] = "/" /\ q = Strndup(path, i - 1)
      BY <1>2 DEF Parents
    <2>2. q \in Str /\ Len(q) = i - 1 /\ \A k \in 1..Len(q) : q[k] = path[k]
      BY <1>1, <2>1
    <2>3. 0 < i - 1 /\ i - 1 < Len(path) /\ (i - 1) + 1 = i
      BY StringIs
    <2> QED
      BY <2>1, <2>2, <2>3 DEF Before
  <1>3. ASSUME Before(q, path) PROVE q \in Parents(path)
    <2> DEFINE i == Len(q) + 1
               c == Strndup(path, i - 1)
    <2>1. Len(q) \in Nat /\ Len(path) \in Nat
      BY <1>3, StringIs DEF Before
    <2>2. i \in 2..Len(path) /\ i - 1 = Len(q)
      BY <1>3, <2>1 DEF Before
    <2>3. path[i] = "/"
      BY <1>3 DEF Before
    <2>4. c \in Str /\ Len(c) = Len(q) /\ \A k \in 1..Len(c) : c[k] = path[k]
      BY <1>1, <2>2
    <2>5. c \in Parents(path)
      BY <2>2, <2>3 DEF Parents
    <2> HIDE DEF i, c
    <2>6. q = c
      BY <1>3, <2>4, SameString DEF Before
    <2> QED
      BY <2>5, <2>6
  <1> QED
    BY <1>2, <1>3

LEMMA ParentsOfParents ==
  ASSUME NEW path \in Str, NEW q \in Parents(path)
  PROVE  Parents(q) \subseteq Parents(path)
  <1>1. Before(q, path)
    BY ParentsAre
  <1>2. q \in Str /\ Len(q) \in Nat /\ Len(path) \in Nat
    BY <1>1, StringIs DEF Before
  <1> SUFFICES ASSUME NEW r \in Parents(q) PROVE Before(r, path)
    BY ParentsAre
  <1>3. Before(r, q)
    BY <1>2, ParentsAre
  <1>4. Len(r) \in Nat
    BY <1>3, StringIs DEF Before
  <1>5. Len(r) + 1 \in 1..Len(q) /\ Len(r) < Len(path)
    BY <1>1, <1>2, <1>3, <1>4 DEF Before
  <1>6. path[Len(r) + 1] = "/"
    BY <1>1, <1>3, <1>5 DEF Before
  <1>7. \A i \in 1..Len(r) : i \in 1..Len(q)
    BY <1>2, <1>4, <1>5
  <1>8. \A i \in 1..Len(r) : r[i] = path[i]
    BY <1>1, <1>3, <1>7 DEF Before
  <1> QED
    BY <1>3, <1>5, <1>6, <1>8 DEF Before

-----------------------------------------------------------------------------
(* Names: p is a file right below the directory of d.                      *)
Below(p, d) ==
  /\ p \in Str /\ Len(Base[d]) + 1 < Len(p)
  /\ \A i \in 1..Len(Base[d]) : p[i] = Base[d][i]
  /\ p[Len(Base[d]) + 1] = "/"
  /\ \A i \in 1..Len(p) : Len(Base[d]) + 1 < i => p[i] # "/"

LEMMA BaseIs ==
  ASSUME NEW d \in Domain
  PROVE  Base[d] \in Str /\ Len(Base[d]) \in Nat /\ Len(Base[d]) > 0
  BY BaseType, StringIs DEF Str

LEMMA ConfigIs ==
  /\ Config \in Str /\ Len(Config) \in Nat /\ Len(Config) > 1
  /\ Config[1] = "/" /\ \A i \in 2..Len(Config) : Config[i] # "/"
  BY ConfigType, StringIs DEF Str

LEMMA SuffixIs ==
  /\ Suffix \in Str /\ Len(Suffix) \in Nat /\ Len(Suffix) > 0
  /\ \A i \in 1..Len(Suffix) : Suffix[i] # "/"
  BY SuffixType, StringIs DEF Str

(* Two domains have no file in common.                                     *)
LEMMA BelowApart ==
  ASSUME NEW d \in Domain, NEW e \in Domain, NEW p, Below(p, d), Below(p, e)
  PROVE  d = e
  <1>1. /\ Base[d] \in Str /\ Len(Base[d]) \in Nat
        /\ Base[e] \in Str /\ Len(Base[e]) \in Nat
        /\ Len(p) \in Nat
    BY BaseIs, StringIs DEF Below
  <1>2. /\ Len(Base[d]) + 1 \in 1..Len(p) /\ p[Len(Base[d]) + 1] = "/"
        /\ Len(Base[e]) + 1 \in 1..Len(p) /\ p[Len(Base[e]) + 1] = "/"
    BY <1>1 DEF Below
  <1>3. /\ ~(Len(Base[e]) + 1 < Len(Base[d]) + 1)
        /\ ~(Len(Base[d]) + 1 < Len(Base[e]) + 1)
    BY <1>2 DEF Below
  <1>4. Len(Base[d]) = Len(Base[e])
    BY <1>1, <1>3
  <1>5. Base[d] = Base[e]
    BY <1>1, <1>4, SameString DEF Below
  <1> QED
    BY <1>5, BaseApart

LEMMA ParentsBelow ==
  ASSUME NEW d \in Domain, NEW p, Below(p, d)
  PROVE  Parents(p) = Parents(Base[d]) \cup {Base[d]}
  <1> DEFINE b == Len(Base[d])
  <1>1. Base[d] \in Str /\ p \in Str /\ b \in Nat /\ b > 0 /\ Len(p) \in Nat /\ b + 1 < Len(p)
    BY BaseIs, StringIs DEF Below
  <1>2. ASSUME NEW q, Before(q, p) PROVE Before(q, Base[d]) \/ q = Base[d]
    <2>1. q \in Str /\ Len(q) \in Nat /\ 0 < Len(q) /\ Len(q) < Len(p)
      BY <1>2, StringIs DEF Before
    <2>2. Len(q) + 1 \in 1..Len(p) /\ p[Len(q) + 1] = "/"
      BY <1>1, <1>2, <2>1 DEF Before
    <2>3. ~(b + 1 < Len(q) + 1)
      BY <2>2 DEF Below
    <2>4. CASE Len(q) = b
      BY <1>1, <1>2, <2>1, <2>4, SameString DEF Before, Below
    <2>5. CASE Len(q) < b
      <3>1. Len(q) + 1 \in 1..b /\ \A i \in 1..Len(q) : i \in 1..b
        BY <1>1, <2>1, <2>5
      <3>2. Base[d][Len(q) + 1] = "/"
        BY <2>2, <3>1 DEF Below
      <3>3. \A i \in 1..Len(q) : q[i] = Base[d][i]
        BY <1>2, <3>1 DEF Below, Before
      <3> QED
        BY <2>1, <2>5, <3>2, <3>3 DEF Before
    <2> QED
      BY <1>1, <2>1, <2>3, <2>4, <2>5
  <1>3. ASSUME NEW q, Before(q, Base[d]) PROVE Before(q, p)
    <2>1. q \in Str /\ Len(q) \in Nat /\ 0 < Len(q) /\ Len(q) < b
      BY <1>3, StringIs DEF Before
    <2>2. Len(q) < Len(p) /\ Len(q) + 1 \in 1..b /\ \A i \in 1..Len(q) : i \in 1..b
      BY <1>1, <2>1
    <2>3. p[Len(q) + 1] = "/"
      BY <1>3, <2>2 DEF Before, Below
    <2>4. \A i \in 1..Len(q) : q[i] = p[i]
      BY <1>3, <2>2 DEF Before, Below
    <2> QED
      BY <2>1, <2>2, <2>3, <2>4 DEF Before
  <1>4. Before(Base[d], p)
    <2>1. b < Len(p)
      BY <1>1
    <2> QED
      BY <1>1, <2>1 DEF Before, Below
  <1>5. \A q : q \in Parents(p) <=> q \in Parents(Base[d]) \/ q = Base[d]
    BY <1>1, <1>2, <1>3, <1>4, ParentsAre
  <1> QED
    BY <1>5

(* No buffer runs over.                                                    *)
LEMMA NamesAre ==
  ASSUME NEW d \in Domain
  PROVE  /\ Scratch(d) \in Str /\ Len(Scratch(d)) < PathMax
         /\ Loc(d) \in Str /\ Len(Loc(d)) < PathMax
         /\ Tfile(Loc(d)) \in Str /\ Len(Tfile(Loc(d))) < PathMax
  <1>1. PathMax \in Nat /\ PathMax > 1
    BY PathMaxType
  <1>2. Base[d] \in Str /\ Len(Base[d]) \in Nat
    BY BaseIs
  <1>3. Scratch(d) \in Str /\ Len(Scratch(d)) < PathMax
    BY <1>1, <1>2, StrlcpyIs DEF Scratch
  <1>4. Loc(d) \in Str /\ Len(Loc(d)) < PathMax
    BY <1>1, <1>3, ConfigIs, StrlcatIs DEF Loc
  <1>5. Strlcpy(Loc(d)) = Loc(d)
    BY <1>4, StrlcpyIs
  <1>6. Tfile(Loc(d)) \in Str /\ Len(Tfile(Loc(d))) < PathMax
    BY <1>1, <1>4, <1>5, SuffixIs, StrlcatIs DEF Tfile
  <1> QED
    BY <1>3, <1>4, <1>6

LEMMA FittingNames ==
  ASSUME NEW d \in Domain, Fits(d)
  PROVE  /\ Scratch(d) = Base[d]
         /\ Below(Loc(d), d) /\ Len(Loc(d)) = Len(Base[d]) + Len(Config)
         /\ Below(Tfile(Loc(d)), d) /\ Len(Loc(d)) < Len(Tfile(Loc(d)))
  <1> DEFINE b == Len(Base[d])
             c == Len(Config)
             l == Loc(d)
             t == Tfile(l)
  <1>1. PathMax \in Nat /\ b \in Nat /\ c \in Nat /\ c > 1 /\ b + c < PathMax - 1
    BY PathMaxType, BaseIs, ConfigIs DEF Fits
  <1>2. b < PathMax /\ b + c < PathMax
    BY <1>1
  <1>3. Scratch(d) = Base[d]
    BY <1>2, BaseIs, StrlcpyIs DEF Scratch
  <1>4. /\ l \in Str /\ Len(l) = b + c
        /\ \A i \in 1..b : l[i] = Base[d][i]
        /\ \A i \in 1..(Len(l) - b) : l[b + i] = Config[i]
    BY <1>2, <1>3, BaseIs, ConfigIs, StrlcatIs DEF Loc
  <1> HIDE DEF l
  <1>5. \A i \in 1..c : l[b + i] = Config[i]
    BY <1>1, <1>4
  <1>6. l[b + 1] = "/"
    BY <1>1, <1>5, ConfigIs
  <1>7. ASSUME NEW i \in 1..Len(l), b + 1 < i PROVE l[i] # "/"
    <2>1. i - b \in 2..c /\ i - b \in 1..c /\ b + (i - b) = i
      BY <1>1, <1>4, <1>7
    <2> QED
      BY <1>5, <2>1, ConfigIs
  <1>8. Below(l, d)
    <2>1. b + 1 < Len(l)
      BY <1>1, <1>4
    <2> QED
      BY <1>4, <1>6, <1>7, <2>1 DEF Below
  <1>9. t = Strlcat(l, Suffix) /\ Len(l) < PathMax
    BY <1>2, <1>4, StrlcpyIs DEF Tfile
  <1> HIDE DEF t
  <1>10. /\ t \in Str
         /\ Len(t) = IF Len(l) + Len(Suffix) < PathMax THEN Len(l) + Len(Suffix) ELSE PathMax - 1
         /\ \A i \in 1..Len(l) : t[i] = l[i]
         /\ \A i \in 1..(Len(t) - Len(l)) : t[Len(l) + i] = Suffix[i]
    BY <1>4, <1>9, SuffixIs, StrlcatIs
  <1>11. Len(t) \in Nat /\ b + c < Len(t) /\ Len(t) <= (b + c) + Len(Suffix) /\ Len(Suffix) \in Nat
    BY <1>1, <1>4, <1>10, SuffixIs
  <1>12. ASSUME NEW i \in 1..Len(t), b + 1 < i PROVE t[i] # "/"
    <2>1. CASE i <= b + c
      <3>1. i \in 1..(b + c)
        BY <1>1, <1>11, <2>1
      <3>2. t[i] = l[i]
        BY <1>4, <1>10, <3>1
      <3> QED
        BY <1>4, <1>7, <1>12, <3>1, <3>2
    <2>2. CASE ~(i <= b + c)
      <3> HIDE DEF b, c
      <3>1. /\ i - (b + c) \in 1..(Len(t) - (b + c)) /\ i - (b + c) \in 1..Len(Suffix)
            /\ (b + c) + (i - (b + c)) = i
        BY <1>1, <1>11, <2>2
      <3>2. t[(b + c) + (i - (b + c))] = Suffix[i - (b + c)]
        BY <1>4, <1>10, <3>1
      <3> QED
        BY <3>1, <3>2, SuffixIs
    <2> QED
      BY <2>1, <2>2
  <1>13. Below(t, d)
    <2>1. b + 1 < Len(t) /\ b + 1 \in 1..(b + c) /\ \A i \in 1..b : i \in 1..(b + c)
      BY <1>1, <1>11
    <2>2. t[b + 1] = "/" /\ \A i \in 1..b : t[i] = Base[d][i]
      BY <1>4, <1>6, <1>10, <2>1
    <2> QED
      BY <1>10, <1>12, <2>1, <2>2 DEF Below
  <1>14. Len(l) < Len(t)
    BY <1>4, <1>11
  <1> QED
    BY <1>3, <1>4, <1>8, <1>13, <1>14 DEF l, t

LEMMA CutNames ==
  ASSUME NEW d \in Domain, ~Fits(d)
  PROVE  Len(Loc(d)) = PathMax - 1 /\ Tfile(Loc(d)) = Loc(d)
  <1> DEFINE l == Loc(d)
             s == Scratch(d)
  <1>1. /\ PathMax \in Nat /\ PathMax > 1 /\ Len(Base[d]) \in Nat /\ Len(Config) \in Nat
        /\ Base[d] \in Str /\ Config \in Str /\ ~(Len(Base[d]) + Len(Config) < PathMax - 1)
    BY PathMaxType, BaseIs, ConfigIs DEF Fits
  <1>2. s \in Str /\ Len(s) = IF Len(Base[d]) < PathMax THEN Len(Base[d]) ELSE PathMax - 1
    BY <1>1, StrlcpyIs DEF Scratch
  <1>3. l \in Str /\ Len(l) = IF Len(s) + Len(Config) < PathMax THEN Len(s) + Len(Config) ELSE PathMax - 1
    <2>1. Len(s) < PathMax
      BY <1>1, <1>2
    <2> QED
      BY <1>1, <1>2, <2>1, StrlcatIs DEF Loc
  <1> HIDE DEF s
  <1>4. Len(l) = PathMax - 1
    BY <1>1, <1>2, <1>3
  <1>5. Len(l) < PathMax
    BY <1>1, <1>4
  <1> DEFINE t == Tfile(l)
  <1>6. t = Strlcat(l, Suffix)
    BY <1>3, <1>5, StrlcpyIs DEF Tfile
  <1> HIDE DEF l, t
  <1>7. /\ t \in Str
        /\ Len(t) = IF Len(l) + Len(Suffix) < PathMax THEN Len(l) + Len(Suffix) ELSE PathMax - 1
        /\ \A i \in 1..Len(l) : t[i] = l[i]
    BY <1>3, <1>5, <1>6, SuffixIs, StrlcatIs
  <1>8. Len(t) = Len(l)
    BY <1>1, <1>4, <1>7, SuffixIs
  <1>9. t = l
    BY <1>3, <1>7, <1>8, SameString
  <1> QED
    BY <1>4, <1>9 DEF l, t

(* The temporary file is another file exactly if a character of its suffix *)
(* fits, which is what KeyfileStore assumes of Loc and Tmp.                *)
THEOREM TemporaryIsApart ==
  ASSUME NEW d \in Domain
  PROVE  Fits(d) <=> Tfile(Loc(d)) # Loc(d)
  <1>1. CASE Fits(d)
    <2>1. Len(Loc(d)) \in Nat /\ Len(Loc(d)) < Len(Tfile(Loc(d)))
      BY <1>1, NamesAre, StringIs, FittingNames
    <2> QED
      BY <1>1, <2>1
  <1> QED
    BY <1>1, CutNames

LEMMA NamesApart ==
  ASSUME NEW d \in Domain, NEW e \in Domain, Fits(d)
  PROVE  /\ Fits(e) /\ Loc(d) = Loc(e) => d = e
         /\ Fits(e) => Tfile(Loc(d)) # Loc(e)
         /\ Fits(e) /\ Tfile(Loc(d)) = Tfile(Loc(e)) => d = e
         /\ ~Fits(e) => Loc(d) # Loc(e)
  <1>1. /\ Below(Loc(d), d) /\ Below(Tfile(Loc(d)), d)
        /\ Len(Loc(d)) = Len(Base[d]) + Len(Config)
        /\ Loc(d) # Tfile(Loc(d))
    BY FittingNames, TemporaryIsApart
  <1>2. Fits(e) => Below(Loc(e), e) /\ Below(Tfile(Loc(e)), e)
    BY FittingNames
  <1>3. Fits(e) /\ Loc(d) = Loc(e) => d = e
    BY <1>1, <1>2, BelowApart
  <1>4. Fits(e) => Tfile(Loc(d)) # Loc(e)
    <2>1. Fits(e) /\ Tfile(Loc(d)) = Loc(e) => d = e
      BY <1>1, <1>2, BelowApart
    <2> QED
      BY <1>1, <2>1
  <1>5. Fits(e) /\ Tfile(Loc(d)) = Tfile(Loc(e)) => d = e
    BY <1>1, <1>2, BelowApart
  <1>6. ~Fits(e) => Loc(d) # Loc(e)
    <2>1. Len(Loc(d)) < PathMax - 1
      BY <1>1 DEF Fits
    <2>2. ~Fits(e) => Len(Loc(e)) = PathMax - 1
      BY CutNames
    <2>3. Len(Loc(d)) \in Nat
      BY NamesAre, StringIs
    <2> QED
      BY <2>1, <2>2, <2>3, PathMaxType
  <1> QED
    BY <1>3, <1>4, <1>5, <1>6

(* The directories mcs_create_directory is to make for a domain.           *)
Above(d) == Parents(Scratch(d)) \cup {Scratch(d)}

LEMMA AboveIs ==
  ASSUME NEW d \in Domain, Fits(d)
  PROVE  /\ Parents(Loc(d)) = Above(d) /\ Last(Loc(d)) # "/"
         /\ Parents(Tfile(Loc(d))) = Above(d) /\ Last(Tfile(Loc(d))) # "/"
         /\ \A p \in Above(d) : Parents(p) \subseteq Above(d)
         /\ \A e \in Domain : ~Fits(e) => Loc(e) \notin Above(d)
  <1>1. Below(Loc(d), d) /\ Below(Tfile(Loc(d)), d) /\ Scratch(d) = Base[d]
    BY FittingNames
  <1>2. ASSUME NEW p, Below(p, d) PROVE Parents(p) = Above(d) /\ Last(p) # "/"
    <2>1. Parents(p) = Above(d)
      BY <1>1, <1>2, ParentsBelow DEF Above
    <2>2. Len(Base[d]) + 1 < Len(p) /\ Len(p) \in 1..Len(p)
      BY <1>2, BaseIs, StringIs DEF Below
    <2> QED
      BY <1>2, <2>1, <2>2 DEF Below, Last
  <1>3. \A p \in Above(d) : Parents(p) \subseteq Above(d)
    BY <1>1, BaseIs, ParentsOfParents DEF Above
  <1>4. ASSUME NEW e \in Domain, ~Fits(e), Loc(e) \in Above(d) PROVE FALSE
    <2>1. Len(Loc(e)) = PathMax - 1
      BY <1>4, CutNames
    <2>2. Loc(e) = Base[d] \/ Before(Loc(e), Base[d])
      BY <1>1, <1>4, BaseIs, ParentsAre DEF Above
    <2>3. Len(Loc(e)) \in Nat /\ Len(Loc(e)) <= Len(Base[d])
      BY <2>2, NamesAre, StringIs, BaseIs DEF Before
    <2> QED
      BY <2>1, <2>3, PathMaxType, ConfigIs, BaseIs DEF Fits
  <1> QED
    BY <1>1, <1>2, <1>3, <1>4

-----------------------------------------------------------------------------
(* What the calls do to the files and directories.                         *)
Held == Content \cup {Nothing}

LEMMA NewDirs ==
  ASSUME NEW d \in Domain
  PROVE  /\ Created(Scratch(d)) \cap DOMAIN files = {}
         /\ Created(Scratch(d)) \subseteq Str
         /\ Fits(d) /\ ~InTheWay(d) => Above(d) \subseteq Created(Scratch(d))
  <1>1. Created(Scratch(d)) \subseteq Above(d)
    BY DEF Created, Above
  <1>2. Above(d) \subseteq Str
    BY NamesAre, ParentsAre DEF Above, Before
  <1>3. Created(Scratch(d)) \cap DOMAIN files = {}
    BY DEF Created
  <1>4. ASSUME Fits(d), ~InTheWay(d), NEW p \in Above(d) PROVE p \in Created(Scratch(d))
    <2>1. Parents(p) \cup {p} \subseteq Above(d)
      BY <1>4, AboveIs
    <2>2. DOMAIN files \cap Above(d) = {}
      BY <1>4 DEF InTheWay, Above
    <2> QED
      BY <2>1, <2>2 DEF Created, Above
  <1> QED
    BY <1>1, <1>2, <1>3, <1>4

Puts(p, content) ==
  /\ DOMAIN files' = DOMAIN files \cup {p} /\ files'[p] = content
  /\ \A q \in DOMAIN files : q # p => files'[q] = files[q]

Takes(p) ==
  /\ DOMAIN files' = DOMAIN files \ {p}
  /\ \A q \in DOMAIN files : q # p => files'[q] = files[q]

(* A save that writes nothing, one that unlinks what it has written, one   *)
(* that stays in the temporary file, and one that lands.                   *)
Effect(d) ==
  IF ~Opens(Tfile(Loc(d))) THEN files' = files
  ELSE IF ~Fits(d) THEN Takes(Loc(d))
  ELSE IF Loc(d) \in dirs THEN Puts(Tfile(Loc(d)), handle[d].kf)
  ELSE Puts(Loc(d), handle[d].kf)

LEMMA NoTemporary ==
  ASSUME FilesInv, NEW d \in Domain, Fits(d), Loc(d) \notin dirs
  PROVE  Tfile(Loc(d)) \notin DOMAIN files
  <1> SUFFICES ASSUME Tfile(Loc(d)) \in DOMAIN files PROVE FALSE
    OBVIOUS
  <1>1. CASE \E e \in Domain : Fits(e) /\ Tfile(Loc(d)) = Loc(e)
    BY <1>1, NamesApart
  <1>2. CASE \E e \in Domain : Fits(e) /\ Loc(e) \in dirs /\ Tfile(Loc(d)) = Tfile(Loc(e))
    BY <1>2, NamesApart
  <1> QED
    BY <1>1, <1>2 DEF FilesInv, Leftover

LEMMA DestroyIs ==
  ASSUME TypeOK, FilesInv, NEW d \in Domain, Destroy(d)
  PROVE  Effect(d) /\ files' \in [DOMAIN files' -> Held]
  <1> DEFINE loc == Loc(d)
             tfile == Tfile(loc)
             kf == handle[d].kf
             written == Write(files, tfile, kf)
             unlinked == Unlink(written, loc)
  <1>1. handle[d].loc = loc /\ kf \in Held
    BY DEF Destroy, TypeOK, Held
  <1>2. files' = IF ~Opens(tfile) THEN files
                 ELSE IF loc \in dirs THEN written
                 ELSE Rename(unlinked, tfile, loc)
    BY <1>1 DEF Destroy
  <1>3. files \in [DOMAIN files -> Held]
    BY DEF TypeOK, Held
  <1>4. ~Fits(d) => tfile = loc
    BY CutNames
  <1>5. Fits(d) => tfile # loc
    BY TemporaryIsApart
  <1>6. Fits(d) /\ loc \notin dirs => tfile \notin DOMAIN files
    BY NoTemporary
  <1> HIDE DEF loc, tfile, kf
  <1>7. CASE ~Opens(tfile)
    BY <1>2, <1>3, <1>7 DEF Effect, loc, tfile
  <1>8. CASE Opens(tfile) /\ loc \in dirs
    <2>1. Fits(d)
      BY <1>4, <1>8 DEF Opens
    <2>2. files' = written
      BY <1>2, <1>8
    <2>3. Puts(tfile, kf) /\ files' \in [DOMAIN files' -> Held]
      BY <1>1, <1>3, <2>2 DEF Puts, Write
    <2> QED
      BY <1>8, <2>1, <2>3 DEF Effect, loc, tfile, kf
  <1>9. CASE Opens(tfile) /\ loc \notin dirs /\ ~Fits(d)
    <2>1. files' = unlinked
      BY <1>2, <1>4, <1>9 DEF Rename, Unlink
    <2>2. Takes(loc) /\ files' \in [DOMAIN files' -> Held]
      BY <1>3, <1>4, <1>9, <2>1 DEF Takes, Unlink, Write
    <2> QED
      BY <1>9, <2>2 DEF Effect, loc, tfile
  <1>10. CASE Opens(tfile) /\ loc \notin dirs /\ Fits(d)
    <2>1. /\ DOMAIN unlinked = (DOMAIN files \cup {tfile}) \ {loc}
          /\ unlinked[tfile] = kf
          /\ \A p \in DOMAIN files : p # tfile /\ p # loc => unlinked[p] = files[p]
      BY <1>5, <1>10 DEF Unlink, Write
    <2>2. files' = Write(Unlink(unlinked, tfile), loc, kf)
      BY <1>2, <1>5, <1>10, <2>1 DEF Rename
    <2> HIDE DEF unlinked
    <2>3. /\ DOMAIN files' = DOMAIN files \cup {loc}
          /\ files' = [p \in DOMAIN files \cup {loc} |-> IF p = loc THEN kf ELSE unlinked[p]]
      BY <1>5, <1>6, <1>10, <2>1, <2>2 DEF Write, Unlink
    <2>4. \A p \in DOMAIN files : p # loc => unlinked[p] = files[p]
      BY <1>6, <1>10, <2>1
    <2>5. Puts(loc, kf) /\ files' \in [DOMAIN files' -> Held]
      BY <1>1, <1>3, <2>3, <2>4 DEF Puts
    <2> QED
      BY <1>10, <2>5 DEF Effect, loc, tfile, kf
  <1> QED
    BY <1>7, <1>8, <1>9, <1>10

(* What is in the way stays in the way.                                    *)
LEMMA InTheWayStays ==
  ASSUME TypeOK, FilesInv, Next
  PROVE  /\ dirs \subseteq dirs'
         /\ \A d \in Domain : Fits(d) /\ InTheWay(d) => InTheWay(d)'
  <1>1. PICK e \in Domain : New(e) \/ Destroy(e) \/ \E content \in Content : Set(e, content)
    BY DEF Next
  <1>2. dirs \subseteq dirs'
    BY <1>1 DEF New, Set, Destroy
  <1>3. ASSUME NEW d \in Domain, Fits(d) PROVE DOMAIN files \cap Above(d) \subseteq DOMAIN files'
    <2>1. CASE Destroy(e)
      <3>1. Effect(e)
        BY <2>1, DestroyIs
      <3>2. ~Fits(e) => Loc(e) \notin Above(d)
        BY <1>3, AboveIs
      <3> QED
        BY <3>1, <3>2 DEF Effect, Puts, Takes
    <2>2. CASE New(e) \/ \E content \in Content : Set(e, content)
      BY <2>2 DEF New, Set
    <2> QED
      BY <1>1, <2>1, <2>2
  <1>4. ASSUME NEW d \in Domain, Fits(d), InTheWay(d) PROVE InTheWay(d)'
    BY <1>2, <1>3, <1>4 DEF InTheWay, Above
  <1> QED
    BY <1>2, <1>4

LEMMA NextTypeOK ==
  ASSUME TypeOK, FilesInv, Next
  PROVE  TypeOK'
  <1>1. PICK d \in Domain : New(d) \/ Destroy(d) \/ \E content \in Content : Set(d, content)
    BY DEF Next
  <1>2. Loc(d) \in Seq(Char)
    BY NamesAre DEF Str
  <1>3. CASE New(d)
    <2>1. Read(Loc(d)) \in Held
      BY DEF Read, TypeOK, Held
    <2>2. dirs' \subseteq Seq(Char)
      BY <1>3, NewDirs DEF New, TypeOK, Str
    <2>3. /\ handle' \in [Domain -> [loc : Seq(Char), kf : Content \cup {Nothing}]]
          /\ \A e \in Domain : handle'[e] # NoHandle => handle'[e].loc = Loc(e)
      BY <1>2, <1>3, <2>1 DEF New, TypeOK, Held
    <2> QED
      BY <1>3, <2>2, <2>3 DEF New, TypeOK
  <1>4. CASE Destroy(d)
    <2>1. files' \in [DOMAIN files' -> Content \cup {Nothing}]
      BY <1>4, DestroyIs DEF Held
    <2>2. NoHandle \in [loc : Seq(Char), kf : Content \cup {Nothing}]
      BY DEF NoHandle
    <2>3. /\ handle' \in [Domain -> [loc : Seq(Char), kf : Content \cup {Nothing}]]
          /\ \A e \in Domain : handle'[e] # NoHandle => handle'[e].loc = Loc(e)
      BY <1>4, <2>2 DEF Destroy, TypeOK
    <2> QED
      BY <1>4, <2>1, <2>3 DEF Destroy, TypeOK
  <1>5. ASSUME NEW content \in Content, Set(d, content) PROVE TypeOK'
    <2>1. handle[d].loc = Loc(d)
      BY <1>5 DEF Set, TypeOK
    <2>2. /\ handle' \in [Domain -> [loc : Seq(Char), kf : Content \cup {Nothing}]]
          /\ \A e \in Domain : handle'[e] # NoHandle => handle'[e].loc = Loc(e)
      BY <1>5, <2>1 DEF Set, TypeOK
    <2> QED
      BY <1>5, <2>2 DEF Set, TypeOK
  <1> QED
    BY <1>1, <1>3, <1>4, <1>5

LEMMA NextDirsInv ==
  ASSUME IInv, Next
  PROVE  DirsInv'
  <1> USE DEF IInv
  <1>1. PICK e \in Domain : New(e) \/ Destroy(e) \/ \E content \in Content : Set(e, content)
    BY DEF Next
  <1>2. CASE New(e)
    <2>1. files' = files /\ dirs' = dirs \cup Created(Scratch(e))
      BY <1>2 DEF New
    <2>2. DOMAIN files' \cap dirs' = {}
      BY <2>1, NewDirs DEF DirsInv
    <2>3. ASSUME NEW p \in DOMAIN files' PROVE Opens(p)'
      BY <2>1, <2>2 DEF DirsInv, Opens
    <2>4. ASSUME NEW d \in Domain, Fits(d), handle'[d] # NoHandle, ~InTheWay(d)'
          PROVE  Parents(Loc(d)) \subseteq dirs'
      <3>1. ~InTheWay(d)
        BY <2>4, InTheWayStays
      <3>2. CASE d = e
        BY <2>1, <2>4, <3>1, <3>2, AboveIs, NewDirs
      <3>3. CASE d # e
        <4>1. handle'[d] = handle[d]
          BY <1>2, <3>3 DEF New, TypeOK
        <4> QED
          BY <2>1, <2>4, <3>1, <4>1 DEF DirsInv
      <3> QED
        BY <3>2, <3>3
    <2> QED
      BY <2>2, <2>3, <2>4 DEF DirsInv, Fits
  <1>3. CASE Destroy(e)
    <2>1. Effect(e) /\ dirs' = dirs
      BY <1>3, DestroyIs DEF Destroy
    <2>2. ASSUME Fits(e), Opens(Tfile(Loc(e))), Loc(e) \notin dirs PROVE Opens(Loc(e))
      BY <2>2, AboveIs DEF Opens
    <2>3. \A p \in DOMAIN files' : p \in DOMAIN files \/ Opens(p)
      BY <2>1, <2>2 DEF Effect, Puts, Takes
    <2>4. \A p \in DOMAIN files' : Opens(p)
      BY <2>3 DEF DirsInv
    <2>5. DOMAIN files' \cap dirs' = {}
      BY <2>1, <2>4 DEF Opens
    <2>6. ASSUME NEW d \in Domain, Fits(d), handle'[d] # NoHandle, ~InTheWay(d)'
          PROVE  Parents(Loc(d)) \subseteq dirs'
      <3>1. ~InTheWay(d) /\ handle[d] # NoHandle
        BY <1>3, <2>6, InTheWayStays DEF Destroy, TypeOK
      <3> QED
        BY <2>1, <2>6, <3>1 DEF DirsInv
    <2> QED
      BY <2>1, <2>4, <2>5, <2>6 DEF DirsInv, Fits, Opens
  <1>4. ASSUME NEW content \in Content, Set(e, content) PROVE DirsInv'
    <2>1. files' = files /\ dirs' = dirs
      BY <1>4 DEF Set
    <2>2. \A d \in Domain : handle'[d] # NoHandle => handle[d] # NoHandle
      BY <1>4 DEF Set, TypeOK
    <2> QED
      BY <2>1, <2>2 DEF DirsInv, Opens, InTheWay, Fits
  <1> QED
    BY <1>1, <1>2, <1>3, <1>4

LEMMA NextFilesInv ==
  ASSUME IInv, Next
  PROVE  FilesInv'
  <1> USE DEF IInv
  <1>1. PICK e \in Domain : New(e) \/ Destroy(e) \/ \E content \in Content : Set(e, content)
    BY DEF Next
  <1> DEFINE Fitting == {Loc(d) : d \in {x \in Domain : Fits(x)}}
  <1>2. Leftover \subseteq Leftover'
    BY InTheWayStays DEF Leftover, Fits
  <1>3. DOMAIN files' \subseteq DOMAIN files \cup Fitting \cup Leftover'
    <2>1. CASE Destroy(e)
      <3>1. Effect(e) /\ dirs' = dirs
        BY <2>1, DestroyIs DEF Destroy
      <3>2. ASSUME Fits(e) PROVE Loc(e) \in Fitting /\ (Loc(e) \in dirs => Tfile(Loc(e)) \in Leftover')
        BY <3>1, <3>2 DEF Leftover, Fits
      <3> QED
        BY <3>1, <3>2 DEF Effect, Puts, Takes
    <2>2. CASE New(e) \/ \E content \in Content : Set(e, content)
      BY <2>2 DEF New, Set
    <2> QED
      BY <1>1, <2>1, <2>2
  <1>4. DOMAIN files' \subseteq Fitting \cup Leftover'
    BY <1>2, <1>3 DEF FilesInv
  <1>5. ASSUME NEW d \in Domain, Fits(d), Tfile(Loc(d)) \notin dirs', ~InTheWay(d)'
        PROVE  saved'[d] = IF Loc(d) \in DOMAIN files' THEN files'[Loc(d)] ELSE Nothing
    <2>1. ~InTheWay(d) /\ Tfile(Loc(d)) \notin dirs /\ Loc(d) \notin dirs
      BY <1>5, InTheWayStays DEF InTheWay
    <2>2. saved[d] = IF Loc(d) \in DOMAIN files THEN files[Loc(d)] ELSE Nothing
      BY <1>5, <2>1 DEF FilesInv
    <2>3. CASE Destroy(e) /\ e # d
      <3>1. Effect(e) /\ saved'[d] = saved[d]
        BY <2>3, DestroyIs DEF Destroy, TypeOK
      <3>2. /\ Fits(e) => Loc(d) # Loc(e) /\ Tfile(Loc(e)) # Loc(d)
            /\ ~Fits(e) => Loc(d) # Loc(e)
        BY <1>5, <2>3, NamesApart
      <3> QED
        BY <2>2, <3>1, <3>2 DEF Effect, Puts, Takes
    <2>4. CASE Destroy(d)
      <3>1. Effect(d) /\ saved'[d] = handle[d].kf
        BY <2>4, DestroyIs DEF Destroy, TypeOK
      <3>2. Parents(Loc(d)) \subseteq dirs
        BY <1>5, <2>1, <2>4 DEF Destroy, DirsInv
      <3>3. Opens(Tfile(Loc(d)))
        BY <1>5, <2>1, <3>2, AboveIs DEF Opens
      <3> QED
        BY <1>5, <2>1, <3>1, <3>3 DEF Effect, Puts
    <2>5. CASE New(e) \/ \E content \in Content : Set(e, content)
      BY <2>2, <2>5 DEF New, Set
    <2> QED
      BY <1>1, <2>3, <2>4, <2>5
  <1> QED
    BY <1>4, <1>5 DEF FilesInv, Fits

LEMMA InitIInv == Init => IInv
  <1> SUFFICES ASSUME Init PROVE IInv
    OBVIOUS
  <1>1. DOMAIN files = {} /\ files \in [DOMAIN files -> Content \cup {Nothing}]
    BY DEF Init
  <1>2. NoHandle \in [loc : Seq(Char), kf : Content \cup {Nothing}]
    BY DEF NoHandle
  <1>3. TypeOK
    BY <1>1, <1>2 DEF Init, TypeOK
  <1> QED
    BY <1>1, <1>3 DEF Init, IInv, DirsInv, FilesInv

LEMMA NextIInv == IInv /\ [Next]_vars => IInv'
  <1> SUFFICES ASSUME IInv, [Next]_vars PROVE IInv'
    OBVIOUS
  <1>1. CASE Next
    BY <1>1, NextTypeOK, NextDirsInv, NextFilesInv DEF IInv
  <1>2. CASE UNCHANGED vars
    BY <1>2 DEF vars, IInv, TypeOK, DirsInv, FilesInv, Opens, InTheWay, Leftover, Fits
  <1> QED
    BY <1>1, <1>2

LEMMA IInvAlways == Spec => []IInv
  BY InitIInv, NextIInv, PTL DEF Spec

-----------------------------------------------------------------------------
(* Types: an open handle writes to the file it was read from, and names,   *)
(* directories and contents are what they are meant to be.                 *)
THEOREM PathsTypeCorrect == Spec => []TypeOK
  <1>1. IInv => TypeOK
    BY DEF IInv
  <1> QED
    BY <1>1, IInvAlways, PTL

(* SavedIsFound, for every PATH_MAX and every set of domains.              *)
LEMMA IInvSavedIsFound ==
  ASSUME IInv
  PROVE  SavedIsFound
  <1> USE DEF IInv
  <1>1. ASSUME NEW d \in Domain, Fits(d), Tfile(Loc(d)) \notin dirs
        PROVE  Read(Loc(d)) = IF InTheWay(d) THEN Nothing ELSE saved[d]
    <2>1. CASE InTheWay(d)
      <3>1. CASE Loc(d) \in dirs
        BY <2>1, <3>1 DEF Read, Opens
      <3>2. CASE DOMAIN files \cap Above(d) # {}
        <4>1. ~(Parents(Loc(d)) \subseteq dirs)
          BY <1>1, <3>2, AboveIs DEF DirsInv
        <4> QED
          BY <2>1, <4>1 DEF Read, Opens
      <3> QED
        BY <2>1, <3>1, <3>2 DEF InTheWay, Above
    <2>2. CASE ~InTheWay(d)
      BY <1>1, <2>2 DEF Read, FilesInv, DirsInv
    <2> QED
      BY <2>1, <2>2
  <1>2. ASSUME NEW d \in Domain, ~Fits(d), Loc(d) \notin Leftover
        PROVE  Read(Loc(d)) = Nothing
    <2>1. \A e \in Domain : Fits(e) => Loc(d) # Loc(e)
      BY <1>2, NamesApart
    <2> QED
      BY <1>2, <2>1 DEF Read, FilesInv
  <1> QED
    BY <1>1, <1>2 DEF SavedIsFound, FilesInv

THEOREM SavedFound == Spec => []SavedIsFound
  <1>1. IInv => SavedIsFound
    BY IInvSavedIsFound
  <1> QED
    BY <1>1, IInvAlways, PTL

(* OthersLeaveIt, for every PATH_MAX and every set of domains: no call of  *)
(* another domain changes what is read of one whose name fits, whichever   *)
(* of the two is in the way of the other.                                  *)
LEMMA StepLeavesIt ==
  ASSUME IInv, Next, NEW d \in Domain, Fits(d), Read(Loc(d))' # Read(Loc(d))
  PROVE  Destroy(d) /\ Opens(Tfile(Loc(d))) /\ Loc(d) \notin dirs
  <1> USE DEF IInv
  <1> DEFINE loc == Loc(d)
  <1>1. PICK e \in Domain : New(e) \/ Destroy(e) \/ \E content \in Content : Set(e, content)
    BY DEF Next
  <1>2. loc \in DOMAIN files => Opens(loc)
    BY DEF DirsInv
  <1>3. loc \in DOMAIN files' => Opens(loc)'
    BY NextDirsInv DEF DirsInv
  <1>4. \/ ~(loc \in DOMAIN files' <=> loc \in DOMAIN files)
        \/ loc \in DOMAIN files /\ files'[loc] # files[loc]
    BY <1>2, <1>3 DEF Read
  <1>5. Destroy(e)
    BY <1>1, <1>4 DEF New, Set
  <1>6. Effect(e)
    BY <1>5, DestroyIs
  <1>7. /\ Fits(e) /\ e # d => loc # Loc(e)
        /\ Fits(e) => Tfile(Loc(e)) # loc
        /\ ~Fits(e) => loc # Loc(e)
    BY NamesApart
  <1>8. Opens(Tfile(Loc(e))) /\ Fits(e) /\ Loc(e) \notin dirs /\ e = d
    <2> HIDE DEF loc
    <2>1. ~(\E p : p # loc /\ (Puts(p, handle[e].kf) \/ Takes(p)))
      BY <1>4 DEF Puts, Takes
    <2>2. files' # files
      BY <1>4
    <2> QED
      BY <1>6, <1>7, <2>1, <2>2 DEF Effect
  <1> QED
    BY <1>5, <1>8

THEOREM OthersLeave == Spec => OthersLeaveIt
  <1>1. IInv /\ [Next]_vars =>
          [\A d \in Domain : \A loc \in {Loc(d)} :
             Fits(d) /\ Read(loc)' # Read(loc) =>
               Destroy(d) /\ Opens(Tfile(loc)) /\ loc \notin dirs]_<<files, dirs>>
    <2> SUFFICES ASSUME IInv, [Next]_vars, <<files, dirs>>' # <<files, dirs>>,
                        NEW d \in Domain, Fits(d), Read(Loc(d))' # Read(Loc(d))
                 PROVE  Destroy(d) /\ Opens(Tfile(Loc(d))) /\ Loc(d) \notin dirs
      OBVIOUS
    <2>1. Next
      BY DEF vars
    <2> QED
      BY <2>1, StepLeavesIt
  <1> QED
    BY <1>1, IInvAlways, PTL DEF Spec, OthersLeaveIt

=============================================================================
