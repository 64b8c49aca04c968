--------------------------- MODULE KeyfileTextProofs ---------------------------
(***************************************************************************)
(* What keyfile_open makes of a text, and of one that keyfile_write made,  *)
(* whole or cut, for keyfiles, texts and buffers of any size.              *)
(***************************************************************************)
EXTENDS KeyfileText, WellFoundedInduction, TLAPS

-----------------------------------------------------------------------------
(* The least of some numbers.                                              *)
LEMMA MinIs ==
  ASSUME NEW S \in SUBSET Nat, S # {}
  PROVE  Min(S) \in S /\ \A n \in S : Min(S) <= n
  <1> DEFINE R == OpToRel(<, Nat)
  <1>1. IsWellFoundedOn(R, Nat)
    BY NatLessThanWellFounded
  <1>2. \A x, y \in Nat : x < y => <<x, y>> \in R
    BY DEF OpToRel
  <1> HIDE DEF R
  <1>3. PICK n \in S : \A m \in S : ~ (<<m, n>> \in R)
    BY <1>1, WFMin
  <1>4. ASSUME NEW m \in S PROVE n <= m
    <2>1. n \in Nat /\ m \in Nat /\ ~ (m < n)
      BY <1>2, <1>3
    <2> QED
      BY <2>1
  <1> QED
    BY <1>4 DEF Min

LEMMA NonEmpty ==
  ASSUME NEW b \in Text
  PROVE  Len(b) \in Nat /\ (b # <<>> <=> Len(b) > 0) /\ (b # <<>> <=> 1 \in 1..Len(b))
  BY DEF Text

LEMMA PartIs ==
  ASSUME NEW b \in Text, NEW m \in Nat, NEW n \in Nat, 1 <= m, m <= n + 1, n <= Len(b)
  PROVE  /\ SubSeq(b, m, n) \in Text /\ Len(SubSeq(b, m, n)) = n - m + 1
         /\ \A i \in 1..n - m + 1 : SubSeq(b, m, n)[i] = b[m + i - 1]
  BY DEF Text

LEMMA JoinedIs ==
  ASSUME NEW b \in Text, NEW c \in Text
  PROVE  /\ b \o c \in Text /\ Len(b \o c) = Len(b) + Len(c)
         /\ \A i \in 1..Len(b) : (b \o c)[i] = b[i]
         /\ \A i \in 1..Len(c) : (b \o c)[Len(b) + i] = c[i]
  BY DEF Text

(* The lines that are printed, character by character.                     *)
LEMMA HeaderText ==
  ASSUME NEW s \in Text
  PROVE  LET x == Header(s) IN
           /\ x \in Text /\ Len(x) = Len(s) + 3
           /\ x[1] = "[" /\ x[Len(s) + 2] = "]" /\ x[Len(s) + 3] = NL
           /\ \A i \in 1..Len(s) : x[i + 1] = s[i]
  <1>1. {"[", "]", NL} \subseteq Char
    BY CharType
  <1> QED
    BY <1>1 DEF Header, Text

LEMMA LineText ==
  ASSUME NEW k \in Text, NEW v \in Text
  PROVE  LET x == Line(k, v) IN
           /\ x \in Text /\ Len(x) = Len(k) + Len(v) + 2
           /\ \A i \in 1..Len(k) : x[i] = k[i]
           /\ x[Len(k) + 1] = "="
           /\ \A i \in 1..Len(v) : x[Len(k) + 1 + i] = v[i]
           /\ x[Len(k) + Len(v) + 2] = NL
  <1>1. {"=", NL} \subseteq Char
    BY CharType
  <1> QED
    BY <1>1 DEF Line, Text

(* strchr answers the first place, if there is one.                        *)
LEMMA StrchrIs ==
  ASSUME NEW b \in Text, NEW c
  PROVE  /\ Strchr(b, c) = 0 => \A i \in 1..Len(b) : b[i] # c
         /\ Strchr(b, c) # 0 =>
              /\ Strchr(b, c) \in 1..Len(b) /\ b[Strchr(b, c)] = c
              /\ \A i \in 1..Len(b) : i < Strchr(b, c) => b[i] # c
  <1> DEFINE places == {i \in DOMAIN b : b[i] = c}
  <1>1. DOMAIN b = 1..Len(b) /\ Len(b) \in Nat
    BY DEF Text
  <1>2. CASE places = {}
    BY <1>1, <1>2 DEF Strchr
  <1>3. CASE places # {}
    <2>1. places \in SUBSET Nat
      BY <1>1
    <2>2. Min(places) \in places /\ \A n \in places : Min(places) <= n
      BY <1>3, <2>1, MinIs
    <2>3. Strchr(b, c) = Min(places)
      BY <1>3 DEF Strchr
    <2>4. /\ Strchr(b, c) \in 1..Len(b) /\ b[Strchr(b, c)] = c
          /\ \A i \in places : Strchr(b, c) <= i
      BY <1>1, <2>2, <2>3
    <2>5. ASSUME NEW i \in 1..Len(b), i < Strchr(b, c) PROVE b[i] # c
      <3>1. i \notin places
        BY <1>1, <2>4, <2>5
      <3> QED
        BY <1>1, <3>1
    <2> QED
      BY <2>4, <2>5
  <1> QED
    BY <1>2, <1>3

LEMMA StrchrFinds ==
  ASSUME NEW b \in Text, NEW c, NEW i \in 1..Len(b), b[i] = c,
         \A j \in 1..Len(b) : j < i => b[j] # c
  PROVE  Strchr(b, c) = i
  <1>1. Len(b) \in Nat
    BY DEF Text
  <1>2. Strchr(b, c) # 0
    BY StrchrIs
  <1>3. /\ Strchr(b, c) \in 1..Len(b) /\ b[Strchr(b, c)] = c
        /\ \A j \in 1..Len(b) : j < Strchr(b, c) => b[j] # c
    BY <1>2, StrchrIs
  <1> QED
    BY <1>1, <1>3

(* strtok answers what comes before the first c.                           *)
LEMMA TokenIs ==
  ASSUME NEW b \in Text, NEW c
  PROVE  /\ Token(b, c) \in Text /\ Len(Token(b, c)) <= Len(b)
         /\ \A i \in 1..Len(Token(b, c)) : Token(b, c)[i] = b[i] /\ b[i] # c
         /\ Len(Token(b, c)) # Len(b) => b[Len(Token(b, c)) + 1] = c
  <1>1. Len(b) \in Nat
    BY DEF Text
  <1>2. CASE Strchr(b, c) = 0
    BY <1>2, StrchrIs DEF Token
  <1>3. CASE Strchr(b, c) # 0
    <2> DEFINE n == Strchr(b, c)
    <2>1. n \in 1..Len(b) /\ b[n] = c /\ \A i \in 1..Len(b) : i < n => b[i] # c
      BY <1>3, StrchrIs
    <2>2. Token(b, c) = SubSeq(b, 1, n - 1)
      BY <1>3 DEF Token
    <2> HIDE DEF n
    <2>3. /\ Token(b, c) \in Text /\ Len(Token(b, c)) = n - 1
          /\ \A i \in 1..n - 1 : Token(b, c)[i] = b[i]
      BY <1>1, <2>1, <2>2 DEF Text
    <2> QED
      BY <1>1, <2>1, <2>3
  <1> QED
    BY <1>2, <1>3

(* strtok(buffer, "=") skips what is '=' at the start, if there is any.    *)
LEMMA UnskippedIs ==
  ASSUME NEW b \in Text
  PROVE  \E m \in 1..Len(b) + 1 :
           /\ Unskipped(b) \in Text /\ Len(Unskipped(b)) = Len(b) - m + 1
           /\ \A i \in 1..Len(b) - m + 1 : Unskipped(b)[i] = b[m + i - 1]
           /\ m <= Len(b) => b[m] # "="
           /\ b # <<>> /\ b[1] # "=" => m = 1
  <1> DEFINE kept == {i \in DOMAIN b : b[i] # "="}
  <1>1. DOMAIN b = 1..Len(b) /\ Len(b) \in Nat
    BY DEF Text
  <1>2. CASE kept = {}
    <2>1. Unskipped(b) = <<>>
      BY <1>2 DEF Unskipped
    <2>2. b # <<>> => b[1] = "="
      BY <1>1, <1>2 DEF Text
    <2> WITNESS Len(b) + 1 \in 1..Len(b) + 1
    <2> QED
      BY <1>1, <2>1, <2>2 DEF Text
  <1>3. CASE kept # {}
    <2> DEFINE m == Min(kept)
    <2>1. kept \in SUBSET Nat
      BY <1>1
    <2>2. m \in kept /\ \A n \in kept : m <= n
      BY <1>3, <2>1, MinIs
    <2>3. Unskipped(b) = SubSeq(b, m, Len(b))
      BY <1>3 DEF Unskipped
    <2>4. b # <<>> /\ b[1] # "=" => 1 \in kept
      BY <1>1, NonEmpty
    <2> HIDE DEF m
    <2>5. m \in 1..Len(b) /\ b[m] # "=" /\ (b # <<>> /\ b[1] # "=" => m = 1)
      <3>1. m \in 1..Len(b) /\ b[m] # "="
        BY <1>1, <2>2
      <3>2. 1 \in kept => m = 1
        BY <1>1, <2>2, <3>1
      <3> QED
        BY <2>4, <3>1, <3>2
    <2>6. /\ Unskipped(b) \in Text /\ Len(Unskipped(b)) = Len(b) - m + 1
          /\ \A i \in 1..Len(b) - m + 1 : Unskipped(b)[i] = b[m + i - 1]
      BY <1>1, <2>3, <2>5 DEF Text
    <2> QED
      BY <1>1, <2>5, <2>6
  <1> QED
    BY <1>2, <1>3

(* What keyfile_open takes out of a piece that is a line.                  *)
LEMMA LineIs ==
  ASSUME NEW b \in Text, \A i \in 1..Len(b) : i < Len(b) => b[i] # NL, ValueIn(b) # <<>>
  PROVE  /\ KeyIn(b) \in Text /\ KeyIn(b) # <<>>
         /\ ValueIn(b) \in Text
         /\ \A i \in 1..Len(KeyIn(b)) : KeyIn(b)[i] \notin {"=", NL}
         /\ \A i \in 1..Len(ValueIn(b)) : ValueIn(b)[i] # NL
         /\ Len(KeyIn(b)) + 1 + Len(ValueIn(b)) <= Len(b)
         /\ b[1] # "=" => KeyIn(b)[1] = b[1]
  <1> DEFINE u == Unskipped(b)
             k == KeyIn(b)
             r == SubSeq(u, Len(k) + 2, Len(u))
  <1>1. PICK m \in 1..Len(b) + 1 :
           /\ u \in Text /\ Len(u) = Len(b) - m + 1
           /\ \A i \in 1..Len(b) - m + 1 : u[i] = b[m + i - 1]
           /\ m <= Len(b) => b[m] # "="
           /\ b # <<>> /\ b[1] # "=" => m = 1
    BY UnskippedIs
  <1>2. /\ k \in Text /\ Len(k) <= Len(u)
        /\ \A i \in 1..Len(k) : k[i] = u[i] /\ u[i] # "="
        /\ Len(k) # Len(u) => u[Len(k) + 1] = "="
    BY <1>1, TokenIs DEF KeyIn
  <1>3. Len(b) \in Nat /\ Len(u) \in Nat /\ Len(k) \in Nat
    BY <1>1, <1>2 DEF Text
  <1>4. /\ r \in Text
        /\ Len(r) = IF Len(k) + 2 <= Len(u) THEN Len(u) - Len(k) - 1 ELSE 0
    BY <1>1, <1>3 DEF Text
  <1>5. ValueIn(b) = Token(r, NL)
    BY DEF ValueIn
  <1> HIDE DEF u, k, r
  <1>6. /\ ValueIn(b) \in Text /\ Len(ValueIn(b)) <= Len(r)
        /\ \A i \in 1..Len(ValueIn(b)) : ValueIn(b)[i] = r[i] /\ r[i] # NL
    BY <1>4, <1>5, TokenIs
  <1>7. Len(k) + 2 <= Len(u)
    BY <1>3, <1>4, <1>6 DEF Text
  <1>8. k # <<>>
    <2>1. m <= Len(b) /\ 1 \in 1..Len(b) - m + 1 /\ m + 1 - 1 = m
      BY <1>1, <1>3, <1>7
    <2>2. u[1] # "="
      BY <1>1, <2>1
    <2>3. Len(k) # 0
      BY <1>2, <1>3, <1>7, <2>2
    <2> QED
      BY <1>2, <2>3, NonEmpty
  <1>9. ASSUME NEW i \in 1..Len(k) PROVE k[i] # NL
    <2>1. /\ i \in 1..Len(b) - m + 1 /\ m + i - 1 \in 1..Len(b) /\ m + i - 1 < Len(b)
      BY <1>1, <1>3, <1>7, <1>9
    <2>2. b[m + i - 1] # NL
      BY <2>1
    <2> QED
      BY <1>1, <1>2, <1>9, <2>1, <2>2
  <1>10. b[1] # "=" => k[1] = b[1]
    <2>1. b # <<>> /\ 1 \in 1..Len(k)
      BY <1>1, <1>2, <1>3, <1>7, <1>8, NonEmpty
    <2>2. 1 \in 1..Len(u)
      BY <1>2, <1>3, <2>1
    <2>3. b[1] # "=" => m = 1
      BY <1>1, <2>1
    <2>4. k[1] = u[1]
      BY <1>2, <2>1
    <2>5. u[1] = b[m + 1 - 1]
      BY <1>1, <2>2
    <2> QED
      BY <2>3, <2>4, <2>5
  <1>11. Len(k) + 1 + Len(ValueIn(b)) <= Len(b)
    <2>1. Len(ValueIn(b)) \in Nat
      BY <1>6, NonEmpty
    <2>2. Len(ValueIn(b)) <= Len(u) - Len(k) - 1
      BY <1>3, <1>4, <1>6, <1>7
    <2> QED
      BY <1>1, <1>3, <2>1, <2>2
  <1>12. /\ \A i \in 1..Len(k) : k[i] # "="
         /\ \A i \in 1..Len(ValueIn(b)) : ValueIn(b)[i] # NL
    BY <1>2, <1>6
  <1> QED
    BY <1>2, <1>6, <1>8, <1>9, <1>10, <1>11, <1>12 DEF k

-----------------------------------------------------------------------------
(* fgets answers a piece that ends in a newline, fills the buffer, or is   *)
(* all there is.                                                           *)
LEMMA FgetsLengthIs ==
  ASSUME text \in Text, text # <<>>
  PROVE  /\ FgetsLength \in 1..Len(text) /\ FgetsLength < BufSize
         /\ \A i \in 1..Len(text) : i < FgetsLength => text[i] # NL
         /\ FgetsLength \in {Len(text), BufSize - 1} \/ text[FgetsLength] = NL
  <1> DEFINE c == Strchr(text, NL)
             S == {Len(text), BufSize - 1} \cup ({c} \ {0})
  <1>1. Len(text) \in Nat /\ Len(text) > 0 /\ BufSize \in Nat /\ BufSize > 1
    BY BufSizeType, NonEmpty
  <1>2. /\ c = 0 \/ (c \in 1..Len(text) /\ text[c] = NL)
        /\ c = 0 => \A i \in 1..Len(text) : text[i] # NL
        /\ c # 0 => \A i \in 1..Len(text) : i < c => text[i] # NL
    BY StrchrIs
  <1> HIDE DEF c
  <1>3. S \in SUBSET Nat /\ S # {}
    BY <1>1, <1>2
  <1>4. FgetsLength = Min(S)
    BY DEF FgetsLength, c
  <1>5. FgetsLength \in S /\ \A n \in S : FgetsLength <= n
    BY <1>3, <1>4, MinIs
  <1>6. FgetsLength \in 1..Len(text) /\ FgetsLength <= BufSize - 1
    BY <1>1, <1>2, <1>5
  <1>7. c # 0 => FgetsLength <= c
    BY <1>5
  <1>8. \A i \in 1..Len(text) : i < FgetsLength => text[i] # NL
    BY <1>1, <1>2, <1>6, <1>7
  <1> QED
    BY <1>1, <1>2, <1>5, <1>6, <1>8

LEMMA FgetsIs ==
  ASSUME text \in Text, NEW b, Fgets(b)
  PROVE  /\ b \in Text /\ b # <<>> /\ Len(b) < BufSize
         /\ \A i \in 1..Len(b) : i < Len(b) => b[i] # NL
         /\ text' \in Text
  <1>1. text # <<>> /\ b = SubSeq(text, 1, FgetsLength)
        /\ text' = SubSeq(text, FgetsLength + 1, Len(text))
    BY DEF Fgets
  <1>2. /\ FgetsLength \in 1..Len(text) /\ FgetsLength < BufSize
        /\ \A i \in 1..Len(text) : i < FgetsLength => text[i] # NL
    BY <1>1, FgetsLengthIs
  <1>3. Len(text) \in Nat
    BY DEF Text
  <1> QED
    BY <1>1, <1>2, <1>3 DEF Text

-----------------------------------------------------------------------------
(* What any keyfile that was loaded satisfies...                           *)
GoodName(s) == (\A i \in 1..Len(s) : s[i] \notin {"]", NL}) /\ Len(s) + 2 < BufSize

GoodLine(k, v) ==
  /\ k # <<>> /\ \A i \in 1..Len(k) : k[i] \notin {"=", NL}
  /\ v # <<>> /\ \A i \in 1..Len(v) : v[i] # NL
  /\ Len(k) + 1 + Len(v) < BufSize

Readable(f) ==
  /\ IsKeyfile(f)
  /\ \A s \in DOMAIN f : GoodName(s) /\ \A k \in DOMAIN f[s] : GoodLine(k, f[s][k])

(* ...and what it may lack.                                                *)
StartsPlain(f) == \A s \in DOMAIN f : \A k \in DOMAIN f[s] : k[1] \notin {"[", "#"}

LEMMA PrintableIs ==
  ASSUME NEW f, IsKeyfile(f)
  PROVE  Printable(f) <=> Readable(f) /\ StartsPlain(f)
  <1>1. \A b \in Text : Range(b) = {b[i] : i \in 1..Len(b)}
    BY DEF Range, Text
  <1>2. \A b \in Text : /\ {"]", NL} \cap Range(b) = {} <=> \A i \in 1..Len(b) : b[i] \notin {"]", NL}
                        /\ {"=", NL} \cap Range(b) = {} <=> \A i \in 1..Len(b) : b[i] \notin {"=", NL}
                        /\ NL \notin Range(b) <=> \A i \in 1..Len(b) : b[i] # NL
    BY <1>1
  <1>3. \A s \in DOMAIN f : s \in Text /\ \A k \in DOMAIN f[s] : k \in Text /\ f[s][k] \in Text
    BY DEF IsKeyfile
  <1>4. ASSUME Printable(f) PROVE Readable(f) /\ StartsPlain(f)
    BY <1>2, <1>3, <1>4 DEF Printable, Readable, GoodName, GoodLine, StartsPlain
  <1>5. ASSUME Readable(f), StartsPlain(f) PROVE Printable(f)
    BY <1>2, <1>3, <1>5 DEF Printable, Readable, GoodName, GoodLine, StartsPlain
  <1> QED
    BY <1>4, <1>5

(* The keyfile f with the section s, and with a line in a section it has.  *)
Entered(f, s) == Extend(f, s, [k \in {} |-> <<>>])

Added(f, s, k, v) == [f EXCEPT ![s] = Extend(@, k, v)]

LEMMA EnteredIs ==
  ASSUME NEW f, IsKeyfile(f), NEW s \in Text
  PROVE  /\ IsKeyfile(Entered(f, s))
         /\ DOMAIN Entered(f, s) = DOMAIN f \cup {s}
         /\ \A t \in DOMAIN f : Entered(f, s)[t] = f[t]
         /\ s \notin DOMAIN f => DOMAIN Entered(f, s)[s] = {}
  <1> DEFINE g == Entered(f, s)
             e == [k \in {} |-> <<>>]
  <1>1. /\ g = [z \in DOMAIN f \cup {s} |-> IF z \in DOMAIN f THEN f[z] ELSE e]
        /\ DOMAIN e = {}
    BY DEF Entered, Extend
  <1>2. e = [k \in DOMAIN e |-> e[k]]
    OBVIOUS
  <1> HIDE DEF g, e
  <1>3. /\ DOMAIN g = DOMAIN f \cup {s}
        /\ \A t \in DOMAIN f : g[t] = f[t]
        /\ s \notin DOMAIN f => g[s] = e
        /\ g = [z \in DOMAIN g |-> g[z]]
    BY <1>1
  <1>4. ASSUME NEW t \in DOMAIN g
        PROVE  /\ t \in Text
               /\ g[t] = [k \in DOMAIN g[t] |-> g[t][k]]
               /\ \A k \in DOMAIN g[t] : k \in Text /\ g[t][k] \in Text
    <2>1. CASE t \in DOMAIN f
      BY <1>3, <2>1 DEF IsKeyfile
    <2>2. CASE t \notin DOMAIN f
      BY <1>1, <1>2, <1>3, <2>2 DEF Text
    <2> QED
      BY <2>1, <2>2
  <1>5. IsKeyfile(g)
    BY <1>3, <1>4 DEF IsKeyfile
  <1> QED
    BY <1>1, <1>3, <1>5 DEF g

LEMMA AddedIs ==
  ASSUME NEW f, IsKeyfile(f), NEW s \in DOMAIN f, NEW k \in Text, NEW v \in Text
  PROVE  /\ IsKeyfile(Added(f, s, k, v))
         /\ DOMAIN Added(f, s, k, v) = DOMAIN f
         /\ \A t \in DOMAIN f \ {s} : Added(f, s, k, v)[t] = f[t]
         /\ DOMAIN Added(f, s, k, v)[s] = DOMAIN f[s] \cup {k}
         /\ \A j \in DOMAIN f[s] : Added(f, s, k, v)[s][j] = f[s][j]
         /\ k \notin DOMAIN f[s] => Added(f, s, k, v)[s][k] = v
  <1> DEFINE g == Added(f, s, k, v)
             h == Extend(f[s], k, v)
  <1>1. h = [z \in DOMAIN f[s] \cup {k} |-> IF z \in DOMAIN f[s] THEN f[s][z] ELSE v]
    BY DEF Extend
  <1>2. g = [f EXCEPT ![s] = h]
    BY DEF Added
  <1> HIDE DEF g, h
  <1>3. f = [t \in DOMAIN f |-> f[t]]
    BY DEF IsKeyfile
  <1>4. /\ DOMAIN g = DOMAIN f
        /\ \A t \in DOMAIN f \ {s} : g[t] = f[t]
        /\ g[s] = h
        /\ g = [z \in DOMAIN g |-> g[z]]
    BY <1>2, <1>3
  <1>5. /\ DOMAIN h = DOMAIN f[s] \cup {k}
        /\ \A j \in DOMAIN f[s] : h[j] = f[s][j]
        /\ k \notin DOMAIN f[s] => h[k] = v
        /\ h = [z \in DOMAIN h |-> h[z]]
    BY <1>1
  <1>6. ASSUME NEW t \in DOMAIN g
        PROVE  /\ t \in Text
               /\ g[t] = [j \in DOMAIN g[t] |-> g[t][j]]
               /\ \A j \in DOMAIN g[t] : j \in Text /\ g[t][j] \in Text
    <2>1. CASE t # s
      BY <1>4, <2>1 DEF IsKeyfile
    <2>2. CASE t = s
      <3>1. s \in Text /\ \A j \in DOMAIN f[s] : j \in Text /\ f[s][j] \in Text
        BY DEF IsKeyfile
      <3>2. \A j \in DOMAIN h : j \in Text /\ h[j] \in Text
        BY <1>5, <3>1 DEF Text
      <3> QED
        BY <1>4, <1>5, <2>2, <3>1, <3>2
    <2> QED
      BY <2>1, <2>2
  <1>7. IsKeyfile(g)
    BY <1>4, <1>6 DEF IsKeyfile
  <1> QED
    BY <1>4, <1>5, <1>7 DEF g

LEMMA EnteredReadable ==
  ASSUME NEW f, Readable(f), NEW s \in Text, GoodName(s)
  PROVE  Readable(Entered(f, s)) /\ (StartsPlain(f) => StartsPlain(Entered(f, s)))
  <1> DEFINE g == Entered(f, s)
  <1>1. /\ IsKeyfile(g) /\ DOMAIN g = DOMAIN f \cup {s}
        /\ \A t \in DOMAIN f : g[t] = f[t]
        /\ s \notin DOMAIN f => DOMAIN g[s] = {}
    BY EnteredIs DEF Readable
  <1> HIDE DEF g
  <1>2. Readable(g)
    BY <1>1 DEF Readable
  <1>3. StartsPlain(f) => StartsPlain(g)
    BY <1>1 DEF StartsPlain
  <1> QED
    BY <1>2, <1>3 DEF g

LEMMA AddedReadable ==
  ASSUME NEW f, Readable(f), NEW s \in DOMAIN f, NEW k \in Text, NEW v \in Text,
         GoodLine(k, v)
  PROVE  /\ Readable(Added(f, s, k, v))
         /\ StartsPlain(f) /\ k[1] \notin {"[", "#"} => StartsPlain(Added(f, s, k, v))
  <1> DEFINE g == Added(f, s, k, v)
  <1>1. /\ IsKeyfile(g) /\ DOMAIN g = DOMAIN f
        /\ \A t \in DOMAIN f \ {s} : g[t] = f[t]
        /\ DOMAIN g[s] = DOMAIN f[s] \cup {k}
        /\ \A j \in DOMAIN f[s] : g[s][j] = f[s][j]
        /\ k \notin DOMAIN f[s] => g[s][k] = v
    BY AddedIs DEF Readable
  <1> HIDE DEF g
  <1>2. \A j \in DOMAIN g[s] : GoodLine(j, g[s][j])
    BY <1>1 DEF Readable
  <1>3. Readable(g)
    BY <1>1, <1>2 DEF Readable
  <1>4. StartsPlain(f) /\ k[1] \notin {"[", "#"} => StartsPlain(g)
    BY <1>1 DEF StartsPlain
  <1> QED
    BY <1>3, <1>4 DEF g
-----------------------------------------------------------------------------
(* What is written is text, and what is read is Readable, at every step.   *)
TextInv ==
  /\ text \in Text
  /\ IsKeyfile(out) /\ IsKeyfile(kf)
  /\ phase = "saving" =>
       /\ todo \subseteq DOMAIN kf
       /\ \A s \in sec : s \in DOMAIN kf /\ lines \subseteq DOMAIN kf[s]
  /\ phase = "loading" => sec \subseteq DOMAIN out
  /\ phase \in {"loading", "loaded"} => Readable(out) /\ (plain => StartsPlain(out))

LEMMA NoneIsReadable ==
  Readable(EmptyKeyfile) /\ StartsPlain(EmptyKeyfile)
  <1>1. DOMAIN EmptyKeyfile = {} /\ EmptyKeyfile = [s \in DOMAIN EmptyKeyfile |-> EmptyKeyfile[s]]
    BY DEF EmptyKeyfile
  <1> QED
    BY <1>1 DEF Readable, StartsPlain, IsKeyfile

(* The name of a header is one the format can hold.                        *)
LEMMA HeaderIs ==
  ASSUME NEW b \in Text, Len(b) < BufSize, \A i \in 1..Len(b) : i < Len(b) => b[i] # NL,
         b[1] = "[", Strchr(b, "]") # 0,
         NEW name, name = SubSeq(b, 2, Strchr(b, "]") - 1)
  PROVE  name \in Text /\ GoodName(name)
  <1> DEFINE n == Strchr(b, "]")
  <1>1. n \in 1..Len(b) /\ b[n] = "]" /\ n # 1 /\ \A i \in 1..Len(b) : i < n => b[i] # "]"
    BY StrchrIs
  <1>2. name = SubSeq(b, 2, n - 1)
    OBVIOUS
  <1> HIDE DEF n
  <1>3. Len(b) \in Nat /\ BufSize \in Nat
    BY NonEmpty, BufSizeType
  <1>4. n \in Nat /\ 2 <= n /\ n <= Len(b)
    BY <1>1, <1>3
  <1>5. /\ name \in Text /\ Len(name) = n - 2
        /\ \A i \in 1..n - 2 : name[i] = b[i + 1]
    <2>1. n - 1 \in Nat /\ 2 <= n - 1 + 1 /\ n - 1 <= Len(b) /\ n - 1 - 2 + 1 = n - 2
      BY <1>3, <1>4
    <2>2. /\ SubSeq(b, 2, n - 1) \in Text /\ Len(SubSeq(b, 2, n - 1)) = n - 1 - 2 + 1
          /\ \A i \in 1..n - 1 - 2 + 1 : SubSeq(b, 2, n - 1)[i] = b[2 + i - 1]
      BY <2>1, PartIs
    <2>3. \A i \in 1..n - 2 : 2 + i - 1 = i + 1
      BY <1>4
    <2> QED
      BY <1>2, <2>1, <2>2, <2>3
  <1>6. ASSUME NEW i \in 1..n - 2 PROVE name[i] \notin {"]", NL}
    <2>1. i + 1 \in 1..Len(b) /\ i + 1 < n /\ i + 1 < Len(b)
      BY <1>3, <1>4, <1>6
    <2>2. b[i + 1] # "]" /\ b[i + 1] # NL
      BY <1>1, <2>1
    <2>3. name[i] = b[i + 1]
      BY <1>5, <1>6
    <2> QED
      BY <2>2, <2>3
  <1>7. Len(name) + 2 < BufSize
    <2> DEFINE m == Len(name)
    <2>0. m = n - 2
      BY <1>5
    <2> HIDE DEF m
    <2>1. m + 2 = n
      BY <1>4, <2>0
    <2>2. n < BufSize
      BY <1>3, <1>4
    <2> QED
      BY <2>1, <2>2 DEF m
  <1> QED
    BY <1>5, <1>6, <1>7 DEF GoodName

(* One turn of the loop of keyfile_open adds a section, or a line to the   *)
(* section it is in, or nothing.                                           *)
LEMMA ReadIs ==
  ASSUME TextInv, NEW b, Read(b)
  PROVE  /\ phase = "loading" /\ phase' = "loading" /\ text' \in Text
         /\ UNCHANGED kf /\ plain' = (plain /\ b[1] # "=")
         /\ \/ \E s \in Text : /\ GoodName(s) /\ out' = Entered(out, s) /\ sec' = {s}
            \/ \E s \in sec, k, v \in Text :
                 /\ GoodLine(k, v) /\ (b[1] # "=" => k[1] \notin {"[", "#"})
                 /\ out' = Added(out, s, k, v) /\ UNCHANGED sec
            \/ UNCHANGED <<out, sec>>
  <1>1. Fgets(b)
    BY DEF Read, ReadHeader, ReadLine, ReadNothing
  <1>2. /\ b \in Text /\ b # <<>> /\ Len(b) < BufSize
        /\ \A i \in 1..Len(b) : i < Len(b) => b[i] # NL
        /\ text' \in Text
    BY <1>1, FgetsIs DEF TextInv
  <1>3. phase = "loading" /\ phase' = phase /\ UNCHANGED kf /\ plain' = (plain /\ b[1] # "=")
    BY <1>1 DEF Fgets
  <1>4. CASE ReadHeader(b)
    <2> DEFINE s == SubSeq(b, 2, Strchr(b, "]") - 1)
    <2>1. b[1] = "[" /\ Strchr(b, "]") # 0 /\ sec' = {s} /\ out' = Entered(out, s)
      BY <1>4 DEF ReadHeader, Entered
    <2>2. s \in Text /\ GoodName(s)
      BY <1>2, <2>1, HeaderIs
    <2> QED
      BY <1>2, <1>3, <2>1, <2>2
  <1>5. CASE ReadLine(b)
    <2> DEFINE k == KeyIn(b)
               v == ValueIn(b)
    <2>1. b[1] \notin {"[", "#"} /\ v # <<>> /\ UNCHANGED sec
      BY <1>5 DEF ReadLine
    <2>2. PICK s \in sec : out' = Added(out, s, k, v)
      BY <1>5 DEF ReadLine, Added
    <2>3. /\ k \in Text /\ k # <<>> /\ v \in Text
          /\ \A i \in 1..Len(k) : k[i] \notin {"=", NL}
          /\ \A i \in 1..Len(v) : v[i] # NL
          /\ Len(k) + 1 + Len(v) <= Len(b)
          /\ b[1] # "=" => k[1] = b[1]
      BY <1>2, <2>1, LineIs
    <2> HIDE DEF k, v
    <2>4. GoodLine(k, v)
      <3>1. Len(b) \in Nat /\ Len(k) \in Nat /\ Len(v) \in Nat /\ BufSize \in Nat
        BY <1>2, <2>3, NonEmpty, BufSizeType
      <3>2. Len(k) + 1 + Len(v) < BufSize
        BY <1>2, <2>3, <3>1
      <3> QED
        BY <2>1, <2>3, <3>2 DEF GoodLine
    <2>5. b[1] # "=" => k[1] \notin {"[", "#"}
      BY <2>1, <2>3
    <2> QED
      BY <1>2, <1>3, <2>1, <2>2, <2>3, <2>4, <2>5
  <1>6. CASE ReadNothing(b)
    BY <1>2, <1>3, <1>6 DEF ReadNothing
  <1> QED
    BY <1>4, <1>5, <1>6 DEF Read

LEMMA InitTextInv == Init => TextInv
  <1> SUFFICES ASSUME Init PROVE TextInv
    OBVIOUS
  <1>1. IsKeyfile(EmptyKeyfile)
    BY NoneIsReadable DEF Readable
  <1>2. CASE phase = "made" /\ out \in Keyfiles /\ text = <<>>
    <2>1. <<>> \in Text
      BY DEF Text
    <2> QED
      BY <1>1, <1>2, <2>1, KeyfilesType DEF Init, TextInv
  <1>3. CASE phase = "loading" /\ out = EmptyKeyfile /\ text \in Scripts
    BY <1>1, <1>3, NoneIsReadable, ScriptsType DEF Init, TextInv, Text
  <1> QED
    BY <1>2, <1>3 DEF Init

LEMMA NextTextInv == TextInv /\ [Next]_vars => TextInv'
  <1> SUFFICES ASSUME TextInv, [Next]_vars PROVE TextInv'
    OBVIOUS
  <1>0. <<>> \in Text /\ \A a, c \in Text : a \o c \in Text
    BY DEF Text
  <1>1. CASE UNCHANGED vars
    BY <1>1 DEF vars, TextInv
  <1>2. CASE Save
    BY <1>0, <1>2 DEF Save, TextInv
  <1>3. ASSUME NEW s \in todo, WriteSection(s)
        PROVE  TextInv'
    <2>1. s \in DOMAIN kf /\ s \in Text
      <3>1. s \in DOMAIN kf /\ IsKeyfile(kf)
        BY <1>3 DEF WriteSection, TextInv
      <3> QED
        BY <3>1 DEF IsKeyfile
    <2>2. text' \in Text
      <3>1. text \in Text /\ text' = text \o Header(s)
        BY <1>3 DEF WriteSection, TextInv
      <3> QED
        BY <1>0, <2>1, <3>1, HeaderText
    <2> QED
      BY <1>3, <2>1, <2>2 DEF WriteSection, TextInv
  <1>4. ASSUME NEW s \in sec, NEW k \in lines, WriteLine(s, k)
        PROVE  TextInv'
    <2>1. k \in Text /\ kf[s][k] \in Text
      <3>1. s \in DOMAIN kf /\ k \in DOMAIN kf[s] /\ IsKeyfile(kf)
        BY <1>4 DEF WriteLine, TextInv
      <3> QED
        BY <3>1 DEF IsKeyfile
    <2>2. text' \in Text
      <3>1. text \in Text /\ text' = text \o Line(k, kf[s][k])
        BY <1>4 DEF WriteLine, TextInv
      <3> QED
        BY <1>0, <2>1, <3>1, LineText
    <2> QED
      BY <1>4, <2>2 DEF WriteLine, TextInv
  <1>5. ASSUME NEW n \in 0..Len(text), Open(n)
        PROVE  TextInv'
    <2>1. text' \in Text
      BY <1>5 DEF Open, TextInv, Text
    <2>2. Readable(EmptyKeyfile) /\ StartsPlain(EmptyKeyfile) /\ IsKeyfile(EmptyKeyfile)
      BY NoneIsReadable DEF Readable
    <2> QED
      BY <1>5, <2>1, <2>2 DEF Open, TextInv
  <1>6. ASSUME NEW b, Read(b)
        PROVE  TextInv'
    <2>0. /\ phase = "loading" /\ phase' = "loading" /\ text' \in Text
          /\ UNCHANGED kf /\ plain' = (plain /\ b[1] # "=")
      BY <1>6, ReadIs
    <2>1. /\ Readable(out) /\ (plain => StartsPlain(out)) /\ sec \subseteq DOMAIN out
          /\ IsKeyfile(out) /\ IsKeyfile(kf)
      BY <2>0 DEF TextInv
    <2>2. ASSUME NEW s \in Text, GoodName(s), out' = Entered(out, s), sec' = {s}
          PROVE  TextInv'
      <3>1. Readable(out') /\ (StartsPlain(out) => StartsPlain(out')) /\ s \in DOMAIN out'
        <4>1. Readable(Entered(out, s)) /\ (StartsPlain(out) => StartsPlain(Entered(out, s)))
          BY <2>1, <2>2, EnteredReadable
        <4>2. DOMAIN Entered(out, s) = DOMAIN out \cup {s}
          BY <2>1, EnteredIs
        <4> QED
          BY <2>2, <4>1, <4>2
      <3> QED
        BY <2>0, <2>1, <2>2, <3>1 DEF TextInv, Readable
    <2>3. ASSUME NEW s \in sec, NEW k \in Text, NEW v \in Text, GoodLine(k, v),
                 b[1] # "=" => k[1] \notin {"[", "#"}, out' = Added(out, s, k, v), UNCHANGED sec
          PROVE  TextInv'
      <3>1. /\ Readable(out') /\ DOMAIN out' = DOMAIN out
            /\ StartsPlain(out) /\ k[1] \notin {"[", "#"} => StartsPlain(out')
        BY <2>1, <2>3, AddedReadable, AddedIs
      <3> QED
        BY <2>0, <2>1, <2>3, <3>1 DEF TextInv, Readable
    <2>4. CASE UNCHANGED <<out, sec>>
      BY <2>0, <2>1, <2>4 DEF TextInv
    <2> QED
      BY <1>6, <2>2, <2>3, <2>4, ReadIs
  <1>7. CASE ReadEnd
    BY <1>7 DEF ReadEnd, TextInv
  <1> QED
    BY <1>1, <1>2, <1>3, <1>4, <1>5, <1>6, <1>7 DEF Next

(* What keyfile_open makes of any file at all can be saved, unless a piece *)
(* of it begins with '='.                                                  *)
THEOREM LoadsCanBeSaved == Spec => []LoadedIsPrintable
  <1>1. TextInv => LoadedIsPrintable
    BY PrintableIs DEF TextInv, LoadedIsPrintable
  <1> QED
    BY <1>1, InitTextInv, NextTextInv, PTL DEF Spec
-----------------------------------------------------------------------------
(* What is printed for a section, or for a line of it.                     *)
Item(f, s, k) == IF k = <<>> THEN Header(s) ELSE Line(k, f[s][k])

LEMMA DifferentCharacters == {"[", "]", "=", "#"} \cap {NL} = {} /\ "=" # "["
  BY DEF NL

(* Each fits the buffer, but for the newline of a long one, and is one     *)
(* line of the text.                                                       *)
LEMMA ItemIs ==
  ASSUME NEW f, Readable(f), NEW s \in DOMAIN f, NEW k \in DOMAIN f[s] \cup {<<>>}
  PROVE  LET x == Item(f, s, k) IN
           /\ x \in Text /\ Len(x) \in Nat /\ 2 <= Len(x) /\ Len(x) <= BufSize
           /\ x[Len(x)] = NL /\ x[1] # "="
           /\ \A i \in 1..Len(x) : i < Len(x) => x[i] # NL
  <1> DEFINE x == Item(f, s, k)
  <1>1. s \in Text /\ GoodName(s)
    BY DEF Readable, IsKeyfile
  <1>2. BufSize \in Nat
    BY BufSizeType
  <1>3. CASE k = <<>>
    <2>1. x = Header(s)
      BY <1>3 DEF Item
    <2>2. /\ x \in Text /\ Len(x) = Len(s) + 3
          /\ x[1] = "[" /\ x[Len(s) + 2] = "]" /\ x[Len(s) + 3] = NL
          /\ \A i \in 1..Len(s) : x[i + 1] = s[i]
      BY <1>1, <2>1, HeaderText
    <2> HIDE DEF x
    <2>3. Len(s) \in Nat /\ Len(s) + 2 < BufSize /\ \A i \in 1..Len(s) : s[i] # NL
      BY <1>1, NonEmpty DEF GoodName
    <2>4. ASSUME NEW i \in 1..Len(s) + 3, i < Len(s) + 3 PROVE x[i] # NL
      <3>1. CASE i = 1 \/ i = Len(s) + 2
        BY <2>2, <3>1, DifferentCharacters
      <3>2. CASE i # 1 /\ i # Len(s) + 2
        <4>1. i - 1 \in 1..Len(s) /\ i - 1 + 1 = i
          BY <2>3, <2>4, <3>2
        <4>2. x[i] = s[i - 1]
          BY <2>2, <4>1
        <4> QED
          BY <2>3, <4>1, <4>2
      <3> QED
        BY <3>1, <3>2
    <2>5. x[1] # "="
      BY <2>2, DifferentCharacters
    <2> DEFINE n == Len(x)
    <2>6. n = Len(s) + 3
      BY <2>2
    <2> HIDE DEF n
    <2>7. n \in Nat /\ 2 <= n /\ n <= BufSize
      BY <1>2, <2>3, <2>6
    <2> QED
      BY <2>2, <2>4, <2>5, <2>6, <2>7 DEF n, x
  <1>4. CASE k # <<>>
    <2> DEFINE v == f[s][k]
    <2>1. x = Line(k, v)
      BY <1>4 DEF Item
    <2>2. k \in Text /\ v \in Text /\ GoodLine(k, v)
      BY <1>4 DEF Readable, IsKeyfile
    <2> HIDE DEF v, x
    <2>3. /\ x \in Text /\ Len(x) = Len(k) + Len(v) + 2
          /\ \A i \in 1..Len(k) : x[i] = k[i]
          /\ x[Len(k) + 1] = "="
          /\ \A i \in 1..Len(v) : x[Len(k) + 1 + i] = v[i]
          /\ x[Len(k) + Len(v) + 2] = NL
      BY <2>1, <2>2, LineText
    <2>4. /\ Len(k) \in Nat /\ Len(k) > 0 /\ Len(v) \in Nat /\ Len(k) + 1 + Len(v) < BufSize
          /\ \A i \in 1..Len(k) : k[i] # NL /\ k[i] # "="
          /\ \A i \in 1..Len(v) : v[i] # NL
      BY <2>2, NonEmpty DEF GoodLine
    <2>5. ASSUME NEW i \in 1..Len(k) + Len(v) + 2, i < Len(k) + Len(v) + 2 PROVE x[i] # NL
      <3>1. CASE i <= Len(k)
        BY <2>3, <2>4, <3>1
      <3>2. CASE i = Len(k) + 1
        BY <2>3, <3>2, DifferentCharacters
      <3>3. CASE i > Len(k) + 1
        <4>1. i - Len(k) - 1 \in 1..Len(v) /\ Len(k) + 1 + (i - Len(k) - 1) = i
          BY <2>4, <2>5, <3>3
        <4>2. x[i] = v[i - Len(k) - 1]
          BY <2>3, <4>1
        <4> QED
          BY <2>4, <4>1, <4>2
      <3> QED
        BY <2>4, <3>1, <3>2, <3>3
    <2>6. x[1] # "="
      BY <2>3, <2>4
    <2> DEFINE n == Len(x)
    <2>7. n = Len(k) + Len(v) + 2
      BY <2>3
    <2> HIDE DEF n
    <2>8. n \in Nat /\ 2 <= n /\ n <= BufSize
      BY <1>2, <2>4, <2>7
    <2> QED
      BY <2>3, <2>5, <2>6, <2>7, <2>8 DEF n, x
  <1> QED
    BY <1>3, <1>4

(* What keyfile_open makes of a header, whole or cut.                      *)
LEMMA HeaderRead ==
  ASSUME NEW s \in Text, GoodName(s), NEW b \in Text, Len(b) \in 1..Len(s) + 3,
         \A i \in 1..Len(b) : b[i] = Header(s)[i]
  PROVE  /\ b[1] = "["
         /\ Strchr(b, "]") # 0 <=> Len(b) >= Len(s) + 2
         /\ Strchr(b, "]") # 0 => SubSeq(b, 2, Strchr(b, "]") - 1) = s
  <1> DEFINE x == Header(s)
  <1>1. /\ x[1] = "[" /\ x[Len(s) + 2] = "]" /\ Len(x) = Len(s) + 3
        /\ \A i \in 1..Len(s) : x[i + 1] = s[i]
    BY HeaderText
  <1>2. \A i \in 1..Len(b) : b[i] = x[i]
    OBVIOUS
  <1> HIDE DEF x
  <1>3. Len(s) \in Nat /\ Len(b) \in Nat /\ \A i \in 1..Len(s) : s[i] # "]"
    BY NonEmpty DEF GoodName
  <1>4. ASSUME NEW i \in 1..Len(b), i < Len(s) + 2 PROVE b[i] # "]"
    <2>1. CASE i = 1
      BY <1>1, <1>2, <2>1
    <2>2. CASE i # 1
      <3>1. i - 1 \in 1..Len(s) /\ i - 1 + 1 = i
        BY <1>3, <1>4, <2>2
      <3>2. x[i] = s[i - 1]
        BY <1>1, <3>1
      <3> QED
        BY <1>2, <1>3, <3>1, <3>2
    <2> QED
      BY <2>1, <2>2
  <1>5. b[1] = "["
    BY <1>1, <1>2, <1>3
  <1>6. ASSUME Len(b) >= Len(s) + 2
        PROVE  Strchr(b, "]") = Len(s) + 2 /\ SubSeq(b, 2, Len(s) + 1) = s
    <2>1. Len(s) + 2 \in 1..Len(b)
      BY <1>3, <1>6
    <2>2. b[Len(s) + 2] = "]"
      BY <1>1, <1>2, <2>1
    <2>3. Strchr(b, "]") = Len(s) + 2
      BY <1>4, <2>1, <2>2, StrchrFinds
    <2> DEFINE n == Len(s) + 1
               c == SubSeq(b, 2, n)
    <2>4. n \in Nat /\ 2 <= n + 1 /\ n <= Len(b) /\ n - 2 + 1 = Len(s)
      BY <1>3, <1>6
    <2> HIDE DEF n
    <2>5. /\ c \in Text /\ Len(c) = n - 2 + 1
          /\ \A i \in 1..n - 2 + 1 : c[i] = b[2 + i - 1]
      BY <2>4, PartIs
    <2> HIDE DEF c
    <2>6. ASSUME NEW i \in 1..Len(s) PROVE c[i] = s[i]
      <3>1. 2 + i - 1 = i + 1 /\ i + 1 \in 1..Len(b)
        BY <1>3, <1>6, <2>6
      <3>2. c[i] = b[i + 1]
        BY <2>4, <2>5, <2>6, <3>1
      <3> QED
        BY <1>1, <1>2, <2>6, <3>1, <3>2
    <2>7. c = s
      BY <2>4, <2>5, <2>6 DEF Text
    <2> QED
      BY <2>3, <2>7 DEF c, n
  <1>7. ASSUME Len(b) < Len(s) + 2 PROVE Strchr(b, "]") = 0
    <2>1. \A i \in 1..Len(b) : b[i] # "]"
      BY <1>3, <1>4, <1>7
    <2> QED
      BY <2>1, StrchrIs
  <1>8. Len(s) + 2 # 0 /\ Len(s) + 2 - 1 = Len(s) + 1
    BY <1>3
  <1>9. CASE Len(b) >= Len(s) + 2
    BY <1>5, <1>6, <1>8, <1>9
  <1>10. CASE Len(b) < Len(s) + 2
    BY <1>3, <1>5, <1>7, <1>10
  <1> QED
    BY <1>3, <1>9, <1>10

(* What it makes of a line of a key that is read as a key, whole or cut.   *)
LEMMA LineRead ==
  ASSUME NEW k \in Text, NEW v \in Text, GoodLine(k, v),
         NEW b \in Text, Len(b) \in 1..Len(k) + Len(v) + 2,
         \A i \in 1..Len(b) : b[i] = Line(k, v)[i]
  PROVE  /\ b[1] = k[1]
         /\ Strchr(b, "=") # 0 <=> Len(b) >= Len(k) + 1
         /\ Strchr(b, "=") # 0 =>
              /\ KeyIn(b) = k
              /\ ValueIn(b) \in Text /\ Len(ValueIn(b)) <= Len(v)
              /\ ValueIn(b) # <<>> <=> Len(b) >= Len(k) + 2
              /\ Len(b) >= Len(k) + Len(v) + 1 => ValueIn(b) = v
  <1> DEFINE x == Line(k, v)
  <1>1. /\ \A i \in 1..Len(k) : x[i] = k[i]
        /\ x[Len(k) + 1] = "="
        /\ \A i \in 1..Len(v) : x[Len(k) + 1 + i] = v[i]
        /\ x[Len(k) + Len(v) + 2] = NL
    BY LineText
  <1>2. \A i \in 1..Len(b) : b[i] = x[i]
    OBVIOUS
  <1> HIDE DEF x
  <1>3. /\ Len(k) \in Nat /\ Len(k) > 0 /\ Len(v) \in Nat /\ Len(v) > 0 /\ Len(b) \in Nat
        /\ \A i \in 1..Len(k) : k[i] # "="
        /\ \A i \in 1..Len(v) : v[i] # NL
    BY NonEmpty DEF GoodLine
  <1>4. b[1] = k[1]
    BY <1>1, <1>2, <1>3
  <1>5. ASSUME Len(b) < Len(k) + 1 PROVE Strchr(b, "=") = 0
    <2>1. \A i \in 1..Len(b) : b[i] # "="
      BY <1>1, <1>2, <1>3, <1>5
    <2> QED
      BY <2>1, StrchrIs
  <1>6. ASSUME Len(b) >= Len(k) + 1
        PROVE  /\ Strchr(b, "=") = Len(k) + 1 /\ KeyIn(b) = k
               /\ ValueIn(b) \in Text /\ Len(ValueIn(b)) <= Len(v)
               /\ ValueIn(b) # <<>> <=> Len(b) >= Len(k) + 2
               /\ Len(b) >= Len(k) + Len(v) + 1 => ValueIn(b) = v
    <2>1. Len(k) + 1 \in 1..Len(b) /\ b[Len(k) + 1] = "="
      BY <1>1, <1>2, <1>3, <1>6
    <2>2. \A i \in 1..Len(b) : i < Len(k) + 1 => b[i] # "="
      BY <1>1, <1>2, <1>3
    <2>3. Strchr(b, "=") = Len(k) + 1
      BY <2>1, <2>2, StrchrFinds
    <2>4. Unskipped(b) = b
      <3> DEFINE u == Unskipped(b)
      <3>0. 1 \in 1..Len(k) /\ Len(b) > 0
        BY <1>3, <2>1
      <3>5. b # <<>>
        BY <3>0, NonEmpty
      <3>6. k[1] # "="
        BY <1>3, <3>0
      <3>1. b # <<>> /\ b[1] # "="
        BY <1>4, <3>5, <3>6
      <3>7. PICK m \in 1..Len(b) + 1 :
               /\ u \in Text /\ Len(u) = Len(b) - m + 1
               /\ \A i \in 1..Len(b) - m + 1 : u[i] = b[m + i - 1]
               /\ b # <<>> /\ b[1] # "=" => m = 1
        BY UnskippedIs
      <3>8. m = 1
        BY <3>1, <3>7
      <3>2. u \in Text /\ Len(u) = Len(b) - 1 + 1 /\ \A i \in 1..Len(b) - 1 + 1 : u[i] = b[1 + i - 1]
        BY <3>7, <3>8
      <3> HIDE DEF u
      <3>3. Len(b) - 1 + 1 = Len(b) /\ \A i \in 1..Len(b) : 1 + i - 1 = i
        BY <1>3
      <3>4. u = b
        BY <3>2, <3>3 DEF Text
      <3> QED
        BY <3>4 DEF u
    <2>5. KeyIn(b) = k
      <3> DEFINE c == SubSeq(b, 1, Len(k))
      <3>0. Len(k) + 1 # 0 /\ Len(k) + 1 - 1 = Len(k)
        BY <1>3
      <3>1. KeyIn(b) = c
        BY <2>3, <2>4, <3>0 DEF KeyIn, Token
      <3>2. Len(k) \in Nat /\ 1 <= Len(k) + 1 /\ Len(k) <= Len(b) /\ Len(k) - 1 + 1 = Len(k)
        BY <1>3, <1>6
      <3>3. c \in Text /\ Len(c) = Len(k) - 1 + 1 /\ \A i \in 1..Len(k) - 1 + 1 : c[i] = b[1 + i - 1]
        BY <3>2, PartIs
      <3> HIDE DEF c
      <3>4. \A i \in 1..Len(k) : 1 + i - 1 = i /\ i \in 1..Len(b)
        BY <1>3, <1>6
      <3>5. \A i \in 1..Len(k) : c[i] = k[i]
        BY <1>1, <1>2, <3>2, <3>3, <3>4
      <3>6. c = k
        BY <3>2, <3>3, <3>5 DEF Text
      <3> QED
        BY <3>1, <3>6
    <2> DEFINE r == SubSeq(b, Len(k) + 2, Len(b))
    <2>6. ValueIn(b) = Token(r, NL)
      BY <2>4, <2>5 DEF ValueIn
    <2>7. /\ r \in Text /\ Len(r) = Len(b) - Len(k) - 1
          /\ \A i \in 1..Len(b) - Len(k) - 1 : r[i] = b[Len(k) + 1 + i]
      <3> DEFINE m == Len(k) + 2
      <3>1. m \in Nat /\ 1 <= m /\ m <= Len(b) + 1 /\ Len(b) - m + 1 = Len(b) - Len(k) - 1
        BY <1>3, <1>6
      <3>2. \A i \in 1..Len(b) - Len(k) - 1 : m + i - 1 = Len(k) + 1 + i
        BY <1>3
      <3> HIDE DEF m
      <3>3. /\ SubSeq(b, m, Len(b)) \in Text /\ Len(SubSeq(b, m, Len(b))) = Len(b) - m + 1
            /\ \A i \in 1..Len(b) - m + 1 : SubSeq(b, m, Len(b))[i] = b[m + i - 1]
        BY <1>3, <3>1, PartIs
      <3> QED
        BY <3>1, <3>2, <3>3 DEF m
    <2> HIDE DEF r
    <2> DEFINE w == ValueIn(b)
    <2>8. /\ w \in Text /\ Len(w) \in Nat /\ Len(w) <= Len(r)
          /\ \A i \in 1..Len(w) : w[i] = r[i] /\ r[i] # NL
          /\ Len(w) # Len(r) => r[Len(w) + 1] = NL
      BY <2>6, <2>7, TokenIs, NonEmpty
    <2> HIDE DEF w
    <2>9. \A i \in 1..Len(v) : i <= Len(b) - Len(k) - 1 => r[i] = v[i]
      <3> SUFFICES ASSUME NEW i \in 1..Len(v), i <= Len(b) - Len(k) - 1
                   PROVE  r[i] = v[i]
        OBVIOUS
      <3>1. i \in 1..Len(b) - Len(k) - 1 /\ Len(k) + 1 + i \in 1..Len(b)
        BY <1>3
      <3> QED
        BY <1>1, <1>2, <2>7, <3>1
    <2> DEFINE n == Len(r)
               l == Len(w)
    <2>10. n = Len(b) - Len(k) - 1 /\ n \in Nat /\ l \in Nat /\ l <= n
      BY <1>3, <1>6, <2>7, <2>8
    <2>15. \A i \in 1..l : w[i] = r[i] /\ r[i] # NL
      BY <2>8
    <2>16. l # n => r[l + 1] = NL
      BY <2>8
    <2> HIDE DEF n, l
    <2>11. l <= Len(v)
      <3>1. ASSUME l > Len(v) PROVE FALSE
        <4>1. Len(v) + 1 \in 1..l /\ Len(v) + 1 \in 1..n /\ Len(b) = Len(k) + Len(v) + 2
          BY <1>3, <2>10, <3>1
        <4>2. r[Len(v) + 1] = b[Len(k) + 1 + (Len(v) + 1)]
          BY <2>7, <2>10, <4>1
        <4>3. Len(k) + 1 + (Len(v) + 1) = Len(k) + Len(v) + 2 /\ Len(k) + Len(v) + 2 \in 1..Len(b)
          BY <1>3, <4>1
        <4>4. r[Len(v) + 1] = NL
          BY <1>1, <1>2, <4>2, <4>3
        <4> QED
          BY <2>15, <4>1, <4>4
      <3> QED
        BY <1>3, <2>10, <3>1
    <2>12. l = n \/ l = Len(v)
      <3>1. ASSUME l # n, l < Len(v) PROVE FALSE
        <4>1. l + 1 \in 1..Len(v) /\ l + 1 <= n
          BY <1>3, <2>10, <3>1
        <4>2. r[l + 1] = v[l + 1]
          BY <2>9, <2>10, <4>1
        <4> QED
          BY <1>3, <2>16, <3>1, <4>1, <4>2
      <3> QED
        BY <1>3, <2>10, <2>11, <3>1
    <2>13. w # <<>> <=> Len(b) >= Len(k) + 2
      <3>1. w # <<>> <=> l > 0
        BY <2>8, NonEmpty DEF l
      <3>2. l > 0 <=> n > 0
        BY <1>3, <2>10, <2>12
      <3> QED
        BY <1>3, <2>10, <3>1, <3>2
    <2>14. ASSUME Len(b) >= Len(k) + Len(v) + 1 PROVE w = v
      <3>1. l = Len(v)
        BY <1>3, <2>10, <2>11, <2>12, <2>14
      <3>2. \A i \in 1..Len(v) : i <= Len(b) - Len(k) - 1
        BY <1>3, <2>14
      <3>3. \A i \in 1..Len(v) : w[i] = v[i]
        BY <2>15, <2>9, <3>1, <3>2
      <3>4. w \in Text /\ Len(w) = Len(v)
        BY <2>8, <3>1 DEF l
      <3> QED
        BY <3>3, <3>4 DEF Text
    <2> QED
      BY <2>3, <2>5, <2>8, <2>11, <2>13, <2>14 DEF w, l
  <1>7. Len(k) + 1 # 0
    BY <1>3
  <1>8. CASE Len(b) >= Len(k) + 1
    BY <1>4, <1>6, <1>7, <1>8
  <1>9. CASE Len(b) < Len(k) + 1
    BY <1>3, <1>4, <1>5, <1>9
  <1> QED
    BY <1>3, <1>8, <1>9

-----------------------------------------------------------------------------
(* A text that is laid out: n items, the i-th of them the header of the    *)
(* section ss[i], or its line ks[i], from the place pos[i] on.  A line is  *)
(* below the header of its section or below another line of it.            *)
LaidItem(f, w, lay, i) ==
  LET x == Item(f, lay.ss[i], lay.ks[i]) IN
    /\ lay.ss[i] \in DOMAIN f /\ lay.ks[i] \in DOMAIN f[lay.ss[i]] \cup {<<>>}
    /\ lay.pos[i + 1] = lay.pos[i] + Len(x)
    /\ \A j \in 1..Len(x) : w[lay.pos[i] + j - 1] = x[j]
    /\ lay.ks[i] # <<>> => i > 1 /\ lay.ss[i - 1] = lay.ss[i]

LaidOut(f, w, lay) ==
  /\ w \in Text /\ lay.n \in Nat
  /\ \A i \in 1..lay.n + 1 : lay.pos[i] \in 1..Len(w) + 1
  /\ lay.pos[1] = 1 /\ lay.pos[lay.n + 1] = Len(w) + 1
  /\ \A i \in 1..lay.n : LaidItem(f, w, lay, i)

(* The layout has the header of s, or its line k.                          *)
Has(lay, s, k) == \E i \in 1..lay.n : lay.ss[i] = s /\ lay.ks[i] = k

LEMMA NothingLaid ==
  ASSUME NEW f
  PROVE  \E lay : LaidOut(f, <<>>, lay) /\ lay.n = 0
  <1> DEFINE lay == [n |-> 0, pos |-> [i \in 1..1 |-> 1], ss |-> <<>>, ks |-> <<>>]
  <1>1. lay.n = 0 /\ lay.pos[1] = 1
    OBVIOUS
  <1> HIDE DEF lay
  <1>2. <<>> \in Text /\ Len(<<>>) = 0
    BY DEF Text
  <1>3. 0 + 1 = 1 /\ 1 \in 1..1 /\ \A i \in 1..1 : i = 1
    OBVIOUS
  <1>4. \A i \in 1..0 : FALSE
    OBVIOUS
  <1>5. LaidOut(f, <<>>, lay)
    BY <1>1, <1>2, <1>3, <1>4 DEF LaidOut
  <1> QED
    BY <1>1, <1>5

(* keyfile_write adds items at the end.                                    *)
LEMMA OneMoreLaid ==
  ASSUME NEW f, Readable(f), NEW w, NEW lay, LaidOut(f, w, lay),
         NEW s \in DOMAIN f, NEW k \in DOMAIN f[s] \cup {<<>>},
         k # <<>> => lay.n > 0 /\ lay.ss[lay.n] = s
  PROVE  \E new : /\ LaidOut(f, w \o Item(f, s, k), new)
                  /\ new.n = lay.n + 1 /\ new.ss[new.n] = s
                  /\ \A t, j : Has(new, t, j) <=> Has(lay, t, j) \/ (t = s /\ j = k)
  <1> DEFINE x == Item(f, s, k)
             n == lay.n
             y == w \o x
             new == [n |-> n + 1,
                     pos |-> [i \in 1..n + 2 |-> IF i = n + 2 THEN Len(w) + Len(x) + 1 ELSE lay.pos[i]],
                     ss |-> [i \in 1..n + 1 |-> IF i = n + 1 THEN s ELSE lay.ss[i]],
                     ks |-> [i \in 1..n + 1 |-> IF i = n + 1 THEN k ELSE lay.ks[i]]]
  <1>1. n \in Nat /\ w \in Text /\ Len(w) \in Nat
    BY NonEmpty DEF LaidOut
  <1>2. x \in Text /\ Len(x) \in Nat /\ 2 <= Len(x)
    BY ItemIs
  <1>3. /\ \A i \in 1..n + 1 : lay.pos[i] \in 1..Len(w) + 1
        /\ lay.pos[1] = 1 /\ lay.pos[n + 1] = Len(w) + 1
    BY DEF LaidOut
  <1>4. ASSUME NEW i \in 1..n
        PROVE  LaidItem(f, w, lay, i)
    BY DEF LaidOut
  <1> HIDE DEF x
  <1>5. /\ y \in Text /\ Len(y) = Len(w) + Len(x)
        /\ \A j \in 1..Len(w) : y[j] = w[j]
        /\ \A j \in 1..Len(x) : y[Len(w) + j] = x[j]
    BY <1>1, <1>2, JoinedIs
  <1> HIDE DEF y
  <1>6. /\ new.n = n + 1
        /\ \A i \in 1..n + 1 : new.pos[i] = lay.pos[i]
        /\ new.pos[n + 2] = Len(w) + Len(x) + 1
        /\ \A i \in 1..n : new.ss[i] = lay.ss[i] /\ new.ks[i] = lay.ks[i]
        /\ new.ss[n + 1] = s /\ new.ks[n + 1] = k
    BY <1>1
  <1> HIDE DEF new
  <1> HIDE DEF n
  <1>7. ASSUME NEW i \in 1..new.n + 1 PROVE new.pos[i] \in 1..Len(y) + 1
    <2>1. CASE i \in 1..n + 1
      <3>1. lay.pos[i] \in 1..Len(w) + 1
        BY <1>3, <2>1
      <3> QED
        BY <1>1, <1>2, <1>5, <1>6, <2>1, <3>1
    <2>2. CASE i = n + 2
      BY <1>1, <1>2, <1>5, <1>6, <2>2
    <2>3. i \in 1..n + 1 \/ i = n + 2
      BY <1>1, <1>6
    <2> QED
      BY <2>1, <2>2, <2>3
  <1>8. new.n \in Nat /\ new.pos[1] = 1 /\ new.pos[new.n + 1] = Len(y) + 1
    <2>1. 1 \in 1..n + 1 /\ n + 1 + 1 = n + 2 /\ n + 1 \in Nat
      BY <1>1
    <2> QED
      BY <1>3, <1>5, <1>6, <2>1
  <1>9. ASSUME NEW i \in 1..n PROVE LaidItem(f, y, new, i)
    <2> DEFINE z == Item(f, lay.ss[i], lay.ks[i])
               p == lay.pos[i]
    <2>1. /\ lay.ss[i] \in DOMAIN f /\ lay.ks[i] \in DOMAIN f[lay.ss[i]] \cup {<<>>}
          /\ lay.pos[i + 1] = p + Len(z)
          /\ \A j \in 1..Len(z) : w[p + j - 1] = z[j]
          /\ lay.ks[i] # <<>> => i > 1 /\ lay.ss[i - 1] = lay.ss[i]
      BY <1>4, <1>9 DEF LaidItem
    <2>2. z \in Text /\ Len(z) \in Nat
      BY <2>1, ItemIs
    <2>3. i \in 1..n + 1 /\ i + 1 \in 1..n + 1 /\ (i > 1 => i - 1 \in 1..n)
      BY <1>1
    <2>4. p \in 1..Len(w) + 1 /\ p + Len(z) \in 1..Len(w) + 1
      BY <1>3, <2>1, <2>3
    <2> HIDE DEF z, p
    <2>5. ASSUME NEW j \in 1..Len(z) PROVE y[p + j - 1] = z[j]
      <3>1. p + j - 1 \in 1..Len(w)
        BY <1>1, <2>2, <2>4
      <3> QED
        BY <1>5, <2>1, <3>1
    <2>6. new.pos[i] = p /\ new.pos[i + 1] = p + Len(z)
      BY <1>6, <2>1, <2>3 DEF p
    <2>7. new.ss[i] = lay.ss[i] /\ new.ks[i] = lay.ks[i] /\ (i > 1 => new.ss[i - 1] = lay.ss[i - 1])
      BY <1>6, <2>3
    <2>8. Item(f, new.ss[i], new.ks[i]) = z
      BY <2>7 DEF z
    <2> QED
      BY <2>1, <2>5, <2>6, <2>7, <2>8 DEF LaidItem
  <1>10. LaidItem(f, y, new, n + 1)
    <2>1. n + 1 \in 1..n + 1 /\ n + 1 + 1 = n + 2 /\ (n + 1) - 1 = n
      BY <1>1
    <2>2. Item(f, new.ss[n + 1], new.ks[n + 1]) = x
      BY <1>6 DEF x
    <2>3. new.pos[n + 1] = Len(w) + 1
      BY <1>3, <1>6, <2>1
    <2>4. new.pos[n + 1 + 1] = new.pos[n + 1] + Len(x)
      BY <1>1, <1>2, <1>6, <2>1, <2>3
    <2>5. ASSUME NEW j \in 1..Len(x) PROVE y[new.pos[n + 1] + j - 1] = x[j]
      <3>1. new.pos[n + 1] + j - 1 = Len(w) + j
        BY <1>1, <1>2, <2>3
      <3> QED
        BY <1>5, <3>1
    <2>6. k # <<>> => n + 1 > 1 /\ new.ss[(n + 1) - 1] = new.ss[n + 1]
      <3>1. ASSUME k # <<>> PROVE n \in 1..n /\ n + 1 > 1 /\ lay.ss[n] = s
        BY <1>1, <3>1 DEF n
      <3> QED
        BY <1>6, <2>1, <3>1
    <2> QED
      BY <1>6, <2>2, <2>4, <2>5, <2>6 DEF LaidItem
  <1>11. \A i \in 1..new.n : i \in 1..n \/ i = n + 1
    BY <1>1, <1>6
  <1>12. LaidOut(f, y, new)
    BY <1>5, <1>7, <1>8, <1>9, <1>10, <1>11 DEF LaidOut
  <1>13. ASSUME NEW t, NEW j PROVE Has(new, t, j) <=> Has(lay, t, j) \/ (t = s /\ j = k)
    <2>1. \A i \in 1..n : i \in 1..n + 1
      BY <1>1
    <2>2. n + 1 \in 1..n + 1
      BY <1>1
    <2> QED
      BY <1>6, <1>11, <2>1, <2>2 DEF Has, n
  <1>14. new.ss[new.n] = s /\ new.n = lay.n + 1
    BY <1>6 DEF n
  <1> QED
    BY <1>12, <1>13, <1>14 DEF y, x

-----------------------------------------------------------------------------
(* keyfile_write: what is in the file is laid out, and nothing is left out *)
(* but what is still to be printed.                                        *)
SavedSoFar(lay) ==
  /\ LaidOut(kf, text, lay)
  /\ \A s \in sec : lay.n > 0 /\ lay.ss[lay.n] = s
  /\ \A s \in DOMAIN kf \ todo :
       /\ Has(lay, s, <<>>)
       /\ \A k \in DOMAIN kf[s] : Has(lay, s, k) \/ (s \in sec /\ k \in lines)

SavingInv == phase = "saving" /\ Readable(kf) => \E lay : SavedSoFar(lay)

LEMMA NextSavingInv == TextInv /\ SavingInv /\ [Next]_vars => SavingInv'
  <1> SUFFICES ASSUME TextInv, SavingInv, [Next]_vars, phase' = "saving", Readable(kf')
               PROVE  \E lay : SavedSoFar(lay)'
    BY DEF SavingInv
  <1>1. CASE UNCHANGED vars
    <2>1. PICK lay : SavedSoFar(lay)
      BY <1>1 DEF vars, SavingInv
    <2>2. SavedSoFar(lay)'
      BY <1>1, <2>1 DEF vars, SavedSoFar
    <2> QED
      BY <2>2
  <1>2. CASE Save
    <2>1. kf' = out /\ text' = <<>> /\ todo' = DOMAIN out /\ sec' = {}
      BY <1>2 DEF Save
    <2>2. PICK lay : LaidOut(kf', <<>>, lay) /\ lay.n = 0
      BY NothingLaid
    <2>3. SavedSoFar(lay)'
      BY <2>1, <2>2 DEF SavedSoFar
    <2> QED
      BY <2>3
  <1>3. ASSUME NEW s \in todo, WriteSection(s)
        PROVE  \E lay : SavedSoFar(lay)'
    <2>1. /\ phase = "saving" /\ lines = {} /\ UNCHANGED kf
          /\ text' = text \o Header(s) /\ todo' = todo \ {s}
          /\ lines' = DOMAIN kf[s] /\ sec' = {s}
      BY <1>3 DEF WriteSection
    <2>2. s \in DOMAIN kf /\ Readable(kf)
      BY <2>1 DEF TextInv
    <2>3. PICK lay : SavedSoFar(lay)
      BY <2>1, <2>2 DEF SavingInv
    <2>4. LaidOut(kf, text, lay)
      BY <2>3 DEF SavedSoFar
    <2>5. PICK new : /\ LaidOut(kf, text \o Item(kf, s, <<>>), new)
                     /\ new.n = lay.n + 1 /\ new.ss[new.n] = s
                     /\ \A t, j : Has(new, t, j) <=> Has(lay, t, j) \/ (t = s /\ j = <<>>)
      BY <2>2, <2>4, OneMoreLaid
    <2>6. LaidOut(kf', text', new)
      BY <2>1, <2>5 DEF Item
    <2>7. new.n > 0
      BY <2>4, <2>5 DEF LaidOut
    <2>8. ASSUME NEW t \in DOMAIN kf \ (todo \ {s})
          PROVE  /\ Has(new, t, <<>>)
                 /\ \A k \in DOMAIN kf[t] : Has(new, t, k) \/ (t \in sec' /\ k \in lines')
      <3>1. CASE t = s
        BY <2>1, <2>5, <3>1
      <3>2. CASE t # s
        <4>1. t \in DOMAIN kf \ todo
          BY <2>8, <3>2
        <4>2. Has(lay, t, <<>>) /\ \A k \in DOMAIN kf[t] : Has(lay, t, k)
          BY <2>1, <2>3, <4>1 DEF SavedSoFar
        <4> QED
          BY <2>5, <4>2
      <3> QED
        BY <3>1, <3>2
    <2>9. SavedSoFar(new)'
      BY <2>1, <2>5, <2>6, <2>7, <2>8 DEF SavedSoFar
    <2> QED
      BY <2>9
  <1>4. ASSUME NEW s \in sec, NEW k \in lines, WriteLine(s, k)
        PROVE  \E lay : SavedSoFar(lay)'
    <2>1. /\ phase = "saving" /\ UNCHANGED <<kf, todo, sec>>
          /\ text' = text \o Line(k, kf[s][k]) /\ lines' = lines \ {k}
      BY <1>4 DEF WriteLine
    <2>2. s \in DOMAIN kf /\ k \in DOMAIN kf[s] /\ Readable(kf)
      BY <2>1 DEF TextInv
    <2>3. k # <<>>
      BY <2>2 DEF Readable, GoodLine
    <2>4. PICK lay : SavedSoFar(lay)
      BY <2>1, <2>2 DEF SavingInv
    <2>5. LaidOut(kf, text, lay) /\ lay.n > 0 /\ lay.ss[lay.n] = s /\ sec = {s}
      BY <2>4 DEF SavedSoFar
    <2>6. PICK new : /\ LaidOut(kf, text \o Item(kf, s, k), new)
                     /\ new.n = lay.n + 1 /\ new.ss[new.n] = s
                     /\ \A t, j : Has(new, t, j) <=> Has(lay, t, j) \/ (t = s /\ j = k)
      BY <2>2, <2>5, OneMoreLaid
    <2>7. LaidOut(kf', text', new)
      BY <2>1, <2>3, <2>6 DEF Item
    <2>8. new.n > 0
      BY <2>5, <2>6 DEF LaidOut
    <2>9. ASSUME NEW t \in DOMAIN kf \ todo
          PROVE  /\ Has(new, t, <<>>)
                 /\ \A j \in DOMAIN kf[t] : Has(new, t, j) \/ (t \in sec /\ j \in lines \ {k})
      <3>1. /\ Has(lay, t, <<>>)
            /\ \A j \in DOMAIN kf[t] : Has(lay, t, j) \/ (t \in sec /\ j \in lines)
        BY <2>4 DEF SavedSoFar
      <3>2. t \in sec => t = s
        BY <2>5
      <3> QED
        BY <2>6, <3>1, <3>2
    <2>10. SavedSoFar(new)'
      BY <2>1, <2>5, <2>6, <2>7, <2>8, <2>9 DEF SavedSoFar
    <2> QED
      BY <2>10
  <1>5. ASSUME NEW n \in 0..Len(text), Open(n)
        PROVE  FALSE
    BY <1>5 DEF Open
  <1>6. ASSUME NEW b, Read(b)
        PROVE  FALSE
    BY <1>6, ReadIs
  <1>7. CASE ReadEnd
    BY <1>7 DEF ReadEnd
  <1> QED
    BY <1>1, <1>2, <1>3, <1>4, <1>5, <1>6, <1>7 DEF Next

-----------------------------------------------------------------------------
(* The reader on its way through w, of which the file holds the first N    *)
(* characters: off of them are read, t is to be read...                    *)
Rest(w, N, off, t) ==
  /\ N \in Nat /\ N <= Len(w) /\ off \in Nat /\ off <= N
  /\ t \in Text /\ Len(t) = N - off
  /\ \A j \in 1..Len(t) : t[j] = w[off + j]

(* ...from the m-th item on, or from the newline before it that did not    *)
(* fit the buffer.                                                         *)
At(w, lay, m, off) ==
  \/ off + 1 = lay.pos[m]
  \/ off + 2 = lay.pos[m] /\ w[off + 1] = NL

LEMMA FgetsParts ==
  ASSUME text \in Text, NEW b, Fgets(b)
  PROVE  /\ b \in Text /\ Len(b) \in 1..Len(text) /\ Len(b) < BufSize
         /\ \A i \in 1..Len(b) : b[i] = text[i] /\ (i < Len(b) => text[i] # NL)
         /\ Len(b) \in {Len(text), BufSize - 1} \/ text[Len(b)] = NL
         /\ text' \in Text /\ Len(text') = Len(text) - Len(b)
         /\ \A i \in 1..Len(text') : text'[i] = text[Len(b) + i]
  <1> DEFINE n == FgetsLength
  <1>1. text # <<>> /\ b = SubSeq(text, 1, n) /\ text' = SubSeq(text, n + 1, Len(text))
    BY DEF Fgets
  <1>2. /\ n \in 1..Len(text) /\ n < BufSize
        /\ \A i \in 1..Len(text) : i < n => text[i] # NL
        /\ n \in {Len(text), BufSize - 1} \/ text[n] = NL
    BY <1>1, FgetsLengthIs
  <1> HIDE DEF n
  <1>3. Len(text) \in Nat
    BY NonEmpty
  <1>4. b \in Text /\ Len(b) = n /\ \A i \in 1..n : b[i] = text[i]
    <2>1. n \in Nat /\ 1 <= n + 1 /\ n <= Len(text) /\ n - 1 + 1 = n
      BY <1>2, <1>3
    <2>2. /\ SubSeq(text, 1, n) \in Text /\ Len(SubSeq(text, 1, n)) = n - 1 + 1
          /\ \A i \in 1..n - 1 + 1 : SubSeq(text, 1, n)[i] = text[1 + i - 1]
      BY <2>1, PartIs
    <2>3. \A i \in 1..n : 1 + i - 1 = i
      BY <1>2, <1>3
    <2> QED
      BY <1>1, <2>1, <2>2, <2>3
  <1>5. /\ text' \in Text /\ Len(text') = Len(text) - n
        /\ \A i \in 1..Len(text) - n : text'[i] = text[n + i]
    <2> DEFINE m == n + 1
    <2>1. m \in Nat /\ 1 <= m /\ m <= Len(text) + 1 /\ Len(text) - m + 1 = Len(text) - n
      BY <1>2, <1>3
    <2>2. \A i \in 1..Len(text) - n : m + i - 1 = n + i
      BY <1>2, <1>3
    <2> HIDE DEF m
    <2>3. /\ SubSeq(text, m, Len(text)) \in Text
          /\ Len(SubSeq(text, m, Len(text))) = Len(text) - m + 1
          /\ \A i \in 1..Len(text) - m + 1 : SubSeq(text, m, Len(text))[i] = text[m + i - 1]
      BY <1>3, <2>1, PartIs
    <2> QED
      BY <1>1, <2>1, <2>2, <2>3 DEF m
  <1>6. \A i \in 1..n : i \in 1..Len(text)
    BY <1>2, <1>3
  <1> QED
    BY <1>2, <1>4, <1>5, <1>6
(* What fgets takes from a text that is laid out: the newline that is left *)
(* of a line; or a line, whole but for its newline; or, where the file     *)
(* ends in the middle of a line, all that is left.                         *)
LEMMA PieceIs ==
  ASSUME NEW f, Readable(f), NEW w, NEW lay, LaidOut(f, w, lay), NEW m \in 1..lay.n + 1,
         NEW N, NEW off, Rest(w, N, off, text), At(w, lay, m, off), NEW b, Fgets(b)
  PROVE  LET x == Item(f, lay.ss[m], lay.ks[m]) IN
           \/ /\ b \in Text /\ Len(b) = 1 /\ b[1] = NL
              /\ Rest(w, N, off + 1, text') /\ At(w, lay, m, off + 1)
           \/ /\ m <= lay.n /\ b \in Text /\ Len(b) \in 1..Len(x)
              /\ \A i \in 1..Len(b) : b[i] = x[i]
              /\ \/ /\ Len(b) >= Len(x) - 1
                    /\ Rest(w, N, off + Len(b), text') /\ At(w, lay, m + 1, off + Len(b))
                 \/ /\ Len(b) < Len(x) - 1
                    /\ N < Len(w) /\ Rest(w, N, N, text')
  <1> DEFINE x == Item(f, lay.ss[m], lay.ks[m])
             l == Len(b)
             p == lay.pos[m]
  <1>1. /\ N \in Nat /\ N <= Len(w) /\ off \in Nat /\ off <= N
        /\ text \in Text /\ Len(text) = N - off
        /\ \A j \in 1..Len(text) : text[j] = w[off + j]
    BY DEF Rest
  <1>2. /\ b \in Text /\ l \in 1..Len(text) /\ l < BufSize
        /\ \A i \in 1..l : b[i] = text[i] /\ (i < l => text[i] # NL)
        /\ l \in {Len(text), BufSize - 1} \/ text[l] = NL
        /\ text' \in Text /\ Len(text') = Len(text) - l
        /\ \A i \in 1..Len(text') : text'[i] = text[l + i]
    BY <1>1, FgetsParts
  <1>3. /\ w \in Text /\ lay.n \in Nat /\ Len(w) \in Nat /\ BufSize \in Nat
        /\ p \in 1..Len(w) + 1 /\ lay.pos[lay.n + 1] = Len(w) + 1
    BY NonEmpty, BufSizeType DEF LaidOut
  <1>4. ASSUME m <= lay.n
        PROVE  /\ x \in Text /\ Len(x) \in Nat /\ 2 <= Len(x) /\ Len(x) <= BufSize
               /\ x[Len(x)] = NL /\ \A i \in 1..Len(x) : i < Len(x) => x[i] # NL
               /\ lay.pos[m + 1] = p + Len(x) /\ p + Len(x) \in 1..Len(w) + 1
               /\ \A j \in 1..Len(x) : w[p + j - 1] = x[j]
    <2>1. m \in 1..lay.n /\ m + 1 \in 1..lay.n + 1
      BY <1>3, <1>4
    <2>2. LaidItem(f, w, lay, m)
      BY <2>1 DEF LaidOut
    <2>3. lay.ss[m] \in DOMAIN f /\ lay.ks[m] \in DOMAIN f[lay.ss[m]] \cup {<<>>}
      BY <2>2 DEF LaidItem
    <2>4. lay.pos[m + 1] = p + Len(x) /\ \A j \in 1..Len(x) : w[p + j - 1] = x[j]
      BY <2>2 DEF LaidItem
    <2>5. lay.pos[m + 1] \in 1..Len(w) + 1
      BY <2>1 DEF LaidOut
    <2>6. /\ x \in Text /\ Len(x) \in Nat /\ 2 <= Len(x) /\ Len(x) <= BufSize
          /\ x[Len(x)] = NL /\ \A i \in 1..Len(x) : i < Len(x) => x[i] # NL
      BY <2>3, ItemIs
    <2> QED
      BY <2>4, <2>5, <2>6
  <1> HIDE DEF l, x
  <1>5. /\ l \in Nat /\ 1 <= l /\ l <= Len(text) /\ l < BufSize
        /\ Len(text) \in Nat /\ Len(text) = N - off /\ Len(text') = Len(text) - l
    BY <1>1, <1>2
  <1>6. Rest(w, N, off + l, text')
    <2>1. off + l \in Nat /\ off + l <= N /\ Len(text) - l = N - (off + l)
      BY <1>1, <1>2
    <2>2. ASSUME NEW j \in 1..Len(text') PROVE text'[j] = w[(off + l) + j]
      <3>1. l + j \in 1..Len(text) /\ off + (l + j) = (off + l) + j
        BY <1>1, <1>5
      <3>2. text'[j] = text[l + j] /\ text[l + j] = w[off + (l + j)]
        BY <1>1, <1>2, <3>1
      <3> QED
        BY <3>1, <3>2
    <2> QED
      BY <1>1, <1>2, <2>1, <2>2 DEF Rest
  <1>7. CASE off + 2 = p /\ w[off + 1] = NL
    <2>1. 1 \in 1..Len(text) /\ text[1] = NL
      BY <1>1, <1>2, <1>7
    <2>2. l = 1
      <3>1. 1 \in 1..l
        BY <1>1, <1>2
      <3>2. ~ (1 < l)
        BY <1>2, <2>1, <3>1
      <3> QED
        BY <1>1, <1>2, <3>2
    <2>3. b[1] = NL
      BY <1>2, <2>1, <2>2
    <2>4. (off + 1) + 1 = p
      BY <1>1, <1>3, <1>7
    <2>5. At(w, lay, m, off + 1)
      BY <2>4 DEF At
    <2> QED
      BY <1>2, <1>6, <2>2, <2>3, <2>5 DEF l
  <1>8. CASE off + 1 = p
    <2>1. m <= lay.n
      <3>1. p # Len(w) + 1
        BY <1>1, <1>2, <1>3, <1>8
      <3>2. m # lay.n + 1
        BY <1>3, <3>1
      <3> QED
        BY <1>3, <3>2
    <2> DEFINE n == Len(x)
    <2>2. /\ n \in Nat /\ 2 <= n /\ n <= BufSize
          /\ x[n] = NL /\ \A i \in 1..n : i < n => x[i] # NL
          /\ lay.pos[m + 1] = p + n /\ p + n \in 1..Len(w) + 1
          /\ \A j \in 1..n : w[p + j - 1] = x[j]
      BY <1>4, <2>1
    <2> HIDE DEF n, p
    <2>3. ASSUME NEW i \in 1..Len(text), i <= n PROVE text[i] = x[i]
      <3>1. off + i = p + i - 1 /\ i \in 1..n
        BY <1>1, <1>3, <1>8, <2>2, <2>3
      <3>2. text[i] = w[p + i - 1]
        BY <1>1, <3>1
      <3> QED
        BY <2>2, <3>1, <3>2
    <2>4. l <= n
      <3>1. ASSUME l > n PROVE FALSE
        <4>1. n \in 1..Len(text) /\ n \in 1..l /\ n <= n
          BY <1>1, <1>2, <2>2, <3>1
        <4>2. text[n] = x[n]
          BY <2>3, <4>1
        <4> QED
          BY <1>2, <2>2, <3>1, <4>1, <4>2
      <3> QED
        BY <1>1, <1>2, <2>2, <3>1
    <2>5. l \in 1..n /\ \A i \in 1..l : b[i] = x[i]
      <3>1. \A i \in 1..l : i \in 1..Len(text) /\ i <= n
        BY <1>5, <2>2, <2>4
      <3>2. l \in 1..n
        BY <1>5, <2>2, <2>4
      <3> QED
        BY <1>2, <2>3, <3>1, <3>2
    <2>6. CASE l >= n - 1
      <3>1. At(w, lay, m + 1, off + l)
        <4>1. CASE l = n
          <5>1. (off + l) + 1 = p + n
            BY <1>1, <1>3, <1>8, <2>2, <4>1
          <5> QED
            BY <2>2, <5>1 DEF At
        <4>2. CASE l = n - 1
          <5>1. (off + l) + 2 = p + n /\ (off + l) + 1 = p + n - 1 /\ n \in 1..n
            BY <1>1, <1>3, <1>8, <2>2, <4>2
          <5>2. w[(off + l) + 1] = NL
            BY <2>2, <5>1
          <5> QED
            BY <2>2, <5>1, <5>2 DEF At
        <4>3. l = n \/ l = n - 1
          BY <1>1, <1>2, <2>2, <2>4, <2>6
        <4> QED
          BY <4>1, <4>2, <4>3
      <3> QED
        BY <1>2, <1>6, <2>1, <2>5, <2>6, <3>1 DEF l, n, x
    <2>7. CASE l < n - 1
      <3>1. text[l] # NL
        <4>1. l \in 1..Len(text) /\ l <= n /\ l < n
          BY <1>5, <2>2, <2>7
        <4> QED
          BY <2>2, <2>3, <2>5, <4>1
      <3>2. l = Len(text)
        <4>1. l # BufSize - 1
          BY <1>3, <1>5, <2>2, <2>7
        <4>2. l \in {Len(text), BufSize - 1} \/ text[l] = NL
          BY <1>2
        <4> QED
          BY <3>1, <4>1, <4>2
      <3>3. off + l = N /\ N < Len(w)
        BY <1>1, <1>2, <1>3, <1>8, <2>2, <2>7, <3>2
      <3> QED
        BY <1>2, <1>6, <2>1, <2>5, <2>7, <3>3 DEF l, n, x
    <2> QED
      BY <1>1, <1>2, <2>2, <2>6, <2>7
  <1> QED
    BY <1>7, <1>8 DEF At

(* What the loop of keyfile_open does with an item of a keyfile that can   *)
(* be printed: it takes the item, or the file ends in it.                  *)
LEMMA ItemRead ==
  ASSUME NEW f, Readable(f), StartsPlain(f), NEW s \in DOMAIN f, NEW k \in DOMAIN f[s] \cup {<<>>},
         k # <<>> => sec = {s},
         NEW b \in Text, Len(b) \in 1..Len(Item(f, s, k)),
         \A i \in 1..Len(b) : b[i] = Item(f, s, k)[i],
         Read(b)
  PROVE  LET all == Len(b) >= Len(Item(f, s, k)) - 1 IN
           /\ k = <<>> /\ all => out' = Entered(out, s) /\ sec' = {s}
           /\ k = <<>> /\ ~all => UNCHANGED <<out, sec>>
           /\ k # <<>> => UNCHANGED sec
           /\ k # <<>> /\ all => out' = Added(out, s, k, f[s][k])
           /\ k # <<>> /\ ~all => UNCHANGED out \/ \E v \in Text : out' = Added(out, s, k, v)
  <1>1. CASE k = <<>>
    <2>1. s \in Text /\ GoodName(s)
      BY DEF Readable, IsKeyfile
    <2>2. Item(f, s, k) = Header(s) /\ Len(Item(f, s, k)) = Len(s) + 3
      BY <1>1, <2>1, HeaderText DEF Item
    <2>3. Len(b) \in 1..Len(s) + 3 /\ \A i \in 1..Len(b) : b[i] = Header(s)[i]
      BY <2>2
    <2>4. /\ b[1] = "["
          /\ Strchr(b, "]") # 0 <=> Len(b) >= Len(s) + 2
          /\ Strchr(b, "]") # 0 => SubSeq(b, 2, Strchr(b, "]") - 1) = s
      BY <2>1, <2>3, HeaderRead
    <2>5. (Len(s) + 3) - 1 = Len(s) + 2
      BY <2>1, NonEmpty
    <2>6. Len(b) >= Len(Item(f, s, k)) - 1 <=> Len(b) >= Len(s) + 2
      BY <2>2, <2>5
    <2>7. CASE Strchr(b, "]") # 0
      <3>1. ReadHeader(b)
        BY <2>4, <2>7 DEF Read, ReadLine, ReadNothing
      <3>2. out' = Entered(out, s) /\ sec' = {s}
        BY <2>4, <2>7, <3>1 DEF ReadHeader, Entered
      <3> QED
        BY <1>1, <2>4, <2>6, <2>7, <3>2
    <2>8. CASE Strchr(b, "]") = 0
      <3>1. UNCHANGED <<out, sec>>
        BY <2>4, <2>8 DEF Read, ReadHeader, ReadLine, ReadNothing
      <3> QED
        BY <1>1, <2>4, <2>6, <2>8, <3>1
    <2> QED
      BY <2>7, <2>8
  <1>2. CASE k # <<>>
    <2> DEFINE v == f[s][k]
    <2>1. k \in Text /\ v \in Text /\ GoodLine(k, v) /\ k[1] \notin {"[", "#"}
      BY <1>2 DEF Readable, IsKeyfile, StartsPlain
    <2>2. Item(f, s, k) = Line(k, v)
      BY <1>2 DEF Item
    <2> HIDE DEF v
    <2>3. Len(Item(f, s, k)) = Len(k) + Len(v) + 2
      BY <2>1, <2>2, LineText
    <2>4. Len(b) \in 1..Len(k) + Len(v) + 2 /\ \A i \in 1..Len(b) : b[i] = Line(k, v)[i]
      BY <2>2, <2>3
    <2>5. /\ b[1] = k[1]
          /\ Strchr(b, "=") # 0 <=> Len(b) >= Len(k) + 1
          /\ Strchr(b, "=") # 0 =>
               /\ KeyIn(b) = k
               /\ ValueIn(b) \in Text /\ Len(ValueIn(b)) <= Len(v)
               /\ ValueIn(b) # <<>> <=> Len(b) >= Len(k) + 2
               /\ Len(b) >= Len(k) + Len(v) + 1 => ValueIn(b) = v
      BY <2>1, <2>4, LineRead
    <2>6. /\ (Len(k) + Len(v) + 2) - 1 = Len(k) + Len(v) + 1
          /\ Len(k) + Len(v) + 1 >= Len(k) + 2 /\ Len(k) + Len(v) + 1 >= Len(k) + 1
      BY <2>1, NonEmpty DEF GoodLine
    <2>7. CASE ReadHeader(b)
      BY <2>1, <2>5, <2>7 DEF ReadHeader
    <2>8. CASE ReadLine(b)
      <3>1. Strchr(b, "=") # 0 /\ UNCHANGED sec
        BY <2>8 DEF ReadLine
      <3>2. out' = Added(out, s, k, ValueIn(b))
        BY <1>2, <2>5, <2>8, <3>1 DEF ReadLine, Added
      <3>3. Len(b) >= Len(Item(f, s, k)) - 1 => ValueIn(b) = v
        BY <2>3, <2>5, <2>6, <3>1
      <3> QED
        BY <1>2, <2>5, <3>1, <3>2, <3>3 DEF v
    <2>9. CASE ReadNothing(b)
      <3>1. UNCHANGED <<out, sec>>
        BY <2>9 DEF ReadNothing
      <3>2. Strchr(b, "=") = 0 \/ ValueIn(b) = <<>>
        <4>1. sec # {}
          BY <1>2
        <4> QED
          BY <2>1, <2>5, <2>9, <4>1 DEF ReadNothing
      <3>3. ~ (Len(b) >= Len(k) + Len(v) + 1)
        <4>1. Len(b) \in Nat /\ Len(k) \in Nat /\ Len(v) \in Nat
          BY <2>1, NonEmpty
        <4>2. Len(b) >= Len(k) + Len(v) + 1 => Len(b) >= Len(k) + 2 /\ Len(b) >= Len(k) + 1
          BY <2>6, <4>1
        <4> QED
          BY <2>5, <3>2, <4>2
      <3> QED
        BY <1>2, <2>3, <2>6, <3>1, <3>3
    <2> QED
      BY <2>7, <2>8, <2>9 DEF Read
  <1> QED
    BY <1>1, <1>2

-----------------------------------------------------------------------------
(* Everything of f is laid out.                                            *)
Complete(f, lay) ==
  \A s \in DOMAIN f : Has(lay, s, <<>>) /\ \A k \in DOMAIN f[s] : Has(lay, s, k)

(* g holds names of f only, and those of the first m - 1 items.            *)
Found(f, g, lay, m) ==
  /\ \A s \in DOMAIN g : s \in DOMAIN f /\ DOMAIN g[s] \subseteq DOMAIN f[s]
  /\ \A i \in Nat : 1 <= i /\ i < m =>
       /\ lay.ss[i] \in DOMAIN g
       /\ lay.ks[i] # <<>> => lay.ks[i] \in DOMAIN g[lay.ss[i]]

(* Its values are those of f, or all but one are.                          *)
Same(f, g) == \A s \in DOMAIN g : \A k \in DOMAIN g[s] : g[s][k] = f[s][k]

OneCut(f, g) ==
  \E t, j : \A s \in DOMAIN g : \A k \in DOMAIN g[s] : g[s][k] = f[s][k] \/ (s = t /\ k = j)

LEMMA FoundSection ==
  ASSUME NEW f, NEW g, IsKeyfile(g), NEW lay, NEW m \in Nat, Found(f, g, lay, m),
         lay.ss[m] \in DOMAIN f, lay.ss[m] \in Text, lay.ks[m] = <<>>
  PROVE  LET h == Entered(g, lay.ss[m]) IN
           Found(f, h, lay, m + 1) /\ (Same(f, g) => Same(f, h))
  <1> DEFINE s == lay.ss[m]
             h == Entered(g, s)
  <1>1. /\ DOMAIN h = DOMAIN g \cup {s}
        /\ \A t \in DOMAIN g : h[t] = g[t]
        /\ s \notin DOMAIN g => DOMAIN h[s] = {}
    <2>1. s \in Text
      OBVIOUS
    <2> HIDE DEF s
    <2> QED
      BY <2>1, EnteredIs
  <1> HIDE DEF h
  <1>2. \A t \in DOMAIN h : t \in DOMAIN f /\ DOMAIN h[t] \subseteq DOMAIN f[t]
    BY <1>1 DEF Found
  <1>3. ASSUME NEW i \in Nat, 1 <= i, i < m + 1
        PROVE  lay.ss[i] \in DOMAIN h /\ (lay.ks[i] # <<>> => lay.ks[i] \in DOMAIN h[lay.ss[i]])
    <2>1. CASE i = m
      BY <1>1, <2>1
    <2>2. CASE i < m
      BY <1>1, <1>3, <2>2 DEF Found
    <2> QED
      BY <1>3, <2>1, <2>2
  <1>4. Same(f, g) => Same(f, h)
    BY <1>1 DEF Same
  <1>5. Found(f, h, lay, m + 1)
    BY <1>2, <1>3 DEF Found
  <1> QED
    BY <1>4, <1>5 DEF h

LEMMA FoundLine ==
  ASSUME NEW f, NEW g, IsKeyfile(g), NEW lay, NEW m \in Nat, Found(f, g, lay, m),
         lay.ss[m] \in DOMAIN g, lay.ks[m] \in DOMAIN f[lay.ss[m]], lay.ks[m] \in Text,
         NEW v \in Text
  PROVE  LET h == Added(g, lay.ss[m], lay.ks[m], v) IN
           /\ Found(f, h, lay, m + 1) /\ Found(f, h, lay, m)
           /\ Same(f, g) /\ v = f[lay.ss[m]][lay.ks[m]] => Same(f, h)
           /\ Same(f, g) => OneCut(f, h)
  <1> DEFINE s == lay.ss[m]
             k == lay.ks[m]
             h == Added(g, s, k, v)
  <1>1. /\ DOMAIN h = DOMAIN g
        /\ \A t \in DOMAIN g \ {s} : h[t] = g[t]
        /\ DOMAIN h[s] = DOMAIN g[s] \cup {k}
        /\ \A j \in DOMAIN g[s] : h[s][j] = g[s][j]
        /\ k \notin DOMAIN g[s] => h[s][k] = v
    BY AddedIs
  <1>2. s \in DOMAIN g /\ k \in DOMAIN f[s]
    OBVIOUS
  <1> HIDE DEF h
  <1>3. \A t \in DOMAIN h : t \in DOMAIN f /\ DOMAIN h[t] \subseteq DOMAIN f[t]
    BY <1>1, <1>2 DEF Found
  <1>4. ASSUME NEW i \in Nat, 1 <= i, i < m + 1
        PROVE  lay.ss[i] \in DOMAIN h /\ (lay.ks[i] # <<>> => lay.ks[i] \in DOMAIN h[lay.ss[i]])
    <2>1. CASE i = m
      BY <1>1, <1>2, <2>1
    <2>2. CASE i < m
      BY <1>1, <1>4, <2>2 DEF Found
    <2> QED
      BY <1>4, <2>1, <2>2
  <1>5. Found(f, h, lay, m + 1)
    BY <1>3, <1>4 DEF Found
  <1>6. Found(f, h, lay, m)
    <2>1. \A i \in Nat : i < m => i < m + 1
      OBVIOUS
    <2> QED
      BY <1>5, <2>1 DEF Found
  <1>7. Same(f, g) /\ v = f[s][k] => Same(f, h)
    BY <1>1, <1>2 DEF Same
  <1>8. ASSUME Same(f, g) PROVE OneCut(f, h)
    <2>1. ASSUME NEW t \in DOMAIN h, NEW j \in DOMAIN h[t]
          PROVE  h[t][j] = f[t][j] \/ (t = s /\ j = k)
      BY <1>1, <1>8, <2>1 DEF Same
    <2> QED
      BY <2>1 DEF OneCut
  <1> QED
    BY <1>5, <1>6, <1>7, <1>8 DEF h
-----------------------------------------------------------------------------
(* keyfile_open, on the text of kf or on its first N characters: it has    *)
(* found the items it is past.  cut: the file has ended in an item.        *)
LoadedSoFar(w, lay, N, off, m, cut) ==
  /\ LaidOut(kf, w, lay) /\ Complete(kf, lay)
  /\ Rest(w, N, off, text) /\ (whole => N = Len(w))
  /\ m \in 1..lay.n + 1
  /\ IF cut THEN off = N /\ N < Len(w) ELSE At(w, lay, m, off)
  /\ StartsPlain(kf) =>
       /\ Found(kf, out, lay, m)
       /\ IF cut THEN OneCut(kf, out)
                 ELSE Same(kf, out) /\ (m > 1 => sec = {lay.ss[m - 1]})

(* The file is one that was saved.                                         *)
OfSave == phase \in {"loading", "loaded"} /\ (whole \/ kf # EmptyKeyfile)

LoadingInv ==
  OfSave /\ Readable(kf) =>
    /\ plain
    /\ \E w, lay, N, off, m : \E cut \in BOOLEAN : LoadedSoFar(w, lay, N, off, m, cut)

(* One turn of the loop of keyfile_open.                                   *)
LEMMA ReadLoadingInv ==
  ASSUME TextInv, LoadingInv, NEW b, Read(b)
  PROVE  LoadingInv'
  <1> SUFFICES ASSUME OfSave', Readable(kf')
               PROVE  /\ plain'
                      /\ \E w, lay, N, off, m : \E cut \in BOOLEAN :
                           LoadedSoFar(w, lay, N, off, m, cut)'
    BY DEF LoadingInv
  <1>1. Fgets(b)
    BY DEF Read, ReadHeader, ReadLine, ReadNothing
  <1>2. phase = "loading" /\ text # <<>> /\ UNCHANGED <<kf, whole>> /\ plain' = (plain /\ b[1] # "=")
    BY <1>1 DEF Fgets
  <1>3. OfSave /\ Readable(kf)
    BY <1>2 DEF OfSave
  <1>4. plain /\ text \in Text /\ IsKeyfile(out)
    BY <1>3 DEF LoadingInv, TextInv
  <1>5. PICK w, lay, N, off, m : \E cut \in BOOLEAN : LoadedSoFar(w, lay, N, off, m, cut)
    BY <1>3 DEF LoadingInv
  <1>6. PICK cut \in BOOLEAN : LoadedSoFar(w, lay, N, off, m, cut)
    BY <1>5
  <1>7. /\ LaidOut(kf, w, lay) /\ Complete(kf, lay)
        /\ Rest(w, N, off, text) /\ (whole => N = Len(w))
        /\ m \in 1..lay.n + 1
    BY <1>6 DEF LoadedSoFar
  <1>8. ~cut
    <2>1. off # N
      <3>1. Len(text) > 0 /\ Len(text) = N - off /\ N \in Nat
        BY <1>2, <1>4, <1>7, NonEmpty DEF Rest
      <3> QED
        BY <3>1
    <2> QED
      BY <1>6, <2>1 DEF LoadedSoFar
  <1>9. /\ At(w, lay, m, off)
        /\ StartsPlain(kf) => /\ Found(kf, out, lay, m) /\ Same(kf, out)
                              /\ m > 1 => sec = {lay.ss[m - 1]}
    BY <1>6, <1>8 DEF LoadedSoFar
  <1> DEFINE s == lay.ss[m]
             k == lay.ks[m]
             x == Item(kf, s, k)
  <1>10. \/ /\ b \in Text /\ Len(b) = 1 /\ b[1] = NL
            /\ Rest(w, N, off + 1, text') /\ At(w, lay, m, off + 1)
         \/ /\ m <= lay.n /\ b \in Text /\ Len(b) \in 1..Len(x)
            /\ \A i \in 1..Len(b) : b[i] = x[i]
            /\ \/ /\ Len(b) >= Len(x) - 1
                  /\ Rest(w, N, off + Len(b), text') /\ At(w, lay, m + 1, off + Len(b))
               \/ /\ Len(b) < Len(x) - 1
                  /\ N < Len(w) /\ Rest(w, N, N, text')
    BY <1>1, <1>3, <1>7, <1>9, PieceIs
  <1>11. CASE /\ b \in Text /\ Len(b) = 1 /\ b[1] = NL
              /\ Rest(w, N, off + 1, text') /\ At(w, lay, m, off + 1)
    <2>1. b[1] # "[" /\ b[1] # "=" /\ b[1] = NL
      BY <1>11, DifferentCharacters
    <2>2. Strchr(b, "=") = 0
      <3>1. \A i \in 1..Len(b) : b[i] # "="
        BY <1>11, <2>1
      <3> QED
        BY <1>11, <3>1, StrchrIs
    <2>3. UNCHANGED <<out, sec>>
      BY <2>1, <2>2 DEF Read, ReadHeader, ReadLine, ReadNothing
    <2>4. LoadedSoFar(w, lay, N, off + 1, m, FALSE)'
      BY <1>2, <1>7, <1>9, <1>11, <2>3 DEF LoadedSoFar
    <2> QED
      BY <1>2, <1>4, <2>1, <2>4
  <1>12. CASE /\ m <= lay.n /\ b \in Text /\ Len(b) \in 1..Len(x)
              /\ \A i \in 1..Len(b) : b[i] = x[i]
              /\ \/ /\ Len(b) >= Len(x) - 1
                    /\ Rest(w, N, off + Len(b), text') /\ At(w, lay, m + 1, off + Len(b))
                 \/ /\ Len(b) < Len(x) - 1
                    /\ N < Len(w) /\ Rest(w, N, N, text')
    <2>1. lay.n \in Nat /\ m \in Nat /\ m \in 1..lay.n
      BY <1>7, <1>12 DEF LaidOut
    <2>2. LaidItem(kf, w, lay, m)
      BY <1>7, <2>1 DEF LaidOut
    <2>3. /\ s \in DOMAIN kf /\ k \in DOMAIN kf[s] \cup {<<>>}
          /\ k # <<>> => m > 1 /\ lay.ss[m - 1] = s
      BY <2>2 DEF LaidItem
    <2>4. s \in Text /\ (k # <<>> => k \in Text /\ kf[s][k] \in Text)
      BY <1>3, <2>3 DEF Readable, IsKeyfile
    <2>5. x \in Text /\ Len(x) \in Nat /\ 2 <= Len(x) /\ x[1] # "="
      BY <1>3, <2>3, ItemIs
    <2> HIDE DEF x
    <2>6. Len(b) \in Nat /\ 1 \in 1..Len(b)
      BY <1>12, <2>5
    <2>7. plain'
      BY <1>2, <1>4, <1>12, <2>5, <2>6
    <2>8. m + 1 \in 1..lay.n + 1 /\ (m + 1) - 1 = m
      BY <2>1
    <2>9. ASSUME StartsPlain(kf), k # <<>>
          PROVE  sec = {s} /\ s \in DOMAIN out
      <3>1. m - 1 \in Nat /\ 1 <= m - 1 /\ m - 1 < m
        BY <2>1, <2>3, <2>9
      <3>2. lay.ss[m - 1] \in DOMAIN out
        BY <1>9, <2>9, <3>1 DEF Found
      <3> QED
        BY <1>9, <2>3, <2>9, <3>2
    <2>10. ASSUME StartsPlain(kf)
           PROVE  LET all == Len(b) >= Len(x) - 1 IN
                    /\ k = <<>> /\ all => out' = Entered(out, s) /\ sec' = {s}
                    /\ k = <<>> /\ ~all => UNCHANGED <<out, sec>>
                    /\ k # <<>> => UNCHANGED sec
                    /\ k # <<>> /\ all => out' = Added(out, s, k, kf[s][k])
                    /\ k # <<>> /\ ~all => UNCHANGED out \/ \E v \in Text : out' = Added(out, s, k, v)
      <3>1. Len(b) \in 1..Len(Item(kf, s, k)) /\ \A i \in 1..Len(b) : b[i] = Item(kf, s, k)[i]
        BY <1>12 DEF x
      <3> HIDE DEF s, k
      <3>2. k # <<>> => sec = {s}
        BY <2>9, <2>10
      <3> QED
        BY <1>3, <1>12, <2>3, <2>10, <3>1, <3>2, ItemRead DEF x
    <2>11. CASE /\ Len(b) >= Len(x) - 1
                /\ Rest(w, N, off + Len(b), text') /\ At(w, lay, m + 1, off + Len(b))
      <3>1. ASSUME StartsPlain(kf)
            PROVE  Found(kf, out', lay, m + 1) /\ Same(kf, out') /\ sec' = {s}
        <4>1. CASE k = <<>>
          <5>1. out' = Entered(out, s) /\ sec' = {s}
            BY <2>10, <2>11, <3>1, <4>1
          <5> QED
            BY <1>4, <1>9, <2>1, <2>3, <2>4, <3>1, <4>1, <5>1, FoundSection
        <4>2. CASE k # <<>>
          <5>1. out' = Added(out, s, k, kf[s][k]) /\ UNCHANGED sec
            BY <2>10, <2>11, <3>1, <4>2
          <5>2. s \in DOMAIN out /\ sec = {s} /\ k \in DOMAIN kf[s] /\ k \in Text /\ kf[s][k] \in Text
            BY <2>3, <2>4, <2>9, <3>1, <4>2
          <5> QED
            BY <1>4, <1>9, <2>1, <3>1, <5>1, <5>2, FoundLine
        <4> QED
          BY <4>1, <4>2
      <3>2. LoadedSoFar(w, lay, N, off + Len(b), m + 1, FALSE)'
        BY <1>2, <1>7, <2>8, <2>11, <3>1 DEF LoadedSoFar
      <3> QED
        BY <2>7, <3>2
    <2>12. CASE /\ Len(b) < Len(x) - 1
                /\ N < Len(w) /\ Rest(w, N, N, text')
      <3>0. ~ (Len(b) >= Len(x) - 1)
        BY <2>5, <2>6, <2>12
      <3>1. ASSUME StartsPlain(kf)
            PROVE  Found(kf, out', lay, m) /\ OneCut(kf, out')
        <4>1. CASE UNCHANGED out
          BY <1>9, <3>1, <4>1 DEF Same, OneCut
        <4>2. CASE k # <<>> /\ \E v \in Text : out' = Added(out, s, k, v)
          <5>1. PICK v \in Text : out' = Added(out, s, k, v)
            BY <4>2
          <5>2. s \in DOMAIN out /\ k \in DOMAIN kf[s] /\ k \in Text
            BY <2>3, <2>4, <2>9, <3>1, <4>2
          <5> QED
            BY <1>4, <1>9, <2>1, <3>1, <5>1, <5>2, FoundLine
        <4> QED
          BY <2>10, <3>0, <3>1, <4>1, <4>2
      <3>2. LoadedSoFar(w, lay, N, N, m, TRUE)'
        BY <1>2, <1>7, <2>12, <3>1 DEF LoadedSoFar
      <3> QED
        BY <2>7, <3>2
    <2> QED
      BY <1>12, <2>11, <2>12
  <1> QED
    BY <1>10, <1>11, <1>12

LEMMA InitLoadingInv == Init => SavingInv /\ LoadingInv
  BY DEF Init, SavingInv, LoadingInv, OfSave

LEMMA NextLoadingInv == TextInv /\ SavingInv /\ LoadingInv /\ [Next]_vars => LoadingInv'
  <1> SUFFICES ASSUME TextInv, SavingInv, LoadingInv, [Next]_vars
               PROVE  LoadingInv'
    OBVIOUS
  <1>1. ASSUME UNCHANGED <<kf, text, sec, out, whole, plain>>, OfSave' => OfSave
        PROVE  LoadingInv'
    <2> SUFFICES ASSUME OfSave', Readable(kf')
                 PROVE  /\ plain'
                        /\ \E w, lay, N, off, m : \E cut \in BOOLEAN :
                             LoadedSoFar(w, lay, N, off, m, cut)'
      BY DEF LoadingInv
    <2>1. plain /\ \E w, lay, N, off, m : \E cut \in BOOLEAN : LoadedSoFar(w, lay, N, off, m, cut)
      BY <1>1 DEF LoadingInv
    <2>2. PICK w, lay, N, off, m : \E cut \in BOOLEAN : LoadedSoFar(w, lay, N, off, m, cut)
      BY <2>1
    <2>3. PICK cut \in BOOLEAN : LoadedSoFar(w, lay, N, off, m, cut)
      BY <2>2
    <2>4. LoadedSoFar(w, lay, N, off, m, cut)'
      BY <1>1, <2>3 DEF LoadedSoFar
    <2> QED
      BY <1>1, <2>1, <2>4
  <1>2. CASE UNCHANGED vars
    BY <1>1, <1>2 DEF vars, OfSave
  <1>3. CASE Save
    BY <1>3 DEF Save, LoadingInv, OfSave
  <1>4. ASSUME NEW s \in todo, WriteSection(s)
        PROVE  LoadingInv'
    BY <1>4 DEF WriteSection, LoadingInv, OfSave
  <1>5. ASSUME NEW s \in sec, NEW k \in lines, WriteLine(s, k)
        PROVE  LoadingInv'
    BY <1>5 DEF WriteLine, LoadingInv, OfSave
  <1>6. ASSUME NEW n \in 0..Len(text), Open(n)
        PROVE  LoadingInv'
    <2> SUFFICES ASSUME Readable(kf')
                 PROVE  /\ plain'
                        /\ \E w, lay, N, off, m : \E cut \in BOOLEAN :
                             LoadedSoFar(w, lay, N, off, m, cut)'
      BY DEF LoadingInv
    <2>1. /\ phase = "saving" /\ lines = {} /\ todo = {} /\ UNCHANGED kf
          /\ text' = SubSeq(text, 1, n) /\ whole' = (n = Len(text))
          /\ out' = EmptyKeyfile /\ plain' = TRUE
      BY <1>6 DEF Open
    <2>2. PICK w : w = text /\ w \in Text /\ Len(w) \in Nat
      BY NonEmpty DEF TextInv
    <2>3. PICK lay : SavedSoFar(lay)
      BY <2>1 DEF SavingInv
    <2>4. LaidOut(kf, w, lay) /\ Complete(kf, lay)
      BY <2>1, <2>2, <2>3 DEF SavedSoFar, Complete
    <2>5. Rest(w, n, 0, text')
      <3>1. n \in Nat /\ 0 <= n /\ n <= Len(w) /\ 1 <= n + 1 /\ n - 1 + 1 = n - 0 /\ n - 0 = n
        BY <2>2
      <3>2. /\ SubSeq(w, 1, n) \in Text /\ Len(SubSeq(w, 1, n)) = n - 1 + 1
            /\ \A i \in 1..n - 1 + 1 : SubSeq(w, 1, n)[i] = w[1 + i - 1]
        BY <2>2, <3>1, PartIs
      <3>3. \A i \in 1..n : 1 + i - 1 = 0 + i
        BY <3>1
      <3> QED
        BY <2>1, <2>2, <3>1, <3>2, <3>3 DEF Rest
    <2>6. 1 \in 1..lay.n + 1 /\ At(w, lay, 1, 0)
      BY <2>4 DEF LaidOut, At
    <2>7. Found(kf, EmptyKeyfile, lay, 1) /\ Same(kf, EmptyKeyfile)
      <3>1. DOMAIN EmptyKeyfile = {} /\ \A i \in Nat : ~ (1 <= i /\ i < 1)
        BY DEF EmptyKeyfile
      <3> QED
        BY <3>1 DEF Found, Same
    <2>8. (whole' => n = Len(w)) /\ ~ (1 > 1)
      <3>1. whole' => n = Len(text)
        BY <2>1, Zenon
      <3>2. ~ (1 > 1)
        OBVIOUS
      <3> QED
        BY <2>2, <3>1, <3>2
    <2>9. LoadedSoFar(w, lay, n, 0, 1, FALSE)'
      BY <2>1, <2>4, <2>5, <2>6, <2>7, <2>8 DEF LoadedSoFar
    <2> QED
      BY <2>1, <2>9
  <1>7. ASSUME NEW b, Read(b)
        PROVE  LoadingInv'
    BY <1>7, ReadLoadingInv
  <1>8. CASE ReadEnd
    BY <1>1, <1>8 DEF ReadEnd, OfSave
  <1> QED
    BY <1>2, <1>3, <1>4, <1>5, <1>6, <1>7, <1>8 DEF Next

-----------------------------------------------------------------------------
(* What was read of a whole text is what was printed.                      *)
LEMMA LoadedWhole ==
  ASSUME TextInv, phase = "loaded" => text = <<>>,
         NEW w, NEW lay, NEW N, NEW off, NEW m, NEW cut \in BOOLEAN,
         LoadedSoFar(w, lay, N, off, m, cut),
         phase = "loaded", whole, Readable(kf), StartsPlain(kf)
  PROVE  out = kf
  <1>1. /\ LaidOut(kf, w, lay) /\ Complete(kf, lay)
        /\ Rest(w, N, off, text) /\ N = Len(w) /\ m \in 1..lay.n + 1
    BY DEF LoadedSoFar
  <1>2. lay.n \in Nat /\ w \in Text /\ Len(w) \in Nat /\ lay.pos[m] \in 1..Len(w) + 1
    BY <1>1, NonEmpty DEF LaidOut
  <1>3. off = Len(w)
    <2>1. Len(text) = 0 /\ Len(text) = N - off /\ off \in Nat /\ off <= N
      BY <1>1, NonEmpty DEF TextInv, Rest
    <2> QED
      BY <1>1, <1>2, <2>1
  <1>4. ~cut
    BY <1>1, <1>2, <1>3 DEF LoadedSoFar
  <1>5. At(w, lay, m, off) /\ Found(kf, out, lay, m) /\ Same(kf, out)
    BY <1>4 DEF LoadedSoFar
  <1>6. lay.pos[m] = Len(w) + 1
    BY <1>2, <1>3, <1>5 DEF At
  <1>7. m = lay.n + 1
    <2>1. ASSUME m \in 1..lay.n PROVE FALSE
      <3>1. LaidItem(kf, w, lay, m) /\ lay.pos[m + 1] \in 1..Len(w) + 1
        <4>1. m + 1 \in 1..lay.n + 1
          BY <1>2, <2>1
        <4> QED
          BY <1>1, <2>1, <4>1 DEF LaidOut
      <3> DEFINE x == Item(kf, lay.ss[m], lay.ks[m])
      <3>2. /\ lay.ss[m] \in DOMAIN kf /\ lay.ks[m] \in DOMAIN kf[lay.ss[m]] \cup {<<>>}
            /\ lay.pos[m + 1] = lay.pos[m] + Len(x)
        BY <3>1 DEF LaidItem
      <3>3. Len(x) \in Nat /\ 2 <= Len(x)
        BY <3>2, ItemIs
      <3> HIDE DEF x
      <3> QED
        BY <1>2, <1>6, <3>1, <3>2, <3>3
    <2> QED
      BY <1>1, <1>2, <2>1
  <1>8. \A i \in 1..lay.n : i \in Nat /\ 1 <= i /\ i < m
    BY <1>2, <1>7
  <1>9. ASSUME NEW s \in DOMAIN kf
        PROVE  s \in DOMAIN out /\ DOMAIN out[s] = DOMAIN kf[s]
    <2>1. s \in DOMAIN out
      BY <1>1, <1>5, <1>8 DEF Complete, Has, Found
    <2>2. ASSUME NEW k \in DOMAIN kf[s] PROVE k \in DOMAIN out[s]
      <3>1. k # <<>>
        BY DEF Readable, GoodLine
      <3>2. PICK i \in 1..lay.n : lay.ss[i] = s /\ lay.ks[i] = k
        BY <1>1 DEF Complete, Has
      <3> QED
        BY <1>5, <1>8, <3>1, <3>2 DEF Found
    <2>3. DOMAIN out[s] \subseteq DOMAIN kf[s]
      BY <1>5, <2>1 DEF Found
    <2> QED
      BY <2>1, <2>2, <2>3
  <1>10. DOMAIN out = DOMAIN kf
    BY <1>5, <1>9 DEF Found
  <1>11. IsKeyfile(out) /\ IsKeyfile(kf)
    BY DEF TextInv
  <1>12. ASSUME NEW s \in DOMAIN kf PROVE out[s] = kf[s]
    <2>1. /\ out[s] = [k \in DOMAIN out[s] |-> out[s][k]]
          /\ kf[s] = [k \in DOMAIN kf[s] |-> kf[s][k]]
      BY <1>10, <1>11 DEF IsKeyfile
    <2>2. \A k \in DOMAIN out[s] : out[s][k] = kf[s][k]
      BY <1>5, <1>10 DEF Same
    <2> QED
      BY <1>9, <2>1, <2>2
  <1>13. out = [s \in DOMAIN out |-> out[s]] /\ kf = [s \in DOMAIN kf |-> kf[s]]
    BY <1>11 DEF IsKeyfile
  <1> QED
    BY <1>10, <1>12, <1>13

(* The invariant of the whole round.                                       *)
RoundInv ==
  TextInv /\ SavingInv /\ LoadingInv /\ (phase = "loaded" => text = <<>>)

LEMMA InitRoundInv == Init => RoundInv
  BY InitTextInv, InitLoadingInv DEF RoundInv, Init

LEMMA NextRoundInv == RoundInv /\ [Next]_vars => RoundInv'
  <1> SUFFICES ASSUME RoundInv, [Next]_vars PROVE RoundInv'
    OBVIOUS
  <1>1. TextInv /\ SavingInv /\ LoadingInv
    BY DEF RoundInv
  <1>2. TextInv' /\ SavingInv' /\ LoadingInv'
    BY <1>1, NextTextInv, NextSavingInv, NextLoadingInv
  <1>3. phase' = "loaded" => text' = <<>>
    <2>1. CASE UNCHANGED vars
      BY <2>1 DEF vars, RoundInv
    <2>2. CASE ReadEnd
      BY <2>2 DEF ReadEnd
    <2>3. CASE Save \/ (\E s \in todo : WriteSection(s)) \/ (\E s \in sec, k \in lines : WriteLine(s, k))
      BY <2>3 DEF Save, WriteSection, WriteLine
    <2>4. CASE \E n \in 0..Len(text) : Open(n)
      BY <2>4 DEF Open
    <2>5. ASSUME NEW b, Read(b) PROVE phase' # "loaded"
      BY <1>1, <2>5, ReadIs
    <2> QED
      BY <2>1, <2>2, <2>3, <2>4, <2>5 DEF Next
  <1> QED
    BY <1>2, <1>3 DEF RoundInv

(* A keyfile comes back as it was written exactly if the format can hold   *)
(* it, in whatever order keyfile_write prints it and however long it is.   *)
THEOREM WhatIsWrittenIsRead == Spec => []RoundTrip
  <1>1. RoundInv => RoundTrip
    <2> SUFFICES ASSUME RoundInv, phase = "loaded", whole PROVE out = kf <=> Printable(kf)
      BY DEF RoundTrip
    <2>1. /\ IsKeyfile(kf) /\ Readable(out) /\ (plain => StartsPlain(out)) /\ OfSave
          /\ TextInv /\ text = <<>>
      BY DEF RoundInv, TextInv, OfSave
    <2>2. Printable(kf) <=> Readable(kf) /\ StartsPlain(kf)
      BY <2>1, PrintableIs
    <2>3. ASSUME Readable(kf)
          PROVE  plain /\ \E w, lay, N, off, m : \E cut \in BOOLEAN : LoadedSoFar(w, lay, N, off, m, cut)
      BY <2>1, <2>3 DEF RoundInv, LoadingInv
    <2>4. ASSUME Readable(kf), StartsPlain(kf) PROVE out = kf
      <3>1. PICK w, lay, N, off, m : \E cut \in BOOLEAN : LoadedSoFar(w, lay, N, off, m, cut)
        BY <2>3, <2>4
      <3>2. PICK cut \in BOOLEAN : LoadedSoFar(w, lay, N, off, m, cut)
        BY <3>1
      <3> QED
        BY <2>1, <2>4, <3>2, LoadedWhole
    <2>5. ASSUME out = kf PROVE Readable(kf) /\ StartsPlain(kf)
      BY <2>1, <2>3, <2>5
    <2> QED
      BY <2>2, <2>4, <2>5
  <1> QED
    BY <1>1, InitRoundInv, NextRoundInv, PTL DEF Spec

-----------------------------------------------------------------------------
(* A keyfile with names of f only is one of Keyfile.tla over them, and one *)
(* that differs from f in one value at most is a Prefix of f there.        *)
LEMMA AsMemIs ==
  ASSUME NEW f, Readable(f), NEW g, Readable(g),
         \A s \in DOMAIN g : s \in DOMAIN f /\ DOMAIN g[s] \subseteq DOMAIN f[s],
         OneCut(f, g)
  PROVE  AsMem(g, f) \in Mem(f)!Prefixes(AsMem(f, f))
  <1> DEFINE E == Mem(f)!Entry
             K == UNION {DOMAIN f[s] : s \in DOMAIN f}
             part == AsMem(g, f)
             all == AsMem(f, f)
  <1>1. E = (DOMAIN f) \X K
    BY DEF Mem!Entry
  <1> HIDE DEF E, K
  <1>2. /\ part.sections = DOMAIN g /\ all.sections = DOMAIN f
        /\ part = [sections |-> part.sections, lines |-> part.lines]
        /\ part.lines = [e \in E |-> IF e[1] \in DOMAIN g /\ e[2] \in DOMAIN g[e[1]]
                                     THEN g[e[1]][e[2]] ELSE <<>>]
        /\ all.lines = [e \in E |-> IF e[1] \in DOMAIN f /\ e[2] \in DOMAIN f[e[1]]
                                    THEN f[e[1]][e[2]] ELSE <<>>]
    BY DEF AsMem, E
  <1> HIDE DEF part, all
  <1>3. ASSUME NEW e \in E
        PROVE  /\ e[1] \in DOMAIN g /\ e[2] \in DOMAIN g[e[1]] =>
                    /\ part.lines[e] = g[e[1]][e[2]] /\ part.lines[e] \in Text /\ part.lines[e] # <<>>
                    /\ all.lines[e] = f[e[1]][e[2]] /\ all.lines[e] # <<>>
               /\ ~ (e[1] \in DOMAIN g /\ e[2] \in DOMAIN g[e[1]]) => part.lines[e] = <<>>
    <2>1. CASE e[1] \in DOMAIN g /\ e[2] \in DOMAIN g[e[1]]
      <3>1. e[1] \in DOMAIN f /\ e[2] \in DOMAIN f[e[1]]
        BY <2>1
      <3>2. /\ GoodLine(e[2], g[e[1]][e[2]]) /\ g[e[1]][e[2]] \in Text
            /\ GoodLine(e[2], f[e[1]][e[2]])
        BY <2>1, <3>1 DEF Readable, IsKeyfile
      <3> QED
        BY <1>2, <2>1, <3>1, <3>2 DEF GoodLine
    <2>2. CASE ~ (e[1] \in DOMAIN g /\ e[2] \in DOMAIN g[e[1]])
      BY <1>2, <2>2
    <2> QED
      BY <2>1, <2>2
  <1>4. part.sections \subseteq all.sections
    BY <1>2
  <1>5. \A e \in E : part.lines[e] # <<>> => e[1] \in part.sections /\ all.lines[e] # <<>>
    BY <1>2, <1>3
  <1>6. part \in Mem(f)!Keyfile
    <2>1. \A e \in E : part.lines[e] \in (Text \ {<<>>}) \cup {<<>>}
      BY <1>3
    <2>2. part.lines \in [E -> (Text \ {<<>>}) \cup {<<>>}]
      BY <1>2, <2>1
    <2>3. part \in [sections: SUBSET DOMAIN f, lines: [E -> (Text \ {<<>>}) \cup {<<>>}]]
      BY <1>2, <1>4, <2>2
    <2> QED
      BY <1>5, <2>3 DEF Mem!Keyfile, E
  <1>7. ASSUME NEW x \in E, NEW y \in E,
               part.lines[x] \notin {<<>>, all.lines[x]}, part.lines[y] \notin {<<>>, all.lines[y]}
        PROVE  x = y
    <2>1. PICK t, j : \A s \in DOMAIN g : \A k \in DOMAIN g[s] : g[s][k] = f[s][k] \/ (s = t /\ k = j)
      BY DEF OneCut
    <2>2. x[1] = t /\ x[2] = j /\ y[1] = t /\ y[2] = j
      BY <1>3, <1>7, <2>1
    <2>3. x = <<x[1], x[2]>> /\ y = <<y[1], y[2]>>
      BY <1>1
    <2> QED
      BY <2>2, <2>3
  <1>8. /\ \A e \in E : part.lines[e] # <<>> => all.lines[e] # <<>>
        /\ \A x, y \in {e \in E : part.lines[e] \notin {<<>>, all.lines[e]}} : x = y
    BY <1>5, <1>7
  <1>9. part \in Mem(f)!Prefixes(all)
    BY <1>4, <1>6, <1>8 DEF Mem!Prefixes, E
  <1> QED
    BY <1>9 DEF part, all

(* Wherever the text of a save is cut, keyfile_open makes of it a keyfile  *)
(* that KeyfileStore allows for a file that is not whole.                  *)
THEOREM WhatIsTornIsPrefix == Spec => []TornIsPrefix
  <1>1. RoundInv => TornIsPrefix
    <2> SUFFICES ASSUME RoundInv, phase = "loaded", Printable(kf), kf # EmptyKeyfile
                 PROVE  /\ \A s \in DOMAIN out : s \in DOMAIN kf /\ DOMAIN out[s] \subseteq DOMAIN kf[s]
                        /\ AsMem(out, kf) \in Mem(kf)!Prefixes(AsMem(kf, kf))
      BY DEF TornIsPrefix
    <2>1. IsKeyfile(kf) /\ Readable(out) /\ OfSave
      BY DEF RoundInv, TextInv, OfSave
    <2>2. Readable(kf) /\ StartsPlain(kf)
      BY <2>1, PrintableIs
    <2>3. PICK w, lay, N, off, m : \E cut \in BOOLEAN : LoadedSoFar(w, lay, N, off, m, cut)
      BY <2>1, <2>2 DEF RoundInv, LoadingInv
    <2>4. PICK cut \in BOOLEAN : LoadedSoFar(w, lay, N, off, m, cut)
      BY <2>3
    <2>5. Found(kf, out, lay, m) /\ (OneCut(kf, out) \/ Same(kf, out))
      BY <2>2, <2>4 DEF LoadedSoFar
    <2>6. OneCut(kf, out)
      BY <2>5 DEF Same, OneCut
    <2>7. \A s \in DOMAIN out : s \in DOMAIN kf /\ DOMAIN out[s] \subseteq DOMAIN kf[s]
      BY <2>5 DEF Found
    <2> QED
      BY <2>1, <2>2, <2>6, <2>7, AsMemIs
  <1> QED
    BY <1>1, InitRoundInv, NextRoundInv, PTL DEF Spec
=============================================================================
