--------------------------- MODULE DirectoriesProofs ---------------------------
(***************************************************************************)
(* Directories for any number of callers, over any paths: what an answer   *)
(* of 0, and one of -1, tell a caller that races others.                   *)
(***************************************************************************)
EXTENDS Directories, TLAPS

(* The names above one that is not the first.                              *)
LEMMA NameAbove ==
  ASSUME NEW n \in Nat, NEW a \in Nat, a < n, a # 0
  PROVE  a \in 1..(n - 1) /\ a \in 1..n /\ a + 1 # 1 /\ (a + 1) - 1 = a
  OBVIOUS

LEMMA InitTypeOK == Init => TypeOK
  BY DepthType DEF Init, TypeOK

(* The name a running mkdir is about.                                      *)
LEMMA NextName ==
  ASSUME TypeOK, NEW c \in Caller, at[c] < Depth[c]
  PROVE  /\ at[c] + 1 \in 1..Depth[c]
         /\ PathOf[c][at[c] + 1] \in Dir
  <1>1. Depth[c] \in Nat /\ at[c] \in Nat
    BY DepthType DEF TypeOK
  <1>2. at[c] + 1 \in 1..Depth[c]
    BY <1>1
  <1> QED
    BY <1>2, PathType

LEMMA NextTypeOK == TypeOK /\ [Next]_vars => TypeOK'
  <1> SUFFICES ASSUME TypeOK, [Next]_vars PROVE TypeOK'
    OBVIOUS
  <1>0. /\ at \in [Caller -> Nat]
        /\ \A d \in Caller : /\ at[d] \in Nat /\ Depth[d] \in Nat
                             /\ at[d] <= Depth[d] /\ 0 <= Depth[d]
    <2>1. at \in [Caller -> Nat] /\ \A d \in Caller : at[d] <= Depth[d]
      BY DEF TypeOK
    <2>2. \A d \in Caller : Depth[d] \in Nat
      BY DepthType
    <2> QED
      BY <2>1, <2>2
  <1>1. CASE UNCHANGED vars
    BY <1>1 DEF vars, TypeOK
  <1>2. ASSUME NEW c \in Caller, Call(c)
        PROVE  TypeOK'
    <2>1. at' \in [Caller -> Nat] /\ \A d \in Caller : at'[d] = at[d] \/ at'[d] = 0
      BY <1>2 DEF Call, TypeOK
    <2>2. \A d \in Caller : at'[d] <= Depth[d]
      BY <2>1, <1>0
    <2>3. ret' \in [Caller -> {"idle", "running", "zero", "minus one"}]
      BY <1>2 DEF Call, TypeOK
    <2> QED
      BY <1>2, <2>1, <2>2, <2>3 DEF Call, TypeOK
  <1>3. ASSUME NEW c \in Caller, MkdirMakes(c) \/ MkdirFinds(c)
        PROVE  TypeOK'
    <2>1. at[c] < Depth[c] /\ at' = [at EXCEPT ![c] = @ + 1]
      BY <1>3 DEF MkdirMakes, MkdirFinds, Proceed, Mkdir
    <2>2. /\ at' \in [Caller -> Nat]
          /\ at'[c] = at[c] + 1
          /\ \A d \in Caller \ {c} : at'[d] = at[d]
      BY <2>1, <1>0
    <2>3. \A d \in Caller : at'[d] <= Depth[d]
      <3>1. at'[c] <= Depth[c]
        BY <2>1, <2>2, <1>0
      <3> QED
        BY <2>2, <3>1, <1>0
    <2>4. node' \in [Dir -> {"none", "dir", "file"}] /\ UNCHANGED <<ret, happened>>
      BY <1>3 DEF MkdirMakes, MkdirFinds, Proceed, TypeOK
    <2> QED
      BY <2>2, <2>3, <2>4 DEF TypeOK
  <1>4. ASSUME NEW c \in Caller, MkdirRefused(c) \/ MkdirFails(c) \/ Return(c)
        PROVE  TypeOK'
    BY <1>4 DEF MkdirRefused, MkdirFails, Mkdir, Return, TypeOK
  <1>5. ASSUME NEW p \in Dir, Rmdir(p)
        PROVE  TypeOK'
    BY <1>5 DEF Rmdir, TypeOK
  <1> QED
    BY <1>1, <1>2, <1>3, <1>4, <1>5 DEF Next, Step

-----------------------------------------------------------------------------
(* What a caller has dealt with is there, all but the last name of it as   *)
(* directories; and a caller was refused by a file.                        *)
Reached ==
  "rmdir" \notin happened =>
    \A c \in Caller : \A d \in 1..Depth[c] :
      /\ d <= at[c] => node[PathOf[c][d]] # "none"
      /\ d < at[c] => node[PathOf[c][d]] = "dir"

Refused ==
  \A c \in Caller :
    /\ ret[c] = "zero" => at[c] = Depth[c]
    /\ ret[c] = "minus one" /\ happened = {} =>
         \E d \in 1..(Depth[c] - 1) : node[PathOf[c][d]] = "file"

IInv == TypeOK /\ Reached /\ Refused

(* What stands somewhere stays, as long as nobody removes it.              *)
LEMMA NodesStay ==
  ASSUME TypeOK, "rmdir" \notin happened', [Next]_vars
  PROVE  /\ \A p \in Dir : node[p] # "none" => node'[p] = node[p]
         /\ "rmdir" \notin happened
  <1>1. ASSUME NEW c \in Caller, MkdirMakes(c)
        PROVE  /\ \A p \in Dir : node[p] # "none" => node'[p] = node[p]
               /\ UNCHANGED happened
    BY <1>1, NextName DEF MkdirMakes, Proceed, Mkdir, TypeOK
  <1>2. CASE UNCHANGED node /\ happened \subseteq happened'
    BY <1>2
  <1> QED
    BY <1>1, <1>2
       DEF Next, Step, Call, MkdirFinds, Proceed, MkdirRefused, MkdirFails, Return, Rmdir, vars

LEMMA InitIInv == Init => IInv
  <1> SUFFICES ASSUME Init PROVE Reached /\ Refused
    BY InitTypeOK DEF IInv
  <1>1. Reached
    BY DepthType DEF Init, Reached
  <1>2. Refused
    BY DEF Init, Refused
  <1> QED
    BY <1>1, <1>2

LEMMA NextReached ==
  ASSUME IInv, [Next]_vars, TypeOK'
  PROVE  Reached'
  <1> USE DEF IInv
  <1> SUFFICES ASSUME "rmdir" \notin happened', NEW c \in Caller, NEW d \in 1..Depth[c]
               PROVE  /\ d <= at'[c] => node'[PathOf[c][d]] # "none"
                      /\ d < at'[c] => node'[PathOf[c][d]] = "dir"
    BY DEF Reached
  <1>1. Depth[c] \in Nat /\ at[c] \in Nat /\ PathOf[c][d] \in Dir
    BY DepthType, PathType DEF TypeOK
  <1>2. /\ d <= at[c] => node'[PathOf[c][d]] # "none"
        /\ d < at[c] => node'[PathOf[c][d]] = "dir"
    BY <1>1, NodesStay DEF Reached
  <1>3. CASE at'[c] = at[c] \/ at'[c] = 0
    BY <1>1, <1>2, <1>3
  <1>4. CASE MkdirMakes(c) \/ MkdirFinds(c)
    <2>1. /\ at'[c] = at[c] + 1
          /\ Above(c, at[c] + 1) = "dir"
          /\ at[c] < Depth[c]
      BY <1>4 DEF MkdirMakes, MkdirFinds, Proceed, Mkdir, TypeOK
    <2>2. node'[PathOf[c][at[c] + 1]] # "none"
      BY <1>4, <2>1, NextName DEF MkdirMakes, MkdirFinds, TypeOK
    <2>3. d <= at'[c] => node'[PathOf[c][d]] # "none"
      <3>1. CASE d <= at[c]
        BY <1>2, <3>1
      <3>2. CASE d = at[c] + 1
        BY <2>2, <3>2
      <3> QED
        BY <1>1, <2>1, <3>1, <3>2
    <2>4. d = at[c] => node'[PathOf[c][d]] = "dir"
      <3> SUFFICES ASSUME d = at[c] PROVE node'[PathOf[c][d]] = "dir"
        OBVIOUS
      <3>1. at[c] + 1 # 1 /\ (at[c] + 1) - 1 = d
        BY <1>1
      <3>2. node[PathOf[c][d]] = "dir"
        BY <2>1, <3>1 DEF Above
      <3> QED
        BY <1>1, <3>2, NodesStay
    <2>5. d < at'[c] => node'[PathOf[c][d]] = "dir"
      BY <1>1, <1>2, <2>1, <2>4
    <2> QED
      BY <2>3, <2>5
  <1>5. \/ at'[c] = at[c] \/ at'[c] = 0
        \/ MkdirMakes(c) \/ MkdirFinds(c)
    <2>1. ASSUME NEW b \in Caller, MkdirMakes(b) \/ MkdirFinds(b), b # c
          PROVE  at'[c] = at[c]
      BY <2>1 DEF MkdirMakes, MkdirFinds, Proceed, TypeOK
    <2>2. ASSUME NEW b \in Caller, Call(b)
          PROVE  at'[c] = at[c] \/ at'[c] = 0
      BY <2>2 DEF Call, TypeOK
    <2>3. ASSUME NEW b \in Caller, MkdirRefused(b) \/ MkdirFails(b) \/ Return(b)
          PROVE  at'[c] = at[c]
      BY <2>3 DEF MkdirRefused, MkdirFails, Return
    <2>4. ASSUME NEW p \in Dir, Rmdir(p)
          PROVE  at'[c] = at[c]
      BY <2>4 DEF Rmdir
    <2>5. CASE UNCHANGED vars
      BY <2>5 DEF vars
    <2> QED
      BY <2>1, <2>2, <2>3, <2>4, <2>5 DEF Next, Step
  <1> QED
    BY <1>3, <1>4, <1>5

LEMMA NextRefused ==
  ASSUME IInv, [Next]_vars
  PROVE  Refused'
  <1> USE DEF IInv
  <1> SUFFICES ASSUME NEW c \in Caller
               PROVE  /\ ret'[c] = "zero" => at'[c] = Depth[c]
                      /\ ret'[c] = "minus one" /\ happened' = {} =>
                           \E d \in 1..(Depth[c] - 1) : node'[PathOf[c][d]] = "file"
    BY DEF Refused
  <1>1. ASSUME happened' = {}
        PROVE  /\ happened = {}
               /\ \A d \in 1..(Depth[c] - 1) :
                    node[PathOf[c][d]] = "file" => node'[PathOf[c][d]] = "file"
    <2>1. happened = {}
      BY <1>1 DEF Next, Step, Call, MkdirMakes, MkdirFinds, Proceed, MkdirRefused,
                  MkdirFails, Return, Rmdir, vars
    <2>2. \A p \in Dir : node[p] # "none" => node'[p] = node[p]
      BY <1>1, NodesStay
    <2> QED
      BY <2>1, <2>2, PathType, DepthType
  <1>2. CASE MkdirRefused(c)
    <2>1. at[c] \in Nat /\ Depth[c] \in Nat
      BY DepthType DEF TypeOK
    <2>2. at[c] < Depth[c] /\ Above(c, at[c] + 1) # "dir"
      BY <1>2 DEF MkdirRefused, Mkdir
    <2>3. ret'[c] = "minus one"
      BY <1>2 DEF MkdirRefused, TypeOK
    <2>4. ASSUME happened = {}
          PROVE  \E d \in 1..(Depth[c] - 1) : node[PathOf[c][d]] = "file"
      <3>1. at[c] # 0
        BY <2>2 DEF Above
      <3>2. /\ at[c] \in 1..(Depth[c] - 1) /\ at[c] \in 1..Depth[c]
            /\ at[c] + 1 # 1 /\ (at[c] + 1) - 1 = at[c]
        BY <2>1, <2>2, <3>1, NameAbove
      <3>3. PathOf[c][at[c]] \in Dir
        BY <3>2, PathType
      <3>4. node[PathOf[c][at[c]]] # "none"
        <4>1. at[c] <= at[c] /\ "rmdir" \notin happened
          BY <2>1, <2>4
        <4> QED
          BY <3>2, <4>1 DEF Reached
      <3>5. node[PathOf[c][at[c]]] # "dir"
        BY <2>2, <3>2 DEF Above
      <3>6. node[PathOf[c][at[c]]] = "file"
        BY <3>3, <3>4, <3>5 DEF TypeOK
      <3> QED
        BY <3>2, <3>6
    <2> QED
      BY <1>1, <2>3, <2>4
  <1>3. CASE MkdirFails(c)
    BY <1>3 DEF MkdirFails, TypeOK
  <1>4. CASE Return(c)
    BY <1>4 DEF Return, TypeOK
  <1>5. CASE UNCHANGED <<at[c], ret[c]>> \/ ret'[c] = "running"
    BY <1>1, <1>5 DEF Refused
  <1>6. \/ MkdirRefused(c) \/ MkdirFails(c) \/ Return(c)
        \/ UNCHANGED <<at[c], ret[c]>> \/ ret'[c] = "running"
    <2>1. ASSUME NEW b \in Caller, MkdirMakes(b) \/ MkdirFinds(b)
          PROVE  UNCHANGED <<at[c], ret[c]>> \/ ret'[c] = "running"
      <3>1. ret[b] = "running" /\ ret' = ret /\ at' = [at EXCEPT ![b] = @ + 1]
        BY <2>1 DEF MkdirMakes, MkdirFinds, Proceed, Mkdir
      <3> QED
        BY <3>1 DEF TypeOK
    <2>2. ASSUME NEW b \in Caller, Call(b)
          PROVE  UNCHANGED <<at[c], ret[c]>> \/ ret'[c] = "running"
      BY <2>2 DEF Call, TypeOK
    <2>3. ASSUME NEW b \in Caller, b # c, MkdirRefused(b) \/ MkdirFails(b) \/ Return(b)
          PROVE  UNCHANGED <<at[c], ret[c]>>
      BY <2>3 DEF MkdirRefused, MkdirFails, Return, TypeOK
    <2>4. ASSUME NEW p \in Dir, Rmdir(p)
          PROVE  UNCHANGED <<at[c], ret[c]>>
      BY <2>4 DEF Rmdir
    <2>5. CASE UNCHANGED vars
      BY <2>5 DEF vars
    <2> QED
      BY <2>1, <2>2, <2>3, <2>4, <2>5 DEF Next, Step
  <1> QED
    BY <1>2, <1>3, <1>4, <1>5, <1>6

LEMMA IInvImplies == IInv => ZeroMeansThere /\ FailsForAReason
  <1> SUFFICES ASSUME IInv PROVE ZeroMeansThere /\ FailsForAReason
    OBVIOUS
  <1>1. FailsForAReason
    BY DEF IInv, Refused, FailsForAReason
  <1>2. ASSUME "rmdir" \notin happened, NEW c \in Caller, ret[c] = "zero",
               NEW d \in 1..Depth[c]
        PROVE  node[PathOf[c][d]] = "dir" \/ FileAtEnd(c, d)
    <2>1. at[c] = Depth[c]
      BY <1>2 DEF IInv, Refused
    <2>2. Depth[c] \in Nat /\ PathOf[c][d] \in Dir
      BY DepthType, PathType
    <2>3. /\ d <= at[c] => node[PathOf[c][d]] # "none"
          /\ d < at[c] => node[PathOf[c][d]] = "dir"
      BY <1>2 DEF IInv, Reached
    <2>4. CASE d < Depth[c]
      BY <2>1, <2>3, <2>4
    <2>5. CASE d = Depth[c]
      <3>1. node[PathOf[c][d]] # "none"
        BY <2>1, <2>2, <2>3, <2>5
      <3>2. node[PathOf[c][d]] \in {"none", "dir", "file"}
        BY <2>2 DEF IInv, TypeOK
      <3> QED
        BY <2>5, <3>1, <3>2 DEF FileAtEnd
    <2> QED
      BY <2>2, <2>4, <2>5
  <1> QED
    BY <1>1, <1>2 DEF ZeroMeansThere

LEMMA IInvHolds == Spec => []IInv
  <1>1. IInv /\ [Next]_vars => IInv'
    BY NextTypeOK, NextReached, NextRefused DEF IInv
  <1> QED
    BY <1>1, InitIInv, PTL DEF Spec

(* However many processes make directories at once, and wherever their     *)
(* paths meet: until something is removed, a caller that is answered 0 has *)
(* its path in directories, all of it but a file at the last name, which   *)
(* mkdir's EEXIST (mcs_util.c:119) does not tell from a directory.         *)
THEOREM AnswersAreTrue == Spec => []ZeroMeansThere
  BY IInvHolds, IInvImplies, PTL

(* None of them is answered -1 because of another caller.                  *)
THEOREM CallersDoNotHurt == Spec => []FailsForAReason
  BY IInvHolds, IInvImplies, PTL

=============================================================================
