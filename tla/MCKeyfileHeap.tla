---------------------------- MODULE MCKeyfileHeap ----------------------------
(* A heap of numbered blocks whose malloc takes the lowest that is free, so  *)
(* that what is freed is soon handed out again.                             *)
EXTENDS KeyfileHeap, Naturals

FirstFit(free) == CHOOSE b \in free : \A c \in free : b <= c
=============================================================================
