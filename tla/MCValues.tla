------------------------------ MODULE MCValues ------------------------------
(* Numbers around the widths of "%g" and of the two formats of it, and     *)
(* around and beyond both ends of the range of a float.                    *)
EXTENDS Values

SomeMantissas == {0, 1, 7, 12, 99, 125, 994, 995, 999, 1001, 9996, -5, -125, -999}
SomeExponents == -8..3
SmallFloat == [m |-> 12, e |-> -6]
GreatFloat == [m |-> 99, e |-> 3]
SomeInts == {0, 1, 9, 10, 99, 100, 120, 12345, -1, -100, -12345}
SomeWords == {[word |-> w] : w \in {"TRUE", "FALSE", "true", "yes"}}
=============================================================================
