---------------------------- MODULE MCKeyfileText ----------------------------
(* Small texts for KeyfileText.                                            *)
EXTENDS KeyfileText, TLC

SixChars == {"[", "]", "=", "#", NL, "a"}

SevenChars == SixChars \cup {"b"}

Upto(n) == UNION {[1..i -> SixChars] : i \in 0..n}

(* Every keyfile of one section with no line, or one, in short strings.    *)
OneLine ==
  {s :> [k \in {} |-> <<>>] : s \in Upto(3)} \cup
  {s :> (k :> v) : s \in Upto(1), k \in Upto(2), v \in Upto(2)}

(* Keyfiles of up to two sections with up to two lines each.               *)
SomeLines == UNION {[ks -> {<<"a">>, <<"b", "=">>}] : ks \in SUBSET {<<"a">>, <<"]">>}}

TwoSections == UNION {[ss -> SomeLines] : ss \in SUBSET {<<"a">>, <<"[", "b">>}}

SmallKeyfiles == OneLine \cup TwoSections

(* Every file of a few characters, after a header.                         *)
ShortScripts == {<<"[", "]", NL>> \o t : t \in Upto(5)}
=============================================================================
