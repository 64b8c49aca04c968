-------------------------------- MODULE Values --------------------------------
(***************************************************************************)
(* The typed calls of keyfile.c (int, bool, float, double): what a line    *)
(* keeps of a number, and what each call reads out of a line, whatever     *)
(* locale the application is in when it writes and when it reads.          *)
(*                                                                         *)
(* A number is m * 10^e, and a float or a double one of so many digits.    *)
(* Every number here is in the range of a double; a float has its own, and *)
(* is what it can be of a number outside it.                               *)
(***************************************************************************)
EXTENDS Integers, FiniteSetsExt

CONSTANTS Sig,          \* the digits %g writes: 6
          FloatDigits, DoubleDigits,
          FloatMin, FloatMax, \* what is narrowed to a normal float lies between
          Mantissa, Exponent, \* of the numbers the application sets
          CInt,         \* the ints it sets
          Word          \* strings that are no number, as [word |-> ...]

ASSUME Digits ==
  /\ {Sig, FloatDigits, DoubleDigits} \subseteq Nat
  /\ 0 < Sig /\ Sig <= FloatDigits /\ FloatDigits <= DoubleDigits
ASSUME Numbers == Mantissa \subseteq Int /\ Exponent \subseteq Int /\ CInt \subseteq Int
ASSUME FloatRange ==
  \A x \in {FloatMin, FloatMax} : x = [m |-> x.m, e |-> x.e] /\ x.m \in Nat \ {0} /\ x.e \in Int
ASSUME Words == \A w \in Word : w = [word |-> w.word]

VARIABLES line,   \* the text of the line, or NoLine
          locale, \* the decimal point of the application's LC_NUMERIC
          put     \* what the application has set last, and with which call

vars == <<line, locale, put>>

NoLine == [none |-> TRUE]
TenTo[k \in Nat] == IF k = 0 THEN 1 ELSE 10 * TenTo[k - 1]
Magnitude(n) == IF n < 0 THEN -n ELSE n
DigitsOf(n) ==
  IF n = 0 THEN 1
  ELSE CHOOSE d \in 1..Magnitude(n) :
         TenTo[d - 1] <= Magnitude(n) /\ Magnitude(n) < TenTo[d]
Quotient(n, k) == IF n < 0 THEN -((-n) \div k) ELSE n \div k

(* The one form of a number: no zeros at the end of m.                     *)
Number(m, e) ==
  IF m = 0 THEN [m |-> 0, e |-> 0]
  ELSE LET k == Max({j \in 0..(DigitsOf(m) - 1) : m % TenTo[j] = 0})
       IN  [m |-> Quotient(m, TenTo[k]), e |-> e + k]

(* The numbers of s digits that are nearest to x; a tie of the decimal     *)
(* form goes either way.                                                   *)
Nearest(x, s) ==
  LET unit == TenTo[Max({0, DigitsOf(x.m) - s})]
      near == {q \in {Quotient(x.m, unit) + i : i \in {-1, 0, 1}} :
                 2 * Magnitude(x.m - q * unit) <= unit}
  IN  {Number(q * unit, x.e) : q \in near}

(* The power of ten of the first digit.                                    *)
Leading(x) == x.e + DigitsOf(x.m) - 1

(* |x| <= |y|, of two that are not 0.                                      *)
AtMost(x, y) ==
  \/ Leading(x) < Leading(y)
  \/ /\ Leading(x) = Leading(y)
     /\ LET e == Min({x.e, y.e})
        IN  Magnitude(x.m) * TenTo[x.e - e] <= Magnitude(y.m) * TenTo[y.e - e]

InFloat(x) == x.m = 0 \/ (AtMost(FloatMin, x) /\ AtMost(x, FloatMax))

Infinite == [inf |-> TRUE]

(* The conversion of a double to a float: what is too great is infinite,   *)
(* what is too small loses digits, to the last of them.                    *)
Narrow(x) ==
  IF InFloat(x) THEN Nearest(x, FloatDigits)
  ELSE IF AtMost(FloatMin, x) THEN {Infinite}
  ELSE {Number(0, 0)} \cup UNION {Nearest(x, s) : s \in 1..FloatDigits}

-----------------------------------------------------------------------------
(* A text of digits: its number, whether it is in the form d.de+d, and the *)
(* character before its fraction ("" when it has none).                    *)
FormatD(n) == [num |-> Number(n, 0), sci |-> FALSE, point |-> ""]

(* "%g": an exponent when there would be more than three zeros before the  *)
(* first digit, or more than Sig digits before the point.                  *)
FormatG(x, l) ==
  LET scientific(y) == Leading(y) < -4 \/ Leading(y) >= Sig
      fraction(y) == IF scientific(y) THEN DigitsOf(y.m) > 1 ELSE y.e < 0
  IN  {[num |-> y, sci |-> scientific(y), point |-> IF fraction(y) THEN l ELSE ""] :
         y \in Nearest(x, Sig)}

(* What stands before the point or the e.                                  *)
IntegerPart(t) ==
  IF t.sci THEN Quotient(t.num.m, TenTo[DigitsOf(t.num.m) - 1])
  ELSE IF t.num.e < 0 THEN Quotient(t.num.m, TenTo[-t.num.e])
  ELSE t.num.m * TenTo[t.num.e]

Atoi(t) == IF t \in Word THEN 0 ELSE IntegerPart(t)

(* strtod stops at a point that is not the one of its locale.              *)
Strtod(t, l) ==
  IF t \in Word THEN {Number(0, 0)}
  ELSE IF t.point \notin {"", l} THEN {Number(IntegerPart(t), 0)}
  ELSE Nearest(t.num, DoubleDigits)

-----------------------------------------------------------------------------
GetInt == Atoi(line)

(* strcasecmp: case does not matter.                                       *)
GetBool == line \in {[word |-> "TRUE"], [word |-> "true"]}

\* Mutant: the locale is left as it is.
GetDoubleInLocale == Strtod(line, locale)

GetDouble == Strtod(line, ".")

GetFloat == UNION {Narrow(x) : x \in Strtod(line, ".")}

Init ==
  /\ line = NoLine
  /\ locale \in {".", ","}
  /\ put = [as |-> "nothing"]

(* The application's own setlocale, or a handle in another process.        *)
SetLocale(l) == locale' = l /\ UNCHANGED <<line, put>>

SetString(w) ==
  line' = w /\ put' = [as |-> "string", of |-> w] /\ UNCHANGED locale

SetInt(n) ==
  line' = FormatD(n) /\ put' = [as |-> "int", of |-> n] /\ UNCHANGED locale

SetBool(b) ==
  /\ line' = [word |-> IF b THEN "TRUE" ELSE "FALSE"]
  /\ put' = [as |-> "bool", of |-> b]
  /\ UNCHANGED locale

\* Mutant: "%g" in the locale of the application.
SetDoubleInLocale(x) ==
  line' \in FormatG(x, locale) /\ put' = [as |-> "double", of |-> x] /\ UNCHANGED locale

(* The locale is the application's again when the call returns.            *)
SetDouble(x) ==
  line' \in FormatG(x, ".") /\ put' = [as |-> "double", of |-> x] /\ UNCHANGED locale

(* A normal float, as is the number that "%g" makes of it.                 *)
SetFloat(x) ==
  /\ DigitsOf(x.m) <= FloatDigits
  /\ \A y \in {x} \cup Nearest(x, Sig) : InFloat(y)
  /\ line' \in FormatG(x, ".")
  /\ put' = [as |-> "float", of |-> x]
  /\ UNCHANGED locale

Reals == {Number(m, e) : m \in Mantissa, e \in Exponent}

Next ==
  \/ \E l \in {".", ","} : SetLocale(l)
  \/ \E w \in Word : SetString(w)
  \/ \E n \in CInt : SetInt(n)
  \/ \E b \in BOOLEAN : SetBool(b)
  \/ \E x \in Reals : SetDouble(x) \/ SetFloat(x)

Spec == Init /\ [][Next]_vars

-----------------------------------------------------------------------------
(* A value is read back by the call of its type, a real number to the      *)
(* digits of "%g" and a whole one that has no more by keyfile_get_int too, *)
(* whatever locales it was written and is read in.                         *)
ReadsBack ==
  /\ put.as = "int" => GetInt = put.of
  /\ put.as = "bool" => GetBool = put.of
  /\ put.as = "double" => GetDouble \subseteq Nearest(put.of, Sig)
  /\ put.as = "float" => GetFloat \subseteq Nearest(put.of, Sig)
  /\ put.as \in {"float", "double"} /\ put.of.e >= 0 /\ Leading(put.of) < Sig =>
       GetInt = put.of.m * TenTo[put.of.e]

(* Reading a real number and setting what was read changes nothing more,   *)
(* however often it is done, by double calls, and by float calls as long   *)
(* as the number is in the range of a float: keyfile.c:256 makes inf of a  *)
(* double of 1e300, which the next set writes, and of 1e-44 a number with  *)
(* other digits.                                                           *)
NoDrift ==
  put.as \in {"float", "double"} =>
    /\ \A x \in GetDouble : FormatG(x, ".") = {line}
    /\ InFloat(line.num) => \A x \in GetFloat : FormatG(x, ".") = {line}

=============================================================================
