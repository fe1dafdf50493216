----------------------------- MODULE DecimalMap -----------------------------
(***************************************************************************)
(* The bitmap codec of pkg/scheduler/manager/decimalmap.go: a set of SoC   *)
(* IDs is published as an int64 whose decimal digits, read from the right, *)
(* are 1 exactly at the positions (ID - startBit).                         *)
(***************************************************************************)
EXTENDS Integers, Sequences, FiniteSets

\* The code works in int64.  TLC's own integers are 32-bit, so every
\* width-dependent operator takes the width w as a parameter: w = 64 is the
\* code, and a model checks a narrower w with the same structure (the
\* largest exact power of ten, the wrap-around and the out-of-range
\* float conversion all exist at every width).
IntMin(w) == -(2^(w - 1))
IntMax(w) == 2^(w - 1) - 1

\* Two's complement wrap of a mathematical integer to w bits.
WrapInt(w, v) == ((v - IntMin(w)) % (2^w)) + IntMin(w)

\* The largest k with 10^k representable in w bits (18 for int64).
RECURSIVE ExactDigits(_, _)
ExactDigits(w, k) == IF 10^(k + 1) > IntMax(w) THEN k ELSE ExactDigits(w, k + 1)

\* strconv.FormatInt(v, 10) as the sequence of its characters from the
\* right: the decimal digits least significant first (a digit character is
\* its value), then the sign character for v < 0.
MinusSign == 10
RECURSIVE DigitsLE(_)
DigitsLE(v) == IF v < 10 THEN <<v>> ELSE <<v % 10>> \o DigitsLE(v \div 10)

FormatIntLE(v) ==
    IF v < 0 THEN DigitsLE(-v) \o <<MinusSign>> ELSE DigitsLE(v)

\* DecimalMap.Parse: scan the string right to left; any character other
\* than '0' or '1' fails, each '1' at distance i from the right adds
\* i + startBit.  Result: [ok |-> success, set |-> the parsed set].
Parse(src, startBit) ==
    LET s == FormatIntLE(src)
    IN IF \E i \in 1..Len(s) : s[i] \notin {0, 1}
       THEN [ok |-> FALSE, set |-> {}]
       ELSE [ok |-> TRUE, set |-> {i - 1 + startBit : i \in {j \in 1..Len(s) : s[j] = 1}}]

\* Fault-injection variant of Pow10Int: the exact range ends one digit early.
Pow10IntEarlyOverflow(w, k) ==
    IF k < 0 THEN {0}
    ELSE IF k < ExactDigits(w, 0) THEN {10^k}
    ELSE {IntMin(w), IntMax(w)}

\* int64(math.Pow10(k)): a negative k gives a fraction that truncates to 0;
\* 10^k is exact up to ExactDigits; beyond it the float exceeds the integer
\* range and Go's conversion is implementation-specific: amd64 yields the
\* minimum, arm64 saturates to the maximum.  The set of possible outcomes.
Pow10Int(w, k) ==
    IF k < 0 THEN {0}
    ELSE IF k <= ExactDigits(w, 0) THEN {10^k}
    ELSE {IntMin(w), IntMax(w)}

\* BuildDecimalMap: res += int64(math.Pow10(n - startBit)) for each n, with
\* wrap-around.  The set of possible results over the conversion outcomes
\* (a singleton whenever every ID is below startBit + ExactDigits + 1).
RECURSIVE BuildDecimalMapFrom(_, _, _, _)
BuildDecimalMapFrom(w, set, startBit, acc) ==
    IF set = {} THEN {acc}
    ELSE LET n == CHOOSE x \in set : TRUE
         IN UNION {BuildDecimalMapFrom(w, set \ {n}, startBit, WrapInt(w, acc + t)) :
                      t \in Pow10Int(w, n - startBit)}

BuildDecimalMap(w, set, startBit) == BuildDecimalMapFrom(w, set, startBit, 0)

=============================================================================
