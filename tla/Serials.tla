------------------------------ MODULE Serials ------------------------------
(***************************************************************************)
(* The serial of a TXT record: the one spelling each has, and the rule by  *)
(* which a publisher chooses the next.                                     *)
(***************************************************************************)
EXTENDS Integers, Sequences

CONSTANT MaxSerial   \* u64::MAX

Digits == <<"0", "1", "2", "3", "4", "5", "6", "7", "8", "9">>

IsDigit(t) == \E d \in 1..10 : Digits[d] = t

\* How many digits a number has.
Width(n) == CHOOSE w \in 1..(n + 1) : n < 10^w /\ (w = 1 \/ 10^(w - 1) <= n)

\* Display.
Spelled(n) == [i \in 1..Width(n) |-> Digits[((n \div 10^(Width(n) - i)) % 10) + 1]]

\* The number that a string of digits amounts to.
Valued(digits) ==
    LET upTo[i \in 0..Len(digits)] ==
            IF i = 0 THEN 0
            ELSE 10 * upTo[i - 1] + (CHOOSE d \in 1..10 : Digits[d] = digits[i]) - 1
    IN  upTo[Len(digits)]

\* Serial::parse: what is wrong with a spelling, in the order of its checks.
SerialFlaw(digits) ==
    IF digits = <<>> THEN "Empty"
    ELSE IF \E i \in DOMAIN digits : ~IsDigit(digits[i]) THEN "NotADigit"
    ELSE IF Len(digits) > 1 /\ Head(digits) = "0" THEN "LeadingZero"
    ELSE IF Len(digits) > Width(MaxSerial) THEN "TooManyDigits"
    ELSE IF Valued(digits) > MaxSerial THEN "Overflow"
    ELSE "None"

\* Mutant: the successor of the last serial wraps.
NextSerialWraps(last, clock) ==
    IF last = {} THEN {clock}
    ELSE {LET bumped == (CHOOSE s \in last : TRUE) + 1
          IN  IF bumped > MaxSerial THEN 0 ELSE IF clock > bumped THEN clock ELSE bumped}

\* Serial::next: max(now, last + 1); none once the last serial is the
\* greatest there is.
NextSerial(last, clock) ==
    IF last = {} THEN {clock}
    ELSE {IF clock > s + 1 THEN clock ELSE s + 1 : s \in last \ {MaxSerial}}
=============================================================================
