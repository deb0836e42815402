------------------------------- MODULE Ladder -------------------------------
(***************************************************************************)
(* Which of two records is the zone's later word.                          *)
(*                                                                         *)
(* A record, here, is anything that carries the fields                     *)
(*   doc                   the document it attests                         *)
(*   from, end             its chain's validity window                     *)
(*   end, serial, issued   its zone-state key (the window's end leads)     *)
(* Times and serials are naturals in one unit: the code compares seconds   *)
(* with millisecond serials after scaling by 1000, which moves no order.   *)
(***************************************************************************)
EXTENDS Integers

\* onomancy_dnssec/src/zone_state_key.rs: the derived, lexicographic Ord.
KeyLess(k, l) ==
    \/ k.end < l.end
    \/ k.end = l.end /\ k.serial < l.serial
    \/ k.end = l.end /\ k.serial = l.serial /\ k.issued < l.issued

SameKey(k, l) ==
    k.end = l.end /\ k.serial = l.serial /\ k.issued = l.issued

\* The projection without the signer-claimed field.
ZoneLess(k, l) ==
    \/ k.end < l.end
    \/ k.end = l.end /\ k.serial < l.serial

-----------------------------------------------------------------------------
\* onomancy_dnssec/src/freshness.rs: a window's standing at a clock reading.
Grade(w, now) ==
    IF now < w.from THEN "NotYetBegun"
    ELSE IF now <= w.end THEN "Fresh" ELSE "Stale"

\* Stage 4's two classes: a window that has not begun was deferred before.
Fresh(w, now) == Grade(w, now) = "Fresh"

-----------------------------------------------------------------------------
\* Rung 1's verdict comes from the pooled statements; "Silent" when none
\* orders the pair.
Continuity == {"Fork", "LeftNewer", "RightNewer", "Silent"}

Verdicts == {"Equal", "Equivocation", "Fork", "Left", "Right"}

\* Rung 1, where the statements speak.
SignedVerdict(continuity) ==
    CASE continuity = "Fork"       -> "Fork"
      [] continuity = "LeftNewer"  -> "Left"
      [] continuity = "RightNewer" -> "Right"

\* Rung 2: within a document the whole key; across documents a tie on the
\* zone-vouched part is equivocation, which issued must not resolve.
KeyVerdict(left, right) ==
    IF left.doc = right.doc
    THEN CASE KeyLess(right, left) -> "Left"
           [] KeyLess(left, right) -> "Right"
           [] SameKey(left, right) -> "Equal"
    ELSE IF ZoneLess(right, left) THEN "Left"
         ELSE IF ZoneLess(left, right) THEN "Right" ELSE "Equivocation"

\* Mutant: rung 0 is skipped.
CompareUndated(left, right, continuity, now) ==
    IF continuity # "Silent" THEN SignedVerdict(continuity) ELSE KeyVerdict(left, right)

\* ladder.rs compare: each rung speaks only when the stronger are silent.
Compare(left, right, continuity, now) ==
    IF Fresh(left, now) # Fresh(right, now)
    THEN IF Fresh(left, now) THEN "Left" ELSE "Right"
    ELSE IF continuity # "Silent"
         THEN SignedVerdict(continuity)
         ELSE KeyVerdict(left, right)

\* The verdict, and the continuity, seen from the other side.
Mirror(v) ==
    CASE v = "Left"       -> "Right"
      [] v = "Right"      -> "Left"
      [] v = "LeftNewer"  -> "RightNewer"
      [] v = "RightNewer" -> "LeftNewer"
      [] OTHER            -> v
=============================================================================
