------------------------------ MODULE Pricing -------------------------------
(***************************************************************************)
(* The interval arithmetic of the availability quote: what a stay costs    *)
(* under a base price and dated overrides, and which of its nights are     *)
(* taken.  A day is a number; a stay, an override and a blocked range are  *)
(* half-open: the check-out day is not a night.                            *)
(***************************************************************************)
EXTENDS Integers, Sequences, SequencesExt, FiniteSetsExt

CONSTANT LastDay   \* the window lies in [0, LastDay]

ASSUME PricingAssumption == LastDay \in Nat \ {0}

Spans == {s \in [from : 0 .. LastDay, to : 0 .. LastDay] : s.from < s.to}

\* The nights of a span.
Nights(s) == s.from .. s.to - 1

\* daterange(from, to, '[)') && of two spans.
Overlaps(s, t) == s.from < t.to /\ t.from < s.to

countNights(from, to) == to - from

\* greatest(..), least(..): the part of s inside the window w.
Clip(s, w) == [s EXCEPT !.from = IF s.from > w.from THEN s.from ELSE w.from,
                        !.to = IF s.to < w.to THEN s.to ELSE w.to]

meetsMinStay(nights, minStay) == nights >= minStay

-----------------------------------------------------------------------------
\* base x nights, corrected once by each override for the nights it covers.
\* An override that misses the stay clips to no nights or fewer.
quoteTotalIdr(base, stay, overrides) ==
  LET covered(o) == countNights(Clip(o, stay).from, Clip(o, stay).to)
      correction(o) == IF covered(o) > 0 THEN (o.price - base) * covered(o) ELSE 0
  IN base * countNights(stay.from, stay.to) + MapThenSumSet(correction, overrides)

\* What the night costs: the override that covers it, else the base price.
NightPrice(base, night, overrides) ==
  IF \E o \in overrides : night \in Nights(o)
  THEN (CHOOSE o \in overrides : night \in Nights(o)).price
  ELSE base

\* The reference: the stay added up night by night.
NightByNight(base, stay, overrides) ==
  MapThenSumSet(LAMBDA n : NightPrice(base, n, overrides), Nights(stay))

-----------------------------------------------------------------------------
\* One turn of coalesceRanges' loop: touching or overlapping ranges become one.
Merge(merged, next) ==
  IF merged # <<>> /\ next.from <= Last(merged).to
  THEN [merged EXCEPT ![Len(merged)].to = IF next.to > @ THEN next.to ELSE @]
  ELSE Append(merged, next)

\* The sort by first day, with which it starts.
InOrder(ranges) ==
  CHOOSE s \in [1 .. Cardinality(ranges) -> ranges] :
    IsInjective(s) /\ \A i, j \in DOMAIN s : i < j => s[i].from <= s[j].from

coalesceRanges(ranges) ==
  IF Cardinality(ranges) <= 1 THEN SetToSeq(ranges)
  ELSE FoldLeft(Merge, <<>>, InOrder(ranges))

\* findBlockedRanges: the occupied spans that overlap the window, clipped to it.
findBlockedRanges(occupied, w) == {Clip(s, w) : s \in {t \in occupied : Overlaps(t, w)}}

\* The reference: the maximal runs of taken nights inside the window.
MaximalRuns(occupied, w) ==
  LET taken(n) == n \in Nights(w) /\ \E s \in occupied : n \in Nights(s)
  IN {r \in Spans : /\ \A n \in Nights(r) : taken(n)
                    /\ ~taken(r.from - 1)
                    /\ ~taken(r.to)}

=============================================================================
