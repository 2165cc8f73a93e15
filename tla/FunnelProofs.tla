---------------------------- MODULE FunnelProofs ----------------------------
(***************************************************************************)
(* Theorems about the guest funnel: the price on the card is the one of    *)
(* the stay on the card, the checkout says a hold has lapsed only of one   *)
(* that cannot be paid any more, a quote that nothing has overtaken is     *)
(* honoured, and every quote and every sale is of free nights at the sum   *)
(* of their prices.                                                        *)
(*                                                                         *)
(* The protocol does not depend on what a quote adds up to: there the      *)
(* totals are taken from a set T of which nothing is known.  The arithmetic*)
(* is a part of its own: a fold of a finite set is the sum that a function *)
(* on all parts of the set gives it, and what holds of every part of it is *)
(* shown of a smallest part for which it would fail.                       *)
(***************************************************************************)
EXTENDS Funnel, SequenceTheorems, FiniteSetTheorems, WellFoundedInduction, TLAPS

-----------------------------------------------------------------------------
(* Sorting and folding.                                                     *)

\* A nonempty set of naturals has a least member.
LEMMA LeastNatural ==
  ASSUME NEW N \in SUBSET Nat, N # {}
  PROVE  Min(N) \in N /\ \A n \in N : Min(N) <= n
<1> DEFINE Below == {0 .. n : n \in N}
<1>1. Below \subseteq FiniteSubsetsOf(Nat) /\ Below # {}
  <2>1. \A n \in Nat : IsFiniteSet(0 .. n) /\ 0 .. n \subseteq Nat
    BY FS_Interval
  <2>2. QED BY <2>1 DEF FiniteSubsetsOf
<1>2. PICK b \in Below : \A c \in Below : <<c, b>> \notin StrictSubsetOrdering(Nat)
  BY <1>1, FS_StrictSubsetOrderingWellFounded, WFMin
<1>3. PICK m \in N : b = 0 .. m
  OBVIOUS
<1>4. ASSUME NEW n \in N, n < m PROVE FALSE
  <2>1. 0 .. n \subseteq 0 .. m /\ m \in 0 .. m /\ m \notin 0 .. n
    BY <1>4
  <2>2. <<0 .. n, 0 .. m>> \in StrictSubsetOrdering(Nat)
    BY <2>1 DEF StrictSubsetOrdering
  <2>3. QED BY <1>2, <1>3, <2>2
<1>5. \E x \in N : \A y \in N : x =< y
  BY <1>4
<1>6. QED BY <1>5 DEF Min

\* A turn of the merge ends with a range.
LEMMA MergeIsASequence ==
  ASSUME NEW A, NEW s \in Seq(A), NEW r
  PROVE  \E B : Merge(s, r) \in Seq(B) /\ Merge(s, r) # <<>>
<1>1. CASE s # <<>> /\ r.from <= Last(s).to
  <2>1. PICK e : e = [s[Len(s)] EXCEPT !.to = IF r.to > @ THEN r.to ELSE @]
    OBVIOUS
  <2>2. Merge(s, r) = [s EXCEPT ![Len(s)] = e]
    BY <1>1, <2>1 DEF Merge
  <2>3. s \in Seq(A \cup {e}) /\ e \in A \cup {e} /\ Len(s) # 0 /\ Len(s) \in Nat
    BY <1>1
  <2>4. [s EXCEPT ![Len(s)] = e] \in Seq(A \cup {e}) /\ [s EXCEPT ![Len(s)] = e] # <<>>
    BY <2>3
  <2> QED BY <2>2, <2>4
<1>2. CASE ~(s # <<>> /\ r.from <= Last(s).to)
  <2>1. Merge(s, r) = Append(s, r)
    BY <1>2 DEF Merge
  <2>2. s \in Seq(A \cup {r}) /\ r \in A \cup {r}
    OBVIOUS
  <2>3. Append(s, r) \in Seq(A \cup {r}) /\ Append(s, r) # <<>>
    BY <2>2
  <2> QED BY <2>1, <2>3
<1> QED BY <1>1, <1>2

\* Some of the numbers up to n have a largest one.
LEMMA GreatestUpTo ==
  ASSUME NEW n \in Nat, NEW N \in SUBSET (1 .. n), N # {}
  PROVE  Max(N) \in N /\ \A i \in N : i <= Max(N)
<1> DEFINE D == {n - i : i \in N}
<1>1. D \in SUBSET Nat /\ D # {}
  <2>1. ASSUME NEW i \in N PROVE n - i \in Nat
    <3>1. i \in 1 .. n
      OBVIOUS
    <3> QED BY <3>1
  <2> QED BY <2>1
<1>2. Min(D) \in D /\ \A d \in D : Min(D) <= d
  BY <1>1, LeastNatural
<1>3. PICK m \in N : Min(D) = n - m
  BY <1>2
<1>4. ASSUME NEW i \in N PROVE m >= i
  <2>1. n - m <= n - i
    BY <1>2, <1>3
  <2>2. m \in 1 .. n /\ i \in 1 .. n
    OBVIOUS
  <2> QED BY <2>1, <2>2
<1>5. \E x \in N : \A y \in N : x >= y
  BY <1>4
<1>6. QED BY <1>5 DEF Max

\* A fold of Merge over a sequence, turn by turn.
LEMMA MergesInTurns ==
  ASSUME NEW n \in Nat, NEW sq, DOMAIN sq = 1 .. n
  PROVE  \E m : /\ m[0] = <<>> /\ FoldLeft(Merge, <<>>, sq) = m[n]
                /\ \A i \in 1 .. n : m[i] = Merge(m[i - 1], sq[i])
<1> DEFINE Turn(g, s) == IF s = {} THEN <<>> ELSE Merge(g[s \ {Max(s)}], sq[Max(s)])
           Good(g, m) == g = [s \in SUBSET (1 .. m) |-> Turn(g, s)]
           Bad == {m \in Nat : ~\E g : Good(g, m)}
<1>1. ASSUME NEW m \in Nat, NEW s \in SUBSET (1 .. m), s # {}
      PROVE  Max(s) \in 1 .. m /\ s \ {Max(s)} \in SUBSET (1 .. (m - 1))
  <2>1. PICK x : x = Max(s)
    OBVIOUS
  <2>2. x \in s /\ \A i \in s : i <= x
    BY <1>1, <2>1, GreatestUpTo
  <2>3. ASSUME NEW i \in s \ {x} PROVE i \in 1 .. (m - 1)
    <3>1. i \in 1 .. m /\ x \in 1 .. m /\ i <= x /\ i # x
      BY <2>2
    <3> QED BY <3>1
  <2> QED BY <2>1, <2>2, <2>3
<1>2. 0 \notin Bad
  <2>1. PICK g : g = [s \in {{}} |-> <<>>]
    OBVIOUS
  <2>2. SUBSET (1 .. 0) = {{}}
    OBVIOUS
  <2>3. Turn(g, {}) = <<>>
    OBVIOUS
  <2> HIDE DEF Turn
  <2>4. Good(g, 0)
    BY <2>1, <2>2, <2>3
  <2> QED BY <2>4
<1>3. ASSUME NEW m \in Nat, m # 0, m - 1 \notin Bad PROVE m \notin Bad
  <2>1. PICK g : Good(g, m - 1)
    <3>1. m - 1 \in Nat
      BY <1>3
    <3> HIDE DEF Good
    <3> QED BY <1>3, <3>1
  <2>2. PICK h : h = [s \in SUBSET (1 .. m) |-> Turn(g, s)]
    OBVIOUS
  <2>3. ASSUME NEW s \in SUBSET (1 .. (m - 1)) PROVE h[s] = g[s]
    <3>1. s \in SUBSET (1 .. m)
      OBVIOUS
    <3> HIDE DEF Turn
    <3> QED BY <2>1, <2>2, <3>1
  <2>4. ASSUME NEW s \in SUBSET (1 .. m) PROVE Turn(g, s) = Turn(h, s)
    <3>1. CASE s = {}
      BY <3>1
    <3>2. CASE s # {}
      <4>1. h[s \ {Max(s)}] = g[s \ {Max(s)}]
        BY <1>1, <2>3, <3>2
      <4> QED BY <3>2, <4>1
    <3> QED BY <3>1, <3>2
  <2> HIDE DEF Turn
  <2>5. Good(h, m)
    BY <2>2, <2>4
  <2> QED BY <2>5
<1>4. Bad = {}
  <2> SUFFICES ASSUME Bad # {} PROVE FALSE
    OBVIOUS
  <2> HIDE DEF Good
  <2>1. Min(Bad) \in Bad /\ \A m \in Bad : Min(Bad) <= m
    BY LeastNatural
  <2>2. PICK k \in Bad : \A m \in Bad : k <= m
    BY <2>1
  <2>3. k # 0 /\ k \in Nat
    BY <1>2, <2>2
  <2>4. k - 1 \notin Bad
    BY <2>2, <2>3
  <2> QED BY <1>3, <2>2, <2>3, <2>4
<1>5. \E g : Good(g, n)
  BY <1>4
<1>6. PICK it : /\ Good(it, n) /\ FoldLeft(Merge, <<>>, sq) = it[1 .. n]
  BY <1>5 DEF FoldLeft, MapThenFoldSet
<1>7. PICK m : m = [i \in 0 .. n |-> it[1 .. i]]
  OBVIOUS
<1>8. m[0] = <<>>
  <2>1. m[0] = it[{}]
    BY <1>7
  <2>2. it[{}] = Turn(it, {})
    <3> HIDE DEF Turn
    <3> QED BY <1>6
  <2> QED BY <2>1, <2>2
<1>9. ASSUME NEW i \in 1 .. n PROVE m[i] = Merge(m[i - 1], sq[i])
  <2>1. 1 .. i \in SUBSET (1 .. n) /\ 1 .. i # {}
    OBVIOUS
  <2>2. Max(1 .. i) = i
    <3>1. PICK x : x = Max(1 .. i)
      OBVIOUS
    <3>2. x \in 1 .. i /\ \A j \in 1 .. i : j <= x
      BY <2>1, <3>1, GreatestUpTo
    <3>3. i \in 1 .. i
      OBVIOUS
    <3>4. i <= x
      BY <3>2, <3>3
    <3> QED BY <3>1, <3>2, <3>4
  <2>3. (1 .. i) \ {i} = 1 .. (i - 1)
    OBVIOUS
  <2>4. it[1 .. i] = Turn(it, 1 .. i)
    <3> HIDE DEF Turn
    <3> QED BY <1>6, <2>1
  <2>5. m[i] = it[1 .. i] /\ m[i - 1] = it[1 .. (i - 1)]
    BY <1>7
  <2> QED BY <2>1, <2>2, <2>3, <2>4, <2>5
<1>10. m[n] = it[1 .. n]
  BY <1>7
<1> HIDE DEF Good
<1> QED BY <1>6, <1>8, <1>9, <1>10

\* A sorted enumeration of some ranges.
Sorted(f, U) ==
  /\ f \in [1 .. Cardinality(U) -> U]
  /\ IsInjective(f) /\ \A i, j \in DOMAIN f : i < j => f[i].from <= f[j].from

\* Finitely many ranges can be sorted: the earliest first, then the others.
LEMMA RangesCanBeSorted ==
  ASSUME NEW S, IsFiniteSet(S), \A r \in S : r.from \in Nat
  PROVE  Sorted(InOrder(S), S)
<1> DEFINE Bad == {k \in Nat : \E U \in SUBSET S : Cardinality(U) = k /\ ~\E f : Sorted(f, U)}
<1>1. ASSUME NEW U \in SUBSET S, U # {},
             \A V \in SUBSET S : Cardinality(V) = Cardinality(U) - 1 => \E f : Sorted(f, V)
      PROVE  \E f : Sorted(f, U)
  <2>1. PICK x \in U : \A r \in U : x.from <= r.from
    <3>1. PICK N : N = {r.from : r \in U}
      OBVIOUS
    <3>2. N \in SUBSET Nat /\ N # {}
      BY <1>1, <3>1
    <3>3. Min(N) \in N /\ \A n \in N : Min(N) <= n
      BY <3>2, LeastNatural
    <3>4. PICK m \in N : \A n \in N : m <= n
      BY <3>3
    <3> QED BY <3>1, <3>4
  <2>2. PICK n : n = Cardinality(U)
    OBVIOUS
  <2>3. PICK V : V = U \ {x}
    OBVIOUS
  <2>4. n \in Nat /\ IsFiniteSet(U) /\ n # 0 /\ Cardinality(V) = n - 1
    BY <1>1, <2>2, <2>3, FS_Subset, FS_RemoveElement, FS_CardinalityType, FS_EmptySet
  <2>5. PICK f : Sorted(f, V)
    BY <1>1, <2>2, <2>3, <2>4
  <2>6. /\ f \in [1 .. (n - 1) -> V]
        /\ \A i, j \in 1 .. (n - 1) : f[i] = f[j] => i = j
        /\ \A i, j \in 1 .. (n - 1) : i < j => f[i].from <= f[j].from
    BY <2>4, <2>5 DEF Sorted, IsInjective
  <2>7. PICK g : g = [i \in 1 .. n |-> IF i = 1 THEN x ELSE f[i - 1]]
    OBVIOUS
  <2>8. \A i \in 1 .. n : i # 1 => i - 1 \in 1 .. (n - 1)
    BY <2>4
  <2>9. g \in [1 .. n -> U]
    BY <2>3, <2>6, <2>7, <2>8
  <2>10. ASSUME NEW i \in 1 .. n, NEW j \in 1 .. n, g[i] = g[j] PROVE i = j
    <3>1. CASE i = 1 /\ j # 1
      BY <2>3, <2>6, <2>7, <2>8, <2>10, <3>1
    <3>2. CASE i # 1 /\ j = 1
      BY <2>3, <2>6, <2>7, <2>8, <2>10, <3>2
    <3>3. CASE i # 1 /\ j # 1
      <4>1. i - 1 = j - 1
        BY <2>6, <2>7, <2>8, <2>10, <3>3
      <4> QED BY <4>1
    <3> QED BY <3>1, <3>2, <3>3
  <2>11. ASSUME NEW i \in 1 .. n, NEW j \in 1 .. n, i < j PROVE g[i].from <= g[j].from
    <3>1. j # 1 /\ g[j] = f[j - 1] /\ g[j] \in U
      BY <2>7, <2>9, <2>11
    <3>2. CASE i = 1
      BY <2>1, <2>7, <3>1, <3>2
    <3>3. CASE i # 1
      <4>1. i - 1 \in 1 .. (n - 1) /\ j - 1 \in 1 .. (n - 1) /\ i - 1 < j - 1
        BY <2>8, <2>11, <3>1, <3>3
      <4>2. g[i] = f[i - 1]
        BY <2>7, <3>3
      <4> QED BY <2>6, <3>1, <4>1, <4>2
    <3> QED BY <3>2, <3>3
  <2>12. Sorted(g, U)
    BY <2>2, <2>9, <2>10, <2>11 DEF Sorted, IsInjective
  <2> QED BY <2>12
<1>2. \E f : Sorted(f, {})
  <2>1. PICK f : f = [i \in 1 .. 0 |-> i]
    OBVIOUS
  <2>2. f \in [1 .. Cardinality({}) -> {}] /\ DOMAIN f = {}
    BY <2>1, FS_EmptySet
  <2>3. Sorted(f, {})
    BY <2>2 DEF Sorted, IsInjective
  <2> QED BY <2>3
<1>3. Bad = {}
  <2> SUFFICES ASSUME Bad # {} PROVE FALSE
    OBVIOUS
  <2>1. Min(Bad) \in Bad /\ \A m \in Bad : Min(Bad) <= m
    BY LeastNatural
  <2>2. PICK k \in Bad : \A m \in Bad : k <= m
    BY <2>1
  <2>3. PICK U \in SUBSET S : Cardinality(U) = k /\ ~\E f : Sorted(f, U)
    OBVIOUS
  <2>4. U # {}
    BY <1>2, <2>3
  <2>5. k \in Nat /\ k # 0
    BY <2>3, <2>4, FS_Subset, FS_EmptySet
  <2>6. k - 1 \in Nat /\ k - 1 \notin Bad
    BY <2>2, <2>5
  <2>7. \A V \in SUBSET S : Cardinality(V) = k - 1 => \E f : Sorted(f, V)
    BY <2>6
  <2> QED BY <1>1, <2>3, <2>4, <2>7
<1>4. \E f : Sorted(f, S)
  BY <1>3, FS_CardinalityType
<1>5. Sorted(InOrder(S), S) <=> InOrder(S) \in {f \in [1 .. Cardinality(S) -> S] : Sorted(f, S)}
  BY DEF Sorted
<1> QED BY <1>4 DEF InOrder, Sorted

\* No range is lost: there is a merged one as soon as there is one to merge.
LEMMA RangesDoNotVanish ==
  ASSUME NEW S, IsFiniteSet(S), \A r \in S : r.from \in Nat
  PROVE  coalesceRanges(S) = <<>> <=> S = {}
<1>1. CASE S = {}
  <2>1. Cardinality(S) = 0
    BY <1>1, FS_EmptySet
  <2>2. \E f \in [1 .. 0 -> S] : IsInjective(f)
    <3>1. PICK f : f = [i \in 1 .. 0 |-> i]
      OBVIOUS
    <3>2. f \in [1 .. 0 -> S] /\ DOMAIN f = {}
      BY <3>1
    <3> QED BY <3>2 DEF IsInjective
  <2>3. SetToSeq(S) \in [1 .. 0 -> S]
    BY <2>1, <2>2 DEF SetToSeq
  <2> QED BY <1>1, <2>1, <2>3 DEF coalesceRanges
<1>2. CASE S # {} /\ Cardinality(S) <= 1
  <2>1. Cardinality(S) = 1
    BY <1>2, FS_EmptySet, FS_CardinalityType
  <2>2. \E f \in [1 .. 1 -> S] : IsInjective(f)
    <3>1. PICK x : x \in S
      BY <1>2
    <3>2. PICK f : f = [i \in 1 .. 1 |-> x]
      OBVIOUS
    <3> QED BY <3>1, <3>2 DEF IsInjective
  <2>3. SetToSeq(S) \in [1 .. 1 -> S]
    BY <2>1, <2>2 DEF SetToSeq
  <2>4. SetToSeq(S) # <<>>
    BY <2>3
  <2> QED BY <1>2, <2>4 DEF coalesceRanges
<1>3. CASE S # {} /\ ~(Cardinality(S) <= 1)
  <2>1. PICK n : n = Cardinality(S)
    OBVIOUS
  <2>2. PICK sq : sq = InOrder(S)
    OBVIOUS
  <2>3. n \in Nat /\ n > 1 /\ DOMAIN sq = 1 .. n
    BY <1>3, <2>1, <2>2, RangesCanBeSorted, FS_CardinalityType DEF Sorted
  <2>4. PICK m : /\ m[0] = <<>> /\ FoldLeft(Merge, <<>>, sq) = m[n]
                 /\ \A i \in 1 .. n : m[i] = Merge(m[i - 1], sq[i])
    BY ZenonT(60), <2>3, MergesInTurns
  <2> DEFINE Bad == {i \in Nat : i <= n /\ ~((\E A : m[i] \in Seq(A)) /\ (i # 0 => m[i] # <<>>))}
  <2>5. ASSUME NEW i \in Nat, i # 0, i <= n, i - 1 \notin Bad PROVE i \notin Bad
    <3>1. i - 1 \in Nat /\ i - 1 <= n /\ i \in 1 .. n
      BY <2>3, <2>5
    <3>2. PICK A : m[i - 1] \in Seq(A)
      BY <2>5, <3>1
    <3>3. PICK s : s = m[i - 1]
      OBVIOUS
    <3>4. PICK r : r = sq[i]
      OBVIOUS
    <3>5. m[i] = Merge(s, r)
      BY <2>4, <3>1, <3>3, <3>4
    <3>6. \E B : Merge(s, r) \in Seq(B) /\ Merge(s, r) # <<>>
      BY <3>2, <3>3, MergeIsASequence
    <3> QED BY <3>5, <3>6
  <2>6. 0 \notin Bad
    <3>1. m[0] \in Seq({})
      BY <2>4
    <3> QED BY <3>1
  <2>7. Bad = {}
    <3> SUFFICES ASSUME Bad # {} PROVE FALSE
      OBVIOUS
    <3>1. Min(Bad) \in Bad /\ \A i \in Bad : Min(Bad) <= i
      BY LeastNatural
    <3>2. PICK k \in Bad : \A i \in Bad : k <= i
      BY <3>1
    <3>3. k \in Nat /\ k # 0 /\ k <= n
      BY <2>6, <3>2
    <3>4. k - 1 \notin Bad
      BY <3>2, <3>3
    <3> QED BY <2>5, <3>2, <3>3, <3>4
  <2>8. m[n] # <<>>
    BY <2>3, <2>7
  <2> QED BY <1>3, <2>1, <2>2, <2>4, <2>8 DEF coalesceRanges
<1> QED BY <1>1, <1>2, <1>3

-----------------------------------------------------------------------------
\* The types of the state, the totals being members of T.

BookingStatus == {"pending_payment", "confirmed", "expired", "cancelled"}

QuoteOver(T) == [stay : Picks, available : BOOLEAN, total : T]

BookingOver(T) == [stay : Picks, total : T, paid : BOOLEAN, lapsed : BOOLEAN,
                   status : BookingStatus]

EntryOver(T) == [data : QuoteOver(T) \cup {None}, fresh : BOOLEAN, isError : BOOLEAN,
                 current : BOOLEAN]

SubmitOver(T) == [step : {"none", "waiting", "sent", "priced"}, base : Nat, minStay : Nat,
                  offer : QuoteOver(T) \cup {None}]

OwnerTyped ==
  /\ unit \in [state : {"active", "archived", "gone"}, base : Prices, minStay : MinStays]
  /\ overrides \subseteq [from : 0 .. LastDay, to : 0 .. LastDay, price : Prices]
  /\ adding \subseteq [from : 0 .. LastDay, to : 0 .. LastDay, price : Prices]
  /\ gateway \in BOOLEAN
  /\ taken \subseteq Spans
  /\ edits \in 0 .. MaxEdits

TypedOver(T) ==
  /\ cache \in [Picks -> EntryOver(T)]
  /\ mine \in Seq(BookingOver(T))
  /\ submit \in [Submits -> SubmitOver(T)]

TabTyped ==
  /\ page \in {"property", "checkout", "provider", "confirmation"}
  /\ online \in BOOLEAN /\ holdLapsed \in BOOLEAN
  /\ picked \in Picks \cup {None} /\ settled \in Picks \cup {None}
  /\ fetch \in [Picks -> {"idle", "sent", "overtaken"}]
  /\ kit \in {"loading", "loaded", "failed"}
  /\ latest \in 0 .. MaxSubmits
  /\ pay \in {"idle", "pending", "payments_not_configured", "booking_not_payable",
              "provider_error"}
  /\ shown \in BookingStatus \cup {"none"}
  /\ faults \in 0 .. MaxFaults

HeldIsABooking == held \in 0 .. Len(mine)

-----------------------------------------------------------------------------
\* The protocol of the tab.

\* What the cache has for a stay is an answer about that stay.
AnswersAreForTheirStay == \A s \in Picks : cache[s].data # None => cache[s].data.stay = s

\* No create is on its way before the phone kit is there, and none awaits it
\* once it is, or once a booking is held.
KitGatesSubmits ==
  \A k \in Submits : /\ kit = "loaded" => submit[k].step # "waiting"
                     /\ kit # "loaded" => ~InFlight(k)
                     /\ held # 0 => submit[k].step # "waiting"

\* A hold that lapses while it is held does so with no create on its way that
\* could replace it; the countdown and the pay step speak of the booking held.
VerdictsAreOnTheHeld ==
  /\ pay # "idle" \/ page \in {"provider", "confirmation"} => held # 0
  /\ held # 0 /\ mine[held].lapsed => \A k \in Submits : ~InFlight(k)
  /\ holdLapsed => held # 0 /\ mine[held].lapsed
  /\ pay = "booking_not_payable" =>
       mine[held].lapsed \/ mine[held].status # "pending_payment"

\* A create is made for the stay of the checkout it was submitted on, and a
\* payment asked for from there.
CreatesHaveAStay ==
  /\ page \in {"checkout", "provider"} => picked # None
  /\ \A k \in Submits : submit[k].step # "none" => page \in {"checkout", "provider"}
  /\ pay # "idle" => page \in {"checkout", "provider"}

FunnelProtocol ==
  /\ OwnerTyped /\ TabTyped /\ HeldIsABooking /\ \E T : TypedOver(T)
  /\ AnswersAreForTheirStay /\ KitGatesSubmits /\ CreatesHaveAStay /\ VerdictsAreOnTheHeld

-----------------------------------------------------------------------------
\* A function on 1 .. n is a sequence of that length.
LEMMA FunctionIsASequence ==
  ASSUME NEW S, NEW n \in Nat, NEW f \in [1 .. n -> S]
  PROVE  f \in Seq(S) /\ Len(f) = n
OBVIOUS

LEMMA SequencesGrow ==
  ASSUME NEW A, NEW B, A \subseteq B, NEW s \in Seq(A)
  PROVE  s \in Seq(B)
OBVIOUS

\* Types grow with the set of totals.
LEMMA TypesGrow ==
  ASSUME NEW T, NEW U, T \subseteq U
  PROVE  /\ QuoteOver(T) \subseteq QuoteOver(U)
         /\ BookingOver(T) \subseteq BookingOver(U)
         /\ TypedOver(T) => TypedOver(U)
<1>1. QuoteOver(T) \subseteq QuoteOver(U) /\ BookingOver(T) \subseteq BookingOver(U)
  BY DEF QuoteOver, BookingOver
<1>2. EntryOver(T) \subseteq EntryOver(U) /\ SubmitOver(T) \subseteq SubmitOver(U)
  BY <1>1 DEF EntryOver, SubmitOver
<1>3. mine \in Seq(BookingOver(T)) => mine \in Seq(BookingOver(U))
  BY <1>1
<1>4. QED BY <1>1, <1>2, <1>3 DEF TypedOver

\* The sweep keeps the shape of the rows and expires the lapsed ones only.
LEMMA SweptRows ==
  ASSUME NEW T, NEW rows \in Seq(BookingOver(T))
  PROVE  /\ Swept(rows) \in Seq(BookingOver(T)) /\ Len(Swept(rows)) = Len(rows)
         /\ \A b \in DOMAIN rows :
              /\ Swept(rows)[b].lapsed = rows[b].lapsed
              /\ rows[b].status # "pending_payment" =>
                   Swept(rows)[b].status = rows[b].status
<1>1. /\ DOMAIN rows = 1 .. Len(rows) /\ Len(rows) \in Nat
      /\ rows \in [1 .. Len(rows) -> BookingOver(T)]
  OBVIOUS
<1>2. ASSUME NEW b \in DOMAIN rows
      PROVE  /\ Swept(rows)[b] \in BookingOver(T)
             /\ Swept(rows)[b].lapsed = rows[b].lapsed
             /\ rows[b].status # "pending_payment" => Swept(rows)[b].status = rows[b].status
  <2>1. rows[b] \in BookingOver(T)
    BY <1>1
  <2>2. [rows[b] EXCEPT !.status = "expired"] \in BookingOver(T)
    BY <2>1 DEF BookingOver, BookingStatus
  <2>3. [rows[b] EXCEPT !.status = "expired"].lapsed = rows[b].lapsed
    BY <2>1 DEF BookingOver
  <2>4. QED BY <2>1, <2>2, <2>3 DEF Swept
<1>3. Swept(rows) \in [1 .. Len(rows) -> BookingOver(T)]
  BY <1>1, <1>2 DEF Swept
<1>4. QED BY <1>1, <1>2, <1>3, FunctionIsASequence

\* What each view of the checkout page is shown for.
LEMMA Views ==
  /\ View = "form" => page = "checkout" /\ held = 0
  /\ View = "payment_retry" => page = "checkout" /\ held # 0
  /\ View = "hold_lapsed" => page = "checkout" /\ (holdLapsed \/ pay = "booking_not_payable")
BY DEF View

\* A row changed in place.
LEMMA RowUpdate ==
  ASSUME NEW T, NEW rows \in Seq(BookingOver(T)), NEW b \in DOMAIN rows,
         NEW row \in BookingOver(T)
  PROVE  /\ [rows EXCEPT ![b] = row] \in Seq(BookingOver(T))
         /\ Len([rows EXCEPT ![b] = row]) = Len(rows)
         /\ \A x \in DOMAIN rows :
              [rows EXCEPT ![b] = row][x] = IF x = b THEN row ELSE rows[x]
<1>1. [rows EXCEPT ![b] = row] \in [1 .. Len(rows) -> BookingOver(T)]
  OBVIOUS
<1>2. QED BY <1>1, FunctionIsASequence

-----------------------------------------------------------------------------
\* Edits overtake the answers the tab has, and change none of them.
LEMMA OvertakeKeeps ==
  ASSUME NEW T, cache \in [Picks -> EntryOver(T)], Overtake
  PROVE  cache' \in [Picks -> EntryOver(T)] /\ \A s \in Picks : cache'[s].data = cache[s].data
<1>1. \A s \in Picks : cache[s] \in EntryOver(T)
  OBVIOUS
<1>2. \A s \in Picks : /\ [cache[s] EXCEPT !.current = FALSE] \in EntryOver(T)
                       /\ [cache[s] EXCEPT !.current = FALSE].data = cache[s].data
  BY <1>1 DEF EntryOver
<1>3. QED BY <1>2 DEF Overtake

\* The cache only takes in answers about the stay that was asked for.
LEMMA CacheStep ==
  ASSUME NEW T, cache \in [Picks -> EntryOver(T)], AnswersAreForTheirStay, [Next]_vars
  PROVE  /\ \E U : T \subseteq U /\ cache' \in [Picks -> EntryOver(U)]
         /\ AnswersAreForTheirStay'
<1> DEFINE Kept == /\ cache' \in [Picks -> EntryOver(T)]
                   /\ \A s \in Picks : cache'[s].data \in {cache[s].data, None}
<1>1. ASSUME NEW s \in Picks, QuoteAnswers(s)
      PROVE  /\ \E U : T \subseteq U /\ cache' \in [Picks -> EntryOver(U)]
             /\ AnswersAreForTheirStay'
  <2>1. CASE unit.state = "active"
    <3>1. PICK q : q = quote(mine, s, unit.base, unit.minStay)
      OBVIOUS
    <3>2. q \in QuoteOver(T \cup {q.total}) /\ q.stay = s
      BY <3>1 DEF quote, QuoteOver
    <3>3. cache' = [cache EXCEPT ![s] = [data |-> q, fresh |-> TRUE, isError |-> FALSE,
                                         current |-> fetch[s] = "sent"]]
      BY <1>1, <2>1, <3>1 DEF QuoteAnswers
    <3>4. EntryOver(T) \subseteq EntryOver(T \cup {q.total})
      BY DEF EntryOver, QuoteOver
    <3>5. cache' \in [Picks -> EntryOver(T \cup {q.total})]
      BY <3>2, <3>3, <3>4 DEF EntryOver
    <3>6. AnswersAreForTheirStay'
      BY <3>2, <3>3 DEF AnswersAreForTheirStay
    <3>7. QED BY <3>5, <3>6
  <2>2. CASE unit.state # "active"
    <3>1. cache' = [cache EXCEPT ![s] = [cache[s] EXCEPT !.isError = TRUE, !.fresh = FALSE]]
      BY <1>1, <2>2 DEF QuoteAnswers
    <3>2. cache[s] \in EntryOver(T)
      OBVIOUS
    <3>3. QED BY <3>1, <3>2 DEF EntryOver, AnswersAreForTheirStay
  <2>3. QED BY <2>1, <2>2
<1>2. ASSUME NEW s \in Picks, GoStale(s) \/ QuoteFails(s) PROVE Kept
  <2>1. cache[s] \in EntryOver(T)
    OBVIOUS
  <2>2. \/ cache' = [cache EXCEPT ![s] = [cache[s] EXCEPT !.fresh = FALSE]]
        \/ cache' = [cache EXCEPT ![s] = [cache[s] EXCEPT !.isError = TRUE, !.fresh = FALSE]]
    BY <1>2 DEF GoStale, QuoteFails
  <2>3. ASSUME NEW e \in {[cache[s] EXCEPT !.fresh = FALSE],
                         [cache[s] EXCEPT !.isError = TRUE, !.fresh = FALSE]}
        PROVE  e \in EntryOver(T) /\ e.data = cache[s].data
    BY <2>1 DEF EntryOver
  <2>4. PICK e : e \in EntryOver(T) /\ e.data = cache[s].data /\ cache' = [cache EXCEPT ![s] = e]
    BY <2>2, <2>3
  <2>5. QED BY <2>4
<1>3. ASSUME Book \/ Reload \/ Return PROVE Kept
  <2>1. NoEntry \in EntryOver(T) /\ NoEntry.data = None
    BY DEF NoEntry, EntryOver
  <2>2. \A s \in Picks : cache[s] \in EntryOver(T)
    OBVIOUS
  <2>3. CASE Book
    <3>1. cache' = [s \in Picks |-> IF s = picked THEN cache[s] ELSE NoEntry]
      BY <2>3 DEF Book
    <3>2. QED BY <2>1, <2>2, <3>1
  <2>4. CASE Reload \/ Return
    <3>1. cache' = [s \in Picks |-> NoEntry]
      BY <2>4 DEF Reload, Return
    <3>2. QED BY <2>1, <3>1
  <2>5. QED BY <1>3, <2>3, <2>4
<1>4. ASSUME Overtake PROVE Kept
  BY <1>4, OvertakeKeeps
<1>5. ASSUME UNCHANGED cache PROVE Kept
  BY <1>5
<1>6. ASSUME NEW k \in Submits, CreateDecides(k) PROVE Kept
  BY <1>4, <1>5, <1>6 DEF CreateDecides, CreateCommits, Refused, quoteVars
<1>7. \/ Overtake \/ UNCHANGED cache \/ Book \/ Reload \/ Return
      \/ (\E s \in Picks : QuoteAnswers(s) \/ GoStale(s) \/ QuoteFails(s))
      \/ (\E k \in Submits : CreateDecides(k))
  BY DEF Next, vars, quoteVars, GuestActs, Select, Refetch, BackToPicker, RetryKit, Submit,
         RetryPayment, GuestPays, BackFromProvider, Fails, KitFails, CreateFails, Refused,
         PayFails, PollFails, OwnerActs, EditUnit, ArchiveUnit, RemoveUnit, SetGateway,
         CheckOverride, RemoveOverride, OtherBooks, OwnerCancels, Unsettles, tabVars, Runs,
         Settle, RefetchProperty, KitLoads, PayAnswers, CountdownEnds, Poll,
         CreateReadsUnit, InsertOverride, SweepHolds, HoldLapses, Webhook
<1>8. Kept => /\ \E U : T \subseteq U /\ cache' \in [Picks -> EntryOver(U)]
              /\ AnswersAreForTheirStay'
  BY DEF AnswersAreForTheirStay
<1> HIDE DEF Kept
<1>9. QED BY <1>1, <1>2, <1>3, <1>4, <1>5, <1>6, <1>7, <1>8

-----------------------------------------------------------------------------
\* The bookings of this guest: rows are only added, never lapse backwards, and
\* never become pending again; a held one does not lapse under a create.
RowAges(b) ==
  /\ mine[b].lapsed => mine'[b].lapsed
  /\ mine[b].status # "pending_payment" => mine'[b].status # "pending_payment"
  /\ mine'[b].lapsed => mine[b].lapsed \/ (b = held => \A k \in Submits : ~InFlight(k))

RowsAge == Len(mine') >= Len(mine) /\ \A b \in 1 .. Len(mine) : RowAges(b)

\* What may become of a single row.
LEMMA RowChanges ==
  ASSUME NEW T, NEW row \in BookingOver(T)
  PROVE  /\ Confirmed(row) \in BookingOver(T) /\ Confirmed(row).lapsed = row.lapsed
         /\ row.status # "pending_payment" => Confirmed(row).status = row.status
         /\ [row EXCEPT !.paid = TRUE] \in BookingOver(T)
         /\ [row EXCEPT !.paid = TRUE].lapsed = row.lapsed
         /\ [row EXCEPT !.paid = TRUE].status = row.status
         /\ [row EXCEPT !.lapsed = TRUE] \in BookingOver(T)
         /\ [row EXCEPT !.lapsed = TRUE].lapsed = TRUE
         /\ [row EXCEPT !.lapsed = TRUE].status = row.status
         /\ [row EXCEPT !.status = "cancelled"] \in BookingOver(T)
         /\ [row EXCEPT !.status = "cancelled"].lapsed = row.lapsed
         /\ [row EXCEPT !.status = "cancelled"].status = "cancelled"
<1>1. /\ [row EXCEPT !.status = "confirmed"] \in BookingOver(T)
      /\ [row EXCEPT !.status = "confirmed"].lapsed = row.lapsed
  BY DEF BookingOver, BookingStatus
<1>2. /\ Confirmed(row) \in BookingOver(T) /\ Confirmed(row).lapsed = row.lapsed
      /\ row.status # "pending_payment" => Confirmed(row).status = row.status
  BY <1>1 DEF Confirmed
<1>3. /\ [row EXCEPT !.paid = TRUE] \in BookingOver(T)
      /\ [row EXCEPT !.paid = TRUE].lapsed = row.lapsed
      /\ [row EXCEPT !.paid = TRUE].status = row.status
  BY DEF BookingOver
<1>4. /\ [row EXCEPT !.lapsed = TRUE] \in BookingOver(T)
      /\ [row EXCEPT !.lapsed = TRUE].lapsed = TRUE
      /\ [row EXCEPT !.lapsed = TRUE].status = row.status
  BY DEF BookingOver
<1>5. /\ [row EXCEPT !.status = "cancelled"] \in BookingOver(T)
      /\ [row EXCEPT !.status = "cancelled"].lapsed = row.lapsed
      /\ [row EXCEPT !.status = "cancelled"].status = "cancelled"
  BY DEF BookingOver, BookingStatus
<1>6. QED BY <1>2, <1>3, <1>4, <1>5

\* One row changed in place, the way a row may, and perhaps the sweep after it.
LEMMA OneRowAges ==
  ASSUME NEW T, mine \in Seq(BookingOver(T)), NEW b \in DOMAIN mine,
         NEW row \in BookingOver(T),
         mine[b].lapsed => row.lapsed,
         mine[b].status # "pending_payment" => row.status # "pending_payment",
         row.lapsed => mine[b].lapsed \/ (b = held => \A k \in Submits : ~InFlight(k)),
         mine' = [mine EXCEPT ![b] = row] \/ mine' = Swept([mine EXCEPT ![b] = row])
  PROVE  mine' \in Seq(BookingOver(T)) /\ RowsAge
<1>1. PICK rows : rows = [mine EXCEPT ![b] = row]
  OBVIOUS
<1>2. /\ rows \in Seq(BookingOver(T)) /\ Len(rows) = Len(mine)
      /\ \A x \in DOMAIN mine : rows[x] = IF x = b THEN row ELSE mine[x]
  BY <1>1, RowUpdate
<1>3. DOMAIN mine = 1 .. Len(mine) /\ DOMAIN rows = 1 .. Len(mine) /\ Len(mine) \in Nat
  BY <1>2
<1>4. /\ Swept(rows) \in Seq(BookingOver(T)) /\ Len(Swept(rows)) = Len(rows)
      /\ \A x \in DOMAIN rows : /\ Swept(rows)[x].lapsed = rows[x].lapsed
                                /\ rows[x].status # "pending_payment" =>
                                     Swept(rows)[x].status = rows[x].status
  BY <1>2, SweptRows
<1>5. /\ mine' \in Seq(BookingOver(T)) /\ Len(mine') = Len(mine)
      /\ \A x \in DOMAIN rows : /\ mine'[x].lapsed = rows[x].lapsed
                                /\ rows[x].status # "pending_payment" =>
                                     mine'[x].status = rows[x].status
  <2>1. mine' = rows \/ mine' = Swept(rows)
    BY <1>1
  <2>2. CASE mine' = rows
    BY <1>2, <2>2
  <2>3. CASE mine' = Swept(rows)
    BY <1>2, <1>4, <2>3
  <2>4. QED BY <2>1, <2>2, <2>3
<1>6. QED BY <1>2, <1>3, <1>5 DEF RowsAge, RowAges

LEMMA RowsStep ==
  ASSUME NEW T, mine \in Seq(BookingOver(T)), TabTyped, CreatesHaveAStay, [Next]_vars
  PROVE  (\E U : T \subseteq U /\ mine' \in Seq(BookingOver(U))) /\ RowsAge
<1> DEFINE Goal == (\E U : T \subseteq U /\ mine' \in Seq(BookingOver(U))) /\ RowsAge
<1>1. /\ DOMAIN mine = 1 .. Len(mine) /\ Len(mine) \in Nat
      /\ \A b \in DOMAIN mine : mine[b] \in BookingOver(T)
  OBVIOUS
<1>2. ASSUME UNCHANGED mine PROVE Goal
  BY <1>2 DEF RowsAge, RowAges
<1>3. ASSUME GuestPays PROVE Goal
  <2>1. CASE held \in DOMAIN mine
    <3>1. PICK b, old, row :
            b \in DOMAIN mine /\ old \in BookingOver(T) /\ b = held /\ old = mine[b] /\ row = [old EXCEPT !.paid = TRUE]
      BY <1>1, <2>1
    <3>2. mine' = [mine EXCEPT ![b] = row]
      BY <1>3, <3>1 DEF GuestPays
    <3>3. row \in BookingOver(T) /\ row.lapsed = old.lapsed /\ row.status = old.status
      BY ZenonT(60), <3>1, RowChanges
    <3>4. QED BY <3>1, <3>2, <3>3, OneRowAges
  <2>2. CASE held \notin DOMAIN mine
    BY <1>2, <1>3, <2>2 DEF GuestPays
  <2>3. QED BY <2>1, <2>2
<1>4. ASSUME Poll PROVE Goal
  <2>1. CASE held \in DOMAIN mine
    <3>1. PICK b, old, row :
            b \in DOMAIN mine /\ old \in BookingOver(T) /\ b = held /\ old = mine[b] /\ row = Confirmed(old)
      BY <1>1, <2>1
    <3>2. mine' = Swept([mine EXCEPT ![b] = row])
      BY <1>4, <3>1 DEF Poll
    <3>3. /\ row \in BookingOver(T) /\ row.lapsed = old.lapsed
          /\ old.status # "pending_payment" => row.status = old.status
      BY ZenonT(60), <3>1, RowChanges
    <3>4. QED BY <3>1, <3>2, <3>3, OneRowAges
  <2>2. CASE held \notin DOMAIN mine
    <3>1. mine' = Swept(mine)
      BY <1>4, <2>2 DEF Poll
    <3>2. QED BY <1>1, <3>1, SweptRows DEF RowsAge, RowAges
  <2>3. QED BY <2>1, <2>2
<1>5. ASSUME SweepHolds PROVE Goal
  BY <1>1, <1>5, SweptRows DEF SweepHolds, RowsAge, RowAges
<1>6. ASSUME NEW b \in DOMAIN mine, HoldLapses(b) PROVE Goal
  <2>1. PICK row \in BookingOver(T) :
          /\ mine' = [mine EXCEPT ![b] = row]
          /\ row.lapsed /\ row.status = mine[b].status
    BY <1>1, <1>6, RowChanges DEF HoldLapses
  <2>2. b = held => \A k \in Submits : ~InFlight(k)
    BY <1>6 DEF HoldLapses
  <2>3. QED BY <2>1, <2>2, OneRowAges
<1>7. ASSUME NEW b \in DOMAIN mine, Webhook(b) PROVE Goal
  <2>1. PICK row \in BookingOver(T) :
          /\ mine' = [mine EXCEPT ![b] = row] /\ row.lapsed = mine[b].lapsed
          /\ mine[b].status # "pending_payment" => row.status = mine[b].status
    BY <1>1, <1>7, RowChanges DEF Webhook
  <2>2. QED BY <2>1, OneRowAges
<1>8. ASSUME NEW b \in DOMAIN mine, OwnerCancels(b) PROVE Goal
  <2>1. PICK row \in BookingOver(T) :
          /\ mine' = [mine EXCEPT ![b] = row] /\ row.lapsed = mine[b].lapsed
          /\ row.status = "cancelled"
    BY <1>1, <1>8, RowChanges DEF OwnerCancels
  <2>2. QED BY <2>1, OneRowAges
<1>9. ASSUME NEW k \in Submits, CreateDecides(k) PROVE Goal
  <2>1. picked \in Picks
    BY <1>9 DEF CreateDecides, CreatesHaveAStay, TabTyped
  <2>2. PICK rows, q : rows = Swept(mine) /\ q = WriteQuote(k, rows)
    OBVIOUS
  <2>3. CASE CreateCommits(k, rows, q)
    <3>1. q \in QuoteOver(T \cup {q.total})
      BY <2>1, <2>2 DEF WriteQuote, quote, QuoteOver
    <3>2. NewHold(q) \in BookingOver(T \cup {q.total})
      BY <3>1 DEF NewHold, QuoteOver, BookingOver, BookingStatus
    <3>3. BookingOver(T) \subseteq BookingOver(T \cup {q.total})
      BY TypesGrow
    <3>4. /\ rows \in Seq(BookingOver(T)) /\ Len(rows) = Len(mine)
          /\ \A b \in DOMAIN mine : /\ rows[b].lapsed = mine[b].lapsed
                                    /\ mine[b].status # "pending_payment" =>
                                         rows[b].status = mine[b].status
      BY <2>2, SweptRows
    <3>5. rows \in Seq(BookingOver(T \cup {q.total}))
      BY <3>3, <3>4, SequencesGrow
    <3>6. PICK h \in BookingOver(T \cup {q.total}) : mine' = Append(rows, h)
      BY <2>3, <3>2 DEF CreateCommits
    <3>7. /\ mine' \in Seq(BookingOver(T \cup {q.total})) /\ Len(mine') = Len(mine) + 1
          /\ \A b \in 1 .. Len(mine) : mine'[b] = rows[b]
      BY <3>4, <3>5, <3>6
    <3>8. RowsAge
      BY <1>1, <3>4, <3>7 DEF RowsAge, RowAges
    <3>9. QED BY <3>7, <3>8
  <2>4. QED BY <1>2, <1>9, <2>2, <2>3 DEF CreateDecides
<1>10. \/ UNCHANGED mine \/ GuestPays \/ Poll \/ SweepHolds
       \/ (\E b \in DOMAIN mine : HoldLapses(b) \/ Webhook(b) \/ OwnerCancels(b))
       \/ (\E k \in Submits : CreateDecides(k))
  BY DEF Next, vars, serverVars, GuestActs, Select, Refetch, Book, BackToPicker, Reload,
         RetryKit, Submit, RetryPayment, Return, BackFromProvider, Fails, QuoteFails,
         KitFails, CreateFails, PayFails, PollFails, OwnerActs, EditUnit, ArchiveUnit,
         RemoveUnit, SetGateway, CheckOverride, RemoveOverride, OtherBooks, Runs, Settle,
         RefetchProperty, KitLoads, PayAnswers, CountdownEnds, GoStale, QuoteAnswers,
         CreateReadsUnit, InsertOverride
<1> HIDE DEF Goal
<1>11. Goal
  BY <1>2, <1>3, <1>4, <1>5, <1>6, <1>7, <1>8, <1>9, <1>10
<1>12. QED BY <1>11 DEF Goal

-----------------------------------------------------------------------------
\* The submissions: how far one gets in a step.
Moves(k) ==
  \/ submit'[k].step \in {submit[k].step, "none"}
  \/ KitLoads /\ submit[k].step = "waiting" /\ submit'[k].step = "sent"
  \/ submit[k].step = "sent" /\ submit'[k].step = "priced"
  \/ View = "form" /\ submit'[k].step = IF kit = "loaded" THEN "sent" ELSE "waiting"

\* The submissions keep their shape, and move on or end.
LEMMA SubmitStep ==
  ASSUME NEW T, cache \in [Picks -> EntryOver(T)], submit \in [Submits -> SubmitOver(T)],
         OwnerTyped, TabTyped, CreatesHaveAStay, [Next]_vars
  PROVE  submit' \in [Submits -> SubmitOver(T)] /\ \A k \in Submits : Moves(k)
<1> DEFINE Goal == submit' \in [Submits -> SubmitOver(T)] /\ \A k \in Submits : Moves(k)
<1>1. /\ \A k \in Submits : submit[k] \in SubmitOver(T)
      /\ NoSubmit \in SubmitOver(T) /\ NoSubmit.step = "none"
  BY DEF SubmitOver, NoSubmit
<1>2. ASSUME UNCHANGED submit PROVE Goal
  BY <1>2 DEF Moves
<1>3. ASSUME NEW sub \in [Submits -> SubmitOver(T)], submit' = WithoutOffer(sub),
             \A k \in Submits : sub[k].step \in {submit[k].step, "none"}
      PROVE  Goal
  <2>1. \A k \in Submits : /\ [sub[k] EXCEPT !.offer = None] \in SubmitOver(T)
                           /\ [sub[k] EXCEPT !.offer = None].step = sub[k].step
    BY DEF SubmitOver
  <2>2. QED BY <1>3, <2>1 DEF WithoutOffer, Moves
<1>4. ASSUME BackToPicker \/ Reload \/ Return PROVE Goal
  <2>1. submit' = [k \in Submits |-> NoSubmit]
    BY <1>4 DEF BackToPicker, Reload, Return
  <2>2. QED BY <1>1, <2>1 DEF Moves
<1>5. ASSUME KitLoads PROVE Goal
  <2>1. \A k \in Submits : /\ [submit[k] EXCEPT !.step = "sent"] \in SubmitOver(T)
                           /\ [submit[k] EXCEPT !.step = "sent"].step = "sent"
    BY <1>1 DEF SubmitOver
  <2>2. submit' = [k \in Submits |-> IF submit[k].step = "waiting"
                                     THEN [submit[k] EXCEPT !.step = "sent"] ELSE submit[k]]
    BY <1>5 DEF KitLoads
  <2>3. submit' \in [Submits -> SubmitOver(T)]
    BY <1>1, <2>1, <2>2
  <2>4. \A k \in Submits : Moves(k)
    BY <1>5, <2>1, <2>2 DEF Moves
  <2>5. QED BY <2>3, <2>4
<1>6. ASSUME KitFails PROVE Goal
  <2>1. submit' = [k \in Submits |-> IF submit[k].step = "waiting" THEN NoSubmit ELSE submit[k]]
    BY <1>6 DEF KitFails
  <2>2. QED BY <1>1, <2>1 DEF Moves
<1>7. ASSUME NEW k \in Submits, Submit(k) PROVE Goal
  <2>1. picked \in Picks /\ View = "form"
    BY <1>7, Views DEF Submit, CreatesHaveAStay, TabTyped
  <2>2. CheckoutQuote \in QuoteOver(T) \cup {None}
    BY <2>1 DEF CheckoutQuote, EntryOver
  <2>3. PICK offer \in QuoteOver(T) \cup {None}, step \in {"sent", "waiting"} :
          /\ step = IF kit = "loaded" THEN "sent" ELSE "waiting"
          /\ submit' = [submit EXCEPT ![k] = [NoSubmit EXCEPT !.step = step, !.offer = offer]]
    BY <1>7, <2>2 DEF Submit
  <2>4. PICK sub \in SubmitOver(T) : sub.step = step /\ submit' = [submit EXCEPT ![k] = sub]
    BY <2>3 DEF SubmitOver, NoSubmit
  <2>5. QED BY <2>1, <2>3, <2>4 DEF Moves
<1>8. ASSUME NEW k \in Submits, Refused(k) PROVE Goal
  BY <1>1, <1>8 DEF Refused, Moves
<1>9. ASSUME NEW k \in Submits, CreateReadsUnit(k), ~Refused(k) PROVE Goal
  <2>1. PICK base \in Nat, minStay \in Nat, old \in SubmitOver(T) :
          base = unit.base /\ minStay = unit.minStay /\ old = submit[k]
    BY <1>1, FunnelAssumption DEF OwnerTyped
  <2>2. submit' = [submit EXCEPT ![k] = [old EXCEPT !.step = "priced", !.base = base,
                                                    !.minStay = minStay]]
    <3>1. submit' = [submit EXCEPT ![k].step = "priced", ![k].base = base,
                                   ![k].minStay = minStay]
      BY <1>9, <2>1 DEF CreateReadsUnit
    <3>2. QED BY <2>1, <3>1
  <2>3. PICK sub \in SubmitOver(T) : sub.step = "priced" /\ submit' = [submit EXCEPT ![k] = sub]
    <3>1. /\ [old EXCEPT !.step = "priced", !.base = base, !.minStay = minStay] \in SubmitOver(T)
          /\ [old EXCEPT !.step = "priced", !.base = base, !.minStay = minStay].step = "priced"
      BY DEF SubmitOver
    <3>2. QED BY <2>2, <3>1
  <2>4. QED BY <1>9, <2>3 DEF CreateReadsUnit, Moves
<1>10. ASSUME NEW k \in Submits, CreateDecides(k), ~Refused(k) PROVE Goal
  <2>1. submit' = WithoutOffer([submit EXCEPT ![k] = NoSubmit])
    BY <1>10 DEF CreateDecides, CreateCommits
  <2>2. PICK sub : sub = [submit EXCEPT ![k] = NoSubmit]
    OBVIOUS
  <2>3. sub \in [Submits -> SubmitOver(T)]
        /\ \A x \in Submits : sub[x].step \in {submit[x].step, "none"}
    BY <1>1, <2>2
  <2>4. QED BY <1>3, <2>1, <2>2, <2>3
<1>11. ASSUME Unsettles PROVE Goal
  BY <1>3, <1>11 DEF Unsettles
<1>12. \/ UNCHANGED submit \/ BackToPicker \/ Reload \/ Return \/ KitLoads \/ KitFails \/ Unsettles
       \/ (\E k \in Submits : Submit(k) \/ Refused(k) \/ CreateReadsUnit(k) \/ CreateDecides(k))
  BY DEF Next, vars, checkoutVars, GuestActs, Select, Refetch, Book, RetryKit,
         RetryPayment, GuestPays, BackFromProvider, Fails, QuoteFails, CreateFails,
         PayFails, PollFails, OwnerActs, EditUnit, ArchiveUnit, RemoveUnit, SetGateway,
         CheckOverride, RemoveOverride, OtherBooks, OwnerCancels, tabVars, Runs, Settle,
         RefetchProperty, PayAnswers, CountdownEnds, Poll, GoStale, QuoteAnswers,
         InsertOverride, SweepHolds, HoldLapses, Webhook
<1> HIDE DEF Goal
<1>13. Goal
  BY <1>2, <1>4, <1>5, <1>6, <1>7, <1>8, <1>9, <1>10, <1>11, <1>12
<1>14. QED BY <1>13 DEF Goal

-----------------------------------------------------------------------------
\* The owner's rows and the tab's own state keep their types.
LEMMA OwnerStep ==
  ASSUME OwnerTyped, [Next]_vars
  PROVE  OwnerTyped'
<1> USE FunnelAssumption DEF OwnerTyped
<1>1. ASSUME UNCHANGED <<unit, overrides, adding, gateway, taken, edits>> PROVE OwnerTyped'
  BY <1>1
<1>2. ASSUME NEW base \in Prices, EditUnit([unit EXCEPT !.base = base]) PROVE OwnerTyped'
  BY <1>2 DEF EditUnit, EditWhileRunning, Edit
<1>3. ASSUME NEW minStay \in MinStays, EditUnit([unit EXCEPT !.minStay = minStay])
      PROVE  OwnerTyped'
  BY <1>3 DEF EditUnit, EditWhileRunning, Edit
<1>4. ASSUME ArchiveUnit \/ RemoveUnit PROVE OwnerTyped'
  BY SMTT(30), <1>4 DEF ArchiveUnit, RemoveUnit, EditWhileRunning, Edit
<1>5. ASSUME SetGateway PROVE OwnerTyped'
  BY <1>5 DEF SetGateway, EditWhileRunning, Edit
<1>6. ASSUME NEW s \in Seasons, NEW price \in Prices,
             CheckOverride([from |-> s.from, to |-> s.to, price |-> price])
      PROVE  OwnerTyped'
  BY <1>6 DEF CheckOverride, EditWhileRunning, Edit, Spans
<1>7. ASSUME NEW row \in adding, InsertOverride(row) PROVE OwnerTyped'
  BY <1>7 DEF InsertOverride
<1>8. ASSUME NEW p \in overrides, RemoveOverride(p) PROVE OwnerTyped'
  BY <1>8 DEF RemoveOverride
<1>9. ASSUME NEW s \in OtherStays, OtherBooks(s) PROVE OwnerTyped'
  BY <1>9 DEF OtherBooks, EditWhileRunning, Edit
<1>10. ASSUME NEW b \in DOMAIN mine, OwnerCancels(b) PROVE OwnerTyped'
  BY <1>10 DEF OwnerCancels, Edit
<1>11. \/ UNCHANGED <<unit, overrides, adding, gateway, taken, edits>> \/ OwnerActs
       \/ \E row \in adding : InsertOverride(row)
  BY DEF Next, vars, serverVars, GuestActs, Select, Refetch, Book, BackToPicker, Reload,
         RetryKit, Submit, RetryPayment, GuestPays, Return, BackFromProvider, Fails,
         QuoteFails, KitFails, CreateFails, Refused, PayFails, PollFails, Runs, Settle,
         RefetchProperty, KitLoads, PayAnswers, CountdownEnds, Poll, GoStale, QuoteAnswers,
         CreateReadsUnit, CreateDecides, CreateCommits, SweepHolds, HoldLapses, Webhook
<1>12. QED
  BY <1>1, <1>2, <1>3, <1>4, <1>5, <1>6, <1>7, <1>8, <1>9, <1>10, <1>11 DEF OwnerActs

LEMMA FetchStep ==
  ASSUME TabTyped, [Next]_vars
  PROVE  fetch' \in [Picks -> {"idle", "sent", "overtaken"}]
<1> DEFINE Fetches == [Picks -> {"idle", "sent", "overtaken"}]
<1>1. fetch \in Fetches /\ picked \in Picks \cup {None} /\ settled \in Picks \cup {None}
  BY DEF TabTyped
<1>2. ASSUME NEW s \in Picks \cup {None} PROVE Observe(s) \in Fetches
  BY <1>1, <1>2, FunnelAssumption DEF Observe
<1>3. ASSUME Settle \/ Refetch \/ BackToPicker PROVE fetch' \in Fetches
  BY <1>1, <1>2, <1>3 DEF Settle, Refetch, BackToPicker
<1>4. ASSUME Book PROVE fetch' \in Fetches
  <2>1. PICK f \in Fetches : f = Observe(picked)
    BY <1>1, <1>2
  <2>2. fetch' = [s \in Picks |-> IF s = picked THEN f[s] ELSE "idle"]
    BY <1>4, <2>1 DEF Book
  <2>3. QED BY <2>2
<1>5. ASSUME Reload \/ Return \/ Overtake PROVE fetch' \in Fetches
  BY <1>1, <1>5 DEF Reload, Return, Overtake
<1>6. ASSUME NEW s \in Picks, QuoteAnswers(s) \/ QuoteFails(s) PROVE fetch' \in Fetches
  BY <1>1, <1>6 DEF QuoteAnswers, QuoteFails
<1>7. \/ UNCHANGED fetch \/ Settle \/ Refetch \/ BackToPicker \/ Book \/ Reload \/ Return
      \/ Overtake \/ (\E s \in Picks : QuoteAnswers(s) \/ QuoteFails(s))
  BY DEF Next, vars, quoteVars, GuestActs, Select, RetryKit, Submit, RetryPayment, GuestPays,
         BackFromProvider, Fails, KitFails, CreateFails, Refused, PayFails, PollFails,
         OwnerActs, EditUnit, ArchiveUnit, RemoveUnit, SetGateway, CheckOverride,
         RemoveOverride, OtherBooks, OwnerCancels, Unsettles, tabVars, Runs,
         RefetchProperty, KitLoads, PayAnswers, CountdownEnds, Poll, GoStale,
         CreateReadsUnit, CreateDecides, CreateCommits, InsertOverride, SweepHolds,
         HoldLapses, Webhook
<1>8. QED BY <1>1, <1>3, <1>4, <1>5, <1>6, <1>7

LEMMA TabStep ==
  ASSUME OwnerTyped, TabTyped, [Next]_vars, Poll => shown' \in BookingStatus
  PROVE  TabTyped' /\ held' \in {held, 0, Len(mine')}
<1> DEFINE Goal == TabTyped' /\ held' \in {held, 0, Len(mine')}
<1>1. fetch' \in [Picks -> {"idle", "sent", "overtaken"}]
  BY FetchStep
<1>2. ASSUME (\E s \in Picks : Select(s)) \/ Settle \/ Book \/ BackToPicker \/ Reload \/ Return
      PROVE  Goal
  <2>1. CASE (\E s \in Picks : Select(s)) \/ Settle
    BY <1>1, <2>1 DEF TabTyped, Select, Settle, checkoutVars
  <2>2. CASE Book \/ BackToPicker \/ Reload \/ Return
    <3>1. /\ page' \in {"property", "checkout", "provider", "confirmation"}
          /\ online' \in {online, gateway} /\ holdLapsed' \in {holdLapsed, FALSE}
          /\ picked' \in {picked, None} /\ settled' \in {settled, None}
          /\ kit' \in {kit, "loading"} /\ latest' \in {latest, 0}
          /\ pay' \in {pay, "idle"} /\ shown' \in {shown, "none"}
          /\ held' \in {held, 0}
      BY <2>2 DEF Book, BackToPicker, Reload, Return, TabTyped
    <3>2. faults' = faults \/ Fault
      BY <2>2 DEF Book, BackToPicker, Reload, Return
    <3>3. faults' \in 0 .. MaxFaults
      BY <3>2, FunnelAssumption DEF TabTyped, Fault
    <3>4. latest' \in 0 .. MaxSubmits
      BY <3>1, FunnelAssumption DEF TabTyped
    <3>5. online' \in BOOLEAN /\ holdLapsed' \in BOOLEAN
      BY <3>1 DEF TabTyped, OwnerTyped
    <3>6. QED BY <1>1, <3>1, <3>3, <3>4, <3>5 DEF TabTyped
  <2>3. QED BY <1>2, <2>1, <2>2
<1>3. ASSUME Refetch \/ RetryKit \/ RetryPayment \/ GuestPays \/ BackFromProvider
      PROVE  Goal
  BY <1>1, <1>3, FunnelAssumption
     DEF TabTyped, Refetch, RetryKit, RetryPayment, GuestPays, BackFromProvider, Fault,
         checkoutVars, quoteVars
<1>4. ASSUME NEW k \in Submits, Submit(k) PROVE Goal
  BY <1>1, <1>4, FunnelAssumption DEF TabTyped, Submit, Submits, quoteVars
<1>5. ASSUME KitLoads \/ KitFails \/ PayFails \/ PollFails PROVE Goal
  BY <1>1, <1>5, FunnelAssumption
     DEF TabTyped, KitLoads, KitFails, PayFails, PollFails, Fault, Submits, quoteVars,
         checkoutVars
<1>6. ASSUME NEW k \in Submits, CreateReadsUnit(k) \/ CreateFails(k) \/ CreateDecides(k)
      PROVE  Goal
  BY <1>1, <1>6, FunnelAssumption
     DEF TabTyped, CreateReadsUnit, CreateFails, CreateDecides, CreateCommits, Refused,
         Fault, quoteVars
<1>7. ASSUME PayAnswers PROVE Goal
  BY <1>1, <1>7, FunnelAssumption DEF TabTyped, PayAnswers, PayAnswer, quoteVars
<1>8. ASSUME Poll PROVE Goal
  BY <1>1, <1>8 DEF TabTyped, Poll, quoteVars, checkoutVars
<1>9. ASSUME RefetchProperty \/ CountdownEnds PROVE Goal
  BY ZenonT(60), <1>1, <1>9
     DEF TabTyped, OwnerTyped, RefetchProperty, CountdownEnds, quoteVars, checkoutVars
<1>10. ASSUME UNCHANGED <<page, online, picked, settled, kit, latest, held, pay, holdLapsed,
                          shown>>,
              UNCHANGED faults \/ Fault
       PROVE  Goal
  BY <1>1, <1>10, FunnelAssumption DEF TabTyped, Fault
<1>11. ASSUME NEW s \in Picks, QuoteFails(s) \/ QuoteAnswers(s) \/ GoStale(s) PROVE Goal
  BY <1>10, <1>11 DEF QuoteFails, QuoteAnswers, GoStale, checkoutVars
<1>12. ASSUME OwnerActs \/ (\E row \in adding : InsertOverride(row)) \/ SweepHolds
              \/ (\E b \in DOMAIN mine : HoldLapses(b) \/ Webhook(b)) \/ UNCHANGED vars
       PROVE  Goal
  <2>1. UNCHANGED <<page, online, picked, settled, kit, latest, held, pay, holdLapsed, shown,
                    faults>>
    BY <1>12 DEF OwnerActs, EditUnit, ArchiveUnit, RemoveUnit, SetGateway, CheckOverride,
                 RemoveOverride, OtherBooks, OwnerCancels, InsertOverride, SweepHolds,
                 HoldLapses, Webhook, pageVars, tabVars, checkoutVars, quoteVars, vars
  <2>2. QED BY <1>10, <2>1
<1> HIDE DEF Goal
<1>13. Goal
  BY <1>2, <1>3, <1>4, <1>5, <1>6, <1>7, <1>8, <1>9, <1>11, <1>12
     DEF Next, GuestActs, Fails, Runs
<1>14. QED BY <1>13 DEF Goal

\* What the confirmation page shows is the status of the booking held.
LEMMA HeldStep ==
  ASSUME NEW T, mine \in Seq(BookingOver(T)), NEW U, mine' \in Seq(BookingOver(U)), RowsAge,
         HeldIsABooking, VerdictsAreOnTheHeld
  PROVE  /\ Poll => shown' \in BookingStatus
         /\ held' \in {held, 0, Len(mine')} => HeldIsABooking'
<1>1. ASSUME Poll PROVE shown' \in BookingStatus
  <2>1. held \in 1 .. Len(mine')
    BY <1>1 DEF Poll, VerdictsAreOnTheHeld, HeldIsABooking, RowsAge
  <2>2. mine'[held] \in BookingOver(U)
    BY <2>1
  <2>3. QED BY <1>1, <2>2 DEF Poll, BookingOver
<1>2. held' \in {held, 0, Len(mine')} => HeldIsABooking'
  BY DEF HeldIsABooking, RowsAge
<1>3. QED BY <1>1, <1>2

-----------------------------------------------------------------------------
\* The hold a create brings back is a fresh one.
LEMMA NewHoldStep ==
  ASSUME NEW T, mine \in Seq(BookingOver(T)), NEW k \in Submits, CreateDecides(k), ~Refused(k)
  PROVE  \/ UNCHANGED <<held, pay>>
         \/ held' # 0 /\ pay' = "pending" /\ ~mine'[held'].lapsed
<1>1. PICK rows, q : rows = Swept(mine) /\ q = WriteQuote(k, rows)
  OBVIOUS
<1>2. CreateCommits(k, rows, q)
  BY <1>1 DEF CreateDecides
<1>3. PICK S, n : S = BookingOver(T) /\ n = Len(rows) /\ rows \in Seq(S)
  BY <1>1, SweptRows
<1>4. PICK h : h = NewHold(q)
  OBVIOUS
<1>5. rows \in Seq(S \cup {h}) /\ h \in S \cup {h}
  BY <1>3, SequencesGrow
<1>6. Append(rows, h)[n + 1] = h /\ Len(Append(rows, h)) = n + 1
  BY <1>3, <1>5
<1>7. ~h.lapsed
  BY <1>4 DEF NewHold
<1>8. mine' = Append(rows, h)
  BY <1>2, <1>4 DEF CreateCommits
<1>9. CASE held' = Len(mine') /\ pay' = "pending"
  BY <1>6, <1>7, <1>8, <1>9
<1>10. QED BY <1>2, <1>9 DEF CreateCommits

\* A step that leaves the checkout as it is keeps its protocol.
LEMMA QuietStep ==
  ASSUME TabTyped, HeldIsABooking, \A b \in 1 .. Len(mine) : RowAges(b),
         KitGatesSubmits, CreatesHaveAStay, VerdictsAreOnTheHeld,
         \A k \in Submits : Moves(k),
         UNCHANGED <<page, kit, held, pay, holdLapsed>>,
         picked' = picked \/ page = "property"
  PROVE  (KitGatesSubmits /\ CreatesHaveAStay /\ VerdictsAreOnTheHeld)'
<1>1. ASSUME NEW k \in Submits
      PROVE  \/ submit'[k].step \in {submit[k].step, "none"}
             \/ submit[k].step = "sent" /\ submit'[k].step = "priced"
             \/ /\ page = "checkout" /\ held = 0
                /\ submit'[k].step = IF kit = "loaded" THEN "sent" ELSE "waiting"
  BY Views DEF Moves, KitLoads
<1>2. KitGatesSubmits'
  BY <1>1 DEF KitGatesSubmits, InFlight
<1>3. CreatesHaveAStay'
  BY <1>1 DEF CreatesHaveAStay
<1>4. held # 0 => held \in 1 .. Len(mine)
  BY DEF HeldIsABooking
<1>5. held # 0 /\ mine'[held].lapsed => \A k \in Submits : ~InFlight(k)'
  BY <1>1, <1>4 DEF VerdictsAreOnTheHeld, RowAges, InFlight
<1>6. VerdictsAreOnTheHeld'
  BY <1>4, <1>5 DEF VerdictsAreOnTheHeld, RowAges
<1>7. QED BY <1>2, <1>3, <1>6

\* The checkout's protocol is kept by every step.
LEMMA HandoffStep ==
  ASSUME NEW T, submit \in [Submits -> SubmitOver(T)], \A k \in Submits : Moves(k),
         TabTyped, HeldIsABooking, \A b \in 1 .. Len(mine) : RowAges(b),
         KitGatesSubmits, CreatesHaveAStay, VerdictsAreOnTheHeld,
         \A k \in Submits : CreateDecides(k) /\ ~Refused(k) =>
            \/ UNCHANGED <<held, pay>>
            \/ held' # 0 /\ pay' = "pending" /\ ~mine'[held'].lapsed,
         [Next]_vars
  PROVE  (KitGatesSubmits /\ CreatesHaveAStay /\ VerdictsAreOnTheHeld)'
<1> DEFINE Goal == (KitGatesSubmits /\ CreatesHaveAStay /\ VerdictsAreOnTheHeld)'
<1>1. \A k \in Submits : \A x \in {"none", "sent"} :
        /\ NoSubmit.step = "none"
        /\ [submit[k] EXCEPT !.step = "sent"].step = "sent"
  BY DEF SubmitOver, NoSubmit
<1>2. ASSUME UNCHANGED <<page, kit, held, pay, holdLapsed>>,
             picked' = picked \/ page = "property"
      PROVE  Goal
  BY <1>2, QuietStep
<1>3. ASSUME BackToPicker \/ Reload \/ Return PROVE Goal
  <2>1. \A k \in Submits : submit'[k].step = "none"
    BY <1>3 DEF BackToPicker, Reload, Return, NoSubmit
  <2>2. KitGatesSubmits' /\ CreatesHaveAStay'
    BY <1>3, <2>1 DEF KitGatesSubmits, CreatesHaveAStay, InFlight, BackToPicker, Reload, Return
  <2>3. VerdictsAreOnTheHeld'
    BY <1>3, <2>1 DEF VerdictsAreOnTheHeld, InFlight, BackToPicker, Reload, Return
  <2>4. QED BY <2>2, <2>3
<1>4. ASSUME Book PROVE Goal
  <2>1. /\ page = "property" /\ picked # None /\ page' = "checkout"
        /\ UNCHANGED <<picked, submit, held, pay, holdLapsed, mine>>
    BY <1>4 DEF Book, CardQuote, serverVars
  <2>2. \A k \in Submits : submit[k].step = "none"
    BY <2>1 DEF CreatesHaveAStay
  <2>3. QED
    BY <2>1, <2>2 DEF KitGatesSubmits, CreatesHaveAStay, VerdictsAreOnTheHeld, InFlight
<1>5. ASSUME KitLoads \/ KitFails \/ RetryKit PROVE Goal
  <2>1. /\ kit # "loaded" /\ UNCHANGED <<page, picked, held, pay, holdLapsed, mine>>
        /\ kit' = "loaded" => KitLoads
    BY <1>5 DEF KitLoads, KitFails, RetryKit, serverVars, quoteVars
  <2>2. \A k \in Submits : KitLoads => submit'[k].step # "waiting"
    BY <1>1 DEF KitLoads
  <2>3. \A k \in Submits : \/ submit'[k].step \in {submit[k].step, "none"}
                           \/ KitLoads /\ submit[k].step = "waiting"
    <3>1. ~(View = "form" /\ kit' = "loaded") \/ KitLoads
      BY <2>1
    <3>2. QED BY <1>1, <1>5 DEF KitLoads, KitFails, RetryKit
  <2>4. QED
    BY <2>1, <2>2, <2>3 DEF KitGatesSubmits, CreatesHaveAStay, VerdictsAreOnTheHeld, InFlight,
                            KitLoads
<1>6. ASSUME NEW k \in Submits, Submit(k) PROVE Goal
  <2>1. /\ page = "checkout" /\ held = 0
        /\ UNCHANGED <<page, picked, held, pay, holdLapsed, mine>>
        /\ kit' = "loaded" <=> kit = "loaded"
    BY <1>6, Views DEF Submit, serverVars, quoteVars
  <2>2. \A x \in Submits : submit'[x].step = IF x = k THEN IF kit = "loaded" THEN "sent" ELSE "waiting"
                                             ELSE submit[x].step
    BY <1>6 DEF Submit, NoSubmit
  <2>3. QED
    BY <2>1, <2>2 DEF KitGatesSubmits, CreatesHaveAStay, VerdictsAreOnTheHeld, InFlight
<1>7. ASSUME RetryPayment \/ PayFails \/ PayAnswers \/ CountdownEnds \/ BackFromProvider
      PROVE  Goal
  <2>1. UNCHANGED <<picked, kit, submit, held, mine>>
    BY <1>7 DEF RetryPayment, PayFails, PayAnswers, CountdownEnds, BackFromProvider,
                serverVars, quoteVars, checkoutVars
  <2>2. /\ held # 0
        /\ page' = page \/ page' = "provider" \/ (page = "provider" /\ page' = "checkout")
    BY <1>7, Views DEF RetryPayment, PayFails, PayAnswers, CountdownEnds, BackFromProvider,
                       VerdictsAreOnTheHeld
  <2>3. page \in {"checkout", "provider"}
    BY <1>7, Views DEF RetryPayment, PayFails, PayAnswers, CountdownEnds, BackFromProvider,
                       CreatesHaveAStay
  <2>4. holdLapsed' => mine[held].lapsed
    BY <1>7, <2>2 DEF RetryPayment, PayFails, PayAnswers, CountdownEnds, BackFromProvider,
                      VerdictsAreOnTheHeld, checkoutVars
  <2>5. pay' = "booking_not_payable" => mine[held].lapsed \/ mine[held].status # "pending_payment"
    BY <1>7, <2>2 DEF RetryPayment, PayFails, PayAnswers, PayAnswer, CountdownEnds,
                      BackFromProvider, VerdictsAreOnTheHeld, checkoutVars
  <2>6. KitGatesSubmits' /\ CreatesHaveAStay'
    BY <2>1, <2>2, <2>3 DEF KitGatesSubmits, CreatesHaveAStay, InFlight
  <2>7. VerdictsAreOnTheHeld'
    BY <2>1, <2>2, <2>4, <2>5 DEF VerdictsAreOnTheHeld, InFlight
  <2>8. QED BY <2>6, <2>7
<1>8. ASSUME NEW k \in Submits, CreateDecides(k), ~Refused(k) PROVE Goal
  <2>1. /\ InFlight(k) /\ UNCHANGED <<page, picked, kit, holdLapsed>>
    BY <1>8 DEF CreateDecides, CreateCommits, InFlight
  <2>2. CASE UNCHANGED <<held, pay>>
    BY <1>2, <2>1, <2>2
  <2>3. CASE held' # 0 /\ pay' = "pending" /\ ~mine'[held'].lapsed
    <3>1. kit = "loaded" /\ ~holdLapsed /\ page \in {"checkout", "provider"}
      BY <2>1 DEF KitGatesSubmits, VerdictsAreOnTheHeld, CreatesHaveAStay, InFlight
    <3>2. \A x \in Submits : /\ submit'[x].step # "waiting"
                             /\ submit'[x].step # "none" => page \in {"checkout", "provider"}
      BY <3>1, Views DEF KitGatesSubmits, CreatesHaveAStay, Moves, KitLoads
    <3>3. QED
      BY <2>1, <2>3, <3>1, <3>2 DEF KitGatesSubmits, CreatesHaveAStay, VerdictsAreOnTheHeld
  <2>4. QED BY <1>8, <2>2, <2>3
<1>9. ASSUME (\E s \in Picks : Select(s) \/ QuoteFails(s) \/ GoStale(s) \/ QuoteAnswers(s))
             \/ Settle \/ Refetch \/ RefetchProperty \/ GuestPays \/ PollFails \/ Poll
             \/ (\E k \in Submits : CreateFails(k) \/ CreateReadsUnit(k) \/ Refused(k))
             \/ OwnerActs \/ (\E row \in adding : InsertOverride(row)) \/ SweepHolds
             \/ (\E b \in DOMAIN mine : HoldLapses(b) \/ Webhook(b)) \/ UNCHANGED vars
      PROVE  Goal
  <2>1. /\ UNCHANGED <<page, kit, held, pay, holdLapsed>>
        /\ picked' = picked \/ page = "property"
    BY <1>9
       DEF Select, QuoteFails, GoStale, QuoteAnswers, Settle, Refetch, RefetchProperty,
           GuestPays, PollFails, Poll, CreateFails, CreateReadsUnit, Refused, OwnerActs,
           EditUnit, ArchiveUnit, RemoveUnit, SetGateway, CheckOverride, RemoveOverride,
           OtherBooks, OwnerCancels, InsertOverride, SweepHolds, HoldLapses, Webhook,
           pageVars, tabVars, checkoutVars, quoteVars, vars
  <2>2. QED BY <1>2, <2>1
<1> HIDE DEF Goal
<1>10. Goal
  BY <1>3, <1>4, <1>5, <1>6, <1>7, <1>8, <1>9 DEF Next, GuestActs, Fails, Runs
<1>11. QED BY <1>10 DEF Goal

-----------------------------------------------------------------------------
LEMMA FunnelInit ==
  ASSUME Init
  PROVE  FunnelProtocol
<1>1. OwnerTyped
  <2>1. Min(Prices) \in Prices /\ Min(MinStays) \in MinStays
    BY FunnelAssumption, LeastNatural
  <2>2. QED BY <2>1, FunnelAssumption DEF Init, OwnerTyped
<1>2. TabTyped /\ HeldIsABooking
  <2>1. fetch = [s \in Picks |-> "idle"] /\ latest = 0 /\ faults = 0 /\ held = 0 /\ mine = <<>>
    BY DEF Init
  <2>2. /\ latest \in 0 .. MaxSubmits /\ faults \in 0 .. MaxFaults /\ held \in 0 .. Len(mine)
        /\ fetch \in [Picks -> {"idle", "sent", "overtaken"}]
    BY <2>1, FunnelAssumption
  <2>3. QED BY <2>2 DEF Init, TabTyped, HeldIsABooking
<1>3. TypedOver({})
  BY DEF Init, TypedOver, NoEntry, NoSubmit, EntryOver, SubmitOver
<1>4. AnswersAreForTheirStay
  BY DEF Init, AnswersAreForTheirStay, NoEntry
<1>5. KitGatesSubmits /\ CreatesHaveAStay /\ VerdictsAreOnTheHeld
  BY DEF Init, KitGatesSubmits, CreatesHaveAStay, VerdictsAreOnTheHeld, InFlight, NoSubmit
<1>6. QED BY <1>1, <1>2, <1>3, <1>4, <1>5 DEF FunnelProtocol

LEMMA FunnelStep ==
  ASSUME FunnelProtocol, [Next]_vars
  PROVE  FunnelProtocol'
<1>1. PICK T : TypedOver(T)
  BY DEF FunnelProtocol
<1>2. /\ OwnerTyped /\ TabTyped /\ HeldIsABooking
      /\ AnswersAreForTheirStay /\ KitGatesSubmits /\ CreatesHaveAStay /\ VerdictsAreOnTheHeld
      /\ cache \in [Picks -> EntryOver(T)] /\ mine \in Seq(BookingOver(T))
      /\ submit \in [Submits -> SubmitOver(T)]
  BY <1>1 DEF FunnelProtocol, TypedOver
<1>3. PICK U : T \subseteq U /\ cache' \in [Picks -> EntryOver(U)]
  BY <1>2, CacheStep
<1>4. PICK W : T \subseteq W /\ mine' \in Seq(BookingOver(W))
  BY <1>2, RowsStep
<1>5. AnswersAreForTheirStay' /\ OwnerTyped'
  BY <1>2, CacheStep, OwnerStep
<1>6. RowsAge /\ \A b \in 1 .. Len(mine) : RowAges(b)
  BY <1>2, RowsStep DEF RowsAge
<1>7. submit' \in [Submits -> SubmitOver(T)] /\ \A k \in Submits : Moves(k)
  BY <1>2, SubmitStep
<1>8. TabTyped' /\ HeldIsABooking'
  <2>1. Poll => shown' \in BookingStatus
    BY <1>2, <1>4, <1>6, HeldStep
  <2>2. TabTyped' /\ held' \in {held, 0, Len(mine')}
    BY <1>2, <2>1, TabStep
  <2>3. QED BY <1>2, <1>4, <1>6, <2>2, HeldStep
<1>9. (KitGatesSubmits /\ CreatesHaveAStay /\ VerdictsAreOnTheHeld)'
  <2>1. \A k \in Submits : CreateDecides(k) /\ ~Refused(k) =>
          \/ UNCHANGED <<held, pay>>
          \/ held' # 0 /\ pay' = "pending" /\ ~mine'[held'].lapsed
    BY <1>2, NewHoldStep
  <2>2. QED BY <1>2, <1>6, <1>7, <2>1, HandoffStep
<1>10. TypedOver(U \cup W)'
  <2>1. PICK V : V = U \cup W
    OBVIOUS
  <2>2. EntryOver(U) \subseteq EntryOver(V) /\ SubmitOver(T) \subseteq SubmitOver(V)
    BY <1>3, <2>1 DEF EntryOver, SubmitOver, QuoteOver
  <2>3. BookingOver(W) \subseteq BookingOver(V)
    BY <2>1, TypesGrow
  <2>4. mine' \in Seq(BookingOver(V))
    BY <1>4, <2>3, SequencesGrow
  <2>5. QED BY <1>3, <1>7, <2>1, <2>2, <2>4 DEF TypedOver
<1>11. QED BY <1>5, <1>8, <1>9, <1>10 DEF FunnelProtocol

\* The protocol of the guest's tab: the state has its types, the answers in the
\* cache are about the stay they are filed under, creates go out only behind the
\* phone kit, and what the checkout says of a hold it says of the booking held.
THEOREM FunnelProtocolKept == Spec => []FunnelProtocol
BY FunnelInit, FunnelStep, PTL DEF Spec

\* The card's price is the price of the stay the card names.
THEOREM PriceIsForThisStay == Spec => []PriceShownIsForThisStay
<1>1. FunnelProtocol => PriceShownIsForThisStay
  BY DEF FunnelProtocol, TabTyped, AnswersAreForTheirStay, PriceShownIsForThisStay, CardQuote,
         syncing
<1>2. QED BY <1>1, FunnelProtocolKept, PTL

\* The checkout says the hold has lapsed only of one that cannot be paid.
THEOREM LapsedIsLapsed == Spec => []LapsedMeansLapsed
<1>1. FunnelProtocol => LapsedMeansLapsed
  BY Views DEF FunnelProtocol, VerdictsAreOnTheHeld, LapsedMeansLapsed
<1>2. QED BY <1>1, FunnelProtocolKept, PTL

-----------------------------------------------------------------------------
(* What a quote promises.                                                   *)

\* There are finitely many spans, and a clipped one that overlaps its window is one.
LEMMA SpansAreFinite == IsFiniteSet(Spans)
<1>1. PICK D : D = (0 .. LastDay) \X (0 .. LastDay)
  OBVIOUS
<1>2. IsFiniteSet(D)
  <2>1. IsFiniteSet(0 .. LastDay)
    BY PricingAssumption, FS_Interval
  <2> QED BY <1>1, <2>1, FS_Product
<1>3. PICK E : E = {p \in D : p[1] < p[2]}
  OBVIOUS
<1>4. IsFiniteSet(E)
  BY <1>2, <1>3, FS_Subset
<1>5. PICK f : f = [p \in E |-> [from |-> p[1], to |-> p[2]]]
  OBVIOUS
<1>6. f \in [E -> Spans]
  <2>1. ASSUME NEW p \in E PROVE [from |-> p[1], to |-> p[2]] \in Spans
    BY <1>1, <1>3 DEF Spans
  <2> QED BY <1>5, <2>1
<1>7. ASSUME NEW s \in Spans PROVE \E p \in E : f[p] = s
  <2>1. s.from \in 0 .. LastDay /\ s.to \in 0 .. LastDay /\ s.from < s.to
        /\ s = [from |-> s.from, to |-> s.to]
    BY DEF Spans
  <2>2. <<s.from, s.to>> \in E
    BY <1>1, <1>3, <2>1
  <2>3. f[<<s.from, s.to>>] = s
    BY <1>5, <2>1, <2>2
  <2> QED BY <2>2, <2>3
<1>8. f \in Surjection(E, Spans)
  BY <1>6, <1>7 DEF Surjection
<1> QED BY <1>4, <1>8, FS_Surjection

LEMMA ClipsAreSpans ==
  ASSUME NEW s \in Spans, NEW w \in Spans, Overlaps(s, w)
  PROVE  Clip(s, w) \in Spans
<1>1. PICK a, b : /\ a = IF s.from > w.from THEN s.from ELSE w.from
                  /\ b = IF s.to < w.to THEN s.to ELSE w.to
  OBVIOUS
<1>2. Clip(s, w) = [s EXCEPT !.from = a, !.to = b]
  BY <1>1 DEF Clip
<1>3. /\ s.from \in 0 .. LastDay /\ s.to \in 0 .. LastDay /\ s.from < s.to
      /\ w.from \in 0 .. LastDay /\ w.to \in 0 .. LastDay /\ w.from < w.to
      /\ s.from < w.to /\ w.from < s.to
  BY DEF Spans, Overlaps
<1>4. a \in 0 .. LastDay /\ b \in 0 .. LastDay /\ a < b
  BY <1>1, <1>3, PricingAssumption
<1> QED BY <1>2, <1>4 DEF Spans

\* The overrides of a stay, as its price is computed from them.
Priced(s) == {Clip(o, s) : o \in {p \in overrides : Overlaps(p, s)}}

\* A quote is available exactly if none of its nights is taken and it is long enough.
LEMMA QuoteFacts ==
  ASSUME NEW T, NEW rows \in Seq(BookingOver(T)), OwnerTyped, NEW s \in Spans,
         NEW base, NEW minStay, NEW q, q = quote(rows, s, base, minStay)
  PROVE  /\ q.stay = s /\ q.total = quoteTotalIdr(base, s, Priced(s))
         /\ q.available <=> /\ \A t \in OccupiedBy(rows) : ~Overlaps(t, s)
                            /\ meetsMinStay(countNights(s.from, s.to), minStay)
<1>1. Picks \subseteq Spans
  BY FunnelAssumption
<1>2. OccupiedBy(rows) \subseteq Spans
  <2>1. ASSUME NEW b \in DOMAIN rows PROVE rows[b].stay \in Picks
    <3>1. rows[b] \in BookingOver(T)
      OBVIOUS
    <3> QED BY <3>1 DEF BookingOver
  <2> QED BY <1>1, <2>1 DEF OccupiedBy, OwnerTyped
<1>3. PICK B : B = findBlockedRanges(OccupiedBy(rows), s)
  OBVIOUS
<1>4. B \subseteq Spans
  BY <1>2, <1>3, ClipsAreSpans DEF findBlockedRanges
<1>5. IsFiniteSet(B) /\ \A r \in B : r.from \in Nat
  BY <1>4, SpansAreFinite, FS_Subset DEF Spans
<1>6. B = {} <=> \A t \in OccupiedBy(rows) : ~Overlaps(t, s)
  BY <1>3 DEF findBlockedRanges
<1>7. coalesceRanges(B) = <<>> <=> B = {}
  BY <1>5, RangesDoNotVanish
<1>8. PICK av, tot :
        /\ q = [stay |-> s, available |-> av, total |-> tot]
        /\ av = (coalesceRanges(B) = <<>> /\ meetsMinStay(countNights(s.from, s.to), minStay))
        /\ tot = quoteTotalIdr(base, s, Priced(s))
  BY <1>3, Zenon DEF quote, Priced
<1>9. /\ q.stay = s /\ q.total = quoteTotalIdr(base, s, Priced(s))
      /\ q.available = (/\ coalesceRanges(B) = <<>>
                        /\ meetsMinStay(countNights(s.from, s.to), minStay))
  <2>1. q.stay = s /\ q.total = tot /\ q.available = av
    BY <1>8
  <2> QED BY <1>8, <2>1
<1>10. coalesceRanges(B) = <<>> <=> \A t \in OccupiedBy(rows) : ~Overlaps(t, s)
  BY <1>6, <1>7
<1> QED BY <1>9, <1>10

\* The unit would still sell what the quote offers, at its total.
Stands(q) ==
  /\ unit.state = "active"
  /\ meetsMinStay(countNights(q.stay.from, q.stay.to), unit.minStay)
  /\ q.total = quoteTotalIdr(unit.base, q.stay, Priced(q.stay))
  /\ \A t \in OccupiedBy(mine) : ~Overlaps(t, q.stay)

\* The quotes in the cache that nothing has overtaken stand, and so do the offers of
\* the submissions, which are for the stay of the checkout.
OffersStand ==
  /\ \A s \in Picks :
       cache[s].current /\ cache[s].data # None /\ cache[s].data.available =>
         Stands(cache[s].data)
  /\ \A k \in Submits :
       submit[k].offer # None =>
         /\ Stands(submit[k].offer) /\ submit[k].offer.stay = picked
         /\ held = 0 /\ submit[k].step # "none"
         /\ submit[k].step = "priced" =>
              submit[k].base = unit.base /\ submit[k].minStay = unit.minStay

-----------------------------------------------------------------------------
\* A row that still occupies after a change did so before.
StillOccupies(old, new) ==
  new.stay = old.stay /\ (new.status \in OCCUPYING_STATUSES => old.status \in OCCUPYING_STATUSES)

LEMMA SweptFrees ==
  ASSUME NEW T, NEW rows \in Seq(BookingOver(T))
  PROVE  /\ DOMAIN Swept(rows) = DOMAIN rows
         /\ \A b \in DOMAIN rows : StillOccupies(rows[b], Swept(rows)[b])
<1>1. ASSUME NEW b \in DOMAIN rows PROVE StillOccupies(rows[b], Swept(rows)[b])
  <2>1. rows[b] \in BookingOver(T)
    OBVIOUS
  <2>2. /\ [rows[b] EXCEPT !.status = "expired"].stay = rows[b].stay
        /\ [rows[b] EXCEPT !.status = "expired"].status = "expired"
    BY <2>1 DEF BookingOver
  <2>3. Swept(rows)[b] \in {rows[b], [rows[b] EXCEPT !.status = "expired"]}
    BY DEF Swept
  <2> QED BY <2>2, <2>3 DEF StillOccupies, OCCUPYING_STATUSES
<1> QED BY <1>1 DEF Swept

LEMMA RowFrees ==
  ASSUME NEW T, NEW row \in BookingOver(T)
  PROVE  /\ StillOccupies(row, Confirmed(row))
         /\ StillOccupies(row, [row EXCEPT !.paid = TRUE])
         /\ StillOccupies(row, [row EXCEPT !.lapsed = TRUE])
         /\ StillOccupies(row, [row EXCEPT !.status = "cancelled"])
<1>1. StillOccupies(row, [row EXCEPT !.status = "confirmed"]) \/ row.status # "pending_payment"
  BY DEF BookingOver, StillOccupies, OCCUPYING_STATUSES
<1>2. StillOccupies(row, Confirmed(row))
  BY <1>1 DEF Confirmed, StillOccupies
<1>3. StillOccupies(row, [row EXCEPT !.paid = TRUE])
  BY DEF BookingOver, StillOccupies
<1>4. StillOccupies(row, [row EXCEPT !.lapsed = TRUE])
  BY DEF BookingOver, StillOccupies
<1>5. StillOccupies(row, [row EXCEPT !.status = "cancelled"])
  BY DEF BookingOver, StillOccupies, OCCUPYING_STATUSES
<1> QED BY <1>2, <1>3, <1>4, <1>5

\* Rows of which none occupies that did not, leave as many nights free.
LEMMA RowsFree ==
  ASSUME NEW old, NEW new, DOMAIN new = DOMAIN old,
         \A b \in DOMAIN old : StillOccupies(old[b], new[b])
  PROVE  OccupiedBy(new) \subseteq OccupiedBy(old)
BY DEF OccupiedBy, StillOccupies

\* Every change to what a quote is made from overtakes all answers and offers, but for
\* bookings that end.
Overtaken ==
  /\ \A s \in Picks : cache'[s].current = FALSE
  /\ \A k \in Submits : submit'[k].offer = None

Undisturbed ==
  /\ unit' = unit /\ overrides' = overrides
  /\ OccupiedBy(mine)' \subseteq OccupiedBy(mine)

\* A commit overtakes everything the tab has.
LEMMA CommitsOvertake ==
  ASSUME NEW T, cache \in [Picks -> EntryOver(T)], submit \in [Submits -> SubmitOver(T)],
         NEW k \in Submits, CreateDecides(k), ~Refused(k) \/ ~UNCHANGED mine
  PROVE  Overtaken
<1>1. Overtake /\ submit' = WithoutOffer([submit EXCEPT ![k] = NoSubmit])
  BY DEF CreateDecides, CreateCommits
<1>2. PICK sub : sub = [submit EXCEPT ![k] = NoSubmit]
  OBVIOUS
<1>3. \A x \in Submits : sub[x] \in SubmitOver(T)
  BY <1>2 DEF SubmitOver, NoSubmit
<1>4. \A x \in Submits : [sub[x] EXCEPT !.offer = None].offer = None
  BY <1>3 DEF SubmitOver
<1>5. \A s \in Picks : [cache[s] EXCEPT !.current = FALSE].current = FALSE
  BY DEF EntryOver
<1> QED BY <1>1, <1>2, <1>4, <1>5 DEF Overtake, WithoutOffer, Overtaken

LEMMA DisturbedMeansOvertaken ==
  ASSUME NEW T, mine \in Seq(BookingOver(T)), cache \in [Picks -> EntryOver(T)],
         submit \in [Submits -> SubmitOver(T)], [Next]_vars
  PROVE  Overtaken \/ Undisturbed
<1> DEFINE Goal == Overtaken \/ Undisturbed
           Steady == unit' = unit /\ overrides' = overrides /\ taken' = taken
<1>1. DOMAIN mine = 1 .. Len(mine) /\ \A b \in DOMAIN mine : mine[b] \in BookingOver(T)
  OBVIOUS
<1>2. ASSUME NEW new, Steady, mine' = new, DOMAIN new = DOMAIN mine,
             \A b \in DOMAIN mine : StillOccupies(mine[b], new[b])
      PROVE  Goal
  <2>1. OccupiedBy(new) \subseteq OccupiedBy(mine)
    BY <1>2, RowsFree
  <2>2. OccupiedBy(mine)' = OccupiedBy(new)
    BY <1>2 DEF OccupiedBy
  <2> QED BY <1>2, <2>1, <2>2 DEF Undisturbed
<1>3. ASSUME Steady, UNCHANGED mine PROVE Goal
  BY <1>2, <1>3 DEF StillOccupies
<1>4. ASSUME Steady, NEW b \in DOMAIN mine, NEW row, StillOccupies(mine[b], row),
             mine' = [mine EXCEPT ![b] = row]
      PROVE  Goal
  <2>1. PICK new : new = [mine EXCEPT ![b] = row]
    OBVIOUS
  <2>2. DOMAIN new = DOMAIN mine /\ \A c \in DOMAIN mine : StillOccupies(mine[c], new[c])
    BY <1>4, <2>1 DEF StillOccupies
  <2> HIDE DEF Goal
  <2> QED BY <1>2, <1>4, <2>1, <2>2
<1>5. ASSUME NEW rows \in Seq(BookingOver(T)), Steady, mine' = Swept(rows),
             DOMAIN rows = DOMAIN mine,
             \A b \in DOMAIN mine : StillOccupies(mine[b], rows[b])
      PROVE  Goal
  <2>1. PICK new : new = Swept(rows)
    OBVIOUS
  <2>2. DOMAIN new = DOMAIN mine /\ \A b \in DOMAIN mine : StillOccupies(rows[b], new[b])
    BY <1>5, <2>1, SweptFrees
  <2>3. \A b \in DOMAIN mine : StillOccupies(mine[b], new[b])
    BY <1>5, <2>2 DEF StillOccupies
  <2> HIDE DEF Goal
  <2> QED BY <1>2, <1>5, <2>1, <2>2, <2>3
<1>6. ASSUME Unsettles PROVE Goal
  <2>1. \A s \in Picks : cache[s] \in EntryOver(T)
    OBVIOUS
  <2>2. \A s \in Picks : [cache[s] EXCEPT !.current = FALSE].current = FALSE
    BY <2>1 DEF EntryOver
  <2>3. \A k \in Submits : [submit[k] EXCEPT !.offer = None].offer = None
    BY DEF SubmitOver
  <2> QED BY <1>6, <2>2, <2>3 DEF Unsettles, Overtake, WithoutOffer, Overtaken
<1>7. ASSUME NEW k \in Submits, CreateDecides(k) PROVE Goal
  <2>1. CASE UNCHANGED mine
    BY <1>3, <1>7, <2>1 DEF CreateDecides
  <2>2. CASE ~UNCHANGED mine
    BY <1>7, <2>2, CommitsOvertake
  <2> QED BY <2>1, <2>2
<1>8. ASSUME GuestPays PROVE Goal
  <2>1. CASE held \in DOMAIN mine
    <3>1. PICK b \in DOMAIN mine : b = held
      BY <2>1
    <3>2. PICK old \in BookingOver(T) : old = mine[b]
      BY <1>1
    <3>3. mine' = [mine EXCEPT ![b] = [old EXCEPT !.paid = TRUE]] /\ Steady
      BY <1>8, <3>1, <3>2 DEF GuestPays
    <3> HIDE DEF Goal, Steady
    <3> QED BY <1>4, <3>2, <3>3, RowFrees
  <2>2. CASE held \notin DOMAIN mine
    BY <1>3, <1>8, <2>2 DEF GuestPays
  <2> QED BY <2>1, <2>2
<1>9. ASSUME Poll PROVE Goal
  <2>1. CASE held \in DOMAIN mine
    <3>1. PICK b \in DOMAIN mine : b = held
      BY <2>1
    <3>2. PICK old \in BookingOver(T) : old = mine[b]
      BY <1>1
    <3>3. PICK rows : rows = [mine EXCEPT ![b] = Confirmed(old)]
      OBVIOUS
    <3>4. mine' = Swept(rows) /\ Steady
      BY <1>9, <3>1, <3>2, <3>3 DEF Poll
    <3>5. Confirmed(old) \in BookingOver(T) /\ StillOccupies(old, Confirmed(old))
      BY RowChanges, RowFrees
    <3>6. rows \in Seq(BookingOver(T)) /\ DOMAIN rows = DOMAIN mine
      BY <3>3, <3>5, RowUpdate
    <3>7. \A c \in DOMAIN mine : StillOccupies(mine[c], rows[c])
      BY <3>2, <3>3, <3>5 DEF StillOccupies
    <3> HIDE DEF Goal, Steady
    <3> QED BY <1>5, <3>4, <3>6, <3>7
  <2>2. CASE held \notin DOMAIN mine
    <3>1. mine' = Swept(mine) /\ Steady
      BY <1>9, <2>2 DEF Poll
    <3>2. \A b \in DOMAIN mine : StillOccupies(mine[b], mine[b])
      BY DEF StillOccupies
    <3> HIDE DEF Goal, Steady
    <3> QED BY <1>5, <3>1, <3>2
  <2> QED BY <2>1, <2>2
<1>10. ASSUME SweepHolds PROVE Goal
  <2>1. mine' = Swept(mine) /\ Steady
    BY <1>10 DEF SweepHolds
  <2>2. \A b \in DOMAIN mine : StillOccupies(mine[b], mine[b])
    BY DEF StillOccupies
  <2> HIDE DEF Goal, Steady
  <2> QED BY <1>5, <2>1, <2>2
<1>11. ASSUME NEW b \in DOMAIN mine, HoldLapses(b) \/ Webhook(b) \/ OwnerCancels(b)
       PROVE  Goal
  <2>1. PICK old \in BookingOver(T) : old = mine[b]
    BY <1>1
  <2>2. PICK row \in {[old EXCEPT !.lapsed = TRUE], Confirmed(old),
                      [old EXCEPT !.status = "cancelled"]} :
          mine' = [mine EXCEPT ![b] = row]
    BY <1>11, <2>1 DEF HoldLapses, Webhook, OwnerCancels
  <2>3. StillOccupies(old, row)
    BY <2>2, RowFrees
  <2>4. Steady
    BY <1>11 DEF HoldLapses, Webhook, OwnerCancels, tabVars
  <2> HIDE DEF Goal, Steady
  <2> QED BY <1>4, <2>1, <2>2, <2>3, <2>4
<1>12. \/ Unsettles \/ (Steady /\ UNCHANGED mine)
       \/ GuestPays \/ Poll \/ SweepHolds
       \/ (\E b \in DOMAIN mine : HoldLapses(b) \/ Webhook(b) \/ OwnerCancels(b))
       \/ (\E k \in Submits : CreateDecides(k))
  BY DEF Next, vars, serverVars, GuestActs, Select, Refetch, Book, BackToPicker, Reload,
         RetryKit, Submit, RetryPayment, Return, BackFromProvider, Fails, QuoteFails,
         KitFails, CreateFails, PayFails, PollFails, OwnerActs, EditUnit, ArchiveUnit,
         RemoveUnit, SetGateway, CheckOverride, RemoveOverride, OtherBooks, Runs, Settle,
         RefetchProperty, KitLoads, PayAnswers, CountdownEnds, GoStale, QuoteAnswers,
         CreateReadsUnit, InsertOverride, Unsettles
<1> HIDE DEF Goal, Steady
<1>13. Goal
  BY <1>3, <1>6, <1>7, <1>8, <1>9, <1>10, <1>11, <1>12
<1> QED BY <1>13 DEF Goal

\* A quote that stands does so for as long as nothing overtakes it.
LEMMA StandsOn ==
  ASSUME NEW q, Stands(q), Undisturbed
  PROVE  Stands(q)'
<1>1. Priced(q.stay)' = Priced(q.stay)
  BY DEF Undisturbed, Priced
<1> QED BY <1>1 DEF Stands, Undisturbed

\* What becomes of a cached answer that is not overtaken: it stays, or a new one comes.
LEMMA AnswersStand ==
  ASSUME NEW T, cache \in [Picks -> EntryOver(T)], [Next]_vars, NEW s \in Picks,
         cache'[s].current
  PROVE  \/ cache[s].current /\ cache'[s].data = cache[s].data
         \/ QuoteAnswers(s) /\ cache'[s].data = quote(mine, s, unit.base, unit.minStay)
            /\ unit.state = "active"
<1> DEFINE Goal == \/ cache[s].current /\ cache'[s].data = cache[s].data
                   \/ QuoteAnswers(s) /\ unit.state = "active"
                      /\ cache'[s].data = quote(mine, s, unit.base, unit.minStay)
<1>1. PICK old \in EntryOver(T) : old = cache[s]
  OBVIOUS
<1>2. /\ [old EXCEPT !.isError = TRUE, !.fresh = FALSE].current = old.current
      /\ [old EXCEPT !.isError = TRUE, !.fresh = FALSE].data = old.data
      /\ [old EXCEPT !.fresh = FALSE].current = old.current
      /\ [old EXCEPT !.fresh = FALSE].data = old.data
      /\ [old EXCEPT !.current = FALSE].current = FALSE
      /\ NoEntry.current = FALSE
  BY DEF EntryOver, NoEntry
<1>3. ASSUME UNCHANGED cache PROVE Goal
  BY <1>3
<1>4. ASSUME Overtake PROVE Goal
  BY <1>1, <1>2, <1>4 DEF Overtake
<1>5. ASSUME Book \/ Reload \/ Return PROVE Goal
  <2>1. cache'[s] \in {cache[s], NoEntry}
    BY <1>5 DEF Book, Reload, Return
  <2> QED BY <1>2, <2>1
<1>6. ASSUME NEW t \in Picks, GoStale(t) \/ QuoteFails(t) PROVE Goal
  <2>1. CASE t = s
    <3>1. cache'[s] \in {[old EXCEPT !.isError = TRUE, !.fresh = FALSE],
                         [old EXCEPT !.fresh = FALSE]}
      BY <1>1, <1>6, <2>1 DEF GoStale, QuoteFails
    <3> QED BY <1>1, <1>2, <3>1
  <2>2. CASE t # s
    <3>1. cache'[s] = cache[s]
      BY <1>6, <2>2 DEF GoStale, QuoteFails
    <3> QED BY <3>1
  <2> QED BY <2>1, <2>2
<1>7. ASSUME NEW t \in Picks, QuoteAnswers(t) PROVE Goal
  <2>1. PICK q : q = quote(mine, t, unit.base, unit.minStay)
    OBVIOUS
  <2>2. CASE t = s /\ unit.state = "active"
    <3>1. cache' = [cache EXCEPT ![t] = [data |-> q, fresh |-> TRUE, isError |-> FALSE,
                                         current |-> fetch[t] = "sent"]]
      BY <1>7, <2>1, <2>2 DEF QuoteAnswers
    <3>2. cache'[s].data = q
      BY <2>2, <3>1
    <3> QED BY <1>7, <2>1, <2>2, <3>2
  <2>3. CASE t = s /\ unit.state # "active"
    <3>1. cache'[s] = [old EXCEPT !.isError = TRUE, !.fresh = FALSE]
      BY <1>1, <1>7, <2>3 DEF QuoteAnswers
    <3> QED BY <1>1, <1>2, <3>1
  <2>4. CASE t # s
    <3>1. cache'[s] = cache[s]
      BY <1>7, <2>4 DEF QuoteAnswers
    <3> QED BY <3>1
  <2> QED BY <2>2, <2>3, <2>4
<1>8. ASSUME NEW k \in Submits, CreateDecides(k) PROVE Goal
  <2>1. Overtake \/ UNCHANGED cache
    BY <1>8 DEF CreateDecides, CreateCommits, Refused, quoteVars
  <2> QED BY <1>3, <1>4, <2>1
<1>9. \/ Overtake \/ UNCHANGED cache \/ Book \/ Reload \/ Return
      \/ (\E t \in Picks : QuoteAnswers(t) \/ GoStale(t) \/ QuoteFails(t))
      \/ (\E k \in Submits : CreateDecides(k))
  BY DEF Next, vars, quoteVars, GuestActs, Select, Refetch, BackToPicker, RetryKit, Submit,
         RetryPayment, GuestPays, BackFromProvider, Fails, KitFails, CreateFails, Refused,
         PayFails, PollFails, OwnerActs, EditUnit, ArchiveUnit, RemoveUnit, SetGateway,
         CheckOverride, RemoveOverride, OtherBooks, OwnerCancels, Unsettles, tabVars, Runs,
         Settle, RefetchProperty, KitLoads, PayAnswers, CountdownEnds, Poll,
         CreateReadsUnit, InsertOverride, SweepHolds, HoldLapses, Webhook
<1> HIDE DEF Goal
<1>10. Goal
  BY <1>3, <1>4, <1>5, <1>6, <1>7, <1>8, <1>9
<1> QED BY <1>10 DEF Goal

\* What becomes of an offer: it stays with its submission, or a submission is made on one.
OfferKept(k) ==
  /\ submit'[k].offer = submit[k].offer
  /\ submit[k].step # "none" => submit'[k].step # "none"
  /\ submit'[k].step = "priced" =>
       \/ submit[k].step = "priced" /\ submit'[k].base = submit[k].base
          /\ submit'[k].minStay = submit[k].minStay
       \/ submit'[k].base = unit.base /\ submit'[k].minStay = unit.minStay

OfferMade(k) ==
  /\ View = "form" /\ submit'[k].step \in {"sent", "waiting"}
  /\ cache[picked].current /\ submit'[k].offer = cache[picked].data
  /\ cache[picked].data # None => cache[picked].data.available

LEMMA OffersMove ==
  ASSUME NEW T, submit \in [Submits -> SubmitOver(T)], [Next]_vars,
         NEW k \in Submits, submit'[k].offer # None
  PROVE  OfferKept(k) \/ OfferMade(k)
<1> DEFINE Goal == OfferKept(k) \/ OfferMade(k)
<1>1. PICK old \in SubmitOver(T) : old = submit[k]
  OBVIOUS
<1>2. NoSubmit.offer = None /\ NoSubmit.step = "none" /\ NoSubmit \in [step : {"none"}, base : {0}, minStay : {0}, offer : {None}]
  BY DEF NoSubmit
<1>3. ASSUME submit'[k] \in {submit[k], NoSubmit} PROVE Goal
  BY <1>2, <1>3 DEF OfferKept
<1>4. ASSUME Unsettles \/ \E x \in Submits : CreateDecides(x) PROVE Goal
  <2>1. CASE Unsettles
    <3>1. submit'[k] = [old EXCEPT !.offer = None]
      BY <1>1, <2>1 DEF Unsettles, WithoutOffer
    <3> QED BY <3>1 DEF SubmitOver
  <2>2. ASSUME NEW x \in Submits, CreateDecides(x) PROVE Goal
    <3>1. CASE Refused(x)
      BY <1>3, <3>1 DEF Refused
    <3>2. CASE ~Refused(x)
      <4>1. submit' = WithoutOffer([submit EXCEPT ![x] = NoSubmit])
        BY <2>2, <3>2 DEF CreateDecides, CreateCommits
      <4>2. PICK sub : sub = [submit EXCEPT ![x] = NoSubmit][k]
        OBVIOUS
      <4>3. sub \in SubmitOver(T)
        BY <4>2 DEF SubmitOver, NoSubmit
      <4>4. submit'[k] = [sub EXCEPT !.offer = None]
        BY <4>1, <4>2 DEF WithoutOffer
      <4> QED BY <4>3, <4>4 DEF SubmitOver
    <3> QED BY <3>1, <3>2
  <2> HIDE DEF Goal
  <2> QED BY <1>4, <2>1, <2>2
<1>5. ASSUME BackToPicker \/ Reload \/ Return \/ KitFails \/ UNCHANGED submit PROVE Goal
  <2>1. submit'[k] \in {submit[k], NoSubmit}
    BY <1>5 DEF BackToPicker, Reload, Return, KitFails
  <2> QED BY <1>3, <2>1
<1>6. ASSUME KitLoads PROVE Goal
  <2>1. submit'[k] = IF old.step = "waiting" THEN [old EXCEPT !.step = "sent"] ELSE old
    BY <1>1, <1>6 DEF KitLoads
  <2>2. CASE old.step = "waiting"
    <3>1. /\ submit'[k].offer = old.offer /\ submit'[k].step = "sent"
      BY <2>1, <2>2 DEF SubmitOver
    <3> QED BY <1>1, <3>1 DEF OfferKept
  <2> QED BY <1>1, <1>3, <2>1, <2>2
<1>7. ASSUME NEW x \in Submits, Refused(x) PROVE Goal
  <2>1. submit'[k] \in {submit[k], NoSubmit}
    BY <1>7 DEF Refused
  <2> QED BY <1>3, <2>1
<1>8. ASSUME NEW x \in Submits, CreateReadsUnit(x), ~Refused(x) PROVE Goal
  <2>1. submit' = [submit EXCEPT ![x].step = "priced", ![x].base = unit.base,
                                 ![x].minStay = unit.minStay]
    BY <1>8 DEF CreateReadsUnit
  <2>2. CASE x # k
    <3>1. submit'[k] = submit[k]
      BY <2>1, <2>2
    <3> QED BY <1>3, <3>1
  <2>3. CASE x = k
    <3>1. PICK base, minStay : base = unit.base /\ minStay = unit.minStay
      OBVIOUS
    <3>2. submit'[k] = [old EXCEPT !.step = "priced", !.base = base, !.minStay = minStay]
      BY <1>1, <2>1, <2>3, <3>1
    <3>3. /\ submit'[k].offer = old.offer /\ submit'[k].step = "priced"
          /\ submit'[k].base = base /\ submit'[k].minStay = minStay
      BY <3>2 DEF SubmitOver
    <3> QED BY <1>1, <3>1, <3>3 DEF OfferKept
  <2> QED BY <2>2, <2>3
<1>9. ASSUME NEW x \in Submits, Submit(x) PROVE Goal
  <2>1. CASE x # k
    <3>1. submit'[k] = submit[k]
      BY <1>9, <2>1 DEF Submit
    <3> QED BY <1>3, <3>1
  <2>2. CASE x = k
    <3>1. PICK step, offer :
            /\ step = IF kit = "loaded" THEN "sent" ELSE "waiting"
            /\ offer = IF cache[picked].current THEN CheckoutQuote ELSE None
      OBVIOUS
    <3>2. submit'[k] = [NoSubmit EXCEPT !.step = step, !.offer = offer]
      BY <1>9, <2>2, <3>1 DEF Submit
    <3>3. submit'[k].step = step /\ submit'[k].offer = offer
      BY <3>2 DEF NoSubmit
    <3>4. View = "form" /\ (CheckoutQuote # None => CheckoutQuote.available)
      BY <1>9 DEF Submit
    <3>5. cache[picked].current /\ offer = CheckoutQuote /\ CheckoutQuote = cache[picked].data
      BY <3>1, <3>3 DEF CheckoutQuote
    <3> QED BY <3>1, <3>3, <3>4, <3>5 DEF OfferMade
  <2> QED BY <2>1, <2>2
<1>10. \/ UNCHANGED submit \/ BackToPicker \/ Reload \/ Return \/ KitLoads \/ KitFails \/ Unsettles
       \/ (\E x \in Submits : Submit(x) \/ Refused(x) \/ CreateReadsUnit(x) \/ CreateDecides(x))
  BY DEF Next, vars, checkoutVars, GuestActs, Select, Refetch, Book, RetryKit,
         RetryPayment, GuestPays, BackFromProvider, Fails, QuoteFails, CreateFails,
         PayFails, PollFails, OwnerActs, EditUnit, ArchiveUnit, RemoveUnit, SetGateway,
         CheckOverride, RemoveOverride, OtherBooks, OwnerCancels, tabVars, Runs, Settle,
         RefetchProperty, PayAnswers, CountdownEnds, Poll, GoStale, QuoteAnswers,
         InsertOverride, SweepHolds, HoldLapses, Webhook
<1> HIDE DEF Goal
<1>11. Goal
  BY <1>4, <1>5, <1>6, <1>7, <1>8, <1>9, <1>10
<1> QED BY <1>11 DEF Goal

\* While a submission is on its way, or in the step that makes it, the selection stays
\* and no booking is held, but for what the commit of a create brings.
LEMMA OffersStayPut ==
  ASSUME CreatesHaveAStay, [Next]_vars, NEW k \in Submits, submit'[k].offer # None, held = 0,
         submit[k].step # "none" \/ View = "form"
  PROVE  picked' = picked /\ (held' = 0 \/ \E x \in Submits : CreateDecides(x) /\ ~Refused(x))
<1>1. page \in {"checkout", "provider"}
  BY Views DEF CreatesHaveAStay
<1>2. ~Return
  BY DEF Return, NoSubmit
<1>3. picked' = picked
  BY <1>1, <1>2 DEF Next, vars, quoteVars, GuestActs, Select, Refetch, Book, BackToPicker, Reload,
         RetryKit, Submit,
         RetryPayment, GuestPays, BackFromProvider, Fails, QuoteFails, KitFails, CreateFails, Refused,
         PayFails, PollFails, OwnerActs, EditUnit, ArchiveUnit, RemoveUnit, SetGateway,
         CheckOverride, RemoveOverride, OtherBooks, OwnerCancels, pageVars, tabVars, Runs,
         Settle, RefetchProperty, KitLoads, PayAnswers, CountdownEnds, Poll, GoStale, QuoteAnswers,
         CreateReadsUnit, CreateDecides, CreateCommits, InsertOverride, SweepHolds, HoldLapses, Webhook
<1>4. held' \in {held, 0} \/ \E x \in Submits : CreateDecides(x) /\ ~Refused(x)
  BY DEF Next, vars, checkoutVars, GuestActs, Select, Refetch, Book, BackToPicker, Reload,
         RetryKit, Submit,
         RetryPayment, GuestPays, Return, BackFromProvider, Fails, QuoteFails, KitFails, CreateFails, Refused,
         PayFails, PollFails, OwnerActs, EditUnit, ArchiveUnit, RemoveUnit, SetGateway,
         CheckOverride, RemoveOverride, OtherBooks, OwnerCancels, pageVars, tabVars, Runs,
         Settle, RefetchProperty, KitLoads, PayAnswers, CountdownEnds, Poll, GoStale, QuoteAnswers,
         CreateReadsUnit, CreateDecides, InsertOverride, SweepHolds, HoldLapses, Webhook
<1> QED BY <1>3, <1>4

LEMMA OffersStandInit ==
  ASSUME Init
  PROVE  OffersStand
BY DEF Init, OffersStand, NoEntry, NoSubmit

LEMMA OffersStandStep ==
  ASSUME FunnelProtocol, OffersStand, [Next]_vars
  PROVE  OffersStand'
<1>1. PICK T : TypedOver(T)
  BY DEF FunnelProtocol
<1>2. /\ OwnerTyped /\ TabTyped /\ AnswersAreForTheirStay /\ CreatesHaveAStay
      /\ cache \in [Picks -> EntryOver(T)] /\ mine \in Seq(BookingOver(T))
      /\ submit \in [Submits -> SubmitOver(T)]
  BY <1>1 DEF FunnelProtocol, TypedOver
<1>3. CASE Overtaken
  BY <1>3 DEF Overtaken, OffersStand
<1>4. CASE Undisturbed /\ ~Overtaken
  <2>1. ASSUME NEW s \in Picks, cache'[s].current, cache'[s].data # None,
               cache'[s].data.available
        PROVE  Stands(cache[s].data)'
    <3>1. PICK q : q = cache'[s].data
      OBVIOUS
    <3>2. Stands(q)
      <4>1. CASE cache[s].current /\ cache'[s].data = cache[s].data
        BY <2>1, <3>1, <4>1 DEF OffersStand
      <4>2. CASE unit.state = "active" /\ cache'[s].data = quote(mine, s, unit.base, unit.minStay)
        <5>1. PICK base, minStay : base = unit.base /\ minStay = unit.minStay
          OBVIOUS
        <5>2. q = quote(mine, s, base, minStay) /\ q.available
          BY <2>1, <3>1, <4>2, <5>1
        <5>3. /\ q.stay = s /\ q.total = quoteTotalIdr(base, s, Priced(s))
              /\ \A t \in OccupiedBy(mine) : ~Overlaps(t, s)
              /\ meetsMinStay(countNights(s.from, s.to), minStay)
          BY <1>2, <5>2, QuoteFacts, FunnelAssumption
        <5> QED BY <4>2, <5>1, <5>3 DEF Stands
      <4> QED BY <1>2, <2>1, <4>1, <4>2, AnswersStand
    <3>3. Stands(q)'
      BY <1>4, <3>2, StandsOn
    <3> QED BY <3>1, <3>3 DEF Stands, Priced
  <2>2. ASSUME NEW k \in Submits, submit'[k].offer # None
        PROVE  /\ Stands(submit[k].offer)' /\ submit'[k].offer.stay = picked'
               /\ held' = 0 /\ submit'[k].step # "none"
               /\ submit'[k].step = "priced" =>
                    submit'[k].base = unit'.base /\ submit'[k].minStay = unit'.minStay
    <3>1. PICK q : q = submit'[k].offer
      OBVIOUS
    <3>2. ~\E x \in Submits : CreateDecides(x) /\ ~Refused(x)
      BY <1>2, <1>4, CommitsOvertake
    <3>3. /\ Stands(q) /\ q.stay = picked /\ held = 0
          /\ submit[k].step # "none" \/ View = "form"
          /\ submit'[k].step # "none"
      <4>1. CASE OfferKept(k)
        BY <2>2, <3>1, <4>1 DEF OfferKept, OffersStand
      <4>2. CASE OfferMade(k)
        <5>1. held = 0 /\ page = "checkout" /\ View = "form"
          BY <4>2, Views DEF OfferMade
        <5>2. picked \in Picks
          BY <1>2, <5>1 DEF CreatesHaveAStay, TabTyped
        <5>3. Stands(q) /\ q.stay = picked
          BY <1>2, <2>2, <3>1, <4>2, <5>2 DEF OfferMade, OffersStand, AnswersAreForTheirStay
        <5> QED BY <4>2, <5>1, <5>3 DEF OfferMade
      <4> QED BY <1>2, <2>2, <4>1, <4>2, OffersMove
    <3>4. picked' = picked /\ held' = 0
      BY <1>2, <2>2, <3>2, <3>3, OffersStayPut
    <3>5. submit'[k].step = "priced" =>
            submit'[k].base = unit.base /\ submit'[k].minStay = unit.minStay
      <4>1. CASE OfferKept(k)
        BY <2>2, <4>1 DEF OfferKept, OffersStand
      <4>2. CASE OfferMade(k)
        BY <4>2 DEF OfferMade
      <4> QED BY <1>2, <2>2, <4>1, <4>2, OffersMove
    <3>6. Stands(q)'
      BY <1>4, <3>3, StandsOn
    <3>7. Stands(submit[k].offer)'
      BY <3>1, <3>6 DEF Stands, Priced
    <3>8. unit' = unit
      BY <1>4 DEF Undisturbed
    <3> QED BY <3>1, <3>3, <3>4, <3>5, <3>7, <3>8
  <2> QED BY <2>1, <2>2 DEF OffersStand
<1> QED BY <1>2, <1>3, <1>4, DisturbedMeansOvertaken

\* A step that ends a submission made on an offer sells the offer.
LEMMA OffersAreKept ==
  ASSUME FunnelProtocol, OffersStand, [Next]_vars, NEW k \in Submits,
         InFlight(k), submit'[k].step = "none",
         submit[k].offer # None, gateway, Len(mine) < MaxHolds, faults' = faults
  PROVE  /\ Len(mine') = Len(mine) + 1
         /\ mine'[Len(mine')].total = submit[k].offer.total
<1>1. PICK T : TypedOver(T)
  BY DEF FunnelProtocol
<1>2. /\ OwnerTyped /\ TabTyped /\ CreatesHaveAStay /\ VerdictsAreOnTheHeld
      /\ mine \in Seq(BookingOver(T)) /\ submit \in [Submits -> SubmitOver(T)]
  BY <1>1 DEF FunnelProtocol, TypedOver
<1>3. PICK q : q = submit[k].offer
  OBVIOUS
<1>4. Stands(q) /\ q.stay = picked /\ held = 0
      /\ (submit[k].step = "priced" => submit[k].base = unit.base /\ submit[k].minStay = unit.minStay)
  BY <1>3 DEF OffersStand
<1>5. ~Fault
  BY <1>2, FunnelAssumption DEF Fault, TabTyped
<1>6. page # "provider" /\ Busy
  BY <1>2, <1>4 DEF VerdictsAreOnTheHeld, Busy, InFlight
<1>7. ~BackToPicker /\ ~Reload /\ ~Return /\ ~KitFails /\ ~\E x \in Submits : CreateFails(x)
  BY <1>5, <1>6 DEF BackToPicker, Reload, Return, KitFails, CreateFails
<1>8. \A x \in Submits : submit[x] \in SubmitOver(T)
  BY <1>2
<1>9. CreateDecides(k) /\ submit[k].step = "priced"
  <2>1. submit' # submit /\ submit[k].step \in {"sent", "priced"}
    BY DEF InFlight
  <2>2. ~KitLoads
    BY <2>1 DEF KitLoads
  <2>3. ~Unsettles
    BY <1>8, <2>1 DEF Unsettles, WithoutOffer, SubmitOver
  <2>4. ASSUME NEW x \in Submits, Submit(x) PROVE FALSE
    <3>1. PICK step, offer : /\ step = IF kit = "loaded" THEN "sent" ELSE "waiting"
                             /\ offer = IF cache[picked].current THEN CheckoutQuote ELSE None
      OBVIOUS
    <3>2. submit' = [submit EXCEPT ![x] = [NoSubmit EXCEPT !.step = step, !.offer = offer]]
      BY <2>4, <3>1 DEF Submit
    <3>3. [NoSubmit EXCEPT !.step = step, !.offer = offer].step # "none"
      BY <3>1 DEF NoSubmit
    <3> QED BY <1>2, <2>1, <3>2, <3>3
  <2>5. ASSUME NEW x \in Submits, CreateReadsUnit(x) PROVE FALSE
    <3>1. submit' = [submit EXCEPT ![x].step = "priced", ![x].base = unit.base,
                                   ![x].minStay = unit.minStay]
      BY <1>4, <2>5 DEF CreateReadsUnit, Stands
    <3>2. CASE x = k
      <4>1. PICK old, base, minStay : old = submit[k] /\ base = unit.base /\ minStay = unit.minStay
        OBVIOUS
      <4>2. submit'[k] = [old EXCEPT !.step = "priced", !.base = base, !.minStay = minStay]
        BY <1>2, <3>1, <3>2, <4>1
      <4>3. old \in SubmitOver(T)
        BY <1>8, <4>1
      <4>4. submit'[k].step = "priced"
        BY <4>2, <4>3 DEF SubmitOver
      <4> QED BY <4>4
    <3>3. CASE x # k
      <4>1. submit'[k] = submit[k]
        BY <1>2, <3>1, <3>3
      <4> QED BY <2>1, <4>1
    <3> QED BY <3>2, <3>3
  <2>6. ASSUME NEW x \in Submits, CreateDecides(x), x # k PROVE FALSE
    <3>1. CASE Refused(x)
      <4>1. submit'[k] = submit[k]
        BY <1>2, <2>6, <3>1 DEF Refused
      <4> QED BY <2>1, <4>1
    <3>2. CASE ~Refused(x)
      <4>1. submit' = WithoutOffer([submit EXCEPT ![x] = NoSubmit])
        BY <2>6, <3>2 DEF CreateDecides, CreateCommits
      <4>2. PICK old : old = submit[k]
        OBVIOUS
      <4>3. submit'[k] = [old EXCEPT !.offer = None]
        BY <1>2, <2>6, <4>1, <4>2 DEF WithoutOffer
      <4>4. submit'[k].step = submit[k].step
        BY <1>8, <4>2, <4>3 DEF SubmitOver
      <4> QED BY <2>1, <4>4
    <3> QED BY <3>1, <3>2
  <2>7. \/ UNCHANGED submit \/ BackToPicker \/ Reload \/ Return \/ KitLoads \/ KitFails
        \/ Unsettles
        \/ (\E x \in Submits :
              Submit(x) \/ CreateFails(x) \/ CreateReadsUnit(x) \/ CreateDecides(x))
    BY DEF Next, vars, checkoutVars, GuestActs, Select, Refetch, Book, RetryKit,
           RetryPayment, GuestPays, BackFromProvider, Fails, QuoteFails,
           PayFails, PollFails, OwnerActs, EditUnit, ArchiveUnit, RemoveUnit, SetGateway,
           CheckOverride, RemoveOverride, OtherBooks, OwnerCancels, tabVars, Runs, Settle,
           RefetchProperty, PayAnswers, CountdownEnds, Poll, GoStale, QuoteAnswers,
           InsertOverride, SweepHolds, HoldLapses, Webhook
  <2>8. CreateDecides(k)
    BY <1>7, <2>1, <2>2, <2>3, <2>4, <2>5, <2>6, <2>7
  <2> QED BY <2>8 DEF CreateDecides
<1>10. PICK rows, w : rows = Swept(mine) /\ w = WriteQuote(k, rows)
  OBVIOUS
<1>11. picked \in Picks
  BY <1>2, <1>9 DEF CreatesHaveAStay, TabTyped
<1>12. rows \in Seq(BookingOver(T)) /\ Len(rows) = Len(mine)
  BY <1>2, <1>10, SweptRows
<1>13. OccupiedBy(rows) \subseteq OccupiedBy(mine)
  BY <1>2, <1>10, SweptFrees, RowsFree
<1>14. PICK base, minStay : base = unit.base /\ minStay = unit.minStay
  OBVIOUS
<1>15. w = quote(rows, picked, base, minStay)
  BY <1>4, <1>9, <1>10, <1>14 DEF WriteQuote
<1>16. PICK stay : stay = picked
  OBVIOUS
<1>17. w.available /\ w.total = q.total
  <2>1. /\ w.total = quoteTotalIdr(base, stay, Priced(stay))
        /\ w.available <=> /\ \A t \in OccupiedBy(rows) : ~Overlaps(t, stay)
                           /\ meetsMinStay(countNights(stay.from, stay.to), minStay)
    BY <1>2, <1>11, <1>12, <1>15, <1>16, QuoteFacts, FunnelAssumption
  <2> QED BY <1>4, <1>13, <1>14, <1>16, <2>1 DEF Stands
<1>18. CreateCommits(k, rows, w)
  BY <1>4, <1>9, <1>10, <1>17 DEF CreateDecides, Stands
<1>19. mine' = Append(rows, NewHold(w)) /\ NewHold(w).total = q.total
  BY <1>17, <1>18 DEF CreateCommits, NewHold
<1>20. PICK h : h = NewHold(w)
  OBVIOUS
<1>21. rows \in Seq(BookingOver(T) \cup {h}) /\ h \in BookingOver(T) \cup {h}
  BY <1>12
<1>22. Len(mine') = Len(rows) + 1 /\ mine'[Len(mine')] = h
  BY <1>19, <1>20, <1>21
<1> QED BY <1>3, <1>12, <1>19, <1>20, <1>22

\* A quote that nothing has overtaken is honoured: whatever else goes on between its
\* answer and the commit of the create, the stay is sold, at the total that was shown.
THEOREM QuotesAreHonoured == Spec => QuoteIsHonoured
<1>1. FunnelProtocol /\ OffersStand /\ [Next]_vars =>
        [\A k \in Submits :
           /\ InFlight(k) /\ submit'[k].step = "none"
           /\ submit[k].offer # None /\ gateway /\ Len(mine) < MaxHolds /\ faults' = faults
           => /\ Len(mine') = Len(mine) + 1
              /\ mine'[Len(mine')].total = submit[k].offer.total]_vars
  BY OffersAreKept
<1>2. Spec => []OffersStand
  <2>1. Init => OffersStand
    BY OffersStandInit
  <2>2. FunnelProtocol /\ OffersStand /\ [Next]_vars => OffersStand'
    BY OffersStandStep
  <2> QED BY <2>1, <2>2, FunnelProtocolKept, PTL DEF Spec
<1> QED BY <1>1, <1>2, FunnelProtocolKept, PTL DEF Spec, QuoteIsHonoured

-----------------------------------------------------------------------------
(* Sums over finite sets.                                                   *)

\* A nonempty collection of parts of a finite set has a smallest one.
LEMMA LeastSubset ==
  ASSUME NEW S, IsFiniteSet(S), NEW B \in SUBSET (SUBSET S), B # {}
  PROVE  \E U \in B : U \in SUBSET S /\ \A x \in U : U \ {x} \notin B
<1>1. \A U \in SUBSET S : IsFiniteSet(U)
  BY FS_Subset
<1>2. B \subseteq FiniteSubsetsOf(S)
  BY <1>1 DEF FiniteSubsetsOf
<1>3. PICK U \in B : \A V \in B : <<V, U>> \notin StrictSubsetOrdering(S)
  BY <1>2, FS_StrictSubsetOrderingWellFounded, WFMin
<1>4. ASSUME NEW x \in U, U \ {x} \in B PROVE FALSE
  <2>1. <<U \ {x}, U>> \in StrictSubsetOrdering(S)
    BY <1>4 DEF StrictSubsetOrdering
  <2> QED BY <1>3, <1>4, <2>1
<1> QED BY <1>4

\* g has the sum of F over every part of S.
Sums(g, F, S) ==
  /\ g \in [SUBSET S -> Int] /\ g[{}] = 0
  /\ \A U \in SUBSET S : \A x \in U : g[U] = F[x] + g[U \ {x}]

\* Every finite set of summands can be summed up.
LEMMA SumsExist ==
  ASSUME NEW S, IsFiniteSet(S), NEW F \in [S -> Int]
  PROVE  \E g : Sums(g, F, S)
<1> DEFINE B == {U \in SUBSET S : ~\E g : Sums(g, F, U)}
<1>1. ASSUME NEW U \in SUBSET S, NEW x \in U, NEW V, V = U \ {x}, NEW g, Sums(g, F, V)
      PROVE  \E h : Sums(h, F, U)
  <2>1. PICK h : h = [W \in SUBSET U |-> IF x \in W THEN F[x] + g[W \ {x}] ELSE g[W]]
    OBVIOUS
  <2>2. /\ \A W \in SUBSET V : g[W] \in Int
        /\ g[{}] = 0 /\ \A W \in SUBSET V : \A y \in W : g[W] = F[y] + g[W \ {y}]
    BY <1>1 DEF Sums
  <2>3. \A W \in SUBSET U : W \ {x} \in SUBSET V /\ (x \notin W => W \in SUBSET V)
    BY <1>1
  <2>4. \A y \in U : F[y] \in Int
    OBVIOUS
  <2>5. h \in [SUBSET U -> Int] /\ h[{}] = 0
    BY <2>1, <2>2, <2>3, <2>4
  <2>6. ASSUME NEW W \in SUBSET U, NEW y \in W PROVE h[W] = F[y] + h[W \ {y}]
    <3>1. PICK Y : Y = W \ {y}
      OBVIOUS
    <3>2. Y \in SUBSET U
      BY <3>1
    <3>3. CASE y = x
      <4>1. h[W] = F[x] + g[Y] /\ h[Y] = g[Y]
        BY <2>1, <3>1, <3>2, <3>3
      <4> QED BY <3>1, <3>3, <4>1
    <3>4. CASE y # x /\ x \in W
      <4>1. h[W] = F[x] + g[W \ {x}] /\ h[Y] = F[x] + g[Y \ {x}]
        BY <2>1, <3>1, <3>2, <3>4
      <4>2. (W \ {x}) \ {y} = Y \ {x} /\ y \in W \ {x}
        BY <3>1, <3>4
      <4>3. g[W \ {x}] = F[y] + g[Y \ {x}] /\ g[Y \ {x}] \in Int
        <5>1. W \ {x} \in SUBSET V /\ Y \ {x} \in SUBSET V
          BY <2>3, <3>2
        <5>2. g[W \ {x}] = F[y] + g[(W \ {x}) \ {y}]
          BY <2>2, <4>2, <5>1
        <5> QED BY <2>2, <4>2, <5>1, <5>2
      <4>4. F[x] \in Int /\ F[y] \in Int
        BY <2>4
      <4>5. PICK a \in Int, b \in Int, c \in Int : a = F[x] /\ b = F[y] /\ c = g[Y \ {x}]
        BY <4>3, <4>4
      <4>6. h[W] = a + (b + c) /\ h[Y] = a + c
        BY <4>1, <4>3, <4>5
      <4> QED BY <3>1, <4>5, <4>6
    <3>5. CASE x \notin W
      <4>1. h[W] = g[W] /\ h[Y] = g[Y]
        BY <2>1, <3>1, <3>2, <3>5
      <4> QED BY <2>2, <2>3, <3>1, <3>5, <4>1
    <3> QED BY <3>3, <3>4, <3>5
  <2> QED BY <2>5, <2>6 DEF Sums
<1>2. \E g : Sums(g, F, {})
  <2>1. PICK g : g = [W \in SUBSET {} |-> 0]
    OBVIOUS
  <2>2. g \in [SUBSET {} -> Int] /\ g[{}] = 0
    BY <2>1
  <2> QED BY <2>2 DEF Sums
<1>3. B = {}
  <2> SUFFICES ASSUME B # {} PROVE FALSE
    OBVIOUS
  <2>1. PICK U \in B : U \in SUBSET S /\ \A x \in U : U \ {x} \notin B
    BY LeastSubset
  <2>2. PICK x : x \in U
    BY <1>2
  <2>3. U \ {x} \in SUBSET S /\ U \ {x} \notin B
    BY <2>1, <2>2
  <2>4. PICK g : Sums(g, F, U \ {x})
    BY <2>3
  <2> QED BY <1>1, <2>1, <2>2, <2>4
<1> QED BY <1>3

\* The same summands have the same sum, whatever else is summed up.
LEMMA SumsAgree ==
  ASSUME NEW S, NEW F, NEW g, Sums(g, F, S), NEW R, NEW G, NEW h, Sums(h, G, R),
         NEW U, IsFiniteSet(U), U \subseteq S, U \subseteq R, \A x \in U : F[x] = G[x]
  PROVE  g[U] = h[U]
<1> DEFINE B == {W \in SUBSET U : g[W] # h[W]}
<1>1. B = {}
  <2> SUFFICES ASSUME B # {} PROVE FALSE
    OBVIOUS
  <2>1. PICK W \in B : W \in SUBSET U /\ \A x \in W : W \ {x} \notin B
    BY LeastSubset
  <2>2. W # {}
    BY <2>1 DEF Sums
  <2>3. PICK x : x \in W
    BY <2>2
  <2>4. g[W \ {x}] = h[W \ {x}]
    BY <2>1, <2>3
  <2>5. W \in SUBSET S /\ W \in SUBSET R
    BY <2>1
  <2>6. g[W] = F[x] + g[W \ {x}] /\ h[W] = G[x] + h[W \ {x}]
    BY <2>3, <2>5 DEF Sums
  <2> QED BY <2>1, <2>3, <2>4, <2>6
<1> QED BY <1>1

\* The element that a fold of a set takes next.
Chosen(U) == CHOOSE x \in U : TRUE

\* The recursion of a fold of a set.
Recursion(it, F, S) ==
  it = [U \in SUBSET S |-> IF U = {} THEN 0 ELSE F[Chosen(U)] + it[U \ {Chosen(U)}]]

\* It finds the sums.
LEMMA SumsByRecursion ==
  ASSUME NEW S, IsFiniteSet(S), NEW F \in [S -> Int],
         NEW it, Recursion(it, F, S)
  PROVE  Sums(it, F, S)
<1> USE DEF Recursion
<1>1. PICK g : Sums(g, F, S)
  BY SumsExist
<1>2. \A U \in SUBSET S : U # {} => Chosen(U) \in U
  BY DEF Chosen
<1> DEFINE B == {U \in SUBSET S : it[U] # g[U]}
<1>3. B = {}
  <2> SUFFICES ASSUME B # {} PROVE FALSE
    OBVIOUS
  <2>1. PICK U \in B : U \in SUBSET S /\ \A x \in U : U \ {x} \notin B
    BY LeastSubset
  <2>2. U # {}
    BY <1>1, <2>1 DEF Sums
  <2>3. PICK x \in U : x = Chosen(U)
    BY <1>2, <2>1, <2>2
  <2>4. it[U] = F[x] + it[U \ {x}] /\ g[U] = F[x] + g[U \ {x}]
    BY <1>1, <2>1, <2>2, <2>3 DEF Sums
  <2>5. U \ {x} \in SUBSET S /\ U \ {x} \notin B
    BY <2>1
  <2> QED BY <2>1, <2>4, <2>5
<1>4. g \in [SUBSET S -> Int] /\ DOMAIN it = SUBSET S /\ it = [U \in SUBSET S |-> it[U]]
  BY <1>1 DEF Sums
<1>5. it = g
  <2>1. \A U \in SUBSET S : it[U] = g[U]
    BY <1>3
  <2> QED BY <1>4, <2>1
<1> QED BY <1>1, <1>5

\* There is a function that recurs so.
LEMMA RecursionExists ==
  ASSUME NEW S, IsFiniteSet(S), NEW F \in [S -> Int]
  PROVE  \E it : Recursion(it, F, S)
<1>1. PICK g : Sums(g, F, S)
  BY SumsExist
<1>2. \A U \in SUBSET S : U # {} => Chosen(U) \in U
  BY DEF Chosen
<1>3. \A U \in SUBSET S : g[U] = IF U = {} THEN 0 ELSE F[Chosen(U)] + g[U \ {Chosen(U)}]
  BY <1>1, <1>2 DEF Sums
<1>4. g = [U \in SUBSET S |-> g[U]]
  BY <1>1 DEF Sums
<1>5. g = [U \in SUBSET S |-> IF U = {} THEN 0 ELSE F[Chosen(U)] + g[U \ {Chosen(U)}]]
  BY <1>3, <1>4
<1> QED BY <1>5 DEF Recursion

-----------------------------------------------------------------------------
(* The price of a stay.                                                     *)

\* The nights of the stay [from, to) that override o covers, if there are any.
Covered(o, from, to) ==
  (IF o.to < to THEN o.to ELSE to) - (IF o.from > from THEN o.from ELSE from)

\* What override o adds to the price of the stay at the base price.
Correction(o, base, from, to) ==
  IF Covered(o, from, to) > 0 THEN (o.price - base) * Covered(o, from, to) ELSE 0

OverrideRows == [from : 0 .. LastDay, to : 0 .. LastDay, price : Nat]

\* The total is the base price of the nights and the sum of the corrections.
LEMMA TotalIsASum ==
  ASSUME NEW O \in SUBSET OverrideRows, IsFiniteSet(O), NEW base \in Nat, NEW w \in Spans,
         NEW F, F = [o \in O |-> Correction(o, base, w.from, w.to)]
  PROVE  /\ F \in [O -> Int]
         /\ \E g : Sums(g, F, O) /\ quoteTotalIdr(base, w, O) = base * (w.to - w.from) + g[O]
<1>1. w.from \in 0 .. LastDay /\ w.to \in 0 .. LastDay /\ LastDay \in Nat
  BY PricingAssumption DEF Spans
<1>2. ASSUME NEW o \in O PROVE Correction(o, base, w.from, w.to) \in Int
  <2>1. o.from \in Int /\ o.to \in Int /\ o.price \in Int /\ w.from \in Int /\ w.to \in Int
    BY <1>1 DEF OverrideRows
  <2>2. Covered(o, w.from, w.to) \in Int
    BY <2>1 DEF Covered
  <2> QED BY <2>1, <2>2 DEF Correction
<1>3. F \in [O -> Int]
  BY <1>2
<1> DEFINE covered(o) == countNights(Clip(o, w).from, Clip(o, w).to)
           correction(o) == IF covered(o) > 0 THEN (o.price - base) * covered(o) ELSE 0
           Rec(it) == it = [U \in SUBSET O |->
                              IF U = {} THEN 0
                              ELSE LET x == CHOOSE x \in U : TRUE
                                   IN correction(x) + it[U \ {x}]]
<1>4. ASSUME NEW o \in O PROVE correction(o) = F[o]
  <2>1. PICK a, b : /\ a = IF o.from > w.from THEN o.from ELSE w.from
                    /\ b = IF o.to < w.to THEN o.to ELSE w.to
    OBVIOUS
  <2>2. Clip(o, w) = [o EXCEPT !.from = a, !.to = b]
    BY <2>1 DEF Clip
  <2>3. Clip(o, w).from = a /\ Clip(o, w).to = b
    BY <2>2 DEF OverrideRows
  <2>4. covered(o) = Covered(o, w.from, w.to)
    BY <2>1, <2>3 DEF countNights, Covered
  <2> QED BY <2>4 DEF Correction
<1>5. ASSUME NEW it
      PROVE  Rec(it) <=> Recursion(it, F, O)
  <2> HIDE DEF correction
  <2>1. \A U \in SUBSET O : U # {} => correction(Chosen(U)) = F[Chosen(U)]
    BY <1>4 DEF Chosen
  <2>2. \A U \in SUBSET O :
          (IF U = {} THEN 0
           ELSE LET x == CHOOSE x \in U : TRUE IN correction(x) + it[U \ {x}])
          = IF U = {} THEN 0 ELSE F[Chosen(U)] + it[U \ {Chosen(U)}]
    BY <2>1 DEF Chosen
  <2> QED BY <2>2 DEF Recursion
<1>6. \E it : Rec(it)
  <2>1. PICK it : Recursion(it, F, O)
    BY <1>3, RecursionExists
  <2> HIDE DEF Rec
  <2> QED BY <1>5, <2>1
<1>7. PICK it : Rec(it) /\ quoteTotalIdr(base, w, O) = base * countNights(w.from, w.to) + it[O]
  BY <1>6 DEF quoteTotalIdr, MapThenSumSet, MapThenFoldSet
<1>8. Sums(it, F, O)
  <2> HIDE DEF Rec
  <2> QED BY <1>3, <1>5, <1>7, SumsByRecursion
<1> HIDE DEF Rec
<1> QED BY <1>3, <1>7, <1>8 DEF countNights

\* The reference is the sum of the prices of the nights.
LEMMA NightsAreASum ==
  ASSUME NEW O, NEW base, NEW w \in Spans,
         NEW F, F = [n \in Nights(w) |-> NightPrice(base, n, O)], F \in [Nights(w) -> Int]
  PROVE  \E g : Sums(g, F, Nights(w)) /\ NightByNight(base, w, O) = g[Nights(w)]
<1>1. w.from \in Int /\ w.to \in Int /\ IsFiniteSet(Nights(w))
  BY PricingAssumption, FS_Interval DEF Spans, Nights
<1> DEFINE Rec(it) == it = [U \in SUBSET Nights(w) |->
                              IF U = {} THEN 0
                              ELSE LET x == CHOOSE x \in U : TRUE
                                   IN NightPrice(base, x, O) + it[U \ {x}]]
<1>2. ASSUME NEW it
      PROVE  Rec(it) <=> Recursion(it, F, Nights(w))
  <2>1. \A U \in SUBSET Nights(w) : U # {} => F[Chosen(U)] = NightPrice(base, Chosen(U), O)
    BY DEF Chosen
  <2> QED BY <2>1 DEF Chosen, Recursion
<1>3. \E it : Rec(it)
  <2>1. PICK it : Recursion(it, F, Nights(w))
    BY <1>1, RecursionExists
  <2> HIDE DEF Rec
  <2> QED BY <1>2, <2>1
<1>4. PICK it : Rec(it) /\ NightByNight(base, w, O) = it[Nights(w)]
  BY <1>3 DEF NightByNight, MapThenSumSet, MapThenFoldSet
<1>5. Sums(it, F, Nights(w))
  <2> HIDE DEF Rec
  <2> QED BY <1>1, <1>2, <1>4, SumsByRecursion
<1> QED BY <1>4, <1>5

\* One more night costs the price of its override, if it has one.
LEMMA CorrectionGrows ==
  ASSUME NEW o \in OverrideRows, NEW base \in Nat, NEW from \in Int, NEW t \in Int, from <= t
  PROVE  Correction(o, base, from, t + 1) =
           Correction(o, base, from, t) + IF t \in Nights(o) THEN o.price - base ELSE 0
<1>1. o.from \in Int /\ o.to \in Int /\ o.price \in Int /\ base \in Int
  BY PricingAssumption DEF OverrideRows
<1>2. PICK c, d : c = Covered(o, from, t) /\ d = Covered(o, from, t + 1)
  OBVIOUS
<1>3. c \in Int /\ d \in Int
  BY <1>1, <1>2 DEF Covered
<1>4. t \in Nights(o) <=> o.from <= t /\ t < o.to
  BY <1>1 DEF Nights
<1>5. PICK e \in Int : e = o.price - base
  BY <1>1
<1>6. CASE o.from <= t /\ t < o.to
  <2>1. d = c + 1 /\ c >= 0
    BY <1>1, <1>2, <1>6 DEF Covered
  <2>2. e * (c + 1) = e * c + e /\ e * 0 = 0
    BY <1>3, <1>5
  <2>3. (IF d > 0 THEN e * d ELSE 0) = e * c + e
    BY <1>3, <2>1, <2>2
  <2>4. (IF c > 0 THEN e * c ELSE 0) = e * c
    BY <1>3, <2>1, <2>2
  <2> QED BY <1>2, <1>4, <1>5, <1>6, <2>3, <2>4 DEF Correction
<1>7. CASE t < o.from
  <2>1. ~(c > 0) /\ ~(d > 0)
    BY <1>1, <1>2, <1>7 DEF Covered
  <2> QED BY <1>1, <1>2, <1>4, <1>7, <2>1 DEF Correction
<1>8. CASE o.to <= t
  <2>1. c = d
    BY <1>1, <1>2, <1>8 DEF Covered
  <2>2. Correction(o, base, from, t) \in Int
    BY <1>2, <1>3, <1>5 DEF Correction
  <2>3. Correction(o, base, from, t + 1) = Correction(o, base, from, t)
    BY <1>2, <2>1 DEF Correction
  <2> QED BY <1>1, <1>4, <1>8, <2>2, <2>3
<1> QED BY <1>1, <1>6, <1>7, <1>8

\* Summands that differ at one element have sums that differ by as much.
LEMMA SumsDiffer ==
  ASSUME NEW S, IsFiniteSet(S), NEW F \in [S -> Int], NEW g, Sums(g, F, S),
         NEW G \in [S -> Int], NEW h, Sums(h, G, S),
         NEW x \in S, \A y \in S \ {x} : F[y] = G[y]
  PROVE  h[S] = g[S] + (G[x] - F[x])
<1>1. PICK U : U = S \ {x}
  OBVIOUS
<1>2. IsFiniteSet(U) /\ U \subseteq S
  BY <1>1, FS_Subset
<1>3. g[U] = h[U]
  BY <1>1, <1>2, SumsAgree
<1>4. g[S] = F[x] + g[U] /\ h[S] = G[x] + h[U]
  BY <1>1 DEF Sums
<1>5. g[U] \in Int /\ F[x] \in Int /\ G[x] \in Int
  BY <1>2 DEF Sums
<1> QED BY <1>3, <1>4, <1>5

Disjoint(O) == \A o, p \in O : o # p => ~Overlaps(o, p)

\* The correction of the base price by each override is the sum over the nights.
LEMMA TotalIsNightByNight ==
  ASSUME NEW O \in SUBSET OverrideRows, IsFiniteSet(O), Disjoint(O),
         NEW base \in Nat, NEW w \in Spans
  PROVE  quoteTotalIdr(base, w, O) = NightByNight(base, w, O)
<1>1. w.from \in Int /\ w.to \in Int /\ w.from < w.to
  BY PricingAssumption DEF Spans
<1>2. PICK from \in Int, N \in Nat : from = w.from /\ N = w.to - w.from /\ w.to = from + N
  BY <1>1
<1>3. Nights(w) = from .. from + N - 1
  BY <1>1, <1>2 DEF Nights
<1>4. \A o \in O : /\ o.from \in Int /\ o.to \in Int /\ o.price \in Int
                   /\ \A n \in Int : n \in Nights(o) <=> o.from <= n /\ n < o.to
  BY PricingAssumption DEF OverrideRows, Nights
<1>5. PICK P : P = [n \in Nights(w) |-> NightPrice(base, n, O)]
  OBVIOUS
<1>6. ASSUME NEW n \in Nights(w), NEW o \in O, n \in Nights(o) PROVE P[n] = o.price
  <2>1. n \in Int
    BY <1>3
  <2>2. PICK p \in O : p = CHOOSE r \in O : n \in Nights(r)
    BY <1>6
  <2>3. n \in Nights(p)
    BY <1>6, <2>2
  <2>4. o.from < p.to /\ p.from < o.to
    BY <1>4, <1>6, <2>1, <2>3
  <2>5. p = o
    BY <2>4 DEF Disjoint, Overlaps
  <2> QED BY <1>5, <1>6, <2>2, <2>5 DEF NightPrice
<1>7. ASSUME NEW n \in Nights(w), \A o \in O : n \notin Nights(o) PROVE P[n] = base
  BY <1>5, <1>7 DEF NightPrice
<1>8. P \in [Nights(w) -> Int]
  <2>1. ASSUME NEW n \in Nights(w) PROVE P[n] \in Int
    BY <1>4, <1>6, <1>7
  <2> QED BY <1>5, <2>1
<1>9. PICK h : Sums(h, P, Nights(w)) /\ NightByNight(base, w, O) = h[Nights(w)]
  BY <1>5, <1>8, NightsAreASum
<1> DEFINE C(k) == [o \in O |-> Correction(o, base, from, from + k)]
           Bad == {k \in Nat : /\ k <= N
                               /\ \E g : /\ Sums(g, C(k), O)
                                         /\ base * k + g[O] # h[from .. from + k - 1]}
<1>10. ASSUME NEW k \in Nat PROVE C(k) \in [O -> Int]
  <2>1. ASSUME NEW o \in O PROVE Correction(o, base, from, from + k) \in Int
    <3>1. Covered(o, from, from + k) \in Int
      BY <1>4 DEF Covered
    <3> QED BY <1>4, <3>1 DEF Correction
  <2> QED BY <2>1
<1>11. 0 \notin Bad
  <2>1. ASSUME NEW o \in O PROVE C(0)[o] = 0
    <3>1. ~(Covered(o, from, from + 0) > 0)
      BY <1>4 DEF Covered
    <3> QED BY <3>1 DEF Correction
  <2>2. PICK Z : Z = [o \in O |-> 0]
    OBVIOUS
  <2>3. PICK z : z = [U \in SUBSET O |-> 0]
    OBVIOUS
  <2>4. Sums(z, Z, O)
    <3>1. z \in [SUBSET O -> Int] /\ z[{}] = 0
      BY <2>3
    <3>2. ASSUME NEW U \in SUBSET O, NEW x \in U PROVE z[U] = Z[x] + z[U \ {x}]
      BY <2>2, <2>3
    <3> QED BY <3>1, <3>2 DEF Sums
  <2>5. ASSUME NEW g, Sums(g, C(0), O) PROVE g[O] = 0
    <3>1. PICK F : F = C(0)
      OBVIOUS
    <3>2. g[O] = z[O]
      BY <2>1, <2>2, <2>4, <2>5, <3>1, SumsAgree
    <3> QED BY <2>3, <3>2
  <2>6. from .. from + 0 - 1 = {} /\ h[{}] = 0
    BY <1>9 DEF Sums
  <2>7. base * 0 + 0 = 0
    OBVIOUS
  <2> HIDE DEF C
  <2> QED BY <2>5, <2>6, <2>7
<1>12. ASSUME NEW k \in Nat, k + 1 <= N, k \notin Bad PROVE k + 1 \notin Bad
  <2>1. PICK n \in Int : n = from + k
    OBVIOUS
  <2>2. n \in Nights(w)
    BY <1>3, <1>12, <2>1
  <2>3. PICK F : F = C(k)
    OBVIOUS
  <2>4. F \in [O -> Int]
    BY <1>10, <2>3
  <2>5. PICK g : Sums(g, F, O)
    BY <2>4, SumsExist
  <2>6. PICK W : W = from .. from + k - 1
    OBVIOUS
  <2>7. base * k + g[O] = h[W]
    <3>1. k <= N
      BY <1>12
    <3> HIDE DEF C
    <3> QED BY <1>12, <2>3, <2>5, <2>6, <3>1
  <2>8. PICK X : X = from .. from + (k + 1) - 1
    OBVIOUS
  <2>9. h[X] = P[n] + h[W]
    <3>1. X \in SUBSET Nights(w) /\ n \in X /\ X \ {n} = W
      BY <1>3, <1>12, <2>1, <2>6, <2>8
    <3> QED BY <1>9, <3>1 DEF Sums
  <2>10. PICK G : G = C(k + 1)
    OBVIOUS
  <2>11. G \in [O -> Int]
    BY <1>10, <2>10
  <2>12. ASSUME NEW o \in O
         PROVE  G[o] = F[o] + IF n \in Nights(o) THEN o.price - base ELSE 0
    <3>1. from <= n /\ from + (k + 1) = n + 1
      BY <2>1
    <3>2. F[o] = Correction(o, base, from, n) /\ G[o] = Correction(o, base, from, n + 1)
      BY <2>1, <2>3, <2>10, <3>1
    <3> QED BY <3>1, <3>2, CorrectionGrows
  <2>13. g[O] \in Int /\ \A o \in O : F[o] \in Int /\ G[o] \in Int
    BY <2>4, <2>5, <2>11 DEF Sums
  <2>14. ASSUME NEW u, Sums(u, G, O) PROVE base * (k + 1) + u[O] = h[X]
    <3>1. base * (k + 1) = base * k + base /\ base * k \in Int /\ base \in Int
      OBVIOUS
    <3>2. CASE \A o \in O : n \notin Nights(o)
      <4>1. u[O] = g[O]
        BY <2>5, <2>12, <2>13, <2>14, <3>2, SumsAgree
      <4>2. P[n] = base
        BY <1>7, <2>2, <3>2
      <4> QED BY <2>7, <2>9, <2>13, <3>1, <4>1, <4>2
    <3>3. CASE \E o \in O : n \in Nights(o)
      <4>1. PICK o \in O : n \in Nights(o)
        BY <3>3
      <4>2. P[n] = o.price /\ o.price \in Int
        BY <1>4, <1>6, <2>2, <4>1
      <4>3. ASSUME NEW p \in O \ {o} PROVE n \notin Nights(p)
        BY <1>4, <4>1, <4>3 DEF Disjoint, Overlaps
      <4>4. \A p \in O \ {o} : F[p] = G[p]
        BY <2>12, <2>13, <4>3
      <4>5. u[O] = g[O] + (G[o] - F[o])
        BY <2>4, <2>5, <2>11, <2>14, <4>4, SumsDiffer
      <4>6. G[o] = F[o] + (o.price - base)
        BY <2>12, <4>1
      <4>7. u[O] = g[O] + (o.price - base)
        BY <2>13, <3>1, <4>2, <4>5, <4>6
      <4> QED BY <2>7, <2>9, <2>13, <3>1, <4>2, <4>7
    <3> QED BY <3>2, <3>3
  <2> HIDE DEF C
  <2> QED BY <2>8, <2>10, <2>14
<1>13. Bad = {}
  <2> HIDE DEF C
  <2> SUFFICES ASSUME Bad # {} PROVE FALSE
    OBVIOUS
  <2>1. Min(Bad) \in Bad /\ \A k \in Bad : Min(Bad) <= k
    BY LeastNatural
  <2>2. PICK k \in Bad : \A i \in Bad : k <= i
    BY <2>1
  <2>3. k # 0 /\ k \in Nat /\ k <= N
    BY <1>11, <2>2
  <2>4. PICK i \in Nat : k = i + 1
    BY <2>3
  <2>5. i \notin Bad
    BY <2>2, <2>3, <2>4
  <2> HIDE DEF Bad
  <2> QED BY <1>12, <2>2, <2>3, <2>4, <2>5
<1>14. PICK g : Sums(g, C(N), O) /\ quoteTotalIdr(base, w, O) = base * N + g[O]
  <2>1. PICK F : F = C(N)
    OBVIOUS
  <2>2. F = [o \in O |-> Correction(o, base, w.from, w.to)]
    BY <1>2, <2>1
  <2>3. \E g : Sums(g, F, O) /\ quoteTotalIdr(base, w, O) = base * (w.to - w.from) + g[O]
    BY <2>2, TotalIsASum
  <2> HIDE DEF C
  <2> QED BY <1>2, <2>1, <2>3
<1>15. base * N + g[O] = h[from .. from + N - 1]
  <2> HIDE DEF C
  <2> QED BY <1>13, <1>14
<1> QED BY <1>3, <1>9, <1>14, <1>15

-----------------------------------------------------------------------------
(* The blocked ranges.                                                      *)

\* Spans that neither overlap nor touch.
Apart(E) == \A e, f \in E : e # f => e.to < f.from \/ f.to < e.from

\* The nights of E are those of S.
SameNights(E, S) ==
  \A n \in Int : (\E e \in E : e.from <= n /\ n < e.to) <=> (\E s \in S : s.from <= n /\ n < s.to)

\* The nights of a span are those from its first day to the one before its last.
LEMMA SpanBounds ==
  ASSUME NEW s \in Spans
  PROVE  /\ s.from \in Int /\ s.to \in Int /\ s.from < s.to
         /\ s = [from |-> s.from, to |-> s.to]
         /\ \A n \in Int : n \in Nights(s) <=> s.from <= n /\ n < s.to
         /\ s.from \in Nat /\ s.to \in Nat
         /\ Nights(s) \subseteq Int
BY PricingAssumption DEF Spans, Nights

\* A stay has as many nights as its days differ.
LEMMA NightsAreCounted ==
  ASSUME NEW s \in Spans
  PROVE  IsFiniteSet(Nights(s)) /\ Cardinality(Nights(s)) = s.to - s.from
<1>1. PICK a \in Int, b \in Int : a = s.from /\ b = s.to - 1
  BY SpanBounds
<1>2. s.from < s.to /\ s.to \in Int
  BY SpanBounds
<1>3. Nights(s) = a .. b
  BY <1>1 DEF Nights
<1>4. IsFiniteSet(a .. b) /\ Cardinality(a .. b) = IF a > b THEN 0 ELSE b - a + 1
  BY FS_Interval
<1> QED BY <1>1, <1>2, <1>3, <1>4

\* The blocked nights of the window are the occupied ones.
LEMMA BlockedAreTaken ==
  ASSUME NEW Occ \in SUBSET Spans, NEW w \in Spans, NEW n \in Int
  PROVE  (\E s \in findBlockedRanges(Occ, w) : s.from <= n /\ n < s.to)
           <=> n \in Nights(w) /\ \E s \in Occ : n \in Nights(s)
<1>1. ASSUME NEW t \in Occ
      PROVE  Clip(t, w).from <= n /\ n < Clip(t, w).to <=> n \in Nights(w) /\ n \in Nights(t)
  <2>1. PICK a, b : /\ a = IF t.from > w.from THEN t.from ELSE w.from
                    /\ b = IF t.to < w.to THEN t.to ELSE w.to
    OBVIOUS
  <2>2. Clip(t, w) = [t EXCEPT !.from = a, !.to = b]
    BY <2>1 DEF Clip
  <2>3. Clip(t, w).from = a /\ Clip(t, w).to = b
    BY <2>2 DEF Spans
  <2>4. a <= n /\ n < b <=> (w.from <= n /\ n < w.to) /\ (t.from <= n /\ n < t.to)
    BY <2>1, SpanBounds
  <2> QED BY <2>3, <2>4, SpanBounds
<1>2. ASSUME NEW t \in Occ, n \in Nights(w), n \in Nights(t) PROVE Overlaps(t, w)
  BY <1>2, SpanBounds DEF Overlaps
<1> QED BY <1>1, <1>2 DEF findBlockedRanges

\* Ranges that cover the taken nights and stay apart are the maximal runs.
LEMMA ApartMeansMaximal ==
  ASSUME NEW Occ \in SUBSET Spans, NEW w \in Spans, NEW E \in SUBSET Spans,
         Apart(E), SameNights(E, findBlockedRanges(Occ, w))
  PROVE  E = MaximalRuns(Occ, w)
<1> DEFINE taken1(n) == n \in Nights(w) /\ \E s \in Occ : n \in Nights(s)
<1>1. ASSUME NEW n \in Int PROVE taken1(n) <=> \E e \in E : e.from <= n /\ n < e.to
  BY BlockedAreTaken DEF SameNights
<1>2. MaximalRuns(Occ, w) =
        {r \in Spans : (\A n \in Nights(r) : taken1(n)) /\ ~taken1(r.from - 1) /\ ~taken1(r.to)}
  BY DEF MaximalRuns
<1> HIDE DEF taken1
<1>3. ASSUME NEW e \in E PROVE ~taken1(e.from - 1) /\ ~taken1(e.to)
  <2>1. e.from \in Int /\ e.to \in Int /\ e.from < e.to /\ e.from - 1 \in Int
    BY SpanBounds
  <2>2. ASSUME NEW f \in E
        PROVE  /\ ~(f.from <= e.from - 1 /\ e.from - 1 < f.to)
               /\ ~(f.from <= e.to /\ e.to < f.to)
    <3>1. f.from \in Int /\ f.to \in Int /\ f.from < f.to
      BY SpanBounds
    <3>2. f = e \/ e.to < f.from \/ f.to < e.from
      BY DEF Apart
    <3> QED BY <2>1, <3>1, <3>2
  <2> QED BY <1>1, <2>1, <2>2
<1>4. ASSUME NEW e \in E PROVE e \in MaximalRuns(Occ, w)
  <2>1. \A n \in Nights(e) : taken1(n)
    BY <1>1, SpanBounds
  <2> QED BY <1>2, <1>3, <2>1
<1>5. ASSUME NEW r \in MaximalRuns(Occ, w) PROVE r \in E
  <2>1. r \in Spans /\ (\A n \in Nights(r) : taken1(n)) /\ ~taken1(r.from - 1) /\ ~taken1(r.to)
    BY <1>2
  <2>2. r.from \in Int /\ r.to \in Int /\ r.from < r.to /\ r = [from |-> r.from, to |-> r.to]
        /\ \A n \in Int : r.from <= n /\ n < r.to => taken1(n)
    BY <2>1, SpanBounds
  <2>3. PICK e \in E : e.from <= r.from /\ r.from < e.to
    BY <1>1, <2>2
  <2>4. e.from \in Int /\ e.to \in Int /\ e = [from |-> e.from, to |-> e.to]
    BY SpanBounds
  <2>5. ~(e.from < r.from)
    <3>1. ~(e.from <= r.from - 1 /\ r.from - 1 < e.to)
      BY <1>1, <2>1, <2>2
    <3> QED BY <2>2, <2>3, <2>4, <3>1
  <2>6. ~(r.to < e.to)
    <3>1. ~(e.from <= r.to /\ r.to < e.to)
      BY <1>1, <2>1, <2>2
    <3> QED BY <2>2, <2>3, <2>4, <3>1
  <2>7. ~(e.to < r.to)
    <3>1. ~taken1(e.to)
      BY <1>3
    <3> QED BY <2>2, <2>3, <2>4, <3>1
  <2>8. e.from = r.from /\ e.to = r.to
    BY <2>2, <2>3, <2>4, <2>5, <2>6, <2>7
  <2> QED BY <2>2, <2>4, <2>8
<1> QED BY <1>4, <1>5

-----------------------------------------------------------------------------
Elements(m) == {m[i] : i \in DOMAIN m}

\* What the merge has made of the ranges before the i-th: they are in order, apart, and
\* none begins after the last of those ranges.
MergedUpTo(m, sq, i) ==
  /\ m \in Seq(Spans) /\ (m = <<>> <=> i = 0)
  /\ \A a, b \in DOMAIN m : a < b => m[a].to < m[b].from
  /\ \A a \in DOMAIN m : i # 0 /\ m[a].from <= sq[i].from
  /\ SameNights(Elements(m), {sq[j] : j \in 1 .. i})

LEMMA MergeTurn ==
  ASSUME NEW n \in Nat, NEW sq \in [1 .. n -> Spans],
         \A i, j \in 1 .. n : i < j => sq[i].from <= sq[j].from,
         NEW i \in 1 .. n, NEW m, MergedUpTo(m, sq, i - 1)
  PROVE  MergedUpTo(Merge(m, sq[i]), sq, i)
<1>1. PICK r \in Spans : r = sq[i]
  OBVIOUS
<1>2. PICK L \in Nat : L = Len(m) /\ DOMAIN m = 1 .. L
  BY DEF MergedUpTo
<1>3. i \in Nat /\ i # 0 /\ i - 1 \in Nat
  OBVIOUS
<1>4. /\ m \in Seq(Spans) /\ \A a \in 1 .. L : m[a] \in Spans
      /\ \A a, b \in 1 .. L : a < b => m[a].to < m[b].from
  BY <1>2 DEF MergedUpTo
<1>5. \A a \in 1 .. L : m[a].from <= r.from
  <2>1. ASSUME NEW a \in 1 .. L PROVE m[a].from <= r.from
    <3>1. i - 1 # 0 /\ m[a].from <= sq[i - 1].from
      BY <1>2, <1>3 DEF MergedUpTo
    <3>2. i - 1 \in 1 .. n
      BY <1>3, <3>1
    <3>3. sq[i - 1].from <= sq[i].from
      BY <1>3, <3>2
    <3> QED BY <1>1, <1>4, <3>1, <3>2, <3>3, SpanBounds
  <2> QED BY <2>1
<1>6. ASSUME NEW x \in Int
      PROVE  (\E j \in 1 .. i : sq[j].from <= x /\ x < sq[j].to)
               <=> \/ \E a \in 1 .. L : m[a].from <= x /\ x < m[a].to
                   \/ r.from <= x /\ x < r.to
  <2>1. (\E a \in 1 .. L : m[a].from <= x /\ x < m[a].to)
          <=> \E j \in 1 .. (i - 1) : sq[j].from <= x /\ x < sq[j].to
    BY <1>2, <1>3 DEF MergedUpTo, SameNights, Elements
  <2>2. 1 .. i = (1 .. (i - 1)) \cup {i}
    BY <1>3
  <2> QED BY <1>1, <2>1, <2>2
<1>7. CASE m # <<>> /\ r.from <= Last(m).to
  <2>1. L \in 1 .. L /\ Last(m) = m[L]
    BY <1>2, <1>4, <1>7 DEF Last
  <2>2. PICK l \in Spans : l = m[L]
    BY <1>4, <2>1
  <2>3. PICK e : e = [l EXCEPT !.to = IF r.to > l.to THEN r.to ELSE l.to]
    OBVIOUS
  <2>4. PICK new : new = Merge(m, r)
    OBVIOUS
  <2>5. new = [m EXCEPT ![L] = e]
    BY <1>2, <1>7, <2>2, <2>3, <2>4 DEF Merge
  <2>6. e \in Spans /\ e.from = l.from /\ e.to = IF r.to > l.to THEN r.to ELSE l.to
    BY <2>3, SpanBounds DEF Spans
  <2>7. /\ DOMAIN new = 1 .. L /\ new \in Seq(Spans) /\ new # <<>>
        /\ \A a \in 1 .. L : new[a] = IF a = L THEN e ELSE m[a]
    BY <1>2, <1>4, <1>7, <2>1, <2>5, <2>6
  <2>8. /\ l.from \in Int /\ l.to \in Int /\ l.from < l.to
        /\ r.from \in Int /\ r.to \in Int /\ r.from < r.to
        /\ l.from <= r.from /\ r.from <= l.to
    BY <1>5, <1>7, <2>1, <2>2, SpanBounds
  <2>9. ASSUME NEW a \in 1 .. L, NEW b \in 1 .. L, a < b PROVE new[a].to < new[b].from
    <3>1. a # L /\ new[a] = m[a] /\ new[b].from = m[b].from
      BY <2>2, <2>6, <2>7, <2>9
    <3> QED BY <1>4, <2>9, <3>1
  <2>10. ASSUME NEW a \in 1 .. L PROVE new[a].from <= r.from
    BY <1>5, <2>2, <2>6, <2>7, <2>8
  <2>11. ASSUME NEW x \in Int
         PROVE  (\E a \in 1 .. L : new[a].from <= x /\ x < new[a].to)
                  <=> \/ \E a \in 1 .. L : m[a].from <= x /\ x < m[a].to
                      \/ r.from <= x /\ x < r.to
    <3>1. e.from <= x /\ x < e.to <=> (l.from <= x /\ x < l.to) \/ (r.from <= x /\ x < r.to)
      BY <2>6, <2>8
    <3>2. \A a \in 1 .. L : a # L => new[a] = m[a]
      BY <2>7
    <3>3. new[L] = e /\ m[L] = l
      BY <2>1, <2>2, <2>7
    <3> QED BY <2>1, <3>1, <3>2, <3>3
  <2>12. SameNights(Elements(new), {sq[j] : j \in 1 .. i})
    BY <1>6, <2>7, <2>11 DEF SameNights, Elements
  <2> QED BY <1>1, <1>3, <2>4, <2>7, <2>9, <2>10, <2>12 DEF MergedUpTo
<1>8. CASE ~(m # <<>> /\ r.from <= Last(m).to)
  <2>1. PICK new : new = Append(m, r)
    OBVIOUS
  <2>2. Merge(m, r) = new
    BY <1>8, <2>1 DEF Merge
  <2>3. /\ DOMAIN new = 1 .. L + 1 /\ new \in Seq(Spans) /\ new # <<>>
        /\ new[L + 1] = r /\ \A a \in 1 .. L : new[a] = m[a]
    BY <1>2, <1>4, <2>1
  <2>4. ASSUME NEW a \in 1 .. L PROVE m[a].to < r.from
    <3>1. L \in 1 .. L /\ m # <<>>
      BY <1>2, <1>4
    <3>2. Last(m) = m[L]
      BY <1>2 DEF Last
    <3>3. m[L].to < r.from
      BY <1>4, <1>8, <3>1, <3>2, SpanBounds
    <3>4. CASE a # L
      <4>1. PICK p \in Spans, q \in Spans : p = m[a] /\ q = m[L]
        BY <1>4, <3>1
      <4>2. a < L
        BY <3>1, <3>4
      <4>3. p.to < q.from
        BY <1>4, <3>1, <4>1, <4>2
      <4>4. p.to < q.from /\ q.from < q.to /\ q.to < r.from
        BY <3>3, <4>1, <4>3, SpanBounds
      <4>5. p.to \in Int /\ q.from \in Int /\ q.to \in Int /\ r.from \in Int
        BY SpanBounds
      <4> QED BY <4>1, <4>4, <4>5
    <3> QED BY <3>3, <3>4
  <2>5. ASSUME NEW a \in 1 .. L + 1, NEW b \in 1 .. L + 1, a < b PROVE new[a].to < new[b].from
    <3>1. a \in 1 .. L /\ (b = L + 1 \/ b \in 1 .. L)
      BY <2>5
    <3> QED BY <1>4, <2>3, <2>4, <2>5, <3>1
  <2>6. ASSUME NEW a \in 1 .. L + 1 PROVE new[a].from <= r.from
    <3>1. a = L + 1 \/ a \in 1 .. L
      OBVIOUS
    <3>2. r.from <= r.from
      BY SpanBounds
    <3> QED BY <1>5, <2>3, <3>1, <3>2
  <2>7. ASSUME NEW x \in Int
        PROVE  (\E a \in 1 .. L + 1 : new[a].from <= x /\ x < new[a].to)
                 <=> \/ \E a \in 1 .. L : m[a].from <= x /\ x < m[a].to
                     \/ r.from <= x /\ x < r.to
    <3>1. \A a : a \in 1 .. L + 1 <=> a = L + 1 \/ a \in 1 .. L
      OBVIOUS
    <3> QED BY <2>3, <3>1
  <2>8. SameNights(Elements(new), {sq[j] : j \in 1 .. i})
    BY <1>6, <2>3, <2>7 DEF SameNights, Elements
  <2> QED BY <1>1, <1>3, <2>2, <2>3, <2>5, <2>6, <2>8 DEF MergedUpTo
<1> QED BY <1>1, <1>7, <1>8

\* The ranges that the page gets are the maximal runs of taken nights.
LEMMA RangesAreMaximalRuns ==
  ASSUME NEW Occ \in SUBSET Spans, NEW w \in Spans
  PROVE  Elements(coalesceRanges(findBlockedRanges(Occ, w))) = MaximalRuns(Occ, w)
<1>1. PICK S : S = findBlockedRanges(Occ, w)
  OBVIOUS
<1>2. S \in SUBSET Spans
  BY <1>1, ClipsAreSpans DEF findBlockedRanges
<1>3. IsFiniteSet(S) /\ \A r \in S : r.from \in Nat
  BY <1>2, SpansAreFinite, FS_Subset, SpanBounds
<1>4. PICK n \in Nat : n = Cardinality(S)
  BY <1>3, FS_CardinalityType
<1>5. PICK sq : sq = InOrder(S)
  OBVIOUS
<1>6. /\ sq \in [1 .. n -> S] /\ \A i, j \in 1 .. n : sq[i] = sq[j] => i = j
      /\ \A i, j \in 1 .. n : i < j => sq[i].from <= sq[j].from
  BY <1>3, <1>4, <1>5, RangesCanBeSorted DEF Sorted, IsInjective
<1>7. CASE n <= 1
  <2>1. \E f \in [1 .. Cardinality(S) -> S] : IsInjective(f)
    BY <1>4, <1>6 DEF IsInjective
  <2>2. PICK f \in [1 .. n -> S] : f = coalesceRanges(S) /\ IsInjective(f)
    BY <1>4, <1>7, <2>1 DEF coalesceRanges, SetToSeq
  <2>3. Elements(f) = S /\ \A r, s \in S : r = s
    <3>1. CASE n = 0
      BY <1>3, <1>4, <3>1, FS_EmptySet DEF Elements
    <3>2. CASE n = 1
      <4>1. PICK x : S = {x}
        BY <1>3, <1>4, <3>2, FS_Singleton
      <4> QED BY <2>2, <3>2, <4>1 DEF Elements
    <3> QED BY <1>7, <3>1, <3>2
  <2>4. Apart(S) /\ SameNights(S, S)
    BY <2>3 DEF Apart, SameNights
  <2> QED BY <1>1, <1>2, <2>2, <2>3, <2>4, ApartMeansMaximal
<1>8. CASE ~(n <= 1)
  <2>1. PICK m : /\ m[0] = <<>> /\ FoldLeft(Merge, <<>>, sq) = m[n]
                 /\ \A i \in 1 .. n : m[i] = Merge(m[i - 1], sq[i])
    <3>1. DOMAIN sq = 1 .. n
      BY <1>6
    <3> QED BY ZenonT(60), <3>1, MergesInTurns
  <2> DEFINE Bad == {i \in Nat : i <= n /\ ~MergedUpTo(m[i], sq, i)}
  <2>2. sq \in [1 .. n -> Spans]
    BY <1>2, <1>6
  <2>3. 0 \notin Bad
    <3>1. Elements(<<>>) = {} /\ {sq[j] : j \in 1 .. 0} = {} /\ DOMAIN <<>> = {}
      BY DEF Elements
    <3>2. SameNights(Elements(<<>>), {sq[j] : j \in 1 .. 0})
      BY <3>1 DEF SameNights
    <3>3. MergedUpTo(<<>>, sq, 0)
      BY <3>1, <3>2 DEF MergedUpTo
    <3> QED BY <2>1, <3>3
  <2>4. ASSUME NEW i \in 1 .. n, i - 1 \notin Bad PROVE i \notin Bad
    <3>1. i - 1 \in Nat /\ i - 1 <= n
      OBVIOUS
    <3>2. MergedUpTo(m[i - 1], sq, i - 1)
      BY <2>4, <3>1
    <3>3. PICK p : p = m[i - 1]
      OBVIOUS
    <3>4. MergedUpTo(Merge(p, sq[i]), sq, i)
      BY <1>6, <2>2, <3>2, <3>3, MergeTurn
    <3>5. m[i] = Merge(p, sq[i])
      BY <2>1, <3>3
    <3> QED BY <3>4, <3>5
  <2>5. Bad = {}
    <3> SUFFICES ASSUME Bad # {} PROVE FALSE
      OBVIOUS
    <3>1. Min(Bad) \in Bad /\ \A i \in Bad : Min(Bad) <= i
      BY LeastNatural
    <3>2. PICK k \in Bad : \A i \in Bad : k <= i
      BY <3>1
    <3>3. k \in 1 .. n /\ k - 1 \in Nat
      BY <2>3, <3>2
    <3>4. k - 1 \notin Bad
      BY <3>2, <3>3
    <3> HIDE DEF Bad
    <3> QED BY <2>4, <3>2, <3>3, <3>4
  <2>6. MergedUpTo(m[n], sq, n)
    BY <2>5
  <2>7. PICK M : M = m[n]
    OBVIOUS
  <2>8. coalesceRanges(S) = M
    BY <1>4, <1>5, <1>8, <2>1, <2>7 DEF coalesceRanges
  <2>9. PICK E : E = Elements(M)
    OBVIOUS
  <2>10. PICK L \in Nat : DOMAIN M = 1 .. L /\ \A a \in 1 .. L : M[a] \in Spans
    BY <2>6, <2>7 DEF MergedUpTo
  <2>11. E \in SUBSET Spans
    BY <2>9, <2>10 DEF Elements
  <2>12. Apart(E)
    <3>1. ASSUME NEW a \in 1 .. L, NEW b \in 1 .. L, M[a] # M[b]
          PROVE  M[a].to < M[b].from \/ M[b].to < M[a].from
      <4>1. a < b \/ b < a
        BY <3>1
      <4> QED BY <2>6, <2>7, <2>10, <4>1 DEF MergedUpTo
    <3> QED BY <2>9, <2>10, <3>1 DEF Apart, Elements
  <2>13. {sq[j] : j \in 1 .. n} = S
    <3>1. PICK R : R = {sq[j] : j \in 1 .. n}
      OBVIOUS
    <3>2. sq \in [1 .. n -> R] /\ \A r \in R : \E j \in 1 .. n : sq[j] = r
      BY <1>6, <3>1
    <3>3. sq \in Bijection(1 .. n, R)
      <4>1. sq \in Injection(1 .. n, R)
        BY <1>6, <3>2 DEF Injection, IsInjective
      <4>2. sq \in Surjection(1 .. n, R)
        BY <3>2 DEF Surjection
      <4> QED BY <4>1, <4>2 DEF Bijection
    <3>4. Cardinality(R) = n
      <4>1. IsFiniteSet(1 .. n) /\ Cardinality(1 .. n) = n
        BY FS_Interval
      <4>2. IsFiniteSet(R)
        BY <1>3, <1>6, <3>1, FS_Subset
      <4> QED BY <3>3, <4>1, <4>2, FS_Bijection DEF ExistsBijection
    <3>5. R \subseteq S
      BY <1>6, <3>1
    <3> QED BY <1>3, <1>4, <3>1, <3>4, <3>5, FS_Subset
  <2>14. SameNights(E, S)
    BY <2>6, <2>7, <2>9, <2>13 DEF MergedUpTo
  <2> QED BY <1>1, <2>8, <2>9, <2>11, <2>12, <2>14, ApartMeansMaximal
<1> QED BY <1>4, <1>7, <1>8

-----------------------------------------------------------------------------
\* No night has two prices, whatever overrides are added at once.
PricesAreDisjoint == IsFiniteSet(overrides) /\ Disjoint(overrides)

LEMMA DisjointStep ==
  ASSUME PricesAreDisjoint, [Next]_vars
  PROVE  PricesAreDisjoint'
<1>1. ASSUME NEW row \in adding, InsertOverride(row) PROVE PricesAreDisjoint'
  <2>1. CASE ~ConstraintHolds(row)
    BY <1>1, <2>1 DEF InsertOverride, PricesAreDisjoint
  <2>2. CASE ConstraintHolds(row)
    <3>1. overrides' = overrides \cup {row}
      BY <1>1, <2>2 DEF InsertOverride
    <3>2. \A p \in overrides : ~Overlaps(p, row) /\ ~Overlaps(row, p)
      BY <2>2 DEF ConstraintHolds, Overlaps
    <3>3. IsFiniteSet(overrides \cup {row})
      BY FS_AddElement DEF PricesAreDisjoint
    <3> QED BY <3>1, <3>2, <3>3 DEF PricesAreDisjoint, Disjoint
  <2> QED BY <2>1, <2>2
<1>2. ASSUME overrides' \subseteq overrides PROVE PricesAreDisjoint'
  BY <1>2, FS_Subset DEF PricesAreDisjoint, Disjoint
<1>3. overrides' \subseteq overrides \/ \E row \in adding : InsertOverride(row)
  BY DEF Next, vars, serverVars, GuestActs, Select, Refetch, Book, BackToPicker, Reload,
         RetryKit, Submit, RetryPayment, GuestPays, Return, BackFromProvider, Fails,
         QuoteFails, KitFails, CreateFails, Refused, PayFails, PollFails, Runs, Settle,
         RefetchProperty, KitLoads, PayAnswers, CountdownEnds, Poll, GoStale, QuoteAnswers,
         CreateReadsUnit, CreateDecides, CreateCommits, SweepHolds, HoldLapses, Webhook,
         OwnerActs, EditUnit, EditWhileRunning, Edit, ArchiveUnit, RemoveUnit, SetGateway,
         CheckOverride, RemoveOverride, OtherBooks, OwnerCancels
<1> QED BY <1>1, <1>2, <1>3

\* Two sets of overrides that price every night alike price the stay alike.
LEMMA SamePricesSameSum ==
  ASSUME NEW O, NEW D, NEW base, NEW w \in Spans,
         \A n \in Nights(w) : /\ NightPrice(base, n, O) \in Int
                              /\ NightPrice(base, n, D) = NightPrice(base, n, O)
  PROVE  NightByNight(base, w, D) = NightByNight(base, w, O)
<1>1. PICK P : P = [n \in Nights(w) |-> NightPrice(base, n, O)]
  OBVIOUS
<1>2. P \in [Nights(w) -> Int]
  BY <1>1
<1>3. P = [n \in Nights(w) |-> NightPrice(base, n, D)]
  BY <1>1
<1>4. PICK g : Sums(g, P, Nights(w)) /\ NightByNight(base, w, O) = g[Nights(w)]
  BY <1>1, <1>2, NightsAreASum
<1>5. PICK h : Sums(h, P, Nights(w)) /\ NightByNight(base, w, D) = h[Nights(w)]
  BY <1>2, <1>3, NightsAreASum
<1>6. PICK N : N = Nights(w)
  OBVIOUS
<1>7. IsFiniteSet(N) /\ Sums(g, P, N) /\ Sums(h, P, N)
  BY <1>4, <1>5, <1>6, NightsAreCounted
<1>8. g[N] = h[N]
  BY <1>7, SumsAgree
<1> QED BY <1>4, <1>5, <1>6, <1>8

\* The overrides of a stay, each clipped to it.
ClipsOf(O, w) == {Clip(o, w) : o \in {p \in O : Overlaps(p, w)}}

\* The price of a stay from its clipped overrides is the price from all of them.
LEMMA ClippingKeepsThePrice ==
  ASSUME NEW O \in SUBSET OverrideRows, IsFiniteSet(O), Disjoint(O),
         NEW base \in Nat, NEW w \in Spans,
         NEW C, C = ClipsOf(O, w)
  PROVE  /\ C \in SUBSET OverrideRows /\ IsFiniteSet(C) /\ Disjoint(C)
         /\ NightByNight(base, w, C) = NightByNight(base, w, O)
<1>1. PICK K : K = {p \in O : Overlaps(p, w)} /\ C = {Clip(o, w) : o \in K}
  BY DEF ClipsOf
<1>2. /\ w.from \in Int /\ w.to \in Int /\ w.from \in 0 .. LastDay /\ w.to \in 0 .. LastDay
      /\ w.from < w.to /\ LastDay \in Nat
      /\ \A n : n \in Nights(w) <=> n \in Int /\ w.from <= n /\ n < w.to
  BY PricingAssumption DEF Spans, Nights
<1>3. ASSUME NEW o \in OverrideRows
      PROVE  /\ Clip(o, w) \in OverrideRows /\ Clip(o, w).price = o.price
             /\ Clip(o, w).from = IF o.from > w.from THEN o.from ELSE w.from
             /\ Clip(o, w).to = IF o.to < w.to THEN o.to ELSE w.to
             /\ o.from \in Int /\ o.to \in Int /\ o.price \in Int
             /\ \A n \in Int : n \in Nights(o) <=> o.from <= n /\ n < o.to
  <2>1. PICK a, b : /\ a = IF o.from > w.from THEN o.from ELSE w.from
                    /\ b = IF o.to < w.to THEN o.to ELSE w.to
    OBVIOUS
  <2>2. Clip(o, w) = [o EXCEPT !.from = a, !.to = b]
    BY <2>1 DEF Clip
  <2>3. a \in 0 .. LastDay /\ b \in 0 .. LastDay
    BY <1>2, <2>1 DEF OverrideRows
  <2>4. Clip(o, w) = [from |-> a, to |-> b, price |-> o.price]
    BY <2>2 DEF OverrideRows
  <2> QED BY <1>2, <2>1, <2>3, <2>4 DEF OverrideRows, Nights
<1>4. C \in SUBSET OverrideRows
  BY <1>1, <1>3
<1>5. IsFiniteSet(C)
  <2>1. PICK f : f = [o \in K |-> Clip(o, w)]
    OBVIOUS
  <2>2. f \in Surjection(K, C)
    BY <1>1, <2>1 DEF Surjection
  <2>3. IsFiniteSet(K)
    BY <1>1, FS_Subset
  <2> QED BY <2>2, <2>3, FS_Surjection
<1>6. ASSUME NEW o \in K, NEW p \in K, o # p PROVE ~Overlaps(Clip(o, w), Clip(p, w))
  <2>1. ~(o.from < p.to /\ p.from < o.to) /\ o \in OverrideRows /\ p \in OverrideRows
    BY <1>1, <1>6 DEF Disjoint, Overlaps
  <2>2. ~(Clip(o, w).from < Clip(p, w).to /\ Clip(p, w).from < Clip(o, w).to)
    BY <1>2, <1>3, <2>1
  <2> QED BY <2>2 DEF Overlaps
<1>7. Disjoint(C)
  BY <1>1, <1>6 DEF Disjoint
<1>8. ASSUME NEW n \in Nights(w), NEW o \in O
      PROVE  n \in Nights(o) <=> o \in K /\ n \in Nights(Clip(o, w))
  <2>1. o \in OverrideRows /\ Clip(o, w) \in OverrideRows
    BY <1>3
  <2>2. /\ Clip(o, w).from = IF o.from > w.from THEN o.from ELSE w.from
        /\ Clip(o, w).to = IF o.to < w.to THEN o.to ELSE w.to
        /\ o.from \in Int /\ o.to \in Int
        /\ n \in Nights(o) <=> o.from <= n /\ n < o.to
        /\ n \in Nights(Clip(o, w)) <=> Clip(o, w).from <= n /\ n < Clip(o, w).to
    BY <1>2, <1>3, <2>1
  <2>3. o \in K <=> o.from < w.to /\ w.from < o.to
    BY <1>1 DEF Overlaps
  <2> QED BY <1>2, <2>2, <2>3
<1>9. ASSUME NEW n \in Nights(w) PROVE NightPrice(base, n, C) = NightPrice(base, n, O)
  <2>1. CASE \A o \in O : n \notin Nights(o)
    <3>1. \A c \in C : n \notin Nights(c)
      BY <1>1, <1>8, <2>1
    <3> QED BY <2>1, <3>1 DEF NightPrice
  <2>2. CASE \E o \in O : n \in Nights(o)
    <3>1. PICK o \in O : o = CHOOSE p \in O : n \in Nights(p)
      BY <2>2
    <3>2. n \in Nights(o) /\ NightPrice(base, n, O) = o.price
      BY <2>2, <3>1 DEF NightPrice
    <3>3. \E c \in C : n \in Nights(c)
      BY <1>1, <1>8, <3>2
    <3>4. PICK c \in C : c = CHOOSE d \in C : n \in Nights(d)
      BY <3>3
    <3>5. n \in Nights(c) /\ NightPrice(base, n, C) = c.price
      BY <3>3, <3>4 DEF NightPrice
    <3>6. PICK p \in K : c = Clip(p, w)
      BY <1>1
    <3>7. n \in Nights(p) /\ p \in O
      BY <1>1, <1>8, <3>5, <3>6
    <3>8. p = o
      <4>1. p.from < o.to /\ o.from < p.to
        BY <1>2, <1>3, <3>2, <3>7
      <4> QED BY <3>7, <4>1 DEF Disjoint, Overlaps
    <3> QED BY <1>3, <3>2, <3>5, <3>6, <3>8
  <2> QED BY <2>1, <2>2
<1>10. NightByNight(base, w, C) = NightByNight(base, w, O)
  <2>1. ASSUME NEW n \in Nights(w) PROVE NightPrice(base, n, O) \in Int
    <3>1. CASE \E o \in O : n \in Nights(o)
      <4>1. PICK o \in O : o = CHOOSE p \in O : n \in Nights(p)
        BY <3>1
      <4> QED BY <1>3, <3>1, <4>1 DEF NightPrice
    <3>2. CASE ~\E o \in O : n \in Nights(o)
      BY <3>2 DEF NightPrice
    <3> QED BY <3>1, <3>2
  <2> QED BY <1>9, <2>1, SamePricesSameSum
<1> QED BY <1>1, <1>4, <1>5, <1>7, <1>10

\* What a quote at a base price says of the rows, night by night.
LEMMA QuotesAreRight ==
  ASSUME OwnerTyped, PricesAreDisjoint, NEW T, NEW rows \in Seq(BookingOver(T)),
         NEW w \in Spans, NEW base \in Nat, NEW minStay \in Nat,
         NEW q, q = quote(rows, w, base, minStay)
  PROVE  /\ q.total = NightByNight(base, w, overrides)
         /\ q.available <=> /\ \A t \in OccupiedBy(rows) : Nights(w) \cap Nights(t) = {}
                            /\ Cardinality(Nights(w)) >= minStay
<1>1. PICK O : O = overrides
  OBVIOUS
<1>2. O \in SUBSET OverrideRows /\ IsFiniteSet(O) /\ Disjoint(O)
  BY <1>1, FunnelAssumption DEF OwnerTyped, PricesAreDisjoint, OverrideRows
<1>3. PICK C : C = Priced(w)
  OBVIOUS
<1>4. C = ClipsOf(O, w)
  BY <1>1, <1>3 DEF Priced, ClipsOf
<1>5. /\ q.total = quoteTotalIdr(base, w, C)
      /\ q.available <=> /\ \A t \in OccupiedBy(rows) : ~Overlaps(t, w)
                         /\ meetsMinStay(countNights(w.from, w.to), minStay)
  BY <1>3, QuoteFacts
<1>6. q.total = NightByNight(base, w, O)
  <2>1. /\ C \in SUBSET OverrideRows /\ IsFiniteSet(C) /\ Disjoint(C)
        /\ NightByNight(base, w, C) = NightByNight(base, w, O)
    BY <1>2, <1>4, ClippingKeepsThePrice
  <2>2. quoteTotalIdr(base, w, C) = NightByNight(base, w, C)
    BY <2>1, TotalIsNightByNight
  <2> QED BY <1>5, <2>1, <2>2
<1>7. OccupiedBy(rows) \in SUBSET Spans
  <2>1. \A b \in DOMAIN rows : rows[b] \in BookingOver(T)
    OBVIOUS
  <2>2. \A b \in DOMAIN rows : rows[b].stay \in Spans
    BY <2>1, FunnelAssumption DEF BookingOver
  <2> QED BY <2>2 DEF OwnerTyped, OccupiedBy
<1>8. ASSUME NEW t \in Spans PROVE ~Overlaps(t, w) <=> Nights(w) \cap Nights(t) = {}
  <2>1. /\ t.from \in Int /\ t.to \in Int /\ t.from < t.to
        /\ w.from \in Int /\ w.to \in Int /\ w.from < w.to
        /\ Nights(t) \subseteq Int /\ Nights(w) \subseteq Int
        /\ \A n \in Int : n \in Nights(t) <=> t.from <= n /\ n < t.to
        /\ \A n \in Int : n \in Nights(w) <=> w.from <= n /\ n < w.to
    BY SpanBounds
  <2>2. ASSUME Overlaps(t, w) PROVE Nights(w) \cap Nights(t) # {}
    <3>1. PICK n \in Int : n = IF t.from > w.from THEN t.from ELSE w.from
      BY <2>1
    <3>2. n \in Nights(w) /\ n \in Nights(t)
      BY <2>1, <2>2, <3>1 DEF Overlaps
    <3> QED BY <3>2
  <2>3. ASSUME ~Overlaps(t, w) PROVE Nights(w) \cap Nights(t) = {}
    BY <2>1, <2>3 DEF Overlaps
  <2> QED BY <2>2, <2>3
<1>9. meetsMinStay(countNights(w.from, w.to), minStay) <=> Cardinality(Nights(w)) >= minStay
  <2>1. w.from \in Int /\ w.to - 1 \in Int /\ w.from < w.to /\ w.to \in Int
    BY SpanBounds
  <2>2. Cardinality(Nights(w)) = w.to - w.from
    BY NightsAreCounted
  <2> QED BY <2>2 DEF meetsMinStay, countNights
<1> QED BY <1>1, <1>5, <1>6, <1>7, <1>8, <1>9

LEMMA PricesStayDisjoint == Spec => []PricesAreDisjoint
<1>1. Init => PricesAreDisjoint
  BY FS_EmptySet DEF Init, PricesAreDisjoint, Disjoint
<1>2. PricesAreDisjoint /\ [Next]_vars => PricesAreDisjoint'
  BY DisjointStep
<1> QED BY <1>1, <1>2, PTL DEF Spec

\* Every window is quoted at the sum of its nights and offered exactly when they are
\* free, and its blocked ranges are the maximal runs of taken nights, whatever edits
\* and bookings race.
THEOREM QuotesAddUp == Spec => []QuoteArithmetic
<1>1. FunnelProtocol /\ PricesAreDisjoint => QuoteArithmetic
  <2> SUFFICES ASSUME FunnelProtocol, PricesAreDisjoint, NEW w \in Spans,
                      NEW q, q = quote(mine, w, unit.base, unit.minStay)
               PROVE  /\ q.total = NightByNight(unit.base, w, overrides)
                      /\ q.available <=>
                           /\ \A t \in OccupiedBy(mine) : Nights(w) \cap Nights(t) = {}
                           /\ Cardinality(Nights(w)) >= unit.minStay
                      /\ Elements(coalesceRanges(findBlockedRanges(OccupiedBy(mine), w)))
                           = MaximalRuns(OccupiedBy(mine), w)
    BY DEF QuoteArithmetic, Elements
  <2>1. PICK T : mine \in Seq(BookingOver(T))
    BY DEF FunnelProtocol, TypedOver
  <2>2. PICK base \in Nat, minStay \in Nat : base = unit.base /\ minStay = unit.minStay
    BY FunnelAssumption DEF FunnelProtocol, OwnerTyped
  <2>3. /\ q.total = NightByNight(base, w, overrides)
        /\ q.available <=> /\ \A t \in OccupiedBy(mine) : Nights(w) \cap Nights(t) = {}
                           /\ Cardinality(Nights(w)) >= minStay
    <3>1. OwnerTyped
      BY DEF FunnelProtocol
    <3>2. PICK rows \in Seq(BookingOver(T)) : rows = mine
      BY <2>1
    <3> QED BY <2>2, <3>1, <3>2, QuotesAreRight
  <2>4. PICK Occ : Occ = OccupiedBy(mine)
    OBVIOUS
  <2>5. Occ \in SUBSET Spans
    <3>1. \A b \in DOMAIN mine : mine[b] \in BookingOver(T)
      BY <2>1
    <3>2. \A b \in DOMAIN mine : mine[b].stay \in Spans
      BY <3>1, FunnelAssumption DEF BookingOver
    <3> QED BY <2>4, <3>2 DEF FunnelProtocol, OwnerTyped, OccupiedBy
  <2>6. Elements(coalesceRanges(findBlockedRanges(Occ, w))) = MaximalRuns(Occ, w)
    BY <2>5, RangesAreMaximalRuns
  <2> QED BY <2>2, <2>3, <2>4, <2>6
<1> QED BY <1>1, PricesStayDisjoint, FunnelProtocolKept, PTL

\* What a create sells: nights that no row occupies once the lapsed holds are swept, as
\* many as the unit's minimum stay, at the sum of their prices.  The overrides are those
\* of the moment of the sale, the base price and the minimum stay those the request read.
SalesAreAtTheirPrice ==
  [][\A k \in Submits :
       CreateDecides(k) /\ Len(mine') > Len(mine) =>
         /\ mine'[Len(mine')].stay = picked
         /\ mine'[Len(mine')].total = NightByNight(submit[k].base, picked, overrides)
         /\ \A t \in OccupiedBy(Swept(mine)) : Nights(picked) \cap Nights(t) = {}
         /\ Cardinality(Nights(picked)) >= submit[k].minStay]_vars

LEMMA SoldAtItsPrice ==
  ASSUME FunnelProtocol, PricesAreDisjoint, NEW k \in Submits, CreateDecides(k),
         Len(mine') > Len(mine)
  PROVE  /\ mine'[Len(mine')].stay = picked
         /\ mine'[Len(mine')].total = NightByNight(submit[k].base, picked, overrides)
         /\ \A t \in OccupiedBy(Swept(mine)) : Nights(picked) \cap Nights(t) = {}
         /\ Cardinality(Nights(picked)) >= submit[k].minStay
<1>1. PICK T : TypedOver(T)
  BY DEF FunnelProtocol
<1>2. /\ OwnerTyped /\ TabTyped /\ CreatesHaveAStay
      /\ mine \in Seq(BookingOver(T)) /\ submit \in [Submits -> SubmitOver(T)]
  BY <1>1 DEF FunnelProtocol, TypedOver
<1>3. PICK base \in Nat, minStay \in Nat : base = submit[k].base /\ minStay = submit[k].minStay
  BY <1>2 DEF SubmitOver
<1>4. PICK stay \in Spans : stay = picked
  <2>1. page \in {"checkout", "provider"}
    BY <1>2 DEF CreatesHaveAStay, CreateDecides
  <2> QED BY <1>2, <2>1, FunnelAssumption DEF CreatesHaveAStay, TabTyped
<1>5. PICK rows, q : rows = Swept(mine) /\ q = WriteQuote(k, rows)
  OBVIOUS
<1>6. rows \in Seq(BookingOver(T)) /\ Len(rows) = Len(mine)
  BY <1>2, <1>5, SweptRows
<1>7. q = quote(rows, stay, base, minStay)
  BY <1>3, <1>4, <1>5 DEF WriteQuote
<1>8. /\ q.total = NightByNight(base, stay, overrides)
      /\ q.available <=> /\ \A t \in OccupiedBy(rows) : Nights(stay) \cap Nights(t) = {}
                         /\ Cardinality(Nights(stay)) >= minStay
  BY <1>2, <1>6, <1>7, QuotesAreRight
<1>9. q.stay = stay
  BY <1>7 DEF quote
<1>10. q.available /\ mine' = Append(rows, NewHold(q))
  <2>1. mine' # mine
    BY <1>2
  <2> QED BY <1>5, <2>1 DEF CreateDecides, CreateCommits
<1>11. PICK h : h = NewHold(q)
  OBVIOUS
<1>12. h.stay = stay /\ h.total = q.total
  BY <1>9, <1>11 DEF NewHold
<1>13. rows \in Seq(BookingOver(T) \cup {h}) /\ h \in BookingOver(T) \cup {h}
  BY <1>6
<1>14. mine'[Len(mine')] = h
  BY <1>10, <1>11, <1>13
<1> QED BY <1>3, <1>4, <1>5, <1>8, <1>10, <1>12, <1>14

\* Every create that commits sells free nights at the sum of their prices, whatever the
\* owner, the other guests and the clock did since the request read the unit.
THEOREM SalesAreAtPrice == Spec => SalesAreAtTheirPrice
<1>1. FunnelProtocol /\ PricesAreDisjoint /\ [Next]_vars =>
        [\A k \in Submits :
           CreateDecides(k) /\ Len(mine') > Len(mine) =>
             /\ mine'[Len(mine')].stay = picked
             /\ mine'[Len(mine')].total = NightByNight(submit[k].base, picked, overrides)
             /\ \A t \in OccupiedBy(Swept(mine)) : Nights(picked) \cap Nights(t) = {}
             /\ Cardinality(Nights(picked)) >= submit[k].minStay]_vars
  BY SoldAtItsPrice
<1> QED BY <1>1, PricesStayDisjoint, FunnelProtocolKept, PTL DEF Spec, SalesAreAtTheirPrice
=============================================================================
