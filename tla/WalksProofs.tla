------------------------------ MODULE WalksProofs ------------------------------
(***************************************************************************)
(* Theorems about Walks, for any owners, businesses, bookings, reviews,    *)
(* recurrences and requests in flight, and about the rules, the parsers    *)
(* and the fields MCRules has the inputs of: each for all inputs of its    *)
(* kind first, then for those of the run.  They are together because the   *)
(* days of a series and the rules rest on the same sums and lists.         *)
(***************************************************************************)
EXTENDS Walks, MCRules, FiniteSetTheorems, SequenceTheorems, WellFoundedInduction, TLAPS

(***************************************************************************)
(* What expandOccurrences computes, by induction over the days its cursor  *)
(* is on.                                                                  *)
(***************************************************************************)

\* Induction over the naturals, as a fact about a set of them.
LEMMA Induct ==
    ASSUME NEW S \in SUBSET Nat, 0 \in S, \A n \in S : n + 1 \in S PROVE S = Nat
<1> SUFFICES ASSUME Nat \ S # {} PROVE FALSE
  OBVIOUS
<1>1. PICK T : T = Nat \ S
  OBVIOUS
<1>2. IsWellFoundedOn(OpToRel(<, Nat), Nat)
  BY NatLessThanWellFounded
<1>3. \A x, y \in Nat : <<y, x>> \in OpToRel(<, Nat) <=> y < x
  BY DEF OpToRel
<1>4. PICK R : IsWellFoundedOn(R, Nat) /\ \A x, y \in Nat : <<y, x>> \in R <=> y < x
  BY <1>2, <1>3, Zenon
<1>5. PICK n \in T : \A m \in T : ~(<<m, n>> \in R)
  BY <1>1, <1>4, WFMin
<1>6. n \in Nat /\ n # 0
  BY <1>1, <1>5
<1>7. n - 1 \in Nat /\ n - 1 < n
  BY <1>6
<1>8. n - 1 \notin T
  BY <1>4, <1>5, <1>6, <1>7
<1>9. n - 1 + 1 \in S
  BY <1>1, <1>7, <1>8
<1> QED
  BY <1>1, <1>5, <1>6, <1>9

Gather(g, s, given, from, most) ==
    IF s = {} THEN <<>>
    ELSE LET x == Max(s) IN Occur(given, from, most, g[s \ {x}], [i \in 1..Guard |-> i - 1][x])

\* expandOccurrences is a fold over the days of its cursor.
LEMMA Expand ==
    ASSUME NEW given, NEW from, NEW most
    PROVE  expandOccurrences(given, from, most)
             = (CHOOSE g : g = [s \in SUBSET (1..Guard) |-> Gather(g, s, given, from, most)])[1..Guard]
<1>1. DOMAIN [i \in 1..Guard |-> i - 1] = 1..Guard
  OBVIOUS
<1> QED
  BY <1>1 DEF expandOccurrences, FoldLeft, MapThenFoldSet, Gather

\* The days gathered once the cursor has been on i days.
FoldOf(n, g, given, from, most) == g = [s \in SUBSET (1..n) |-> Gather(g, s, given, from, most)]

\* The fold takes the last day off first.
LEMMA MaxOf == ASSUME NEW n \in Nat, NEW s \in SUBSET (1..(n + 1)), n + 1 \in s PROVE Max(s) = n + 1
<1>1. \A k \in s : k \in 1..(n + 1) /\ k <= n + 1 /\ n + 1 >= k
  OBVIOUS
<1>2. ASSUME NEW m \in s, \A k \in s : m >= k PROVE m = n + 1
  BY <1>1, <1>2
<1> QED
  BY <1>1, <1>2 DEF Max

\* One more day of the cursor is one more step of the fold.
LEMMA FoldGrows ==
    ASSUME NEW given, NEW from, NEW most, NEW n \in Nat, n < Guard,
           NEW g, FoldOf(n, g, given, from, most)
    PROVE  \E h : FoldOf(n + 1, h, given, from, most)
<1> DEFINE Added(s) == Occur(given, from, most, g[s \ {n + 1}], [i \in 1..Guard |-> i - 1][n + 1])
           h == [s \in SUBSET (1..(n + 1)) |-> IF n + 1 \in s THEN Added(s) ELSE g[s]]
<1>1. ASSUME NEW s \in SUBSET (1..(n + 1)) PROVE h[s] = Gather(h, s, given, from, most)
  <2>1. CASE n + 1 \in s
    <3>1. s # {} /\ Max(s) = n + 1 /\ s \ {n + 1} \in SUBSET (1..n)
      BY <2>1, MaxOf
    <3>2. h[s \ {n + 1}] = g[s \ {n + 1}]
      BY <3>1
    <3> QED
      BY <2>1, <3>1, <3>2 DEF Gather
  <2>2. CASE n + 1 \notin s
    <3>1. s \in SUBSET (1..n)
      BY <2>2
    <3>2. g[s] = Gather(g, s, given, from, most)
      BY <3>1 DEF FoldOf
    <3>3. CASE s # {}
      <4>2. h[s \ {Max(s)}] = g[s \ {Max(s)}]
        <5>1. PICK t : t = s \ {Max(s)}
          OBVIOUS
        <5>2. t \in SUBSET (1..(n + 1)) /\ n + 1 \notin t
          BY <2>2, <5>1
        <5> QED
          BY <5>1, <5>2
      <4> QED
        BY <2>2, <3>2, <4>2 DEF Gather
    <3> QED
      BY <2>2, <3>2, <3>3 DEF Gather
  <2> QED
    BY <2>1, <2>2
<1>2. FoldOf(n + 1, h, given, from, most)
  BY <1>1 DEF FoldOf
<1> QED
  BY <1>2

\* So the fold over all the days is what the loop has gathered when its cursor ends.
LEMMA FoldIs ==
    ASSUME NEW given, NEW from, NEW most
    PROVE  \E g : /\ FoldOf(Guard, g, given, from, most)
                  /\ expandOccurrences(given, from, most) = g[1..Guard]
<1> DEFINE Reached == {n \in Nat : n <= Guard => \E g : FoldOf(n, g, given, from, most)}
<1>1. 0 \in Reached
  <2> DEFINE g == [s \in SUBSET (1..0) |-> <<>>]
  <2>1. \A s \in SUBSET (1..0) : s = {}
    OBVIOUS
  <2>2. FoldOf(0, g, given, from, most)
    BY <2>1 DEF FoldOf, Gather
  <2> QED
    BY <2>2
<1>2. ASSUME NEW n \in Reached PROVE n + 1 \in Reached
  <2> SUFFICES ASSUME n + 1 <= Guard PROVE \E g : FoldOf(n + 1, g, given, from, most)
    OBVIOUS
  <2>1. n \in Nat /\ n < Guard /\ n <= Guard
    BY RuleConstants
  <2> QED
    BY <2>1, FoldGrows
<1>3. Guard \in Reached
  <2>1. Reached = Nat
    <3> HIDE DEF Reached
    <3>1. Reached \subseteq Nat
      BY DEF Reached
    <3> QED
      BY <1>1, <1>2, <3>1, Induct
  <2> QED
    BY <2>1, RuleConstants
<1>4. \E g : FoldOf(Guard, g, given, from, most)
  BY <1>3, RuleConstants
<1>5. PICK g : g = CHOOSE h : FoldOf(Guard, h, given, from, most)
  OBVIOUS
<1>6. FoldOf(Guard, g, given, from, most)
  BY <1>4, <1>5
<1>7. expandOccurrences(given, from, most) = g[1..Guard]
  BY <1>5, Expand DEF FoldOf
<1> QED
  BY <1>6, <1>7

(***************************************************************************)
(* What is gathered: the days that fit, in order, up to the number wanted.   *)
(***************************************************************************)

Fits(d, given, from) ==
    /\ d % 7 \in given.weekdays /\ d <= given.until
    /\ d = from.day => from.time <= given.time

Gathered(n, a, given, from, wanted) ==
    /\ a \in Seq(Nat) /\ Len(a) <= wanted
    /\ \A i \in DOMAIN a : Fits(a[i], given, from) /\ from.day <= a[i] /\ a[i] < from.day + n
    /\ \A i, j \in DOMAIN a : i < j => a[i] < a[j]
    /\ \A d \in from.day..(from.day + n - 1) :
          Fits(d, given, from) => \/ \E i \in DOMAIN a : a[i] = d
                                  \/ Len(a) = wanted /\ \A i \in DOMAIN a : a[i] < d

Timed(given, from) ==
    /\ given.count \in Nat /\ given.time \in Nat /\ given.until \in Nat
    /\ from.day \in Nat /\ from.time \in Nat

\* The smaller of the two limits on the number of days.
LEMMA Fewer == ASSUME NEW m \in Nat, NEW n \in Nat PROVE Min({m, n}) \in Nat /\ Min({m, n}) <= n
<1>1. \E k \in {m, n} : \A l \in {m, n} : k <= l
  BY m <= n \/ n <= m
<1>2. Min({m, n}) \in {m, n} /\ \A l \in {m, n} : Min({m, n}) <= l
  BY <1>1 DEF Min
<1> QED
  BY <1>2

\* A turn of the loop gathers the day it is on if that fits.
LEMMA OccurGathers ==
    ASSUME NEW given, NEW from, NEW most \in Nat, Timed(given, from), NEW n \in Nat,
           NEW a, Gathered(n, a, given, from, Min({given.count, most}))
    PROVE  Gathered(n + 1, Occur(given, from, most, a, n), given, from, Min({given.count, most}))
<1>1. PICK wanted \in Nat : wanted = Min({given.count, most})
  BY Fewer DEF Timed
<1>2. PICK day \in Nat : day = from.day + n
  BY DEF Timed
<1>3. /\ a \in Seq(Nat) /\ Len(a) <= wanted
      /\ \A i \in DOMAIN a : Fits(a[i], given, from) /\ from.day <= a[i] /\ a[i] < day
      /\ \A i, j \in DOMAIN a : i < j => a[i] < a[j]
      /\ \A d \in from.day..(day - 1) :
            Fits(d, given, from) => \/ \E i \in DOMAIN a : a[i] = d
                                    \/ Len(a) = wanted /\ \A i \in DOMAIN a : a[i] < d
  <2>1. Gathered(n, a, given, from, wanted)
    BY <1>1
  <2>2. from.day + n - 1 = day - 1
    BY <1>2 DEF Timed
  <2> QED
    BY <1>2, <2>1, <2>2, Zenon DEF Gathered
<1>4. Occur(given, from, most, a, n) =
        IF Len(a) < wanted /\ Fits(day, given, from) THEN Append(a, day) ELSE a
  BY <1>1, <1>2 DEF Occur, NotBefore, Fits, Timed
<1>5. Len(a) \in Nat /\ DOMAIN a = 1..Len(a) /\ \A i \in DOMAIN a : a[i] \in Nat
  BY <1>3, LenProperties, ElementOfSeq
<1>6. day + 1 = from.day + (n + 1) /\ day + 1 - 1 = day /\ from.day + (n + 1) - 1 = day
  BY <1>2 DEF Timed
<1>7. CASE Len(a) < wanted /\ Fits(day, given, from)
  <2>1. PICK b : b = Append(a, day)
    OBVIOUS
  <2>2. /\ b \in Seq(Nat) /\ Len(b) = Len(a) + 1 /\ DOMAIN b = 1..(Len(a) + 1)
        /\ \A i \in 1..Len(a) : b[i] = a[i]
        /\ b[Len(a) + 1] = day
    BY <1>3, <2>1, AppendProperties
  <2>3. ASSUME NEW i \in DOMAIN b
        PROVE  Fits(b[i], given, from) /\ from.day <= b[i] /\ b[i] < day + 1
    <3>1. CASE i \in 1..Len(a)
      <4>1. i \in DOMAIN a /\ b[i] = a[i] /\ a[i] \in Nat
        BY <1>5, <2>2, <3>1
      <4>2. Fits(a[i], given, from) /\ from.day <= a[i] /\ a[i] < day
        BY <1>3, <4>1
      <4>3. a[i] < day + 1
        BY <4>1, <4>2
      <4> QED
        BY <4>1, <4>2, <4>3
    <3>2. CASE i = Len(a) + 1
      BY <1>2, <1>7, <2>2, <3>2 DEF Timed
    <3> QED
      BY <1>5, <2>2, <3>1, <3>2
  <2>4. ASSUME NEW i \in DOMAIN b, NEW j \in DOMAIN b, i < j PROVE b[i] < b[j]
    <3>1. i \in 1..Len(a)
      BY <1>5, <2>2, <2>4
    <3>2. CASE j \in 1..Len(a)
      BY <1>3, <1>5, <2>2, <2>4, <3>1, <3>2
    <3>3. CASE j = Len(a) + 1
      BY <1>3, <1>5, <2>2, <3>1, <3>3
    <3> QED
      BY <1>5, <2>2, <3>2, <3>3
  <2>5. ASSUME NEW d \in from.day..day, Fits(d, given, from) PROVE \E i \in DOMAIN b : b[i] = d
    <3>1. CASE d = day
      BY <1>5, <2>2, <3>1
    <3>2. CASE d # day
      <4>1. d \in from.day..(day - 1)
        BY <1>2, <3>2 DEF Timed
      <4>2. PICK i \in DOMAIN a : a[i] = d
        <5>1. Len(a) # wanted
          BY <1>1, <1>5, <1>7
        <5> QED
          BY <1>3, <2>5, <4>1, <5>1
      <4> QED
        BY <1>5, <2>2, <4>2
    <3> QED
      BY <3>1, <3>2
  <2>6. Len(b) <= wanted
    BY <1>5, <1>7, <2>2
  <2>7. Gathered(n + 1, b, given, from, wanted)
    BY <1>6, <2>2, <2>3, <2>4, <2>5, <2>6 DEF Gathered
  <2> QED
    BY <1>1, <1>4, <1>7, <2>1, <2>7
<1>8. CASE ~(Len(a) < wanted /\ Fits(day, given, from))
  <2>1. ASSUME NEW d \in from.day..day, Fits(d, given, from)
        PROVE  \/ \E i \in DOMAIN a : a[i] = d
               \/ Len(a) = wanted /\ \A i \in DOMAIN a : a[i] < d
    <3>1. CASE d = day
      <4>1. Len(a) = wanted
        BY <1>1, <1>3, <1>5, <1>8, <2>1, <3>1
      <4>2. \A i \in DOMAIN a : a[i] < d
        BY <1>3, <3>1
      <4> QED
        BY <4>1, <4>2
    <3>2. CASE d # day
      <4>1. d \in from.day..(day - 1)
        BY <1>2, <3>2 DEF Timed
      <4> QED
        BY <1>3, <2>1, <4>1
    <3> QED
      BY <3>1, <3>2
  <2>2. ASSUME NEW i \in DOMAIN a PROVE a[i] < day + 1
    <3>1. a[i] \in Nat /\ a[i] < day
      BY <1>3, <1>5
    <3> QED
      BY <3>1
  <2>3. Gathered(n + 1, a, given, from, wanted)
    BY <1>3, <1>6, <2>1, <2>2 DEF Gathered
  <2> QED
    BY <1>1, <1>4, <1>8, <2>3
<1> QED
  BY <1>7, <1>8

\* What the whole loop gathers.
LEMMA Expands ==
    ASSUME NEW given, NEW from, NEW most \in Nat, Timed(given, from)
    PROVE  Gathered(Guard, expandOccurrences(given, from, most), given, from, Min({given.count, most}))
<1>1. PICK wanted \in Nat : wanted = Min({given.count, most})
  BY Fewer DEF Timed
<1>2. PICK g : /\ FoldOf(Guard, g, given, from, most)
               /\ expandOccurrences(given, from, most) = g[1..Guard]
  BY FoldIs
<1>3. \A s \in SUBSET (1..Guard) : g[s] = Gather(g, s, given, from, most)
  BY <1>2 DEF FoldOf
<1> DEFINE Reached == {n \in Nat : n <= Guard => Gathered(n, g[1..n], given, from, wanted)}
<1>4. 0 \in Reached
  <2>1. 1..0 = {} /\ {} \in SUBSET (1..Guard)
    OBVIOUS
  <2>2. g[1..0] = <<>>
    BY <1>3, <2>1 DEF Gather
  <2>3. from.day..(from.day + 0 - 1) = {}
    BY DEF Timed
  <2>4. <<>> \in Seq(Nat) /\ Len(<<>>) = 0 /\ DOMAIN <<>> = {}
    OBVIOUS
  <2>5. Gathered(0, <<>>, given, from, wanted)
    BY <2>3, <2>4 DEF Gathered
  <2> QED
    BY <2>2, <2>5
<1>5. ASSUME NEW n \in Reached PROVE n + 1 \in Reached
  <2> SUFFICES ASSUME n + 1 <= Guard PROVE Gathered(n + 1, g[1..(n + 1)], given, from, wanted)
    OBVIOUS
  <2>1. n \in Nat /\ n <= Guard /\ n + 1 \in 1..Guard
    BY RuleConstants
  <2>2. PICK s : s = 1..(n + 1)
    OBVIOUS
  <2>3. s \in SUBSET (1..Guard) /\ s # {} /\ n + 1 \in s /\ s \ {n + 1} = 1..n
    <3>1. \A k \in 1..(n + 1) : k \in 1..Guard
      BY <2>1, RuleConstants
    <3>2. n + 1 \in 1..(n + 1) /\ (1..(n + 1)) \ {n + 1} = 1..n
      BY <2>1
    <3> QED
      BY <2>2, <3>1, <3>2
  <2>4. Max(s) = n + 1
    BY <2>1, <2>2, <2>3, MaxOf
  <2>5. g[s] = Occur(given, from, most, g[1..n], n)
    <3>1. [i \in 1..Guard |-> i - 1][n + 1] = n
      BY <2>1
    <3> QED
      BY <1>3, <2>3, <2>4, <3>1 DEF Gather
  <2>6. Gathered(n, g[1..n], given, from, wanted)
    BY <2>1
  <2>7. Gathered(n + 1, Occur(given, from, most, g[1..n], n), given, from, wanted)
    BY <1>1, <2>1, <2>6, OccurGathers
  <2> QED
    BY <2>2, <2>5, <2>7
<1>6. Guard \in Reached
  <2>1. Reached = Nat
    <3>1. Reached \subseteq Nat
      OBVIOUS
    <3> HIDE DEF Reached
    <3> QED
      BY <1>4, <1>5, <3>1, Induct
  <2> QED
    BY <2>1, RuleConstants
<1>7. Gathered(Guard, g[1..Guard], given, from, wanted)
  BY <1>6, RuleConstants
<1> QED
  BY <1>1, <1>2, <1>7

\* A recurring request books the earliest days its rule asks for, today's only when its hour is
\* still to come, none after the last, in order, and no more than were asked: for every rule,
\* instant, number and guard (recurrence-rule.ts).
THEOREM OccurrencesRight ==
    ASSUME NEW given, NEW from, NEW most \in Nat, Timed(given, from)
    PROVE  OccurrencesAsAsked(given, from, most)
BY Expands DEF OccurrencesAsAsked, Gathered, Fits

\* A later instant only takes days away.
LEMMA NoEarlier ==
    ASSUME NEW given, NEW from, NEW to, NEW most \in Nat, Timed(given, from), Timed(given, to),
           from.day < to.day \/ (from.day = to.day /\ from.time <= to.time)
    PROVE  LET a == expandOccurrences(given, from, most)
               b == expandOccurrences(given, to, most)
           IN  \A i \in DOMAIN a \cap DOMAIN b : a[i] <= b[i]
<1>1. PICK a, b : /\ a = expandOccurrences(given, from, most)
                  /\ b = expandOccurrences(given, to, most)
  OBVIOUS
<1>2. PICK wanted \in Nat : wanted = Min({given.count, most})
  BY Fewer DEF Timed
<1>3. Gathered(Guard, a, given, from, wanted) /\ Gathered(Guard, b, given, to, wanted)
  BY <1>1, <1>2, Expands
<1>4. /\ Len(a) \in Nat /\ DOMAIN a = 1..Len(a) /\ \A i \in DOMAIN a : a[i] \in Nat
      /\ Len(b) \in Nat /\ DOMAIN b = 1..Len(b) /\ \A i \in DOMAIN b : b[i] \in Nat
      /\ Len(a) <= wanted
  BY <1>3, LenProperties, ElementOfSeq DEF Gathered
<1> DEFINE Reached == {n \in Nat : n + 1 \in DOMAIN a \cap DOMAIN b => a[n + 1] <= b[n + 1]}
\* The n-th day later is a day the earlier expansion has too, or is past its days.
<1>5. ASSUME NEW n \in Nat, n + 1 \in DOMAIN a \cap DOMAIN b, b[n + 1] < a[n + 1],
             n # 0 => a[n] <= b[n]
      PROVE  FALSE
  <2>1. PICK d \in Nat : d = b[n + 1]
    BY <1>4, <1>5
  <2>2. /\ Fits(d, given, to) /\ to.day <= d
        /\ a[n + 1] < from.day + Guard
    BY <1>3, <1>5, <2>1 DEF Gathered
  <2>3. Fits(d, given, from)
    BY <2>1, <2>2 DEF Fits, Timed
  <2>4. d \in from.day..(from.day + Guard - 1)
    <3>1. a[n + 1] \in Nat /\ d < a[n + 1]
      BY <1>4, <1>5, <2>1
    <3> QED
      BY <2>2, <3>1, RuleConstants DEF Timed
  <2>5. \/ \E i \in DOMAIN a : a[i] = d
        \/ \A i \in DOMAIN a : a[i] < d
    BY <1>3, <2>3, <2>4 DEF Gathered
  <2>6. PICK i \in DOMAIN a : a[i] = d
    <3>1. a[n + 1] \in Nat /\ d < a[n + 1]
      BY <1>4, <1>5, <2>1
    <3> QED
      BY <1>5, <2>5, <3>1
  <2>7. i < n + 1
    <3>1. \A j \in DOMAIN a : n + 1 < j => a[n + 1] < a[j]
      BY <1>3, <1>5 DEF Gathered
    <3>2. a[n + 1] \in Nat /\ d < a[n + 1]
      BY <1>4, <1>5, <2>1
    <3> QED
      BY <1>4, <1>5, <2>6, <3>1, <3>2
  <2>8. n \in DOMAIN a /\ n \in DOMAIN b /\ n # 0 /\ i <= n
    BY <1>4, <1>5, <2>6, <2>7
  <2>9. a[i] <= a[n]
    <3>1. i < n => a[i] < a[n]
      BY <1>3, <2>8 DEF Gathered
    <3>2. a[i] \in Nat /\ a[n] \in Nat /\ i \in Nat
      BY <1>4, <2>8
    <3> QED
      BY <2>8, <3>1, <3>2
  <2>10. b[n] < d
    <3>1. n < n + 1
      OBVIOUS
    <3>2. b[n] < b[n + 1]
      BY <1>3, <1>5, <2>8, <3>1 DEF Gathered
    <3> QED
      BY <2>1, <3>2
  <2>11. a[n] \in Nat /\ b[n] \in Nat /\ a[n] <= b[n]
    BY <1>4, <1>5, <2>8
  <2> QED
    BY <2>6, <2>9, <2>10, <2>11
<1>6. 0 \in Reached
  BY <1>4, <1>5
<1>7. ASSUME NEW n \in Reached PROVE n + 1 \in Reached
  <2> SUFFICES ASSUME n + 1 + 1 \in DOMAIN a \cap DOMAIN b PROVE a[n + 1 + 1] <= b[n + 1 + 1]
    OBVIOUS
  <2>1. n \in Nat /\ n + 1 \in DOMAIN a \cap DOMAIN b /\ n + 1 \in Nat /\ n + 1 # 0
    BY <1>4
  <2>2. a[n + 1] <= b[n + 1]
    BY <2>1
  <2>3. ~(b[n + 1 + 1] < a[n + 1 + 1])
    BY <1>5, <2>1, <2>2
  <2> QED
    BY <1>4, <2>3
<1>8. Reached = Nat
  <2>1. Reached \subseteq Nat
    OBVIOUS
  <2> HIDE DEF Reached
  <2> QED
    BY <1>6, <1>7, <2>1, Induct
<1>9. ASSUME NEW i \in DOMAIN a \cap DOMAIN b PROVE a[i] <= b[i]
  <2>1. i - 1 \in Nat /\ i - 1 + 1 = i
    BY <1>4
  <2>2. i - 1 \in Reached
    BY <1>8, <2>1
  <2> QED
    BY <2>1, <2>2
<1> QED
  BY <1>1, <1>9

\* recurrence-rule.ts: the days go up, and no day of an expansion moves back when the rule
\* is expanded again at a later instant.
Days          == [day : 0..Horizon, time : {0, 2}]
Earlier(s, t) == s.day < t.day \/ (s.day = t.day /\ s.time <= t.time)

ExpandsInOrder ==
    \A given \in Recurrences, s, t \in Days :
        LET a == expandOccurrences(given, s, 4)
            b == expandOccurrences(given, t, 4)
        IN  /\ a \in Seq(Nat)
            /\ \A i, j \in DOMAIN a : i < j => a[i] < a[j]
            /\ Earlier(s, t) => \A i \in DOMAIN a \cap DOMAIN b : a[i] <= b[i]

\* It is so, for any rules.
LEMMA InOrder == ExpandsInOrder
<1> SUFFICES ASSUME NEW given \in Recurrences, NEW s \in Days, NEW t \in Days
             PROVE  LET a == expandOccurrences(given, s, 4)
                        b == expandOccurrences(given, t, 4)
                    IN  /\ a \in Seq(Nat)
                        /\ \A i, j \in DOMAIN a : i < j => a[i] < a[j]
                        /\ Earlier(s, t) => \A i \in DOMAIN a \cap DOMAIN b : a[i] <= b[i]
  BY DEF ExpandsInOrder
<1>1. Timed(given, s) /\ Timed(given, t) /\ 4 \in Nat
  BY WalkConstants DEF Timed, Days
<1>2. Gathered(Guard, expandOccurrences(given, s, 4), given, s, Min({given.count, 4}))
  BY <1>1, Expands
<1> QED
  BY <1>1, <1>2, NoEarlier DEF Gathered, Earlier

(***************************************************************************)
(* What requests hold.                                                     *)
(***************************************************************************)

\* What a request holds at each await: the walk it logs was in progress and has at most
\* been completed since.
Shape(q) == q = [step |-> q.step, booking |-> q.booking, review |-> q.review, id |-> q.id,
                 kind |-> q.kind, who |-> q.who, index |-> q.index, days |-> q.days,
                 found |-> q.found, series |-> q.series]

HeldWalk(q) ==
    /\ Shape(q)
    /\ q.step \in {"upload", "log"} =>
          q.booking \in Bookings /\ bookings[q.booking].status \in {InProgress, Completed}
    /\ q.step \in {"write", "find", "save"} => q.who \in Owners \X Businesses
    /\ q.step \in {"write", "find"} => q.booking \in Bookings \cup {None}
    /\ q.step = "save" => q.id \in Reviews /\ q.review \in Review
    /\ q.step = "reply" => q.id \in Reviews

WalkType ==
    /\ bookings \in [Bookings -> Row]
    /\ trail \in [Bookings -> Nat] /\ events \in [Bookings -> Nat]
    /\ reviews \in [Reviews -> Review \cup {None}]
    /\ DOMAIN req = Requests
    /\ req = [r \in Requests |-> req[r]]
    /\ today \in Days /\ rule \in Recurrences

Unique == \A i, j \in Reviews :
    reviews[i] # None /\ reviews[j] # None /\ Same(reviews[i], reviews[j]) => i = j

OneEach == \A x, y \in occurrences : x.index = y.index => x = y

Held    == \A r \in Requests : HeldWalk(req[r])
WalkInv == WalkType /\ Held /\ Unique /\ OneEach

\* The smallest id that is free: < is well founded on Nat.
LEMMA LeastId ==
    ASSUME NEW S \in SUBSET Nat, S # {} PROVE Min(S) \in S
<1>1. IsWellFoundedOn(OpToRel(<, Nat), Nat)
  BY NatLessThanWellFounded
<1>2. \A x, y \in Nat : <<y, x>> \in OpToRel(<, Nat) <=> y < x
  BY DEF OpToRel
<1>3. PICK R : IsWellFoundedOn(R, Nat) /\ \A x, y \in Nat : <<y, x>> \in R <=> y < x
  BY <1>1, <1>2, Zenon
<1>4. PICK n \in S : \A m \in S : ~(<<m, n>> \in R)
  BY <1>3, WFMin
<1>5. \A m \in S : n <= m
  <2>1. TAKE m \in S
  <2>2. m \in Nat /\ n \in Nat
    OBVIOUS
  <2>3. ~(m < n)
    BY <1>3, <1>4, <2>2, Zenon
  <2> QED
    BY <2>2, <2>3
<1> QED
  BY <1>5 DEF Min

(***************************************************************************)
(* The invariant, whatever overlaps.                                       *)
(***************************************************************************)

LEMMA IdleHolds == HeldWalk(Idle) /\ Idle.step = "idle"
BY DEF Idle, HeldWalk, Shape

\* A request arrives, moves on or ends, and the rows of its concern stay.
LEMMA HoldKeeps ==
    ASSUME WalkType, Held, NEW r \in Requests, NEW new, HeldWalk(new),
           req' = [req EXCEPT ![r] = new], bookings' = bookings
    PROVE  Held' /\ DOMAIN req' = Requests /\ req' = [q \in Requests |-> req'[q]]
<1>1. \A q \in Requests : req'[q] = IF q = r THEN new ELSE req[q]
  BY DEF WalkType
<1>2. ASSUME NEW q, HeldWalk(q) PROVE HeldWalk(q)'
  BY <1>2 DEF HeldWalk, Shape
<1>3. \A q \in Requests : HeldWalk(req[q])'
  <2>1. TAKE q \in Requests
  <2>2. PICK h : h = req'[q]
    OBVIOUS
  <2>3. HeldWalk(h)
    BY <1>1, <2>2 DEF Held
  <2>4. HeldWalk(h)'
    BY <2>3, <1>2
  <2> QED
    BY <2>2, <2>4 DEF HeldWalk, Shape
<1> QED
  BY <1>3 DEF WalkType, Held

LEMMA WalkInit == Init => WalkInv
<1> SUFFICES ASSUME Init PROVE WalkInv
  OBVIOUS
<1>1. WalkType
  BY WalkConstants DEF Init, WalkType, Row, Statuses, Days
<1>2. Held
  BY IdleHolds DEF Init, Held
<1> QED
  BY <1>1, <1>2 DEF Init, WalkInv, Unique, OneEach

\* An action that only moves requests.
LEMMA HoldStep ==
    ASSUME WalkInv, NEW r \in Requests, NEW new, HeldWalk(new), req' = [req EXCEPT ![r] = new],
           UNCHANGED <<bookings, log, reviews, occurrences, rule>>, today' = today
    PROVE  WalkInv'
<1>1. Held' /\ DOMAIN req' = Requests /\ req' = [q \in Requests |-> req'[q]]
  BY HoldKeeps DEF WalkInv
<1>2. WalkType'
  BY <1>1 DEF WalkInv, WalkType, log
<1>3. Unique' /\ OneEach'
  BY DEF WalkInv, Unique, OneEach, Same
<1> QED
  BY <1>1, <1>2, <1>3 DEF WalkInv

LEMMA AbandonHolds ==
    ASSUME WalkInv, NEW r \in Requests, Abandon(r) PROVE WalkInv'
BY IdleHolds, HoldStep DEF Abandon, Finish, setup, booked

\* A booking only goes on: one that is or was being walked still is, or is completed.
LEMMA RowsMove ==
    ASSUME WalkInv, NEW rows \in [Bookings -> Row], bookings' = rows,
           \A b \in Bookings : bookings[b].status \in {InProgress, Completed}
                               => rows[b].status \in {InProgress, Completed},
           UNCHANGED <<log, reviews, booked, today, req, rule>>
    PROVE  WalkInv'
<1>1. WalkType'
  BY DEF WalkInv, WalkType, log
<1>2. Held'
  <2> SUFFICES ASSUME NEW r \in Requests PROVE HeldWalk(req[r])'
    BY DEF Held
  <2>1. PICK q : q = req[r]
    OBVIOUS
  <2>2. HeldWalk(q)
    BY <2>1 DEF WalkInv, Held
  <2>3. HeldWalk(q)'
    BY <2>2 DEF HeldWalk, Shape
  <2> QED
    BY <2>1, <2>3 DEF HeldWalk, Shape
<1>3. Unique' /\ OneEach'
  BY DEF WalkInv, Unique, OneEach, Same, booked
<1> QED
  BY <1>1, <1>2, <1>3 DEF WalkInv

LEMMA MoveHolds ==
    ASSUME WalkInv, NEW b \in Bookings, NEW status \in Statuses, Move(b, status) PROVE WalkInv'
<1>1. PICK rows : rows = [bookings EXCEPT ![b].status = status]
  OBVIOUS
<1>2. rows \in [Bookings -> Row]
  BY <1>1 DEF WalkInv, WalkType, Row
<1>3. \A k \in Bookings : bookings[k].status \in {InProgress, Completed}
                          => rows[k].status \in {InProgress, Completed}
  <2> SUFFICES ASSUME NEW k \in Bookings, bookings[k].status \in {InProgress, Completed}
               PROVE  rows[k].status \in {InProgress, Completed}
    OBVIOUS
  <2>1. CASE k # b
    BY <1>1, <2>1 DEF WalkInv, WalkType, Row
  <2>2. CASE k = b
    <3>1. rows[b].status = status
      BY <1>1 DEF WalkInv, WalkType, Row
    <3>2. canTransition(bookings[b].status, status) /\ status # Disputed
      BY DEF Move
    <3> QED
      BY <2>2, <3>1, <3>2 DEF canTransition, ALLOWED_TRANSITIONS, Requested, Accepted, Confirmed,
         InProgress, Completed, Cancelled, Disputed
  <2> QED
    BY <2>1, <2>2
<1> QED
  BY <1>1, <1>2, <1>3, RowsMove DEF Move, setup

LEMMA ComesDueHolds ==
    ASSUME WalkInv, NEW b \in Bookings, ComesDue(b) PROVE WalkInv'
<1>1. PICK rows : rows = [bookings EXCEPT ![b].due = TRUE]
  OBVIOUS
<1>2. rows \in [Bookings -> Row]
  BY <1>1 DEF WalkInv, WalkType, Row
<1>3. \A k \in Bookings : rows[k].status = bookings[k].status
  BY <1>1 DEF WalkInv, WalkType, Row
<1> QED
  BY <1>1, <1>2, <1>3, RowsMove DEF ComesDue, setup

LEMMA LogLoadHolds ==
    ASSUME WalkInv, NEW r \in Requests, NEW b \in Bookings, NEW kind, LogLoad(r, b, kind)
    PROVE  WalkInv'
<1>1. PICK new : new = [Idle EXCEPT !.step = IF kind = "photo" THEN "upload" ELSE "log",
                                    !.booking = b, !.kind = kind]
  OBVIOUS
<1>2. new.step \in {"upload", "log"} /\ new.booking = b /\ Shape(new)
  BY <1>1 DEF Idle, Shape
<1>3. HeldWalk(new)
  BY <1>2 DEF HeldWalk, LogLoad
<1> QED
  BY <1>1, <1>3, HoldStep DEF LogLoad, Holds, setup, booked

LEMMA LogUploadHolds ==
    ASSUME WalkInv, NEW r \in Requests, LogUpload(r) PROVE WalkInv'
<1>1. PICK q : q = req[r]
  OBVIOUS
<1>2. HeldWalk(q) /\ q.step = "upload"
  BY <1>1 DEF WalkInv, Held, LogUpload
<1>3. PICK new : new = [q EXCEPT !.step = "log"]
  OBVIOUS
<1>4. new.step = "log" /\ new.booking = q.booking /\ Shape(new)
  BY <1>2, <1>3 DEF HeldWalk, Shape
<1>5. HeldWalk(new)
  BY <1>2, <1>4 DEF HeldWalk
<1> QED
  BY <1>1, <1>3, <1>5, HoldStep DEF LogUpload, Holds, setup, booked

LEMMA LogSaveHolds ==
    ASSUME WalkInv, NEW r \in Requests, LogSave(r) PROVE WalkInv'
<1>1. Held' /\ DOMAIN req' = Requests /\ req' = [q \in Requests |-> req'[q]]
  BY IdleHolds, HoldKeeps DEF LogSave, Finish, WalkInv
<1>2. req[r].booking \in Bookings
  BY DEF WalkInv, Held, HeldWalk, LogSave
<1>3. trail' \in [Bookings -> Nat] /\ events' \in [Bookings -> Nat]
  BY <1>2 DEF LogSave, WalkInv, WalkType
<1>4. WalkType'
  BY <1>1, <1>3 DEF LogSave, setup, WalkInv, WalkType
<1>5. Unique' /\ OneEach'
  BY DEF LogSave, booked, WalkInv, Unique, OneEach, Same
<1> QED
  BY <1>1, <1>4, <1>5 DEF WalkInv

LEMMA WriteLoadHolds ==
    ASSUME WalkInv, NEW r \in Requests, NEW who \in Owners, NEW business \in Businesses,
           NEW b \in Bookings \cup {None}, WriteLoad(r, who, business, b)
    PROVE  WalkInv'
<1>1. PICK new : new = [Idle EXCEPT !.step = "write", !.booking = b, !.who = <<who, business>>]
  OBVIOUS
<1>2. new.step = "write" /\ new.booking = b /\ new.who = <<who, business>> /\ Shape(new)
  BY <1>1 DEF Idle, Shape
<1>3. HeldWalk(new)
  BY <1>2 DEF HeldWalk
<1> QED
  BY <1>1, <1>3, HoldStep DEF WriteLoad, Holds, setup, booked

LEMMA WriteCheckHolds ==
    ASSUME WalkInv, NEW r \in Requests, WriteCheck(r) PROVE WalkInv'
<1>1. PICK q : q = req[r]
  OBVIOUS
<1>2. HeldWalk(q) /\ q.step = "write"
  BY <1>1 DEF WalkInv, Held, WriteCheck
<1>3. PICK new : /\ req' = [req EXCEPT ![r] = new]
                 /\ new = [q EXCEPT !.step = "find"] \/ new = [q EXCEPT !.step = "find", !.booking = None]
  BY <1>1 DEF WriteCheck, Holds
<1>4. /\ new.step = "find" /\ new.who = q.who /\ new.booking \in {q.booking, None} /\ Shape(new)
  BY <1>2, <1>3 DEF HeldWalk, Shape
<1>5. HeldWalk(new)
  BY <1>2, <1>4 DEF HeldWalk
<1> QED
  BY <1>1, <1>3, <1>5, HoldStep DEF WriteCheck, setup, booked

\* What is looked up: the edited row, or a new one under an id of its own.
LEMMA FindHolds ==
    ASSUME WalkInv, NEW r \in Requests, NEW rating \in Rates, WriteFind(r, rating)
    PROVE  \E new : /\ HeldWalk(new) /\ new.step = "save" /\ new.who = req[r].who
                    /\ req' = [req EXCEPT ![r] = new]
                    /\ \/ \E i \in Reviews : /\ reviews[i] # None
                                             /\ new.review.owner = reviews[i].owner
                                             /\ new.review.business = reviews[i].business
                       \/ <<new.review.owner, new.review.business>> = new.who
<1>1. PICK q : q = req[r]
  OBVIOUS
<1>2. HeldWalk(q) /\ q.step = "find"
  BY <1>1 DEF WalkInv, Held, WriteFind
<1>3. q.who \in Owners \X Businesses /\ q.booking \in Bookings \cup {None}
  BY <1>2 DEF HeldWalk
<1>4. PICK fresh : fresh = [booking |-> q.booking, owner |-> q.who[1], business |-> q.who[2],
                            rating |-> rating, reply |-> FALSE]
  OBVIOUS
<1>5. fresh \in Review /\ <<fresh.owner, fresh.business>> = q.who
  BY <1>3, <1>4 DEF Review
<1>6. CASE \E i \in Reviews : /\ reviews[i] # None
                              /\ req' = [req EXCEPT ![r] =
                                   [q EXCEPT !.step = "save", !.id = i,
                                             !.review = [reviews[i] EXCEPT !.rating = rating]]]
  <2>1. PICK i \in Reviews : /\ reviews[i] # None
                             /\ req' = [req EXCEPT ![r] =
                                   [q EXCEPT !.step = "save", !.id = i,
                                             !.review = [reviews[i] EXCEPT !.rating = rating]]]
    BY <1>6
  <2>2. PICK row : row = [reviews[i] EXCEPT !.rating = rating]
    OBVIOUS
  <2>3. row \in Review /\ row.owner = reviews[i].owner /\ row.business = reviews[i].business
    BY <2>1, <2>2 DEF WalkInv, WalkType, Review
  <2>4. PICK new : new = [q EXCEPT !.step = "save", !.id = i, !.review = row]
    OBVIOUS
  <2>5. /\ new.step = "save" /\ new.id = i /\ new.review = row /\ new.who = q.who /\ Shape(new)
    BY <1>2, <2>4 DEF HeldWalk, Shape
  <2>6. HeldWalk(new)
    BY <2>3, <2>5, <1>3 DEF HeldWalk
  <2>7. req' = [req EXCEPT ![r] = new]
    BY <2>1, <2>2, <2>4
  <2>8. new.who = req[r].who
    BY <1>1, <2>5
  <2>9. \E k \in Reviews : /\ reviews[k] # None
                          /\ new.review.owner = reviews[k].owner
                          /\ new.review.business = reviews[k].business
    BY <2>1, <2>3, <2>5
  <2> QED
    BY <2>5, <2>6, <2>7, <2>8, <2>9, Zenon
<1>7. CASE /\ Fresh # {}
           /\ req' = [req EXCEPT ![r] = [q EXCEPT !.step = "save", !.id = Min(Fresh), !.review = fresh]]
  <2>1. Min(Fresh) \in Reviews
    <3>1. Fresh \subseteq Reviews /\ Reviews \subseteq Nat
      BY WalkConstants DEF Fresh
    <3> QED
      BY <1>7, <3>1, LeastId
  <2>2. PICK new : new = [q EXCEPT !.step = "save", !.id = Min(Fresh), !.review = fresh]
    OBVIOUS
  <2>3. /\ new.step = "save" /\ new.id = Min(Fresh) /\ new.review = fresh /\ new.who = q.who
        /\ Shape(new)
    BY <1>2, <2>2 DEF HeldWalk, Shape
  <2>4. HeldWalk(new)
    BY <1>3, <1>5, <2>1, <2>3 DEF HeldWalk
  <2> QED
    BY <1>1, <1>5, <1>7, <2>2, <2>3, <2>4
<1> QED
  BY <1>1, <1>4, <1>6, <1>7 DEF WriteFind, Holds

LEMMA WriteFindHolds ==
    ASSUME WalkInv, NEW r \in Requests, NEW rating \in Rates, WriteFind(r, rating) PROVE WalkInv'
<1>1. PICK new : HeldWalk(new) /\ req' = [req EXCEPT ![r] = new]
  BY FindHolds
<1> QED
  BY <1>1, HoldStep DEF WriteFind, setup, booked

\* The unique indexes refuse a second review, whoever raced to write it.
LEMMA WriteSaveHolds ==
    ASSUME WalkInv, NEW r \in Requests, WriteSave(r) PROVE WalkInv'
<1>1. Held' /\ DOMAIN req' = Requests /\ req' = [q \in Requests |-> req'[q]]
  BY IdleHolds, HoldKeeps DEF WriteSave, Finish, WalkInv
<1>2. PICK q : q = req[r]
  OBVIOUS
<1>3. q.step = "save" /\ q.id \in Reviews /\ q.review \in Review
  BY <1>2 DEF WalkInv, Held, HeldWalk, WriteSave
<1>4. reviews' = [reviews EXCEPT ![q.id] = q.review] /\ ~IndexesRefuse(q.id, q.review)
  BY <1>2 DEF WriteSave
<1>5. WalkType'
  BY <1>1, <1>3, <1>4 DEF WriteSave, setup, log, WalkInv, WalkType
<1>6. Unique'
  <2> SUFFICES ASSUME NEW i \in Reviews, NEW j \in Reviews, reviews'[i] # None, reviews'[j] # None,
                      Same(reviews'[i], reviews'[j])
               PROVE  i = j
    BY DEF Unique, Same
  <2>1. \A k \in Reviews : reviews'[k] = IF k = q.id THEN q.review ELSE reviews[k]
    BY <1>4 DEF WalkInv, WalkType
  <2>2. \A k \in Reviews \ {q.id} : reviews[k] # None => ~Same(q.review, reviews[k])
    BY <1>4 DEF IndexesRefuse
  <2>3. \A k \in Reviews \ {q.id} : reviews[k] # None => ~Same(reviews[k], q.review)
    BY <2>2 DEF Same
  <2> QED
    BY <2>1, <2>2, <2>3 DEF WalkInv, Unique
<1>7. OneEach'
  BY DEF WriteSave, booked, WalkInv, OneEach
<1> QED
  BY <1>1, <1>5, <1>6, <1>7 DEF WalkInv

LEMMA ReplyHolds ==
    ASSUME WalkInv, NEW r \in Requests, Reply(r) PROVE WalkInv'
<1>1. ASSUME NEW i \in Reviews, ReplyFind(r, i) PROVE WalkInv'
  <2>1. PICK new : new = [Idle EXCEPT !.step = "reply", !.id = i]
    OBVIOUS
  <2>2. new.step = "reply" /\ new.id = i /\ Shape(new)
    BY <2>1 DEF Idle, Shape
  <2>3. HeldWalk(new)
    BY <2>2 DEF HeldWalk
  <2> QED
    BY <1>1, <2>1, <2>3, HoldStep DEF ReplyFind, Holds, setup, booked
<1>2. ASSUME NEW reply \in BOOLEAN, ReplyUpdate(r, reply) PROVE WalkInv'
  <2>1. Held' /\ DOMAIN req' = Requests /\ req' = [q \in Requests |-> req'[q]]
    BY <1>2, IdleHolds, HoldKeeps DEF ReplyUpdate, Finish, WalkInv
  <2>2. PICK i : i = req[r].id
    OBVIOUS
  <2>3. i \in Reviews
    BY <1>2, <2>2 DEF WalkInv, Held, HeldWalk, ReplyUpdate
  <2>4. \/ reviews' = reviews
        \/ reviews[i] # None /\ reviews' = [reviews EXCEPT ![i].reply = reply]
    BY <1>2, <2>2 DEF ReplyUpdate
  <2>5. reviews' \in [Reviews -> Review \cup {None}]
    BY <2>3, <2>4 DEF WalkInv, WalkType, Review
  <2>6. \A k \in Reviews : /\ reviews'[k] # None => reviews[k] # None
                           /\ reviews[k] # None => /\ reviews'[k].booking = reviews[k].booking
                                                   /\ reviews'[k].owner = reviews[k].owner
                                                   /\ reviews'[k].business = reviews[k].business
    BY <2>3, <2>4 DEF WalkInv, WalkType, Review
  <2>7. Unique'
    BY <2>6 DEF WalkInv, Unique, Same
  <2>8. WalkType' /\ OneEach'
    BY <1>2, <2>1, <2>5 DEF ReplyUpdate, setup, log, booked, WalkInv, WalkType, OneEach
  <2> QED
    BY <2>1, <2>7, <2>8 DEF WalkInv
<1> QED
  BY <1>1, <1>2 DEF Reply

LEMMA DeleteHolds ==
    ASSUME WalkInv, NEW who, deleteRows(who) PROVE WalkInv'
<1>1. \A k \in Reviews : reviews'[k] = None \/ reviews'[k] = reviews[k]
  BY DEF deleteRows
<1>2. WalkType'
  BY <1>1 DEF deleteRows, setup, booked, WalkInv, WalkType
<1>3. Unique'
  BY <1>1 DEF WalkInv, Unique, Same
<1>4. Held'
  BY DEF deleteRows, WalkInv, Held, HeldWalk, Shape
<1>5. OneEach'
  BY DEF deleteRows, booked, WalkInv, OneEach
<1> QED
  BY <1>2, <1>3, <1>4, <1>5 DEF WalkInv

\* The idempotency index of the bookings refuses an index that is there.
LEMMA SeriesHolds ==
    ASSUME WalkInv, NEW r \in Requests, Series(r) PROVE WalkInv'
<1>1. PICK q : q = req[r]
  OBVIOUS
<1>2. HeldWalk(q) /\ Shape(q)
  BY <1>1 DEF WalkInv, Held, HeldWalk
<1>3. ASSUME NEW who \in Owners, SeriesSave(r, who) PROVE WalkInv'
  <2>1. PICK new : /\ req' = [req EXCEPT ![r] = new]
                   /\ new = [Idle EXCEPT !.step = "expand", !.series = Cardinality(series) + 1]
    BY <1>3 DEF SeriesSave, Holds
  <2>2. HeldWalk(new)
    BY <2>1 DEF Idle, HeldWalk, Shape
  <2> QED
    BY <1>3, <2>1, <2>2, HoldStep DEF SeriesSave, setup
<1>4. CASE SeriesExpand(r)
  <2>1. PICK new, days : /\ req' = [req EXCEPT ![r] = new]
                         /\ new = [q EXCEPT !.step = "next", !.index = 1, !.days = days]
    BY <1>1, <1>4 DEF SeriesExpand, Holds
  <2>2. HeldWalk(new)
    BY <1>2, <2>1 DEF HeldWalk, Shape
  <2> QED
    BY <1>4, <2>1, <2>2, HoldStep DEF SeriesExpand, setup, booked
<1>5. CASE SeriesFind(r)
  <2>1. PICK new, days : /\ req' = [req EXCEPT ![r] = new]
                         /\ \/ new = [q EXCEPT !.index = @ + 1, !.found = Append(@, days)]
                            \/ new = [q EXCEPT !.step = "insert"]
    BY <1>1, <1>5 DEF SeriesFind, Holds
  <2>2. HeldWalk(new)
    BY <1>1, <1>2, <1>5, <2>1 DEF SeriesFind, HeldWalk, Shape
  <2> QED
    BY <1>5, <2>1, <2>2, HoldStep DEF SeriesFind, setup, booked
<1>6. CASE SeriesInsert(r)
  <2>1. PICK new : /\ req' = [req EXCEPT ![r] = new]
                   /\ new = [q EXCEPT !.step = "next", !.index = @ + 1,
                                      !.found = Append(@, q.days[q.index])]
    BY <1>1, <1>6 DEF SeriesInsert, Holds
  <2>2. HeldWalk(new)
    BY <1>2, <2>1 DEF HeldWalk, Shape
  <2>3. Held' /\ DOMAIN req' = Requests /\ req' = [k \in Requests |-> req'[k]]
    BY <1>6, <2>1, <2>2, HoldKeeps DEF SeriesInsert, WalkInv
  <2>4. WalkType' /\ Unique'
    BY <1>6, <2>3 DEF SeriesInsert, setup, log, WalkInv, WalkType, Unique, Same
  <2>5. PICK x : /\ x.index = q.index /\ occurrences' = occurrences \cup {x}
                 /\ OccurrenceWith(q) = {}
    BY <1>1, <1>6 DEF SeriesInsert
  <2>6. OneEach'
    BY <2>5 DEF WalkInv, OneEach, OccurrenceWith
  <2> QED
    BY <2>3, <2>4, <2>6 DEF WalkInv
<1>7. CASE SeriesAnswer(r)
  BY <1>7, IdleHolds, HoldStep DEF SeriesAnswer, Finish, setup, booked
<1> QED
  BY <1>3, <1>4, <1>5, <1>6, <1>7 DEF Series

LEMMA TickHolds == ASSUME WalkInv, Tick PROVE WalkInv'
<1>1. today' \in Days
  <2>1. today \in Days /\ today'.day <= Horizon
    BY DEF Tick, WalkInv, WalkType
  <2>2. CASE today.time = 0
    BY <2>1, <2>2 DEF Tick, Days
  <2>3. CASE today.time # 0
    BY <2>1, <2>3 DEF Tick, Days
  <2> QED
    BY <2>2, <2>3
<1>2. WalkType'
  BY <1>1 DEF Tick, log, setup, WalkInv, WalkType
<1>3. Held'
  BY DEF Tick, WalkInv, Held, HeldWalk, Shape
<1>4. Unique' /\ OneEach'
  BY DEF Tick, booked, WalkInv, Unique, OneEach, Same
<1> QED
  BY <1>2, <1>3, <1>4 DEF WalkInv

LEMMA StepHolds == WalkInv /\ [Next]_vars => WalkInv'
<1> SUFFICES ASSUME WalkInv, [Next]_vars PROVE WalkInv'
  OBVIOUS
<1>1. ASSUME NEW r \in Requests, Log(r) PROVE WalkInv'
  BY <1>1, LogLoadHolds, LogUploadHolds, LogSaveHolds DEF Log
<1>2. ASSUME NEW r \in Requests, Write(r) PROVE WalkInv'
  BY <1>2, WriteLoadHolds, WriteCheckHolds, WriteFindHolds, WriteSaveHolds DEF Write
<1>3. CASE UNCHANGED vars
  <2>1. WalkType' /\ Unique' /\ OneEach'
    BY <1>3 DEF vars, log, booked, setup, WalkInv, WalkType, Unique, OneEach, Same
  <2>2. Held'
    BY <1>3 DEF vars, WalkInv, Held, HeldWalk, Shape
  <2> QED
    BY <2>1, <2>2 DEF WalkInv
<1> QED
  BY <1>1, <1>2, <1>3, AbandonHolds, ReplyHolds, SeriesHolds, MoveHolds, ComesDueHolds,
     DeleteHolds, TickHolds DEF Next

LEMMA Whatever == Spec => []WalkInv
BY WalkInit, StepHolds, PTL DEF Spec

(***************************************************************************)
(* When requests do not overlap.                                           *)
(***************************************************************************)

Solo == \A q, r \in Requests : req[q] # Idle /\ req[r] # Idle => q = r

\* What a request has looked up is still so.
InStep(q) ==
    /\ q.step \in {"upload", "log"} => bookings[q.booking].status = InProgress
    /\ q.step \in {"write", "find", "save"} => deleted \cap {q.who[1], q.who[2]} = {}
    /\ q.step = "save" => deleted \cap {q.review.owner, q.review.business} = {}

\* No account that is gone has written a review or has one about it.
Gone == \A i \in Reviews : reviews[i] # None =>
           deleted \cap {reviews[i].owner, reviews[i].business} = {}

AloneInv == alone => Solo /\ (\A r \in Requests : InStep(req[r])) /\ Gone

Others(r) == \A k \in Requests \ {r} : req[k] = Idle

LEMMA IdleInStep == InStep(Idle)
BY IdleHolds DEF InStep

LEMMA Only == ASSUME Solo, NEW r \in Requests, req[r] # Idle PROVE Others(r)
BY DEF Solo, Others

LEMMA WorksAlone ==
    ASSUME alone, Solo, NEW r \in Requests,
           \/ Series(r)
           \/ Log(r)
           \/ Write(r)
           \/ Reply(r)
           \/ Abandon(r)
    PROVE  Others(r)
<1>1. CASE req[r] # Idle
  BY <1>1, Only
<1>2. CASE req[r] = Idle /\ \E e, who : Arrives(r, e, who)
  BY <1>2 DEF Arrives, Others
<1>3. CASE req[r] = Idle /\ ~\E e, who : Arrives(r, e, who)
  <2>1. req[r].step = "idle"
    BY <1>3, IdleHolds
  <2>2. ~Abandon(r)
    BY <1>3 DEF Abandon
  <2>3. ~Log(r)
    BY <1>3, <2>1 DEF Log, LogLoad, LogUpload, LogSave
  <2>4. ~Reply(r)
    BY <1>3, <2>1 DEF Reply, ReplyFind, ReplyUpdate
  <2>5. ~Write(r)
    BY <1>3, <2>1 DEF Write, WriteLoad, WriteCheck, WriteFind, WriteSave
  <2>6. ~Series(r)
    BY <1>3, <2>1 DEF Series, SeriesSave, SeriesExpand, SeriesFind, SeriesInsert, SeriesAnswer
  <2> QED
    BY <2>2, <2>3, <2>4, <2>5, <2>6
<1> QED
  BY <1>1, <1>2, <1>3

LEMMA AloneStep ==
    ASSUME WalkType, NEW r \in Requests, Others(r), NEW new, InStep(new),
           req' = [req EXCEPT ![r] = new], bookings' = bookings, deleted' = deleted, Gone'
    PROVE  AloneInv'
<1>1. \A k \in Requests : req'[k] = IF k = r THEN new ELSE Idle
  BY DEF WalkType, Others
<1>2. Solo'
  BY <1>1 DEF Solo, Idle
<1>3. InStep(new)' /\ InStep(Idle)'
  BY IdleInStep DEF InStep
<1>4. \A k \in Requests : InStep(req[k])'
  <2>1. TAKE k \in Requests
  <2>2. CASE k = r
    BY <1>1, <1>3, <2>2 DEF InStep
  <2>3. CASE k # r
    <3>1. req'[k] = Idle /\ Idle.step = "idle"
      BY <1>1, <2>3, IdleHolds
    <3> QED
      BY <3>1 DEF InStep
  <2> QED
    BY <2>2, <2>3
<1> QED
  BY <1>2, <1>4 DEF AloneInv

\* A request moves on alone, and no row of a booking, a review or an account changes.
LEMMA AloneHolds ==
    ASSUME WalkType, Gone, NEW r \in Requests, Others(r), NEW new, InStep(new),
           req' = [req EXCEPT ![r] = new],
           bookings' = bookings, deleted' = deleted, reviews' = reviews
    PROVE  AloneInv'
<1>1. Gone'
  BY DEF Gone
<1> QED
  BY <1>1, AloneStep

LEMMA LogAlone ==
    ASSUME WalkInv, alone, AloneInv, NEW r \in Requests, Others(r), Log(r) PROVE AloneInv'
<1>1. WalkType /\ Gone /\ InStep(req[r])
  BY DEF WalkInv, AloneInv
<1>2. ASSUME NEW b \in Bookings, NEW kind, LogLoad(r, b, kind) PROVE AloneInv'
  <2>1. PICK new : new = [Idle EXCEPT !.step = IF kind = "photo" THEN "upload" ELSE "log",
                                      !.booking = b, !.kind = kind]
    OBVIOUS
  <2>2. new.step \in {"upload", "log"} /\ new.booking = b
    BY <2>1 DEF Idle
  <2>3. InStep(new)
    BY <1>2, <2>2 DEF InStep, LogLoad
  <2> QED
    BY <1>1, <1>2, <2>1, <2>3, AloneHolds DEF LogLoad, Holds
<1>3. CASE LogUpload(r)
  <2>1. PICK q : q = req[r]
    OBVIOUS
  <2>2. Shape(q) /\ q.step = "upload" /\ InStep(q)
    BY <1>1, <1>3, <2>1 DEF LogUpload, WalkInv, Held, HeldWalk
  <2>3. PICK new : new = [q EXCEPT !.step = "log"]
    OBVIOUS
  <2>4. new.step = "log" /\ new.booking = q.booking
    BY <2>2, <2>3 DEF Shape
  <2>5. InStep(new)
    BY <2>2, <2>4 DEF InStep
  <2> QED
    BY <1>1, <1>3, <2>1, <2>3, <2>5, AloneHolds DEF LogUpload, Holds
<1>4. CASE LogSave(r)
  BY <1>1, <1>4, IdleInStep, AloneHolds DEF LogSave, Finish
<1> QED
  BY <1>2, <1>3, <1>4 DEF Log

LEMMA WriteAlone ==
    ASSUME WalkInv, alone, AloneInv, NEW r \in Requests, Others(r), Write(r) PROVE AloneInv'
<1>1. WalkType /\ Gone /\ InStep(req[r])
  BY DEF WalkInv, AloneInv
<1>2. PICK q : q = req[r]
  OBVIOUS
<1>3. HeldWalk(q) /\ Shape(q) /\ InStep(q)
  BY <1>1, <1>2 DEF WalkInv, Held, HeldWalk
<1>4. ASSUME NEW who \in Owners, NEW business \in Businesses, NEW b \in Bookings \cup {None},
             WriteLoad(r, who, business, b)
      PROVE  AloneInv'
  <2>1. PICK new : new = [Idle EXCEPT !.step = "write", !.booking = b, !.who = <<who, business>>]
    OBVIOUS
  <2>2. new.step = "write" /\ new.who = <<who, business>>
    BY <2>1 DEF Idle
  <2>3. who \notin deleted /\ business \notin deleted
    BY <1>4 DEF WriteLoad, Arrives
  <2>4. InStep(new)
    BY <2>2, <2>3 DEF InStep
  <2> QED
    BY <1>1, <1>4, <2>1, <2>4, AloneHolds DEF WriteLoad, Holds
<1>5. CASE WriteCheck(r)
  <2>1. PICK new : /\ req' = [req EXCEPT ![r] = new]
                   /\ \/ new = [q EXCEPT !.step = "find"]
                      \/ new = [q EXCEPT !.step = "find", !.booking = None]
    BY <1>2, <1>5 DEF WriteCheck, Holds
  <2>2. new.step = "find" /\ new.who = q.who /\ q.step = "write"
    BY <1>2, <1>3, <1>5, <2>1 DEF Shape, WriteCheck
  <2>3. InStep(new)
    BY <1>3, <2>2 DEF InStep
  <2> QED
    BY <1>1, <1>5, <2>1, <2>3, AloneHolds DEF WriteCheck
<1>6. ASSUME NEW rating \in Rates, WriteFind(r, rating) PROVE AloneInv'
  <2>1. PICK new : /\ HeldWalk(new) /\ new.step = "save" /\ new.who = req[r].who
                   /\ req' = [req EXCEPT ![r] = new]
                   /\ \/ \E i \in Reviews : /\ reviews[i] # None
                                            /\ new.review.owner = reviews[i].owner
                                            /\ new.review.business = reviews[i].business
                      \/ <<new.review.owner, new.review.business>> = new.who
    BY <1>6, FindHolds
  <2>2. q.step = "find" /\ new.who = q.who
    BY <1>2, <1>6, <2>1 DEF WriteFind
  <2>3. deleted \cap {new.who[1], new.who[2]} = {}
    BY <1>3, <2>2 DEF InStep
  <2>4. deleted \cap {new.review.owner, new.review.business} = {}
    BY <1>1, <2>1, <2>3 DEF Gone
  <2>5. InStep(new)
    BY <2>1, <2>3, <2>4 DEF InStep
  <2> QED
    BY <1>1, <1>6, <2>1, <2>5, AloneHolds DEF WriteFind
<1>7. CASE WriteSave(r)
  <2>1. q.step = "save" /\ reviews' = [reviews EXCEPT ![q.id] = q.review] /\ deleted' = deleted
    BY <1>2, <1>7 DEF WriteSave
  <2>2. deleted \cap {q.review.owner, q.review.business} = {}
    BY <1>3, <2>1 DEF InStep
  <2>3. \A i \in Reviews : reviews'[i] = reviews[i] \/ reviews'[i] = q.review
    BY <1>1, <2>1 DEF WalkType
  <2>4. Gone'
    BY <1>1, <2>1, <2>2, <2>3 DEF Gone
  <2> QED
    BY <1>1, <1>7, <2>4, IdleInStep, AloneStep DEF WriteSave, Finish
<1> QED
  BY <1>4, <1>5, <1>6, <1>7 DEF Write

LEMMA ReplyAlone ==
    ASSUME WalkInv, alone, AloneInv, NEW r \in Requests, Others(r), Reply(r) PROVE AloneInv'
<1>1. WalkType /\ Gone
  BY DEF WalkInv, AloneInv
<1>2. ASSUME NEW i \in Reviews, ReplyFind(r, i) PROVE AloneInv'
  <2>1. PICK new : new = [Idle EXCEPT !.step = "reply", !.id = i]
    OBVIOUS
  <2>2. InStep(new)
    BY <2>1 DEF Idle, InStep
  <2> QED
    BY <1>1, <1>2, <2>1, <2>2, AloneHolds DEF ReplyFind, Holds
<1>3. ASSUME NEW reply \in BOOLEAN, ReplyUpdate(r, reply) PROVE AloneInv'
  <2>1. PICK i : i = req[r].id
    OBVIOUS
  <2>2. i \in Reviews
    BY <1>3, <2>1 DEF WalkInv, Held, HeldWalk, ReplyUpdate
  <2>3. \/ reviews' = reviews
        \/ reviews[i] # None /\ reviews' = [reviews EXCEPT ![i].reply = reply]
    BY <1>3, <2>1 DEF ReplyUpdate
  <2>4. \A k \in Reviews : reviews'[k] # None =>
           /\ reviews[k] # None
           /\ reviews'[k].owner = reviews[k].owner /\ reviews'[k].business = reviews[k].business
    BY <1>1, <2>2, <2>3 DEF WalkType, Review
  <2>5. Gone'
    BY <1>1, <1>3, <2>4 DEF Gone, ReplyUpdate
  <2> QED
    BY <1>1, <1>3, <2>5, IdleInStep, AloneStep DEF ReplyUpdate, Finish
<1> QED
  BY <1>2, <1>3 DEF Reply

LEMMA SeriesAlone ==
    ASSUME WalkInv, alone, AloneInv, NEW r \in Requests, Others(r), Series(r) PROVE AloneInv'
<1>1. WalkType /\ Gone
  BY DEF WalkInv, AloneInv
<1>2. PICK q : q = req[r]
  OBVIOUS
<1>3. Shape(q)
  BY <1>2 DEF WalkInv, Held, HeldWalk
<1>4. PICK new : req' = [req EXCEPT ![r] = new] /\ new.step \in {"idle", "expand", "next", "insert"}
  <2>1. CASE \E who \in Owners : SeriesSave(r, who)
    <3>1. PICK new : /\ req' = [req EXCEPT ![r] = new]
                     /\ new = [Idle EXCEPT !.step = "expand", !.series = Cardinality(series) + 1]
      BY <2>1 DEF SeriesSave, Holds
    <3>2. new.step = "expand"
      BY <3>1 DEF Idle
    <3> QED
      BY <3>1, <3>2
  <2>2. CASE SeriesExpand(r)
    <3>1. PICK new, days : /\ req' = [req EXCEPT ![r] = new]
                           /\ new = [q EXCEPT !.step = "next", !.index = 1, !.days = days]
      BY <1>2, <2>2 DEF SeriesExpand, Holds
    <3>2. new.step = "next"
      BY <1>3, <3>1 DEF Shape
    <3> QED
      BY <3>1, <3>2
  <2>3. CASE SeriesFind(r)
    <3>1. PICK new, day : /\ req' = [req EXCEPT ![r] = new]
                          /\ \/ new = [q EXCEPT !.index = @ + 1, !.found = Append(@, day)]
                             \/ new = [q EXCEPT !.step = "insert"]
      BY <1>2, <2>3 DEF SeriesFind, Holds
    <3>2. q.step = "next"
      BY <1>2, <2>3 DEF SeriesFind
    <3>3. new.step \in {"next", "insert"}
      BY <1>3, <3>1, <3>2 DEF Shape
    <3> QED
      BY <3>1, <3>3
  <2>4. CASE SeriesInsert(r)
    <3>1. PICK new : /\ req' = [req EXCEPT ![r] = new]
                     /\ new = [q EXCEPT !.step = "next", !.index = @ + 1,
                                        !.found = Append(@, q.days[q.index])]
      BY <1>2, <2>4 DEF SeriesInsert, Holds
    <3>2. new.step = "next"
      BY <1>3, <3>1 DEF Shape
    <3> QED
      BY <3>1, <3>2
  <2>5. CASE SeriesAnswer(r)
    BY <2>5, IdleHolds DEF SeriesAnswer, Finish
  <2> QED
    BY <2>1, <2>2, <2>3, <2>4, <2>5 DEF Series
<1>5. InStep(new)
  BY <1>4 DEF InStep
<1>6. bookings' = bookings /\ deleted' = deleted /\ reviews' = reviews
  BY DEF Series, SeriesSave, SeriesExpand, SeriesFind, SeriesInsert, SeriesAnswer
<1> QED
  BY <1>1, <1>4, <1>5, <1>6, AloneHolds

\* A booking moves, an account goes or the day does while no request is in flight.
LEMMA QuietAlone ==
    ASSUME WalkInv, alone, AloneInv, Quiet, req' = req, Gone' PROVE AloneInv'
<1>1. \A r \in Requests : req'[r] = Idle
  BY DEF Quiet
<1>2. Solo'
  BY <1>1 DEF Solo
<1>3. ASSUME NEW r \in Requests PROVE InStep(req[r])'
  <2>1. req'[r] = Idle /\ Idle.step = "idle"
    BY <1>1, IdleHolds
  <2> QED
    BY <2>1 DEF InStep
<1> QED
  BY <1>2, <1>3 DEF AloneInv

LEMMA AloneNext == WalkInv /\ AloneInv /\ [Next]_vars => AloneInv'
<1> SUFFICES ASSUME WalkInv, AloneInv, [Next]_vars PROVE AloneInv'
  OBVIOUS
<1>1. alone' = alone
  BY DEF Next, vars, setup, Series, SeriesSave, SeriesExpand, SeriesFind, SeriesInsert,
     SeriesAnswer, Log, LogLoad, LogUpload, LogSave, Write, WriteLoad, WriteCheck, WriteFind,
     WriteSave, Reply, ReplyFind, ReplyUpdate, Abandon, Move, ComesDue, deleteRows, Tick
<1>2. CASE ~alone
  BY <1>1, <1>2 DEF AloneInv
<1>3. CASE alone
  <2>1. Solo /\ Gone
    BY <1>3 DEF AloneInv
  <2>2. ASSUME NEW r \in Requests, Series(r) \/ Log(r) \/ Write(r) \/ Reply(r) PROVE AloneInv'
    BY <1>3, <2>1, <2>2, WorksAlone, LogAlone, WriteAlone, ReplyAlone, SeriesAlone
  <2>3. ASSUME NEW r \in Requests, Abandon(r) PROVE AloneInv'
    <3>1. Others(r)
      BY <1>3, <2>1, <2>3, WorksAlone
    <3> QED
      BY <2>1, <2>3, <3>1, IdleInStep, AloneHolds DEF WalkInv, Abandon, Finish
  <2>4. ASSUME NEW b \in Bookings, \/ ComesDue(b)
                                   \/ \E status \in Statuses : Move(b, status)
        PROVE  AloneInv'
    <3>1. Gone'
      BY <2>1, <2>4 DEF Gone, ComesDue, Move
    <3> QED
      BY <1>3, <2>4, <3>1, QuietAlone DEF ComesDue, Move
  <2>5. ASSUME NEW who, deleteRows(who) PROVE AloneInv'
    <3>1. \A i \in Reviews : reviews'[i] # None => /\ reviews'[i] = reviews[i]
                                                   /\ who \notin {reviews[i].owner, reviews[i].business}
      BY <2>5 DEF deleteRows
    <3>2. Gone'
      BY <2>1, <2>5, <3>1 DEF Gone, deleteRows
    <3> QED
      BY <1>3, <2>5, <3>2, QuietAlone DEF deleteRows
  <2>6. CASE Tick
    <3>1. Gone'
      BY <2>1, <2>6 DEF Gone, Tick
    <3> QED
      BY <1>3, <2>6, <3>1, QuietAlone DEF Tick
  <2>7. CASE UNCHANGED vars
    BY <2>7 DEF vars, log, booked, setup, AloneInv, Solo, InStep, Gone
  <2> QED
    BY <2>2, <2>3, <2>4, <2>5, <2>6, <2>7 DEF Next
<1> QED
  BY <1>2, <1>3

LEMMA AloneInit == Init => AloneInv
<1> SUFFICES ASSUME Init PROVE AloneInv
  OBVIOUS
<1>1. \A r \in Requests : req[r] = Idle
  BY DEF Init
<1>2. \A r \in Requests : InStep(req[r])
  BY <1>1, IdleInStep
<1> QED
  BY <1>1, <1>2 DEF Init, AloneInv, Solo, Gone

LEMMA Alone == Spec => []AloneInv
BY AloneInit, AloneNext, Whatever, PTL DEF Spec

(***************************************************************************)
(* Reviews and the log.                                                    *)
(***************************************************************************)

\* Two reviews of one booking, or of one owner and business, are one review, whatever
\* requests overlap; and when none do, an account that was deleted has none left.
THEOREM OneReview == Spec => []OneReviewEach
<1>1. WalkInv /\ AloneInv => OneReviewEach
  BY DEF WalkInv, Unique, AloneInv, Gone, OneReviewEach
<1> QED
  BY <1>1, Whatever, Alone, PTL

\* Only a save and the deletion of the walker change a log.
LEMMA LogChanges ==
    ASSUME [Next]_vars
    PROVE  \/ \E r \in Requests : LogSave(r)
           \/ \E who : deleteRows(who)
           \/ trail' = trail /\ events' = events
<1>1. ASSUME NEW r \in Requests, Series(r) PROVE trail' = trail /\ events' = events
  BY <1>1 DEF Series, SeriesSave, SeriesExpand, SeriesFind, SeriesInsert, SeriesAnswer, log
<1>2. ASSUME NEW r \in Requests, Log(r), ~LogSave(r) PROVE trail' = trail /\ events' = events
  BY <1>2 DEF Log, LogLoad, LogUpload, log
<1>3. ASSUME NEW r \in Requests, Write(r) \/ Reply(r) \/ Abandon(r)
      PROVE  trail' = trail /\ events' = events
  BY <1>3 DEF Write, WriteLoad, WriteCheck, WriteFind, WriteSave, Reply, ReplyFind, ReplyUpdate,
     Abandon, log
<1>4. ASSUME \/ \E b \in Bookings : ComesDue(b) \/ \E status \in Statuses : Move(b, status)
             \/ Tick \/ UNCHANGED vars
      PROVE  trail' = trail /\ events' = events
  BY <1>4 DEF ComesDue, Move, Tick, vars, log
<1> QED
  BY <1>1, <1>2, <1>3, <1>4 DEF Next

\* A completed walk stays completed.
LEMMA CompletedStays ==
    ASSUME WalkType, [Next]_vars, NEW b \in Bookings, bookings[b].status = Completed
    PROVE  bookings'[b].status = Completed
<1>1. ASSUME NEW k \in Bookings, NEW status \in Statuses, Move(k, status)
      PROVE  bookings'[b].status = Completed
  <2>1. status # Disputed /\ canTransition(bookings[k].status, status)
    BY <1>1 DEF Move
  <2>2. bookings[k].status # Completed
    BY <2>1 DEF canTransition, ALLOWED_TRANSITIONS, Requested, Accepted, Confirmed,
       InProgress, Completed, Cancelled, Disputed
  <2> QED
    BY <1>1, <2>2 DEF Move, WalkType, Row
<1>2. ASSUME NEW k \in Bookings, ComesDue(k) PROVE bookings'[b].status = Completed
  BY <1>2 DEF ComesDue, WalkType, Row
<1>3. CASE bookings' = bookings
  BY <1>3
<1> QED
  BY <1>1, <1>2, <1>3 DEF Next, vars, Series, SeriesSave, SeriesExpand, SeriesFind, SeriesInsert,
     SeriesAnswer, Log, LogLoad, LogUpload, LogSave, Write, WriteLoad, WriteCheck, WriteFind,
     WriteSave, Reply, ReplyFind, ReplyUpdate, Abandon, deleteRows, Tick

\* Nothing is logged of a walk that did not start, however late the log is saved; and
\* when no requests overlap the report card of a finished walk keeps all but its trail.
THEOREM LogKeeps == Spec => LogKeepsToTheWalk
<1>1. ASSUME WalkInv, AloneInv, [Next]_vars, NEW b \in Bookings
      PROVE  /\ report(b)'.route > report(b).route \/ report(b)'.events > report(b).events
                => bookings[b].status \in {InProgress, Completed}
             /\ alone /\ bookings[b].status = Completed
                => \/ report(b)' = report(b)
                   \/ report(b)' = [report(b) EXCEPT !.route = 0] /\ BusinessOf[b] \in deleted'
  <2>1. /\ report(b)  = [status |-> bookings[b].status, route |-> trail[b], events |-> events[b]]
        /\ report(b)' = [status |-> bookings'[b].status, route |-> trail'[b], events |-> events'[b]]
    BY DEF report
  <2>2. /\ trail[b] \in Nat /\ events[b] \in Nat
        /\ alone /\ bookings[b].status = Completed => bookings'[b].status = bookings[b].status
    BY <1>1, CompletedStays DEF WalkInv, WalkType
  <2>3. ASSUME NEW r \in Requests, LogSave(r)
        PROVE  /\ req[r].booking \in Bookings
               /\ bookings[req[r].booking].status \in {InProgress, Completed}
               /\ alone => bookings[req[r].booking].status = InProgress
               /\ b # req[r].booking => trail'[b] = trail[b] /\ events'[b] = events[b]
    <3>1. req[r].step = "log" /\ req[r].booking \in Bookings
      BY <1>1, <2>3 DEF LogSave, WalkInv, Held, HeldWalk
    <3>2. /\ bookings[req[r].booking].status \in {InProgress, Completed}
          /\ alone => bookings[req[r].booking].status = InProgress
      BY <1>1, <3>1 DEF WalkInv, Held, HeldWalk, AloneInv, InStep
    <3> QED
      BY <1>1, <2>3, <3>1, <3>2 DEF LogSave, WalkInv, WalkType
  <2>4. CASE \E r \in Requests : LogSave(r)
    <3>1. PICK r \in Requests : LogSave(r)
      BY <2>4
    <3>2. b # req[r].booking => trail'[b] = trail[b] /\ events'[b] = events[b]
      BY <2>3, <3>1
    <3>3. alone /\ bookings[b].status = Completed => b # req[r].booking
      BY <2>3, <3>1 DEF InProgress, Completed
    <3>4. trail'[b] # trail[b] \/ events'[b] # events[b] => bookings[b].status \in {InProgress, Completed}
      BY <2>3, <3>1, <3>2
    <3>5. CASE trail'[b] = trail[b] /\ events'[b] = events[b]
      BY <2>1, <2>2, <3>5
    <3>6. CASE ~(trail'[b] = trail[b] /\ events'[b] = events[b])
      BY <3>2, <3>3, <3>4, <3>6
    <3> QED
      BY <3>5, <3>6
  <2>5. ASSUME NEW who, deleteRows(who)
        PROVE  /\ events'[b] = events[b]
               /\ trail'[b] = trail[b] \/ (trail'[b] = 0 /\ BusinessOf[b] \in deleted')
    BY <1>1, <2>5 DEF deleteRows, WalkInv, WalkType
  <2>6. CASE \E who : deleteRows(who)
    BY <2>1, <2>2, <2>5, <2>6
  <2>7. CASE trail' = trail /\ events' = events
    BY <2>1, <2>2, <2>7
  <2> QED
    BY <1>1, <2>4, <2>6, <2>7, LogChanges
<1>2. WalkInv /\ AloneInv /\ [Next]_vars =>
      [\A b \in Bookings :
          /\ report(b)'.route > report(b).route \/ report(b)'.events > report(b).events
             => bookings[b].status \in {InProgress, Completed}
          /\ alone /\ bookings[b].status = Completed
             => \/ report(b)' = report(b)
                \/ report(b)' = [report(b) EXCEPT !.route = 0] /\ BusinessOf[b] \in deleted']_vars
  BY <1>1
<1> QED
  BY <1>2, Whatever, Alone, PTL DEF Spec, LogKeepsToTheWalk

(***************************************************************************)
(* The series, when requests do not overlap.                               *)
(***************************************************************************)

Booked(i)      == \E x \in occurrences : x.index = i
Below(d, days) == \A i \in DOMAIN d \cap DOMAIN days : d[i] <= days[i]

\* Every list of days was asked for at some instant up to now.
Expanded(d) == \E t \in Days : Earlier(t, today) /\ d = expandOccurrences(rule, t, 4)

\* Every occurrence has those before it, and a day that was asked for.
Taken(x) ==
    /\ x.index \in Nat \ {0}
    /\ \A i \in 1..x.index : Booked(i)
    /\ \E d \in asked : x.index \in DOMAIN d /\ x.day = d[x.index]

\* An attempt half way: its days are no earlier than any asked before, the occurrences
\* up to its own are booked, and it has found their days.
Expanding(q) ==
    /\ q.step = "expand" => q.found = <<>>
    /\ q.step \in {"next", "insert"} =>
          /\ q.days \in asked /\ q.days \in Seq(Nat)
          /\ \A d \in asked : Below(d, q.days)
          /\ q.index \in 1..(Len(q.days) + 1)
          /\ \A i \in 1..(q.index - 1) : Booked(i)
          /\ q.step = "insert" => q.index <= Len(q.days)
          /\ q.found \in Seq(Nat) /\ Len(q.found) = q.index - 1
          /\ asked = {q.days} => \A i \in 1..(q.index - 1) : q.found[i] = q.days[i]

Asked    == IsFiniteSet(asked) /\ \A d \in asked : d \in Seq(Nat) /\ Expanded(d)
Ordered  == \A x, y \in occurrences : x.index < y.index => x.day < y.day
Answered == /\ answers # {} => asked # {}
            /\ \A d \in asked : asked = {d} => answers \subseteq {d}

SeriesInv ==
    alone => /\ Asked /\ Ordered /\ Answered
             /\ \A x \in occurrences : Taken(x)
             /\ \A r \in Requests : Expanding(req[r])

LEMMA IdleExpanding == Expanding(Idle)
BY IdleHolds DEF Expanding, Idle

\* A request alone moves on in its series; what was asked for and what was booked can
\* only have grown.
LEMMA SeriesStep ==
    ASSUME WalkType, NEW r \in Requests, Others(r), NEW new, Expanding(new)',
           req' = [req EXCEPT ![r] = new], Asked', Ordered', Answered',
           \A x \in occurrences' : Taken(x)'
    PROVE  SeriesInv'
<1>1. \A k \in Requests : req'[k] = IF k = r THEN new ELSE Idle
  BY DEF WalkType, Others
<1>2. Expanding(Idle)'
  BY IdleHolds DEF Expanding, Idle
<1>3. ASSUME NEW k \in Requests PROVE Expanding(req[k])'
  BY <1>1, <1>2 DEF Expanding
<1> QED
  BY <1>3 DEF SeriesInv

\* The tables of the series do not change, and the day does not go back.
LEMMA SeriesRests ==
    ASSUME WalkType, alone, SeriesInv, UNCHANGED <<occurrences, asked, answers, rule>>,
           today' \in Days, Earlier(today, today')
    PROVE  Asked' /\ Ordered' /\ Answered' /\ \A x \in occurrences' : Taken(x)'
<1>1. ASSUME NEW t \in Days, Earlier(t, today) PROVE Earlier(t, today')
  BY <1>1 DEF Earlier, Days, WalkType
<1>2. \A d \in asked : Expanded(d)'
  BY <1>1 DEF SeriesInv, Asked, Expanded
<1> QED
  BY <1>2 DEF SeriesInv, Asked, Ordered, Answered, Taken, Booked

LEMMA NowIsNow == WalkType /\ today' = today => today' \in Days /\ Earlier(today, today')
BY DEF WalkType, Days, Earlier

\* A request of another kind.
LEMMA SeriesAside ==
    ASSUME WalkType, alone, SeriesInv, NEW r \in Requests, Others(r), NEW new,
           new.step \notin {"expand", "next", "insert"}, req' = [req EXCEPT ![r] = new],
           UNCHANGED <<occurrences, asked, answers, rule, today>>
    PROVE  SeriesInv'
<1>1. Expanding(new)'
  BY DEF Expanding
<1> QED
  BY <1>1, NowIsNow, SeriesRests, SeriesStep

Aside(r) == \E new : /\ new.step \notin {"expand", "next", "insert"}
                     /\ req' = [req EXCEPT ![r] = new]

LEMMA OtherSteps ==
    ASSUME WalkInv, NEW r \in Requests, Log(r) \/ Write(r) \/ Reply(r) \/ Abandon(r)
    PROVE  Aside(r)
<1>1. PICK q : q = req[r]
  OBVIOUS
<1>2. Shape(q)
  BY <1>1 DEF WalkInv, Held, HeldWalk
<1>3. CASE req' = [req EXCEPT ![r] = Idle]
  BY <1>3, IdleHolds DEF Aside
<1>4. ASSUME NEW b \in Bookings, NEW kind, LogLoad(r, b, kind) PROVE Aside(r)
  <2>1. PICK new : /\ req' = [req EXCEPT ![r] = new]
                   /\ new = [Idle EXCEPT !.step = IF kind = "photo" THEN "upload" ELSE "log",
                                         !.booking = b, !.kind = kind]
    BY <1>4 DEF LogLoad, Holds
  <2>2. new.step \in {"upload", "log"}
    BY <2>1 DEF Idle
  <2> QED
    BY <2>1, <2>2 DEF Aside
<1>5. CASE LogUpload(r)
  <2>1. PICK new : req' = [req EXCEPT ![r] = new] /\ new = [q EXCEPT !.step = "log"]
    BY <1>1, <1>5 DEF LogUpload, Holds
  <2>2. new.step = "log"
    BY <1>2, <2>1 DEF Shape
  <2> QED
    BY <2>1, <2>2 DEF Aside
<1>6. ASSUME NEW who, NEW business, NEW b, WriteLoad(r, who, business, b) PROVE Aside(r)
  <2>1. PICK new : /\ req' = [req EXCEPT ![r] = new]
                   /\ new = [Idle EXCEPT !.step = "write", !.booking = b, !.who = <<who, business>>]
    BY <1>6 DEF WriteLoad, Holds
  <2>2. new.step = "write"
    BY <2>1 DEF Idle
  <2> QED
    BY <2>1, <2>2 DEF Aside
<1>7. CASE WriteCheck(r)
  <2>1. PICK new : /\ req' = [req EXCEPT ![r] = new]
                   /\ \/ new = [q EXCEPT !.step = "find"]
                      \/ new = [q EXCEPT !.step = "find", !.booking = None]
    BY <1>1, <1>7 DEF WriteCheck, Holds
  <2>2. new.step = "find"
    BY <1>2, <2>1 DEF Shape
  <2> QED
    BY <2>1, <2>2 DEF Aside
<1>8. ASSUME NEW rating \in Rates, WriteFind(r, rating) PROVE Aside(r)
  BY <1>8, FindHolds DEF Aside
<1>9. ASSUME NEW i, ReplyFind(r, i) PROVE Aside(r)
  <2>1. PICK new : /\ req' = [req EXCEPT ![r] = new]
                   /\ new = [Idle EXCEPT !.step = "reply", !.id = i]
    BY <1>9 DEF ReplyFind, Holds
  <2>2. new.step = "reply"
    BY <2>1 DEF Idle
  <2> QED
    BY <2>1, <2>2 DEF Aside
<1>10. CASE Log(r)
  BY <1>3, <1>4, <1>5, <1>10 DEF Log, LogSave, Finish
<1>11. CASE Write(r)
  BY <1>3, <1>6, <1>7, <1>8, <1>11 DEF Write, WriteSave, Finish
<1>12. CASE Reply(r)
  BY <1>3, <1>9, <1>12 DEF Reply, ReplyUpdate, Finish
<1>13. CASE Abandon(r)
  BY <1>3, <1>13 DEF Abandon, Finish
<1> QED
  BY <1>10, <1>11, <1>12, <1>13

\* The rule is expanded: the new days are no earlier than any asked for before.
LEMMA ExpandKeeps ==
    ASSUME WalkInv, alone, SeriesInv, NEW r \in Requests, Others(r), SeriesExpand(r)
    PROVE  SeriesInv'
<1>1. PICK q : q = req[r]
  OBVIOUS
<1>2. Shape(q) /\ q.step = "expand" /\ q.found = <<>>
  BY <1>1 DEF WalkInv, Held, HeldWalk, SeriesInv, Expanding, SeriesExpand
<1>3. PICK days : days = expandOccurrences(rule, today, 4)
  OBVIOUS
<1>4. PICK new : new = [q EXCEPT !.step = "next", !.index = 1, !.days = days]
  OBVIOUS
<1>5. req' = [req EXCEPT ![r] = new] /\ asked' = asked \cup {days}
  BY <1>1, <1>3, <1>4 DEF SeriesExpand, Holds
<1>6. /\ rule \in Recurrences /\ today \in Days /\ Earlier(today, today)
      /\ rule' = rule /\ today' = today /\ occurrences' = occurrences /\ answers' = answers
  BY NowIsNow DEF WalkInv, WalkType, SeriesExpand, setup, booked, Earlier, Days
<1>7. days \in Seq(Nat)
  BY InOrder, <1>3, <1>6 DEF ExpandsInOrder
<1>8. ASSUME NEW d \in asked' PROVE Below(d, days)
  <2>1. CASE d = days
    BY <1>7, <2>1 DEF Below
  <2>2. CASE d \in asked
    <3>1. PICK t \in Days : Earlier(t, today) /\ d = expandOccurrences(rule, t, 4)
      BY <2>2 DEF SeriesInv, Asked, Expanded
    <3> QED
      BY InOrder, <1>3, <1>6, <3>1 DEF ExpandsInOrder, Below
  <2> QED
    BY <1>5, <1>8, <2>1, <2>2
<1>9. /\ new.step = "next" /\ new.index = 1 /\ new.days = days /\ new.found = <<>>
  BY <1>2, <1>4 DEF Shape
<1>10. Expanding(new)'
  <2>1. new.days \in asked' /\ new.days \in Seq(Nat)
    BY <1>5, <1>7, <1>9
  <2>2. \A d \in asked' : Below(d, new.days)
    BY <1>8, <1>9
  <2>3. new.index \in 1..(Len(new.days) + 1) /\ new.found \in Seq(Nat) /\ Len(new.found) = new.index - 1
    BY <1>7, <1>9
  <2>4. 1..(new.index - 1) = {}
    BY <1>9
  <2> QED
    BY <1>9, <2>1, <2>2, <2>3, <2>4 DEF Expanding
<1>11. Asked'
  <2>1. IsFiniteSet(asked')
    BY <1>5, FS_AddElement DEF SeriesInv, Asked
  <2>2. ASSUME NEW d \in asked' PROVE d \in Seq(Nat) /\ Expanded(d)'
    BY <1>3, <1>5, <1>6, <1>7, <2>2 DEF SeriesInv, Asked, Expanded
  <2> QED
    BY <2>1, <2>2 DEF Asked
<1>12. Ordered' /\ \A x \in occurrences' : Taken(x)'
  BY <1>5, <1>6 DEF SeriesInv, Ordered, Taken, Booked
<1>13. Answered'
  BY <1>5, <1>6 DEF SeriesInv, Answered
<1> QED
  BY <1>5, <1>10, <1>11, <1>12, <1>13, SeriesStep DEF WalkInv

\* The occurrence that is there is taken: when one list of days is all that was asked,
\* it is on the day of it.
LEMMA FindKeeps ==
    ASSUME WalkInv, alone, SeriesInv, NEW r \in Requests, Others(r), SeriesFind(r)
    PROVE  SeriesInv'
<1>1. PICK q : q = req[r]
  OBVIOUS
<1>2. Shape(q) /\ q.step = "next" /\ q.index <= Len(q.days) /\ Expanding(q)
  BY <1>1 DEF WalkInv, Held, HeldWalk, SeriesInv, SeriesFind
<1>3. /\ UNCHANGED <<occurrences, asked, answers, rule>> /\ today' \in Days /\ Earlier(today, today')
  BY NowIsNow DEF WalkInv, SeriesFind, setup, booked, history
<1>4. Asked' /\ Ordered' /\ Answered' /\ \A x \in occurrences' : Taken(x)'
  BY <1>3, SeriesRests DEF WalkInv
<1>5. CASE \E x \in OccurrenceWith(q) :
              req' = [req EXCEPT ![r] = [q EXCEPT !.index = @ + 1, !.found = Append(@, x.day)]]
  <2>1. PICK x \in occurrences :
           /\ x.index = q.index
           /\ req' = [req EXCEPT ![r] = [q EXCEPT !.index = @ + 1, !.found = Append(@, x.day)]]
    BY <1>5 DEF OccurrenceWith
  <2>2. PICK new : new = [q EXCEPT !.index = @ + 1, !.found = Append(@, x.day)]
    OBVIOUS
  <2>3. /\ new.step = "next" /\ new.index = q.index + 1 /\ new.days = q.days
        /\ new.found = Append(q.found, x.day)
    BY <1>2, <2>2 DEF Shape
  <2>4. PICK d \in asked : x.index \in DOMAIN d /\ x.day = d[x.index]
    BY <2>1 DEF SeriesInv, Taken
  <2>5. d \in Seq(Nat) /\ x.day \in Nat
    BY <2>4 DEF SeriesInv, Asked
  <2>6. /\ q.days \in asked /\ q.days \in Seq(Nat) /\ q.index \in 1..(Len(q.days) + 1)
        /\ q.found \in Seq(Nat) /\ Len(q.found) = q.index - 1
        /\ \A i \in 1..(q.index - 1) : Booked(i)
    BY <1>2 DEF Expanding
  <2>7. new.found \in Seq(Nat) /\ Len(new.found) = new.index - 1 /\ new.index \in 1..(Len(new.days) + 1)
    <3>1. PICK day \in Nat : day = x.day
      BY <2>5
    <3>2. new.found = Append(q.found, day)
      BY <2>3, <3>1
    <3>3. new.found \in Seq(Nat) /\ Len(new.found) = Len(q.found) + 1
      BY <2>6, <3>2
    <3>4. PICK i, n \in Nat : i = q.index /\ n = Len(q.days)
      BY <2>6
    <3>5. i <= n /\ i >= 1
      BY <1>2, <2>6, <3>4
    <3>6. new.index = i + 1 /\ Len(new.days) = n /\ Len(new.found) = i
      BY <2>3, <2>6, <3>3, <3>4
    <3> QED
      BY <3>3, <3>5, <3>6
  <2>8. \A i \in 1..(new.index - 1) : Booked(i)
    <3>1. Booked(q.index)
      BY <2>1 DEF Booked
    <3> QED
      BY <2>3, <2>6, <3>1
  <2>9. ASSUME asked = {new.days}, NEW i \in 1..(new.index - 1) PROVE new.found[i] = new.days[i]
    <3>1. CASE i = q.index
      BY <2>1, <2>3, <2>4, <2>5, <2>6, <2>9, <3>1
    <3>2. CASE i # q.index
      <4>1. i \in 1..(q.index - 1)
        BY <2>3, <2>6, <3>2
      <4>2. q.found[i] = q.days[i]
        BY <1>2, <2>3, <2>9, <4>1 DEF Expanding
      <4> QED
        BY <2>3, <2>5, <2>6, <4>1, <4>2
    <3> QED
      BY <3>1, <3>2
  <2>10. \A e \in asked : Below(e, new.days)
    BY <1>2, <2>3 DEF Expanding
  <2>11. Expanding(new)
    BY <2>3, <2>6, <2>7, <2>8, <2>9, <2>10 DEF Expanding
  <2>12. Expanding(new)'
    BY <1>3, <2>11 DEF Expanding, Booked
    <2> QED
    BY <1>4, <2>1, <2>2, <2>12, SeriesStep DEF WalkInv
<1>6. CASE req' = [req EXCEPT ![r] = [q EXCEPT !.step = "insert"]]
  <2>1. PICK new : new = [q EXCEPT !.step = "insert"]
    OBVIOUS
  <2>2. /\ new.step = "insert" /\ new.index = q.index /\ new.days = q.days /\ new.found = q.found
    BY <1>2, <2>1 DEF Shape
  <2>3. Expanding(new)'
    BY <1>2, <1>3, <2>2 DEF Expanding, Booked
  <2> QED
    BY <1>4, <1>6, <2>1, <2>3, SeriesStep DEF WalkInv
<1> QED
  BY <1>1, <1>5, <1>6 DEF SeriesFind, Holds

\* An occurrence is booked: on a later day than those before it, and none comes after it.
LEMMA InsertKeeps ==
    ASSUME WalkInv, alone, SeriesInv, NEW r \in Requests, Others(r), SeriesInsert(r)
    PROVE  SeriesInv'
<1>1. PICK q : q = req[r]
  OBVIOUS
<1>2. Shape(q) /\ q.step = "insert" /\ OccurrenceWith(q) = {} /\ Expanding(q)
  BY <1>1 DEF WalkInv, Held, HeldWalk, SeriesInv, SeriesInsert
<1>3. /\ q.days \in asked /\ q.days \in Seq(Nat) /\ q.index \in 1..Len(q.days)
      /\ q.found \in Seq(Nat) /\ Len(q.found) = q.index - 1
      /\ \A i \in 1..(q.index - 1) : Booked(i)
      /\ \A d \in asked : Below(d, q.days)
      /\ asked = {q.days} => \A i \in 1..(q.index - 1) : q.found[i] = q.days[i]
  BY <1>2 DEF Expanding
<1>0. /\ Len(q.days) \in Nat /\ DOMAIN q.days = 1..Len(q.days) /\ q.index \in Nat
      /\ q.days[q.index] \in Nat /\ q.index <= Len(q.days) /\ 1 <= q.index
  BY <1>3
<1>4. PICK x : /\ x.index = q.index /\ x.day = q.days[q.index]
               /\ occurrences' = occurrences \cup {x}
  BY <1>1 DEF SeriesInsert
<1>5. PICK new : /\ req' = [req EXCEPT ![r] = new]
                 /\ new = [q EXCEPT !.step = "next", !.index = @ + 1,
                                    !.found = Append(@, q.days[q.index])]
  BY <1>1 DEF SeriesInsert, Holds
<1>6. /\ new.step = "next" /\ new.index = q.index + 1 /\ new.days = q.days
      /\ new.found = Append(q.found, q.days[q.index])
  BY <1>2, <1>5 DEF Shape
<1>7. UNCHANGED <<asked, answers, rule, today>>
  BY DEF SeriesInsert, setup, history
<1>8. \A i : Booked(i) => Booked(i)'
  BY <1>4 DEF Booked
<1>9. Booked(q.index)'
  BY <1>4 DEF Booked
<1>10. Expanding(new)'
  <2>1. /\ new.found \in Seq(Nat) /\ Len(new.found) = new.index - 1
        /\ new.index \in 1..(Len(new.days) + 1)
    <3>1. PICK day : day = q.days[q.index]
      OBVIOUS
    <3>2. day \in Nat /\ new.found = Append(q.found, day)
      BY <1>0, <1>6, <3>1
    <3>3. Append(q.found, day) \in Seq(Nat) /\ Len(Append(q.found, day)) = Len(q.found) + 1
      BY <1>3, <3>2
    <3>4. new.found \in Seq(Nat) /\ Len(new.found) = Len(q.found) + 1
      BY <3>2, <3>3
    <3>5. Len(q.found) = q.index - 1 /\ new.index = q.index + 1 /\ Len(new.days) = Len(q.days)
      BY <1>3, <1>6
    <3> QED
      BY <1>0, <3>4, <3>5
  <2>2. \A i \in 1..(new.index - 1) : Booked(i)'
    <3>1. TAKE i \in 1..(new.index - 1)
    <3>2. i = q.index \/ i \in 1..(q.index - 1)
      BY <1>3, <1>6
    <3> QED
      BY <1>3, <1>8, <1>9, <3>2
  <2>3. ASSUME asked = {new.days}, NEW i \in 1..(new.index - 1) PROVE new.found[i] = new.days[i]
    <3>1. CASE i = q.index
      BY <1>3, <1>6, <3>1
    <3>2. CASE i # q.index
      <4>1. i \in 1..(q.index - 1)
        BY <1>3, <1>6, <3>2
      <4>2. q.found[i] = q.days[i]
        BY <1>3, <1>6, <2>3, <4>1
      <4> QED
        BY <1>3, <1>6, <4>1, <4>2
    <3> QED
      BY <3>1, <3>2
  <2> QED
    BY <1>3, <1>6, <1>7, <2>1, <2>2, <2>3 DEF Expanding
<1>11. ASSUME NEW y \in occurrences
       PROVE  /\ y.index \in Nat \ {0} /\ y.index # q.index /\ ~(q.index < y.index)
              /\ \E d \in asked : y.index \in DOMAIN d /\ y.day = d[y.index] /\ d \in Seq(Nat)
  <2>1. /\ y.index \in Nat \ {0}
        /\ \A i \in 1..y.index : Booked(i)
        /\ \E d \in asked : y.index \in DOMAIN d /\ y.day = d[y.index] /\ d \in Seq(Nat)
    BY DEF SeriesInv, Taken, Asked
  <2>2. ~Booked(q.index)
    BY <1>2 DEF OccurrenceWith, Booked
  <2>3. q.index \notin 1..y.index
    BY <2>1, <2>2
  <2>4. PICK i, k \in Nat \ {0} : i = y.index /\ k = q.index
    BY <1>0, <2>1
  <2>5. k \notin 1..i
    BY <2>3, <2>4
  <2>6. i < k
    BY <2>5
  <2>7. y.index # q.index /\ ~(q.index < y.index)
    BY <2>4, <2>6
  <2> QED
    BY <2>1, <2>7
<1>12. ASSUME NEW y \in occurrences, y.index < q.index PROVE y.day < x.day
  <2>1. PICK d \in asked : y.index \in DOMAIN d /\ y.day = d[y.index] /\ d \in Seq(Nat)
    BY <1>11
  <2>2. y.index \in DOMAIN q.days /\ q.index \in DOMAIN q.days
    BY <1>0, <1>11, <1>12
  <2>3. d[y.index] <= q.days[y.index]
    BY <1>3, <2>1, <2>2 DEF Below
  <2>4. q.days[y.index] < q.days[q.index]
    <3>1. PICK t \in Days : q.days = expandOccurrences(rule, t, 4)
      BY <1>3 DEF SeriesInv, Asked, Expanded
    <3> QED
      BY InOrder, <1>12, <2>2, <3>1 DEF ExpandsInOrder, WalkInv, WalkType
  <2>5. d[y.index] \in Nat /\ q.days[y.index] \in Nat
    <3>1. DOMAIN d = 1..Len(d) /\ DOMAIN q.days = 1..Len(q.days)
      BY <1>3, <2>1, LenProperties
    <3> QED
      BY <1>3, <2>1, <2>2, <3>1, ElementOfSeq
  <2>6. PICK a, b, c \in Nat : a = d[y.index] /\ b = q.days[y.index] /\ c = q.days[q.index]
    BY <1>0, <2>5
  <2>7. a <= b /\ b < c
    BY <2>3, <2>4, <2>6
  <2>8. a < c
    BY <2>7
  <2> QED
    BY <1>4, <2>1, <2>6, <2>8
<1>13. Ordered'
  <2> SUFFICES ASSUME NEW y \in occurrences', NEW z \in occurrences', y.index < z.index
               PROVE  y.day < z.day
    BY DEF Ordered
  <2>1. CASE y \in occurrences /\ z \in occurrences
    BY <2>1 DEF SeriesInv, Ordered
  <2>2. CASE y \in occurrences /\ z = x
    BY <1>4, <1>12, <2>2
  <2>3. CASE y = x /\ z \in occurrences
    BY <1>4, <1>11, <2>3
  <2>4. CASE y = x /\ z = x
    BY <1>3, <1>4, <2>4
  <2> QED
    BY <1>4, <2>1, <2>2, <2>3, <2>4
<1>14. ASSUME NEW y \in occurrences' PROVE Taken(y)'
  <2>1. CASE y \in occurrences
    BY <1>7, <1>8, <2>1 DEF SeriesInv, Taken
  <2>2. CASE y = x
    <3>1. y.index \in Nat \ {0} /\ y.index \in DOMAIN q.days /\ y.day = q.days[y.index]
      BY <1>3, <1>4, <2>2
    <3>2. ASSUME NEW i \in 1..y.index PROVE Booked(i)'
      <4>1. i = q.index \/ i \in 1..(q.index - 1)
        BY <1>3, <1>4, <2>2
      <4> QED
        BY <1>3, <1>8, <1>9, <4>1
    <3> QED
      BY <1>3, <1>7, <3>1, <3>2 DEF Taken
  <2> QED
    BY <1>4, <2>1, <2>2
<1>15. Asked' /\ Answered'
  BY <1>7 DEF SeriesInv, Asked, Answered, Expanded
<1> QED
  BY <1>5, <1>10, <1>13, <1>14, <1>15, SeriesStep DEF WalkInv

\* What is answered is what was found.
LEMMA AnswerKeeps ==
    ASSUME WalkInv, alone, SeriesInv, NEW r \in Requests, Others(r), SeriesAnswer(r)
    PROVE  SeriesInv'
<1>1. PICK q : q = req[r]
  OBVIOUS
<1>2. /\ q.step = "next" /\ q.index > Len(q.days) /\ answers' = answers \cup {q.found}
      /\ req' = [req EXCEPT ![r] = Idle] /\ UNCHANGED <<occurrences, asked, rule, today>>
  BY <1>1 DEF SeriesAnswer, Finish, booked, setup
<1>3. /\ q.days \in asked /\ q.days \in Seq(Nat) /\ q.found \in Seq(Nat)
      /\ q.index \in 1..(Len(q.days) + 1) /\ Len(q.found) = q.index - 1
      /\ asked = {q.days} => \A i \in 1..(q.index - 1) : q.found[i] = q.days[i]
  BY <1>1, <1>2 DEF SeriesInv, Expanding
<1>4. ASSUME NEW d \in asked, asked = {d} PROVE q.found = d
  <2>1. q.days = d /\ Len(q.found) = Len(q.days)
    BY <1>2, <1>3, <1>4
  <2>2. \A i \in 1..Len(q.days) : q.found[i] = q.days[i]
    BY <1>2, <1>3, <1>4, <2>1
  <2> QED
    BY <1>3, <2>1, <2>2, SeqEqual
<1>5. Answered'
  BY <1>2, <1>3, <1>4 DEF SeriesInv, Answered
<1>6. Asked' /\ Ordered' /\ \A x \in occurrences' : Taken(x)'
  BY <1>2 DEF SeriesInv, Asked, Expanded, Ordered, Taken, Booked
<1>7. Expanding(Idle)'
  BY IdleHolds DEF Expanding, Idle
<1> QED
  BY <1>2, <1>5, <1>6, <1>7, SeriesStep DEF WalkInv

LEMMA SeriesNext == WalkInv /\ AloneInv /\ SeriesInv /\ [Next]_vars => SeriesInv'
<1> SUFFICES ASSUME WalkInv, AloneInv, SeriesInv, [Next]_vars PROVE SeriesInv'
  OBVIOUS
<1>1. alone' = alone
  BY DEF Next, vars, setup, Series, SeriesSave, SeriesExpand, SeriesFind, SeriesInsert,
     SeriesAnswer, Log, LogLoad, LogUpload, LogSave, Write, WriteLoad, WriteCheck, WriteFind,
     WriteSave, Reply, ReplyFind, ReplyUpdate, Abandon, Move, ComesDue, deleteRows, Tick
<1>2. CASE ~alone
  BY <1>1, <1>2 DEF SeriesInv
<1>3. CASE alone
  <2>1. Solo /\ WalkType
    BY <1>3 DEF AloneInv, WalkInv
  <2>2. ASSUME NEW r \in Requests, Log(r) \/ Write(r) \/ Reply(r) \/ Abandon(r) PROVE SeriesInv'
    <3>1. Others(r)
      BY <1>3, <2>1, <2>2, WorksAlone
    <3>2. PICK new : new.step \notin {"expand", "next", "insert"} /\ req' = [req EXCEPT ![r] = new]
      BY <2>2, OtherSteps DEF Aside
    <3>3. UNCHANGED <<occurrences, asked, answers, rule, today>>
      BY <2>2 DEF Log, LogLoad, LogUpload, LogSave, Write, WriteLoad, WriteCheck, WriteFind,
         WriteSave, Reply, ReplyFind, ReplyUpdate, Abandon, booked, setup, history
    <3> QED
      BY <1>3, <2>1, <3>1, <3>2, <3>3, SeriesAside
  <2>3. ASSUME NEW r \in Requests, Series(r) PROVE SeriesInv'
    <3>1. Others(r)
      BY <1>3, <2>1, <2>3, WorksAlone
    <3>2. ASSUME NEW who \in Owners, SeriesSave(r, who) PROVE SeriesInv'
      <4>1. PICK new : /\ req' = [req EXCEPT ![r] = new]
                       /\ new = [Idle EXCEPT !.step = "expand", !.series = Cardinality(series) + 1]
        BY <3>2 DEF SeriesSave, Holds
      <4>2. new.step = "expand" /\ new.found = <<>>
        BY <4>1 DEF Idle
      <4>3. Expanding(new)'
        BY <4>2 DEF Expanding
      <4>4. /\ UNCHANGED <<occurrences, asked, answers, rule>>
            /\ today' \in Days /\ Earlier(today, today')
        BY <2>1, <3>2, NowIsNow DEF SeriesSave, setup, history
      <4>5. Asked' /\ Ordered' /\ Answered' /\ \A x \in occurrences' : Taken(x)'
        BY <1>3, <2>1, <4>4, SeriesRests
      <4> QED
        BY <2>1, <3>1, <4>1, <4>3, <4>5, SeriesStep
    <3> QED
      BY <1>3, <2>3, <3>1, <3>2, ExpandKeeps, FindKeeps, InsertKeeps, AnswerKeeps DEF Series
  <2>4. ASSUME req' = req, UNCHANGED <<occurrences, asked, answers, rule>>,
               today' \in Days, Earlier(today, today')
        PROVE  SeriesInv'
    <3>1. Asked' /\ Ordered' /\ Answered' /\ \A x \in occurrences' : Taken(x)'
      BY <1>3, <2>1, <2>4, SeriesRests
    <3>2. ASSUME NEW r \in Requests PROVE Expanding(req[r])'
      BY <1>3, <2>4 DEF SeriesInv, Expanding, Booked
    <3> QED
      BY <3>1, <3>2 DEF SeriesInv
  <2>5. CASE Tick
    <3>1. today \in Days
      BY <2>1 DEF WalkType
    <3>2. today' \in Days
      BY <2>5, TickHolds DEF WalkInv, WalkType
    <3>3. Earlier(today, today')
      BY <2>5, <3>1 DEF Tick, Earlier, Days
    <3> QED
      BY <2>4, <2>5, <3>2, <3>3 DEF Tick, booked, setup, history
  <2>6. ASSUME \/ \E b \in Bookings : ComesDue(b) \/ \E status \in Statuses : Move(b, status)
               \/ \E who : deleteRows(who)
               \/ UNCHANGED vars
        PROVE  SeriesInv'
    <3>1. req' = req /\ UNCHANGED <<occurrences, asked, answers, rule, today>>
      BY <2>6 DEF ComesDue, Move, deleteRows, vars, booked, setup, history
    <3> QED
      BY <2>1, <2>4, <3>1, NowIsNow
  <2> QED
    BY <2>2, <2>3, <2>5, <2>6 DEF Next
<1> QED
  BY <1>2, <1>3

LEMMA SeriesInit == Init => SeriesInv
<1> SUFFICES ASSUME Init PROVE SeriesInv
  OBVIOUS
<1>1. \A r \in Requests : req[r] = Idle
  BY DEF Init
<1>2. \A r \in Requests : Expanding(req[r])
  BY <1>1, IdleExpanding
<1> QED
  BY <1>2, FS_EmptySet DEF Init, SeriesInv, Asked, Ordered, Answered

LEMMA SeriesAlways == Spec => []SeriesInv
BY SeriesInit, SeriesNext, Whatever, Alone, PTL DEF Spec

\* A recurring request that is sent again books no occurrence twice; and when requests do
\* not overlap the occurrences go up with the days, and an answer is the days that were
\* asked for.
THEOREM SeriesKeeps == Spec => []SeriesAsAsked
<1>1. WalkInv /\ SeriesInv => SeriesAsAsked
  <2> SUFFICES ASSUME WalkInv, SeriesInv PROVE SeriesAsAsked
    OBVIOUS
  <2>1. ASSUME alone, Cardinality(asked) = 1 PROVE answers \subseteq asked
    <3>1. PICK d : asked = {d}
      BY <2>1, FS_Singleton DEF SeriesInv, Asked
    <3> QED
      BY <2>1, <3>1 DEF SeriesInv, Answered
  <2> QED
    BY <2>1 DEF WalkInv, OneEach, SeriesInv, Ordered, SeriesAsAsked
<1> QED
  BY <1>1, Whatever, SeriesAlways, PTL

\* The calendar has no month of fewer than 28 days nor of more than 31, nor two short ones in a row.
LEMMA DaysInMonth ==
    ASSUME NEW y \in Nat, NEW m \in 1..12
    PROVE  DaysIn(y, m) \in 28..31
<1> DEFINE feb == IF Leap(y) THEN 29 ELSE 28
<1>1. feb \in 28..31
  OBVIOUS
<1>2. DaysIn(y, m) = <<31, feb, 31, 30, 31, 30, 31, 31, 30, 31, 30, 31>>[m]
  BY DEF DaysIn
<1>3. m \in {1, 2, 3, 4, 5, 6, 7, 8, 9, 10, 11, 12}
  OBVIOUS
<1> QED
  BY <1>1, <1>2, <1>3

\* Months counted since the year 0 are a year and a month of it.
LEMMA Months ==
    ASSUME NEW n \in Nat
    PROVE  /\ YearOf(n) \in Nat /\ MonthOf(n) \in 1..12
           /\ 12 * YearOf(n) + MonthOf(n) - 1 = n
BY DEF YearOf, MonthOf

LEMMA YearAndMonth ==
    ASSUME NEW y \in Nat, NEW m \in 1..12
    PROVE  /\ 12 * y + m - 1 \in Nat
           /\ YearOf(12 * y + m - 1) = y /\ MonthOf(12 * y + m - 1) = m
BY DEF YearOf, MonthOf

\* setUTCMonth lands in the month asked for unless it has no such day; then the last day of
\* the month before where it landed is the last day of that month.
LEMMA Clamps ==
    ASSUME NEW from, from.day \in 1..31, NEW n \in Nat, MonthNumber(from) \in Nat,
           NEW k \in Nat, n = MonthNumber(from) + k
    PROVE  addMonths(from, k) = Date(YearOf(n), MonthOf(n), Min({from.day, DaysIn(YearOf(n), MonthOf(n))}))
<1>1. PICK days \in 28..31 : days = DaysIn(YearOf(n), MonthOf(n))
  BY Months, DaysInMonth
<1>2. PICK day \in 1..31 : day = from.day
  OBVIOUS
<1>3. PICK result : result = setUTCMonth(from, n)
  OBVIOUS
<1>4. addMonths(from, k) = IF result.day # day THEN lastOfPrevious(result) ELSE result
  BY <1>2, <1>3 DEF addMonths
<1>5. CASE day <= days
  <2>1. result = Date(YearOf(n), MonthOf(n), day)
    BY <1>1, <1>2, <1>3, <1>5 DEF setUTCMonth
  <2>2. result.day = day
    BY <2>1 DEF Date
  <2>3. Min({day, days}) = day
    BY <1>5 DEF Min
  <2> QED
    BY <1>1, <1>2, <1>4, <2>1, <2>2, <2>3
<1>6. CASE days < day
  <2>1. result = Date(YearOf(n + 1), MonthOf(n + 1), day - days)
    BY <1>1, <1>2, <1>3, <1>6 DEF setUTCMonth
  <2>2. result.day # day /\ result.year = YearOf(n + 1) /\ result.month = MonthOf(n + 1)
    BY <2>1 DEF Date
  <2>3. MonthNumber(result) - 1 = n
    BY <2>2, Months DEF MonthNumber
  <2>4. lastOfPrevious(result) = Date(YearOf(n), MonthOf(n), days)
    BY <1>1, <2>3 DEF lastOfPrevious
  <2>5. Min({day, days}) = days
    BY <1>6 DEF Min
  <2> QED
    BY <1>1, <1>2, <1>4, <2>2, <2>4, <2>5
<1> QED
  BY <1>1, <1>2, <1>5, <1>6

\* A period ends in the month it is to end in, on the same day or the last one that month
\* has, from whatever day it starts (billing.ts).
THEOREM PeriodsClamp ==
    ASSUME NEW from, from.year \in Nat, from.month \in 1..12, from.day \in 1..31
    PROVE  MonthsClamp(from)
<1>1. MonthNumber(from) \in Nat
  BY YearAndMonth DEF MonthNumber
<1>2. ASSUME NEW period \in DOMAIN BILLING_PERIOD_MONTHS PROVE BILLING_PERIOD_MONTHS[period] \in Nat
  BY DEF BILLING_PERIOD_MONTHS
<1>3. ASSUME NEW period \in DOMAIN BILLING_PERIOD_MONTHS
      PROVE  LET n == MonthNumber(from) + BILLING_PERIOD_MONTHS[period]
             IN  periodEnd(from, period)
                   = Date(YearOf(n), MonthOf(n), Min({from.day, DaysIn(YearOf(n), MonthOf(n))}))
  <2>1. PICK k \in Nat : k = BILLING_PERIOD_MONTHS[period]
    BY <1>2
  <2>2. MonthNumber(from) + k \in Nat
    BY <1>1
  <2> QED
    BY <1>1, <2>1, <2>2, Clamps DEF periodEnd
<1> QED
  BY <1>3 DEF MonthsClamp

(***************************************************************************)
(* Statistics.                                                             *)
(***************************************************************************)

Dated(day) == day.year \in Nat /\ day.month \in 1..12

\* Two days are in the same month exactly when the month has the same number.
LEMMA SameMonth ==
    ASSUME NEW a \in Int, NEW b \in 1..12, NEW y \in Int, NEW m \in 1..12
    PROVE  <<a, b>> = <<y, m>> <=> 12 * a + b - 1 = 12 * y + m - 1
<1>1. a = y /\ b = m <=> 12 * a + b - 1 = 12 * y + m - 1
  OBVIOUS
<1>2. <<a, b>> = <<y, m>> <=> a = y /\ b = m
  OBVIOUS
<1> QED
  BY <1>1, <1>2

\* The month before is the one whose number is one less, also in January.
LEMMA LastMonth ==
    ASSUME NEW d, Dated(d)
    PROVE  /\ statMonths(d).thisMonth = <<d.year, d.month>>
           /\ \E y \in Int, m \in 1..12 : /\ statMonths(d).lastMonth = <<y, m>>
                                          /\ 12 * y + m - 1 = MonthNumber(d) - 1
<1>1. statMonths(d).thisMonth = <<d.year, d.month>>
  BY DEF statMonths
<1>2. CASE d.month = 1
  <2>1. statMonths(d).lastMonth = <<d.year - 1, 12>>
    BY <1>2 DEF statMonths
  <2>2. 12 * (d.year - 1) + 12 - 1 = MonthNumber(d) - 1
    BY <1>2 DEF Dated, MonthNumber
  <2>3. d.year - 1 \in Int /\ 12 \in 1..12
    BY DEF Dated
  <2> QED
    BY <1>1, <2>1, <2>2, <2>3
<1>3. CASE d.month # 1
  <2>1. statMonths(d).lastMonth = <<d.year, d.month - 1>>
    BY <1>3 DEF statMonths
  <2>2. 12 * d.year + (d.month - 1) - 1 = MonthNumber(d) - 1
    BY <1>3 DEF Dated, MonthNumber
  <2>3. d.year \in Int /\ d.month - 1 \in 1..12
    BY <1>3 DEF Dated
  <2> QED
    BY <1>1, <2>1, <2>2, <2>3
<1> QED
  BY <1>2, <1>3

\* A month's totals are the counts of its days, for any rows and across any new year, and
\* the preview of a free page is the same number (page-stats.ts).
THEOREM StatsRight ==
    ASSUME NEW rows, \A i \in DOMAIN rows : Dated(rows[i].day),
           NEW day, Dated(day)
    PROVE  StatsAddUp(rows, day)
<1>1. PICK y \in Int, m \in 1..12 : /\ statMonths(day).lastMonth = <<y, m>>
                                    /\ 12 * y + m - 1 = MonthNumber(day) - 1
  BY LastMonth
<1>2. statMonths(day).thisMonth = <<day.year, day.month>>
  BY LastMonth
<1> DEFINE counts    == [i \in DOMAIN rows |-> rows[i].count]
           found     == {i \in DOMAIN rows : MonthNumber(rows[i].day) >= MonthNumber(day) - 1}
           In(k, ym) == {i \in found : rows[i].kind = k /\ <<rows[i].day.year, rows[i].day.month>> = ym}
           Ago(k, n) == {i \in DOMAIN rows : /\ rows[i].kind = k
                                             /\ MonthNumber(rows[i].day) = MonthNumber(day) - n}
<1>3. 12 * statMonths(day).lastMonth[1] + statMonths(day).lastMonth[2] - 1 = MonthNumber(day) - 1
  BY <1>1
<1>4. MonthNumber(day) \in Int /\ \A i \in DOMAIN rows : MonthNumber(rows[i].day) \in Int
  BY DEF Dated, MonthNumber
<1>5. ASSUME NEW k PROVE In(k, statMonths(day).thisMonth) = Ago(k, 0)
  <2>1. MonthNumber(day) = 12 * day.year + day.month - 1 /\ day.year \in Int /\ day.month \in 1..12
    BY DEF MonthNumber, Dated
  <2>2. ASSUME NEW i \in DOMAIN rows
        PROVE  <<rows[i].day.year, rows[i].day.month>> = statMonths(day).thisMonth
                 <=> MonthNumber(rows[i].day) = MonthNumber(day)
    <3>1. PICK a \in Int, b \in 1..12 : a = rows[i].day.year /\ b = rows[i].day.month
      BY DEF Dated
    <3>2. PICK c \in Int, e \in 1..12 : c = day.year /\ e = day.month
      BY <2>1
    <3>3. <<a, b>> = <<c, e>> <=> 12 * a + b - 1 = 12 * c + e - 1
      BY SameMonth
    <3>4. MonthNumber(rows[i].day) = 12 * a + b - 1 /\ MonthNumber(day) = 12 * c + e - 1
      BY <2>1, <3>1, <3>2 DEF MonthNumber
    <3> QED
      BY <1>2, <3>1, <3>2, <3>3, <3>4, Zenon
  <2> QED
    BY <1>4, <2>2
<1>6. ASSUME NEW k PROVE In(k, statMonths(day).lastMonth) = Ago(k, 1)
  <2>1. ASSUME NEW i \in DOMAIN rows
        PROVE  <<rows[i].day.year, rows[i].day.month>> = statMonths(day).lastMonth
                 <=> MonthNumber(rows[i].day) = MonthNumber(day) - 1
    <3>1. PICK a \in Int, b \in 1..12 : a = rows[i].day.year /\ b = rows[i].day.month
      BY DEF Dated
    <3>2. <<a, b>> = <<y, m>> <=> 12 * a + b - 1 = 12 * y + m - 1
      BY SameMonth
    <3>3. MonthNumber(rows[i].day) = 12 * a + b - 1
      BY <3>1 DEF MonthNumber
    <3> QED
      BY <1>1, <3>1, <3>2, <3>3, Zenon
  <2> QED
    BY <1>4, <2>1
<1> DEFINE totals == totalsByMonth(rows, found, statMonths(day))
<1>7. /\ mineStats(rows, day, TRUE).totals = totals
      /\ mineStats(rows, day, FALSE).totals.thisMonth = totals.thisMonth.view
  BY <1>3 DEF mineStats
<1>8. \A k \in PAGE_STAT_KINDS : /\ totals.thisMonth[k] = SumOf(counts, Ago(k, 0))
                                 /\ totals.lastMonth[k] = SumOf(counts, Ago(k, 1))
  <2>1. ASSUME NEW k \in PAGE_STAT_KINDS
        PROVE  /\ totals.thisMonth[k] = SumOf(counts, In(k, statMonths(day).thisMonth))
               /\ totals.lastMonth[k] = SumOf(counts, In(k, statMonths(day).lastMonth))
    BY <2>1 DEF totalsByMonth
  <2> QED
    BY <1>5, <1>6, <2>1
<1>9. totals.thisMonth.view = SumOf(counts, Ago("view", 0))
  BY <1>8 DEF PAGE_STAT_KINDS
<1> QED
  BY <1>7, <1>8, <1>9 DEF StatsAddUp

(***************************************************************************)
(* Sums.  A column is added up in an order nobody chose; it comes to what  *)
(* adding it up from the first row on comes to.                            *)
(***************************************************************************)

\* The running total over the first rows, of those that count.
Runs(n, column, rows, h) ==
    /\ h \in [0..n -> Int] /\ h[0] = 0
    /\ \A k \in 1..n : h[k] = h[k - 1] + (IF k \in rows THEN column[k] ELSE 0)

Numbered(n, column, rows) == n \in Nat /\ rows \subseteq 1..n /\ \A k \in rows : column[k] \in Int

LEMMA RunsOnce ==
    ASSUME NEW n, NEW column, NEW rows, Numbered(n, column, rows)
    PROVE  \E h : Runs(n, column, rows, h)
<1> USE DEF Numbered
<1> DEFINE Upto(m, h) == /\ h \in [0..m -> Int] /\ h[0] = 0
                         /\ \A k \in 1..m : h[k] = h[k - 1] + (IF k \in rows THEN column[k] ELSE 0)
           Reached == {m \in Nat : m <= n => \E h : Upto(m, h)}
<1>1. 0 \in Reached
  <2>1. Upto(0, [k \in 0..0 |-> 0])
    OBVIOUS
  <2> QED
    BY <2>1
<1>2. ASSUME NEW m \in Reached PROVE m + 1 \in Reached
  <2> SUFFICES ASSUME m + 1 <= n PROVE \E h : Upto(m + 1, h)
    OBVIOUS
  <2>1. PICK h : Upto(m, h)
    OBVIOUS
  <2>2. PICK w \in Int : w = IF m + 1 \in rows THEN column[m + 1] ELSE 0
    OBVIOUS
  <2> DEFINE f == [k \in 0..(m + 1) |-> IF k = m + 1 THEN h[m] + w ELSE h[k]]
  <2>3. h[m] \in Int /\ m \in Nat
    BY <2>1
  <2>4. f \in [0..(m + 1) -> Int] /\ f[0] = 0
    BY <2>1, <2>3
  <2>5. ASSUME NEW k \in 1..(m + 1)
        PROVE  f[k] = f[k - 1] + (IF k \in rows THEN column[k] ELSE 0)
    <3>1. CASE k = m + 1
      BY <2>2, <2>3, <3>1
    <3>2. CASE k # m + 1
      <4>1. k \in 1..m /\ k \in 0..(m + 1) /\ k - 1 \in 0..(m + 1) /\ k - 1 # m + 1
        BY <2>3, <3>2
      <4> QED
        BY <2>1, <3>2, <4>1
    <3> QED
      BY <3>1, <3>2
  <2>6. Upto(m + 1, f)
    BY <2>4, <2>5
  <2> QED
    BY <2>6
<1>3. n \in Reached
  <2>1. Reached \subseteq Nat
    OBVIOUS
  <2> HIDE DEF Reached
  <2> QED
    BY <1>1, <1>2, <2>1, Induct
<1> QED
  BY <1>3 DEF Runs

Total(n, column, rows) == (CHOOSE h : Runs(n, column, rows, h))[n]

LEMMA TotalRuns ==
    ASSUME NEW n, NEW column, NEW rows, Numbered(n, column, rows)
    PROVE  \E h : Runs(n, column, rows, h) /\ Total(n, column, rows) = h[n]
BY RunsOnce DEF Total

\* Running totals add up as their rows do.
LEMMA TotalsAdd ==
    ASSUME NEW n, NEW column, NEW A, NEW B, Numbered(n, column, A), Numbered(n, column, B)
    PROVE  Total(n, column, A) + Total(n, column, B) = Total(n, column, A \cup B) + Total(n, column, A \cap B)
<1>1. Numbered(n, column, A \cup B) /\ Numbered(n, column, A \cap B) /\ n \in Nat
  BY DEF Numbered
<1>2. PICK a : Runs(n, column, A, a) /\ Total(n, column, A) = a[n]
  BY TotalRuns
<1>3. PICK b : Runs(n, column, B, b) /\ Total(n, column, B) = b[n]
  BY TotalRuns
<1>4. PICK u : Runs(n, column, A \cup B, u) /\ Total(n, column, A \cup B) = u[n]
  BY <1>1, TotalRuns
<1>5. PICK v : Runs(n, column, A \cap B, v) /\ Total(n, column, A \cap B) = v[n]
  BY <1>1, TotalRuns
<1> DEFINE Reached == {m \in Nat : m <= n => a[m] + b[m] = u[m] + v[m]}
<1>6. 0 \in Reached
  BY <1>1, <1>2, <1>3, <1>4, <1>5 DEF Runs
<1>7. ASSUME NEW m \in Reached PROVE m + 1 \in Reached
  <2> SUFFICES ASSUME m + 1 <= n PROVE a[m + 1] + b[m + 1] = u[m + 1] + v[m + 1]
    OBVIOUS
  <2>1. m \in 0..n /\ m + 1 \in 1..n /\ m + 1 - 1 = m /\ a[m] + b[m] = u[m] + v[m]
    BY <1>1
  <2>2. /\ a[m] \in Int /\ b[m] \in Int /\ u[m] \in Int /\ v[m] \in Int
        /\ a[m + 1] = a[m] + (IF m + 1 \in A THEN column[m + 1] ELSE 0)
        /\ b[m + 1] = b[m] + (IF m + 1 \in B THEN column[m + 1] ELSE 0)
        /\ u[m + 1] = u[m] + (IF m + 1 \in A \cup B THEN column[m + 1] ELSE 0)
        /\ v[m + 1] = v[m] + (IF m + 1 \in A \cap B THEN column[m + 1] ELSE 0)
    BY <1>2, <1>3, <1>4, <1>5, <2>1 DEF Runs
  <2>3. m + 1 \in A \cup B => column[m + 1] \in Int
    BY DEF Numbered
  <2> QED
    BY <2>1, <2>2, <2>3
<1>8. n \in Reached
  <2>1. Reached \subseteq Nat
    OBVIOUS
  <2> HIDE DEF Reached
  <2> QED
    BY <1>1, <1>6, <1>7, <2>1, Induct
<1> QED
  BY <1>1, <1>2, <1>3, <1>4, <1>5, <1>8

\* No rows come to nothing, and one row to its number.
LEMMA TotalOfOne ==
    ASSUME NEW n, NEW column, NEW x, NEW rows, rows \subseteq {x}, Numbered(n, column, rows)
    PROVE  Total(n, column, rows) = IF x \in rows THEN column[x] ELSE 0
<1>1. n \in Nat
  BY DEF Numbered
<1>2. PICK h : Runs(n, column, rows, h) /\ Total(n, column, rows) = h[n]
  BY TotalRuns
<1> DEFINE Reached == {m \in Nat : m <= n => h[m] = IF x \in rows /\ x <= m THEN column[x] ELSE 0}
<1>3. x \in rows => x \in 1..n /\ column[x] \in Int
  BY DEF Numbered
<1>4. 0 \in Reached
  BY <1>1, <1>2, <1>3 DEF Runs
<1>5. ASSUME NEW m \in Reached PROVE m + 1 \in Reached
  <2> SUFFICES ASSUME m + 1 <= n
               PROVE  h[m + 1] = IF x \in rows /\ x <= m + 1 THEN column[x] ELSE 0
    OBVIOUS
  <2>1. m \in Nat /\ m \in 0..n /\ m + 1 \in 1..n /\ m + 1 - 1 = m
    BY <1>1
  <2>2. h[m] = IF x \in rows /\ x <= m THEN column[x] ELSE 0
    BY <2>1
  <2>3. h[m + 1] = h[m] + (IF m + 1 \in rows THEN column[m + 1] ELSE 0)
    BY <1>2, <2>1 DEF Runs
  <2>4. m + 1 \in rows <=> x \in rows /\ x = m + 1
    OBVIOUS
  <2> QED
    BY <1>3, <2>1, <2>2, <2>3, <2>4
<1>6. n \in Reached
  <2>1. Reached \subseteq Nat
    OBVIOUS
  <2> HIDE DEF Reached
  <2> QED
    BY <1>1, <1>4, <1>5, <2>1, Induct
<1> QED
  BY <1>1, <1>2, <1>3, <1>6

\* A row taken out takes its number.
LEMMA TotalLess ==
    ASSUME NEW n, NEW column, NEW rows, Numbered(n, column, rows), NEW x \in rows
    PROVE  Total(n, column, rows) = column[x] + Total(n, column, rows \ {x})
<1>1. Numbered(n, column, {x}) /\ Numbered(n, column, rows \ {x}) /\ Numbered(n, column, {})
  BY DEF Numbered
<1>2. Total(n, column, {x}) + Total(n, column, rows \ {x}) = Total(n, column, rows) + Total(n, column, {})
  <2>1. {x} \cup (rows \ {x}) = rows /\ {x} \cap (rows \ {x}) = {}
    OBVIOUS
  <2> QED
    BY <1>1, <2>1, TotalsAdd
<1>3. Total(n, column, {x}) = column[x] /\ Total(n, column, {}) = 0
  BY <1>1, TotalOfOne
<1>4. /\ Total(n, column, rows) \in Int /\ Total(n, column, rows \ {x}) \in Int
  <2>1. ASSUME NEW R, Numbered(n, column, R) PROVE Total(n, column, R) \in Int
    <3>1. PICK h : Runs(n, column, R, h) /\ Total(n, column, R) = h[n]
      BY <2>1, TotalRuns
    <3> QED
      BY <2>1, <3>1 DEF Runs, Numbered
  <2> QED
    BY <1>1, <2>1
<1> QED
  BY <1>2, <1>3, <1>4

\* The column as SumOf takes it, a row at a time of those that are left.
Summed(g, column, s) ==
    IF s = {} THEN 0 ELSE LET x == CHOOSE x \in s : TRUE IN column[x] + g[s \ {x}]

LEMMA SumOpened ==
    ASSUME NEW column, NEW rows
    PROVE  SumOf(column, rows)
             = (CHOOSE g : g = [s \in SUBSET rows |-> Summed(g, column, s)])[rows]
BY DEF SumOf, MapThenSumSet, MapThenFoldSet, Summed

\* In whatever order the rows are taken, the sum is the running total's.
LEMMA SumIs ==
    ASSUME NEW n, NEW column, NEW rows, Numbered(n, column, rows)
    PROVE  SumOf(column, rows) = Total(n, column, rows)
<1> DEFINE t == [s \in SUBSET rows |-> Total(n, column, s)]
<1>1. ASSUME NEW s \in SUBSET rows PROVE Numbered(n, column, s)
  BY DEF Numbered
<1>2. ASSUME NEW s \in SUBSET rows PROVE t[s] = Summed(t, column, s)
  <2>1. CASE s = {}
    <3>1. Total(n, column, {}) = 0
      BY <1>1, TotalOfOne
    <3> QED
      BY <2>1, <3>1 DEF Summed
  <2>2. CASE s # {}
    <3>1. PICK x : x = CHOOSE y \in s : TRUE
      OBVIOUS
    <3>2. x \in s
      BY <2>2, <3>1
    <3>3. Total(n, column, s) = column[x] + Total(n, column, s \ {x})
      BY <1>1, <3>2, TotalLess
    <3>4. t[s] = column[x] + t[s \ {x}]
      BY <3>3
    <3> QED
      BY <2>2, <3>1, <3>4 DEF Summed
  <2> QED
    BY <2>1, <2>2
<1>3. t = [s \in SUBSET rows |-> Summed(t, column, s)]
  BY <1>2
<1>4. PICK g : g = CHOOSE f : f = [s \in SUBSET rows |-> Summed(f, column, s)]
  OBVIOUS
<1>5. g = [s \in SUBSET rows |-> Summed(g, column, s)]
  <2> HIDE DEF t
  <2> QED
    BY <1>3, <1>4
<1>6. \A s \in SUBSET rows : g[s] = Summed(g, column, s)
  BY <1>5
<1> DEFINE Reached == {m \in Nat : \A s \in SUBSET rows : Cardinality(s) = m => g[s] = t[s]}
<1>7. \A s \in SUBSET rows : IsFiniteSet(s) /\ Cardinality(s) \in Nat
  <2>1. n \in Int /\ IsFiniteSet(1..n)
    BY FS_Interval DEF Numbered
  <2>2. ASSUME NEW s \in SUBSET rows PROVE IsFiniteSet(s)
    <3>1. s \in SUBSET (1..n)
      BY DEF Numbered
    <3> QED
      BY <2>1, <3>1, FS_Subset
  <2> QED
    BY <2>2, FS_CardinalityType
<1>8. 0 \in Reached
  <2>1. ASSUME NEW s \in SUBSET rows, Cardinality(s) = 0 PROVE g[s] = t[s]
    <3>1. s = {}
      BY <1>7, <2>1, FS_EmptySet
    <3>2. g[s] = 0 /\ t[s] = 0
      BY <1>2, <1>6, <3>1 DEF Summed
    <3> QED
      BY <3>2
  <2> QED
    BY <2>1
<1>9. ASSUME NEW m \in Reached PROVE m + 1 \in Reached
  <2>1. ASSUME NEW s \in SUBSET rows, Cardinality(s) = m + 1 PROVE g[s] = t[s]
    <3>1. s # {}
      BY <1>7, <2>1, FS_EmptySet
    <3>2. PICK x : x = CHOOSE y \in s : TRUE
      OBVIOUS
    <3>3. x \in s
      BY <3>1, <3>2
    <3>4. s \ {x} \in SUBSET rows /\ Cardinality(s \ {x}) = m
      BY <1>7, <2>1, <3>3, FS_RemoveElement
    <3>5. g[s \ {x}] = t[s \ {x}]
      BY <3>4
    <3>6. g[s] = column[x] + g[s \ {x}]
      BY <1>6, <3>1, <3>2 DEF Summed
    <3>7. t[s] = column[x] + t[s \ {x}]
      BY <1>2, <3>1, <3>2 DEF Summed
    <3> QED
      BY <3>5, <3>6, <3>7
  <2>2. m + 1 \in Nat
    OBVIOUS
  <2> HIDE DEF t
  <2> QED
    BY <2>1, <2>2
<1>10. Cardinality(rows) \in Reached
  <2>1. Reached \subseteq Nat
    OBVIOUS
  <2>2. Reached = Nat
    <3> HIDE DEF Reached
    <3> QED
      BY <1>8, <1>9, <2>1, Induct
  <2> QED
    BY <1>7, <2>2
<1>11. g[rows] = t[rows]
  BY <1>10
<1> QED
  BY <1>4, <1>11, SumOpened

\* Sums over two sets of rows are those over both and over what they share.
LEMMA SumsAdd ==
    ASSUME NEW n, NEW column, NEW A, NEW B, Numbered(n, column, A), Numbered(n, column, B)
    PROVE  /\ SumOf(column, A) \in Int
           /\ SumOf(column, A) + SumOf(column, B) = SumOf(column, A \cup B) + SumOf(column, A \cap B)
<1>1. Numbered(n, column, A \cup B) /\ Numbered(n, column, A \cap B)
  BY DEF Numbered
<1>2. PICK h : Runs(n, column, A, h) /\ Total(n, column, A) = h[n]
  BY TotalRuns
<1>3. h[n] \in Int
  BY <1>2 DEF Runs, Numbered
<1> QED
  BY <1>1, <1>2, <1>3, SumIs, TotalsAdd

LEMMA SumOfNone == ASSUME NEW column PROVE SumOf(column, {}) = 0
<1>1. Numbered(0, column, {})
  BY DEF Numbered
<1>2. Total(0, column, {}) = 0
  <2>1. PICK x : x = 0
    OBVIOUS
  <2>2. {} \subseteq {x} /\ x \notin {}
    OBVIOUS
  <2> QED
    BY <1>1, <2>2, TotalOfOne
<1> QED
  BY <1>1, <1>2, SumIs

(***************************************************************************)
(* The week of a business.                                                 *)
(***************************************************************************)

LEMMA WeekStarts ==
    ASSUME NEW d \in Nat
    PROVE  /\ startOfWeekUTC(d) \in Int /\ startOfWeekUTC(d) % 7 = 1
           /\ d - startOfWeekUTC(d) \in 0..6
<1>1. PICK q \in Nat, r \in 0..6 : d = 7 * q + r
  <2>1. d \div 7 \in Nat /\ d % 7 \in 0..6
    OBVIOUS
  <2>2. d = 7 * (d \div 7) + (d % 7)
    OBVIOUS
  <2> QED
    BY <2>1, <2>2
<1>2. d % 7 = r
  BY <1>1
<1>3. CASE r = 0
  <2>1. startOfWeekUTC(d) = 7 * (q - 1) + 1
    BY <1>1, <1>2, <1>3 DEF startOfWeekUTC
  <2> QED
    BY <1>1, <1>3, <2>1
<1>4. CASE r # 0
  <2>1. startOfWeekUTC(d) = 7 * q + 1
    BY <1>1, <1>2, <1>4 DEF startOfWeekUTC
  <2> QED
    BY <1>1, <1>4, <2>1
<1> QED
  BY <1>3, <1>4

ThreeWeeks(n, walks) ==
    /\ n \in Nat /\ DOMAIN walks = 1..n
    /\ \A i \in 1..n : /\ walks[i].status \in {"confirmed", "in_progress", "completed", "cancelled"}
                       /\ walks[i].at \in Int /\ walks[i].rate \in Int
                       /\ walks[i].done \in 2..44

DoneIn(walks, from, to) ==
    {i \in DOMAIN walks : walks[i].status = "completed" /\ from <= walks[i].done /\ walks[i].done <= to}

\* The earnings of a week are the rates of what ended in it, both ends included.
LEMMA Earnings ==
    ASSUME NEW walks, NEW d, NEW k \in Int, startOfWeekUTC(d) = k
    PROVE  summary(walks, d).earnings
             = SumOf([i \in DOMAIN walks |-> walks[i].rate], DoneIn(walks, 2 * k, 2 * (k + 7)))
<1>1. DoneIn(walks, 2 * k, 2 * (k + 7))
        = {i \in DOMAIN walks : /\ walks[i].status = "completed"
                                /\ 2 * startOfWeekUTC(d) <= walks[i].done
                                /\ walks[i].done <= 2 * (startOfWeekUTC(d) + 7)}
  BY DEF DoneIn
<1> QED
  BY <1>1 DEF summary

\* Three weeks earn what was completed in them, and twice what ended on the instant two meet.
LEMMA ThreeWeeksEarn ==
    ASSUME NEW n, NEW walks, ThreeWeeks(n, walks)
    PROVE  LET rates     == [i \in DOMAIN walks |-> walks[i].rate]
               completed == {i \in DOMAIN walks : walks[i].status = "completed"}
           IN  summary(walks, 3).earnings + summary(walks, 10).earnings + summary(walks, 17).earnings
                 = SumOf(rates, completed) + SumOf(rates, {i \in completed : walks[i].done \in {16, 30}})
<1> DEFINE rates     == [i \in DOMAIN walks |-> walks[i].rate]
           completed == {i \in DOMAIN walks : walks[i].status = "completed"}
           twice     == {i \in completed : walks[i].done \in {16, 30}}
           C(a, b)   == DoneIn(walks, a, b)
<1>1. /\ summary(walks, 3).earnings  = SumOf(rates, C(2, 16))
      /\ summary(walks, 10).earnings = SumOf(rates, C(16, 30))
      /\ summary(walks, 17).earnings = SumOf(rates, C(30, 44))
  <2>1. startOfWeekUTC(3) = 1 /\ startOfWeekUTC(10) = 8 /\ startOfWeekUTC(17) = 15
    BY DEF startOfWeekUTC
  <2>2. 2 * 1 = 2 /\ 2 * (1 + 7) = 16 /\ 2 * 8 = 16 /\ 2 * (8 + 7) = 30 /\ 2 * 15 = 30 /\ 2 * (15 + 7) = 44
    OBVIOUS
  <2>3. /\ summary(walks, 3).earnings  = SumOf(rates, DoneIn(walks, 2 * 1, 2 * (1 + 7)))
        /\ summary(walks, 10).earnings = SumOf(rates, DoneIn(walks, 2 * 8, 2 * (8 + 7)))
        /\ summary(walks, 17).earnings = SumOf(rates, DoneIn(walks, 2 * 15, 2 * (15 + 7)))
    BY <2>1, Earnings
  <2> QED
    BY <2>2, <2>3
<1>2. ASSUME NEW S, S \subseteq DOMAIN walks PROVE Numbered(n, rates, S)
  BY <1>2 DEF Numbered, ThreeWeeks
<1>3. /\ C(2, 16) \subseteq DOMAIN walks /\ C(16, 30) \subseteq DOMAIN walks
      /\ C(30, 44) \subseteq DOMAIN walks /\ C(2, 30) \subseteq DOMAIN walks
      /\ C(16, 16) \subseteq DOMAIN walks /\ C(30, 30) \subseteq DOMAIN walks
      /\ twice \subseteq DOMAIN walks /\ completed \subseteq DOMAIN walks
  BY DEF DoneIn
<1>4. \A i \in DOMAIN walks : walks[i].done \in 2..44
  BY DEF ThreeWeeks
<1>5. /\ C(2, 16) \cup C(16, 30) = C(2, 30) /\ C(2, 16) \cap C(16, 30) = C(16, 16)
      /\ C(2, 30) \cup C(30, 44) = completed /\ C(2, 30) \cap C(30, 44) = C(30, 30)
      /\ C(16, 16) \cup C(30, 30) = twice /\ C(16, 16) \cap C(30, 30) = {}
  BY <1>4 DEF DoneIn
<1> HIDE DEF rates, completed, twice, C
<1>6. /\ SumOf(rates, C(2, 16)) \in Int /\ SumOf(rates, C(16, 30)) \in Int
      /\ SumOf(rates, C(2, 30)) \in Int /\ SumOf(rates, C(30, 44)) \in Int
      /\ SumOf(rates, C(16, 16)) \in Int /\ SumOf(rates, C(30, 30)) \in Int
      /\ SumOf(rates, twice) \in Int /\ SumOf(rates, completed) \in Int
  BY <1>2, <1>3, SumsAdd
<1>7. /\ SumOf(rates, C(2, 16)) + SumOf(rates, C(16, 30)) = SumOf(rates, C(2, 30)) + SumOf(rates, C(16, 16))
      /\ SumOf(rates, C(2, 30)) + SumOf(rates, C(30, 44)) = SumOf(rates, completed) + SumOf(rates, C(30, 30))
      /\ SumOf(rates, C(16, 16)) + SumOf(rates, C(30, 30)) = SumOf(rates, twice) + 0
  <2>1. ASSUME NEW A, NEW B, A \subseteq DOMAIN walks, B \subseteq DOMAIN walks
        PROVE  SumOf(rates, A) + SumOf(rates, B) = SumOf(rates, A \cup B) + SumOf(rates, A \cap B)
    BY <1>2, <2>1, SumsAdd
  <2>2. /\ SumOf(rates, C(2, 16)) + SumOf(rates, C(16, 30))
             = SumOf(rates, C(2, 16) \cup C(16, 30)) + SumOf(rates, C(2, 16) \cap C(16, 30))
        /\ SumOf(rates, C(2, 30)) + SumOf(rates, C(30, 44))
             = SumOf(rates, C(2, 30) \cup C(30, 44)) + SumOf(rates, C(2, 30) \cap C(30, 44))
        /\ SumOf(rates, C(16, 16)) + SumOf(rates, C(30, 30))
             = SumOf(rates, C(16, 16) \cup C(30, 30)) + SumOf(rates, C(16, 16) \cap C(30, 30))
    BY <1>3, <2>1, Zenon
  <2>4. SumOf(rates, {}) = 0
    BY SumOfNone
  <2> QED
    BY <1>5, <2>2, <2>4
<1>8. SumOf(rates, C(2, 16)) + SumOf(rates, C(16, 30)) + SumOf(rates, C(30, 44))
        = SumOf(rates, completed) + SumOf(rates, twice)
  BY <1>6, <1>7
<1> QED
  BY <1>1, <1>8 DEF rates, completed, twice

\* A day of the strip counts the walks that are on the calendar that day.
LEMMA DayOfStrip ==
    ASSUME NEW n, NEW walks, ThreeWeeks(n, walks), NEW d \in Nat
    PROVE  summary(walks, d).days[d - startOfWeekUTC(d)]
             = Cardinality({i \in DOMAIN walks : walks[i].at \div 2 = d /\ walks[i].status # "cancelled"})
<1>1. PICK k \in Int : k = startOfWeekUTC(d) /\ d - k \in 0..6
  BY WeekStarts
<1> DEFINE scheduled == {i \in DOMAIN walks :
                            /\ walks[i].status \in {"confirmed", "in_progress", "completed"}
                            /\ 2 * k <= walks[i].at /\ walks[i].at <= 2 * (k + 7)}
<1>2. summary(walks, d).days[d - k] = Cardinality({i \in scheduled : (walks[i].at \div 2) - k = d - k})
  BY <1>1 DEF summary
<1>3. ASSUME NEW i \in DOMAIN walks
      PROVE  i \in scheduled /\ (walks[i].at \div 2) - k = d - k
               <=> walks[i].at \div 2 = d /\ walks[i].status # "cancelled"
  <2>1. PICK at \in Int : at = walks[i].at
    BY DEF ThreeWeeks
  <2>2. walks[i].status \in {"confirmed", "in_progress", "completed", "cancelled"}
    BY DEF ThreeWeeks
  <2>3. at \div 2 \in Int /\ 2 * (at \div 2) <= at /\ at <= 2 * (at \div 2) + 1
    OBVIOUS
  <2>4. (at \div 2) - k = d - k <=> at \div 2 = d
    BY <2>3
  <2>5. at \div 2 = d => 2 * k <= at /\ at <= 2 * (k + 7)
    BY <1>1, <2>3
  <2>6. i \in scheduled <=> walks[i].status # "cancelled" /\ 2 * k <= at /\ at <= 2 * (k + 7)
    BY <2>1, <2>2
  <2> HIDE DEF scheduled
  <2> QED
    BY <2>1, <2>4, <2>5, <2>6
<1>4. {i \in scheduled : (walks[i].at \div 2) - k = d - k}
        = {i \in DOMAIN walks : walks[i].at \div 2 = d /\ walks[i].status # "cancelled"}
  BY <1>3
<1> QED
  BY <1>1, <1>2, <1>4

\* For any walks of three weeks: each is on its own day of its own week only, and the earnings
\* of the weeks are all there is, with what ends on the instant two weeks meet in both
\* (BookingController.summary).
THEOREM WeeksRight ==
    ASSUME NEW n, NEW walks, ThreeWeeks(n, walks)
    PROVE  WeekIsWhole(walks)
<1>1. \A d \in 1..21 : d \in Nat
  OBVIOUS
<1> QED
  BY <1>1, ThreeWeeksEarn, DayOfStrip, WeekStarts DEF WeekIsWhole

(***************************************************************************)
(* The rules as MCRules runs them.                                         *)
(***************************************************************************)

\* An input is of its rule.
Given == input = Start \/ input \in Inputs

LEMMA AlwaysGiven == RulesSpec => []Given
<1>1. RulesInit => Given
  BY DEF RulesInit, Given
<1>2. Given /\ [Pick]_input => Given'
  BY DEF Given, Pick, Start
<1> QED
  BY <1>1, <1>2, PTL DEF RulesSpec

LEMMA InputOf ==
    ASSUME Given
    PROVE  /\ input.rule = "period"     => input.of \in Dates
           /\ input.rule = "stats"      => input.of \in StatRows
           /\ input.rule = "recurrence" => input.of \in Patterns
           /\ input.rule = "week"       => input.of \in SomeWalks
           /\ input.rule = "price"      => input.of \in Profiles
           /\ input.rule = "penalty"    => input.of \in Prices
           /\ input.rule = "ranking"    => input.of \in UpTo(2, Ratings)
           /\ input.rule = "sections"   => input.of \in UpTo(2, Entries)
           /\ input.rule = "block"      =>
                 input.of \in {<<k, f>> : k \in PAGE_BLOCK_TYPES, f \in UNION {DOMAIN Fields[k] : k \in PAGE_BLOCK_TYPES}}
           /\ input.rule = "services"   => input.of \in Rows
           /\ input.rule = "fields"     => input.of \in ProfileField
           /\ input.rule = "faces"      => input.of \in Verifications
<1>1. CASE input = Start
  BY <1>1 DEF Start
<1>2. CASE input \in Inputs
  BY <1>2 DEF Inputs
<1> QED
  BY <1>1, <1>2 DEF Given

\* A period of any date of the calendar, in any years.
LEMMA PeriodsOfDates == ASSUME NEW from \in Dates PROVE MonthsClamp(from)
<1>1. from.year \in Nat /\ from.month \in 1..12 /\ from.day \in 1..31
  <2>1. from \in [year : Years, month : 1..12, day : {1, 15, 28, 29, 30, 31}]
    BY DEF Dates
  <2>2. from.year \in Years /\ from.month \in 1..12 /\ from.day \in {1, 15, 28, 29, 30, 31}
    BY <2>1
  <2>3. from.year \in Nat
    BY <2>2, MCRulesConstants
  <2>4. from.day \in 1..31
    BY <2>2
  <2> QED
    BY <2>2, <2>3, <2>4
<1> QED
  BY <1>1, PeriodsClamp

LEMMA StatsOfRows ==
    ASSUME NEW row \in StatRows, NEW other \in StatRows, NEW day \in StatDays
    PROVE  StatsAddUp(<<row, other>>, day)
<1>1. ASSUME NEW d \in StatDays PROVE Dated(d)
  BY MCRulesConstants DEF StatDays, Dated, Date
<1>2. row.day \in StatDays /\ other.day \in StatDays
  BY DEF StatRows
<1>3. PICK rows : rows = <<row, other>>
  OBVIOUS
<1>4. ASSUME NEW i \in DOMAIN rows PROVE Dated(rows[i].day)
  <2>1. rows[i] = row \/ rows[i] = other
    BY <1>3
  <2> QED
    BY <1>1, <1>2, <2>1
<1>5. Dated(day)
  BY <1>1
<1> QED
  BY <1>3, <1>4, <1>5, StatsRight

LEMMA WeeksOfWalks ==
    ASSUME NEW walk \in SomeWalks, NEW other \in SomeWalks
    PROVE  WeekIsWhole(<<walk, other>>)
<1>1. PICK walks : walks = <<walk, other>>
  OBVIOUS
<1>2. ASSUME NEW w \in SomeWalks
      PROVE  /\ w.status \in {"confirmed", "in_progress", "completed", "cancelled"}
             /\ w.at \in Int /\ w.rate \in Int /\ w.done \in 2..44
  BY DEF SomeWalks
<1>3. \A i \in 1..2 : walks[i] \in SomeWalks
  BY <1>1
<1>4. ThreeWeeks(2, walks)
  BY <1>1, <1>2, <1>3 DEF ThreeWeeks
<1> QED
  BY <1>1, <1>4, WeeksRight

\* Every input of the run CalendarRules is checked over comes to what its rule is to arrive at,
\* whatever the years and the guard (billing.ts, page-stats.ts, recurrence-rule.ts,
\* BookingController.summary).
THEOREM CalendarRulesHold == RulesSpec => []CalendarRules
<1>1. Given => CalendarRules
  <2> SUFFICES ASSUME Given PROVE CalendarRules
    OBVIOUS
  <2>1. input.rule = "period" => MonthsClamp(input.of)
    BY InputOf, PeriodsOfDates
  <2>2. input.rule = "stats" =>
          \A other \in StatRows, day \in StatDays : StatsAddUp(<<input.of, other>>, day)
    BY InputOf, StatsOfRows
  <2>3. input.rule = "recurrence" =>
          \A from \in [day : 0..6, time : 0..2] : OccurrencesAsAsked(input.of, from, 4)
    <3>1. ASSUME NEW r \in Patterns, NEW from \in [day : 0..6, time : 0..2]
          PROVE  OccurrencesAsAsked(r, from, 4)
      <4>1. Timed(r, from)
        BY DEF Timed, Patterns
      <4> QED
        BY <4>1, OccurrencesRight
    <3> QED
      BY InputOf, <3>1
  <2>4. input.rule = "week" => \A other \in SomeWalks : WeekIsWhole(<<input.of, other>>)
    BY InputOf, WeeksOfWalks
  <2> QED
    BY <2>1, <2>2, <2>3, <2>4 DEF CalendarRules, For
<1> QED
  BY <1>1, AlwaysGiven, PTL

(***************************************************************************)
(* What is charged.                                                        *)
(***************************************************************************)

\* Cancelling later is never cheaper, free up to and including the end of the window, and half
\* the rate to the cent after it: for any rate and any instants (cancellation-policy.ts, P-18).
THEOREM PenaltiesGrow ==
    ASSUME NEW rate \in Nat, NEW lefts \in SUBSET Int
    PROVE  PenaltyGrows(rate, lefts)
<1>1. /\ half(rate) \in Nat /\ half(rate) = rate - (rate \div 2)
      /\ rate > 0 => half(rate) # 0
  BY DEF half
<1>2. \A left \in Int : calculatePenalty(left, rate) = IF left >= 120 THEN 0 ELSE half(rate)
  BY DEF calculatePenalty, FreeWindow
<1>3. ASSUME NEW left \in Int
      PROVE  LET penalty == calculatePenalty(left, rate) IN
             /\ \A later \in lefts : later < left => calculatePenalty(later, rate) >= penalty
             /\ rate > 0 => (left >= 120 <=> penalty = 0)
             /\ penalty \in {0, rate \div 2, rate - (rate \div 2)}
  BY <1>1, <1>2
<1> QED
  BY <1>3 DEF PenaltyGrows

\* The largest of some numbers is one of them.
LEMMA LargestOf ==
    ASSUME NEW n \in Nat \ {0}, NEW f, \A i \in 1..n : f[i] \in Int
    PROVE  /\ \A i \in 1..n : Max({f[k] : k \in 1..n}) >= f[i]
           /\ \E k \in 1..n : Max({f[i] : i \in 1..n}) = f[k]
<1> DEFINE Reached == {m \in Nat : m + 1 <= n => \E k \in 1..(m + 1) : \A i \in 1..(m + 1) : f[k] >= f[i]}
<1>1. 0 \in Reached
  <2>1. 1 \in 1..(0 + 1) /\ f[1] \in Int /\ \A i \in 1..(0 + 1) : i = 1
    OBVIOUS
  <2> QED
    BY <2>1
<1>2. ASSUME NEW m \in Reached PROVE m + 1 \in Reached
  <2> SUFFICES ASSUME m + 1 + 1 <= n
               PROVE  \E k \in 1..(m + 1 + 1) : \A i \in 1..(m + 1 + 1) : f[k] >= f[i]
    OBVIOUS
  <2>1. PICK k \in 1..(m + 1) : \A i \in 1..(m + 1) : f[k] >= f[i]
    OBVIOUS
  <2>2. PICK o \in 1..n : o = m + 1 + 1
    OBVIOUS
  <2>3. \A i \in 1..o : i \in 1..n /\ f[i] \in Int /\ (i = o \/ i \in 1..(m + 1))
    BY <2>2
  <2>4. CASE f[k] >= f[o]
    BY <2>1, <2>2, <2>3, <2>4
  <2>5. CASE ~(f[k] >= f[o])
    <3>1. f[k] \in Int /\ f[o] \in Int /\ o \in 1..o
      BY <2>1, <2>2, <2>3
    <3>2. \A i \in 1..o : f[o] >= f[i]
      BY <2>1, <2>3, <2>5, <3>1
    <3> QED
      BY <2>2, <3>1, <3>2
  <2> QED
    BY <2>4, <2>5
<1>3. n - 1 \in Reached
  <2>1. Reached \subseteq Nat /\ n - 1 \in Nat
    OBVIOUS
  <2> HIDE DEF Reached
  <2> QED
    BY <1>1, <1>2, <2>1, Induct
<1>4. PICK k \in 1..n : \A i \in 1..n : f[k] >= f[i]
  BY <1>3
<1>5. PICK S : S = {f[i] : i \in 1..n}
  OBVIOUS
<1>6. f[k] \in S /\ \A y \in S : f[k] >= y
  BY <1>4, <1>5
<1>7. Max(S) \in S /\ \A y \in S : Max(S) >= y
  BY <1>6 DEF Max
<1> QED
  BY <1>5, <1>7

Sent(profile, n, lines) ==
    /\ n \in Nat /\ DOMAIN lines = 1..n
    /\ \A i \in 1..n : lines[i] \in [service : Nat, value : Int, unit : {"min", "hour", "day"},
                                     meetGreet : BOOLEAN]
    /\ profile.rate \in Int /\ 0 \notin DOMAIN profile.services
    /\ \A s \in DOMAIN profile.services : /\ profile.services[s].price \in Int
                                          /\ profile.services[s].minutes \in Int

\* What the marketplace answers of a service that can be booked.
LEMMA Available ==
    ASSUME NEW profile, NEW n, NEW lines, Sent(profile, n, lines), NEW s,
           checkAvailability(profile, s).available
    PROVE  LET a == checkAvailability(profile, s) IN
           /\ profile.visible /\ s \in DOMAIN profile.services \cup {0}
           /\ a.service = s /\ a.commission = 0 /\ a.tax = 0
           /\ a.rate \in Int
           /\ a.rate = IF s # 0 /\ profile.services[s].price # 0 THEN profile.services[s].price
                       ELSE profile.rate
           /\ a.minutes = IF s # 0 THEN profile.services[s].minutes ELSE 0
BY DEF checkAvailability, Sent, Refused

\* What becomes of a line: it lasts what the business says if it is of the picked service, and
\* names no service otherwise.
LEMMA BookedLine ==
    ASSUME NEW profile, NEW n, NEW lines, Sent(profile, n, lines), NEW a, a.minutes \in Int,
           NEW i \in 1..n
    PROVE  LET b == bookedLines(lines, a)[i] IN
           /\ b.value \in Int /\ b.unit \in {"min", "hour", "day"}
           /\ b.service # 0 => /\ b.service = a.service
                               /\ a.minutes # 0 => b.value = a.minutes /\ b.unit = "min"
           /\ lines[i].service = a.service /\ lines[i].service # 0 /\ a.minutes # 0
                => b.value = a.minutes /\ b.unit = "min"
<1>1. lines[i] \in [service : Nat, value : Int, unit : {"min", "hour", "day"}, meetGreet : BOOLEAN]
  BY DEF Sent
<1>2. bookedLines(lines, a)[i] =
        IF lines[i].service # 0 /\ lines[i].service = a.service
        THEN IF a.minutes = 0 THEN lines[i]
             ELSE [lines[i] EXCEPT !.value = a.minutes, !.unit = "min"]
        ELSE [lines[i] EXCEPT !.service = 0]
  BY DEF bookedLines, Sent
<1> QED
  BY <1>1, <1>2

\* How long a booking of these lines lasts: at least as the business says of the picked service,
\* and exactly that when every line is of it.
LEMMA Lasts ==
    ASSUME NEW profile, NEW n, NEW lines, Sent(profile, n, lines), NEW a, a.minutes \in Int,
           a.minutes # 0
    PROVE  LET minutes == longestDurationMinutes(bookedLines(lines, a)) IN
           /\ \A i \in 1..n : bookedLines(lines, a)[i].service # 0 => minutes >= a.minutes
           /\ n # 0 /\ a.service # 0 /\ (\A i \in 1..n : lines[i].service = a.service) => minutes = a.minutes
<1> DEFINE b == bookedLines(lines, a)
           f == [i \in 1..n |-> b[i].value * UNIT_TO_MINUTES[b[i].unit]]
<1>1. DOMAIN b = 1..n /\ n \in Nat
  BY DEF bookedLines, Sent
<1>2. longestDurationMinutes(b) = Max({f[i] : i \in 1..n})
  <2>1. {b[i].value * UNIT_TO_MINUTES[b[i].unit] : i \in DOMAIN b} = {f[i] : i \in 1..n}
    BY <1>1
  <2> QED
    BY <2>1 DEF longestDurationMinutes
<1>3. ASSUME NEW i \in 1..n
      PROVE  /\ f[i] \in Int
             /\ b[i].value = a.minutes /\ b[i].unit = "min" => f[i] = a.minutes
  <2>1. b[i].value \in Int /\ b[i].unit \in {"min", "hour", "day"}
    BY BookedLine
  <2>2. PICK v \in Int : v = b[i].value
    BY <2>1
  <2>3. PICK u \in Int : u = UNIT_TO_MINUTES[b[i].unit] /\ (b[i].unit = "min" => u = 1)
    BY <2>1 DEF UNIT_TO_MINUTES
  <2>4. f[i] = v * u /\ v * u \in Int
    BY <2>2, <2>3
  <2>5. u = 1 => v * u = v
    BY <2>2, <2>3
  <2> QED
    BY <2>2, <2>3, <2>4, <2>5
<1> HIDE DEF f, b
<1>4. ASSUME NEW i \in 1..n, b[i].service # 0 PROVE longestDurationMinutes(b) >= a.minutes
  <2>1. f[i] = a.minutes
    BY <1>3, <1>4, BookedLine DEF b
  <2>2. n \in Nat \ {0}
    BY <1>1
  <2>3. Max({f[k] : k \in 1..n}) >= f[i]
    BY <1>3, <2>2, LargestOf
  <2> QED
    BY <1>2, <2>1, <2>3
<1>5. ASSUME n # 0, a.service # 0, \A i \in 1..n : lines[i].service = a.service
      PROVE  longestDurationMinutes(b) = a.minutes
  <2>1. ASSUME NEW i \in 1..n PROVE f[i] = a.minutes
    BY <1>3, <1>5, BookedLine DEF b
  <2>2. 1 \in 1..n
    BY <1>1, <1>5
  <2>3. {f[k] : k \in 1..n} = {a.minutes}
    BY <2>1, <2>2
  <2>4. Max({a.minutes}) = a.minutes
    <3>1. a.minutes >= a.minutes
      OBVIOUS
    <3> QED
      BY <3>1 DEF Max
  <2> QED
    BY <1>2, <2>3, <2>4
<1> QED
  BY <1>4, <1>5 DEF b

\* A booking is priced and timed from what the business says of the service it is for, or from
\* its own rate, never from what the app sends: for any services and any lines
\* (ProviderMarketplaceAdapter, createBooking).
THEOREM PricesRight ==
    ASSUME NEW profile, NEW n, NEW lines, Sent(profile, n, lines)
    PROVE  PricedFromEntry(profile, lines)
<1> DEFINE s == pickedService(lines)
           a == checkAvailability(profile, s)
           meetGreet == \E i \in DOMAIN lines : lines[i].meetGreet
           q == quote(profile, lines)
<1> SUFFICES ASSUME q.available
             PROVE  /\ profile.visible /\ s \in DOMAIN profile.services \cup {0}
                    /\ q.total = IF meetGreet THEN 0
                                 ELSE IF s # 0 /\ profile.services[s].price # 0 THEN profile.services[s].price
                                 ELSE profile.rate
                    /\ q.total = q.rate
                    /\ \A i \in DOMAIN q.lines : q.lines[i].service # 0 =>
                          /\ q.lines[i].service = s
                          /\ profile.services[s].minutes # 0 => q.minutes >= profile.services[s].minutes
                    /\ s # 0 /\ (\A i \in DOMAIN lines : lines[i].service = s) /\ profile.services[s].minutes # 0
                         => q.minutes = profile.services[s].minutes
  BY DEF PricedFromEntry
<1>1. a.available
  <2>1. ~a.available => q = Refused
    BY DEF quote
  <2> QED
    BY <2>1 DEF Refused
<1>2. /\ profile.visible /\ s \in DOMAIN profile.services \cup {0}
      /\ a.service = s /\ a.commission = 0 /\ a.tax = 0 /\ a.rate \in Int
      /\ a.rate = IF s # 0 /\ profile.services[s].price # 0 THEN profile.services[s].price ELSE profile.rate
      /\ a.minutes \in Int /\ (s # 0 => a.minutes = profile.services[s].minutes)
  <2>1. /\ profile.visible /\ s \in DOMAIN profile.services \cup {0}
        /\ a.service = s /\ a.commission = 0 /\ a.tax = 0
        /\ a.rate = IF s # 0 /\ profile.services[s].price # 0 THEN profile.services[s].price ELSE profile.rate
        /\ a.minutes = IF s # 0 THEN profile.services[s].minutes ELSE 0
    BY <1>1, Available
  <2> HIDE DEF a, s
  <2>2. a.rate \in Int /\ a.minutes \in Int
    BY <2>1 DEF Sent
  <2> QED
    BY <2>1, <2>2
<1>3. /\ q.rate = IF meetGreet THEN 0 ELSE a.rate
      /\ q.total = q.rate + (IF meetGreet THEN 0 ELSE a.commission) + (IF meetGreet THEN 0 ELSE a.tax)
      /\ q.lines = bookedLines(lines, a)
      /\ q.minutes = longestDurationMinutes(bookedLines(lines, a))
  BY <1>1 DEF quote
<1> HIDE DEF a, q
<1>4. q.total = q.rate /\ q.rate = IF meetGreet THEN 0 ELSE a.rate
  <2>1. q.rate \in Int
    BY <1>2, <1>3
  <2> QED
    BY <1>2, <1>3, <2>1
<1>5. DOMAIN q.lines = 1..n /\ DOMAIN lines = 1..n /\ n \in Nat
  BY <1>3 DEF bookedLines, Sent
<1>6. ASSUME NEW i \in DOMAIN q.lines, q.lines[i].service # 0
      PROVE  /\ q.lines[i].service = s
             /\ profile.services[s].minutes # 0 => q.minutes >= profile.services[s].minutes
  <2>1. q.lines[i].service = a.service
    BY <1>3, <1>5, <1>2, <1>6, BookedLine
  <2>2. s # 0 /\ q.lines[i].service = s
    BY <1>2, <1>6, <2>1
  <2>3. a.minutes # 0 => q.minutes >= a.minutes
    BY <1>3, <1>5, <1>2, <1>6, Lasts
  <2> QED
    BY <1>2, <2>2, <2>3
<1>7. ASSUME s # 0, \A i \in DOMAIN lines : lines[i].service = s, profile.services[s].minutes # 0
      PROVE  q.minutes = profile.services[s].minutes
  <2>1. n # 0
    BY <1>5, <1>7 DEF pickedService
  <2> QED
    BY <1>2, <1>3, <1>5, <1>7, <2>1, Lasts
<1> QED
  BY <1>2, <1>4, <1>6, <1>7

(***************************************************************************)
(* Lists.  An element's place in Listed is how many there are before it;   *)
(* in a strict order no two have the same, so there is one at each place.  *)
(***************************************************************************)

\* A strict order of a finite set in which any two can be told apart.
Orders(S, before) ==
    /\ IsFiniteSet(S)
    /\ \A x \in S : <<x, x>> \notin before
    /\ \A x, y \in S : x # y => <<x, y>> \in before \/ <<y, x>> \in before
    /\ \A x, y, z \in S : <<x, y>> \in before /\ <<y, z>> \in before => <<x, z>> \in before

LEMMA OneAtEachPlace ==
    ASSUME NEW S, NEW before, Orders(S, before)
    PROVE  /\ Cardinality(S) \in Nat
           /\ \E rank \in [S -> 0..(Cardinality(S) - 1)] :
                 /\ \A x \in S : rank[x] = Cardinality({y \in S : <<y, x>> \in before})
                 /\ \A x, y \in S : <<x, y>> \in before => rank[x] < rank[y]
                 /\ \A k \in 0..(Cardinality(S) - 1) : \E x \in S : rank[x] = k
<1> USE DEF Orders
<1> DEFINE Lower(x) == {y \in S : <<y, x>> \in before}
           n == Cardinality(S)
           rank == [x \in S |-> Cardinality(Lower(x))]
<1>1. n \in Nat
  BY FS_CardinalityType
<1>2. ASSUME NEW x \in S
      PROVE  IsFiniteSet(Lower(x)) /\ Cardinality(Lower(x)) \in Nat /\ Cardinality(Lower(x)) < n
  <2>1. Lower(x) \in SUBSET S /\ x \notin Lower(x)
    OBVIOUS
  <2>2. IsFiniteSet(Lower(x)) /\ Cardinality(Lower(x)) <= n /\ Cardinality(Lower(x)) # n
    BY <2>1, FS_Subset
  <2>3. Cardinality(Lower(x)) \in Nat
    BY <2>2, FS_CardinalityType
  <2> QED
    BY <1>1, <2>2, <2>3
<1>3. ASSUME NEW x \in S, NEW y \in S, <<x, y>> \in before
      PROVE  Cardinality(Lower(x)) < Cardinality(Lower(y))
  <2>1. Lower(x) \in SUBSET Lower(y)
    BY <1>3
  <2>2. x \in Lower(y) /\ x \notin Lower(x)
    BY <1>3
  <2>3. IsFiniteSet(Lower(y)) /\ Cardinality(Lower(x)) \in Nat /\ Cardinality(Lower(y)) \in Nat
    BY <1>2
  <2>4. Cardinality(Lower(x)) <= Cardinality(Lower(y)) /\ Cardinality(Lower(x)) # Cardinality(Lower(y))
    BY <2>1, <2>2, <2>3, FS_Subset
  <2> QED
    BY <2>3, <2>4
<1>4. rank \in [S -> 0..(n - 1)] /\ \A x \in S : rank[x] = Cardinality(Lower(x))
  <2>1. ASSUME NEW x \in S PROVE Cardinality(Lower(x)) \in 0..(n - 1)
    <3> HIDE DEF Lower, n
    <3> QED
      BY <1>1, <1>2
  <2> HIDE DEF Lower, n
  <2> QED
    BY <2>1
<1>5. \A x, y \in S : <<x, y>> \in before => rank[x] < rank[y]
  BY <1>3, <1>4
<1> HIDE DEF rank
<1>6. ASSUME NEW k \in 0..(n - 1), \A x \in S : rank[x] # k PROVE FALSE
  <2> DEFINE T == (0..(n - 1)) \ {k}
  <2>1. IsFiniteSet(0..(n - 1)) /\ Cardinality(0..(n - 1)) = n
    <3> HIDE DEF n
    <3>1. 0 \in Int /\ n - 1 \in Int
      BY <1>1
    <3>2. IsFiniteSet(0..(n - 1)) /\ Cardinality(0..(n - 1)) = IF 0 > n - 1 THEN 0 ELSE n - 1 - 0 + 1
      BY <3>1, FS_Interval
    <3> QED
      BY <1>1, <3>2
  <2>2. IsFiniteSet(T) /\ Cardinality(T) = n - 1
    BY <1>6, <2>1, FS_RemoveElement
  <2>3. rank \in [S -> T]
    BY <1>4, <1>6
  <2>4. Cardinality(T) < Cardinality(S)
    BY <1>1, <2>2
  <2> HIDE DEF T, n
  <2>5. IsFiniteSet(S)
    OBVIOUS
  <2>6. \E x, y \in S : x # y /\ rank[x] = rank[y]
    BY <2>2, <2>3, <2>4, <2>5, FS_PigeonHole
  <2>7. PICK x, y \in S : x # y /\ rank[x] = rank[y]
    BY <2>6
  <2>8. <<x, y>> \in before \/ <<y, x>> \in before
    BY <2>7
  <2>9. rank[x] \in Int /\ rank[y] \in Int
    BY <1>1, <1>4 DEF n
  <2> QED
    BY <1>5, <2>7, <2>8, <2>9
<1> QED
  BY <1>1, <1>4, <1>5, <1>6

\* Who is at a place of Listed.
At(k, S, before) == CHOOSE x \in S : Cardinality({y \in S : <<y, x>> \in before}) = k - 1

LEMMA ListedIs ==
    ASSUME NEW S, NEW before, Orders(S, before)
    PROVE  /\ Cardinality(S) \in Nat
           /\ Listed(S, before) \in [1..Cardinality(S) -> S]
           /\ \A x \in S : \E k \in 1..Cardinality(S) : Listed(S, before)[k] = x
           /\ \A j, k \in 1..Cardinality(S) : <<Listed(S, before)[j], Listed(S, before)[k]>> \in before <=> j < k
<1> DEFINE n == Cardinality(S)
           l == Listed(S, before)
<1>1. n \in Nat
  BY OneAtEachPlace
<1>2. PICK rank \in [S -> 0..(n - 1)] :
        /\ \A x \in S : rank[x] = Cardinality({y \in S : <<y, x>> \in before})
        /\ \A x, y \in S : <<x, y>> \in before => rank[x] < rank[y]
        /\ \A k \in 0..(n - 1) : \E x \in S : rank[x] = k
  BY OneAtEachPlace
<1>3. DOMAIN l = 1..n
  BY DEF Listed
<1>4. ASSUME NEW k \in 1..n PROVE l[k] \in S /\ rank[l[k]] = k - 1
  <2> DEFINE Here(x) == Cardinality({y \in S : <<y, x>> \in before}) = k - 1
  <2>1. k - 1 \in 0..(n - 1)
    <3> HIDE DEF n
    <3> QED
      BY <1>1
  <2>2. \E x \in S : Here(x)
    BY <1>2, <2>1
  <2>3. l[k] = CHOOSE x \in S : Here(x)
    BY DEF Listed
  <2> HIDE DEF l, Here
  <2>4. l[k] \in S /\ Here(l[k])
    BY <2>2, <2>3, Zenon
  <2> USE DEF Here
  <2> QED
    BY <1>2, <2>4
<1>5. l \in [1..n -> S]
  <2>1. l = [k \in 1..n |-> At(k, S, before)]
    BY DEF Listed, At
  <2> HIDE DEF l
  <2> QED
    BY <1>4, <2>1
<1> HIDE DEF n, l
<1>6. ASSUME NEW x \in S, NEW y \in S, rank[x] = rank[y] PROVE x = y
  <2>1. rank[x] \in Int
    BY <1>2
  <2>2. ~(rank[x] < rank[y]) /\ ~(rank[y] < rank[x])
    BY <1>6, <2>1
  <2> QED
    BY <1>2, <2>2 DEF Orders
<1>7. ASSUME NEW x \in S PROVE \E k \in 1..n : l[k] = x
  <2>1. rank[x] \in 0..(n - 1) /\ rank[x] + 1 \in 1..n /\ rank[x] + 1 - 1 = rank[x]
    BY <1>1, <1>2
  <2>2. l[rank[x] + 1] = x
    BY <1>4, <1>6, <2>1
  <2> QED
    BY <2>1, <2>2
<1>8. ASSUME NEW j \in 1..n, NEW k \in 1..n PROVE <<l[j], l[k]>> \in before <=> j < k
  <2>1. /\ l[j] \in S /\ l[k] \in S /\ rank[l[j]] = j - 1 /\ rank[l[k]] = k - 1
        /\ j \in Int /\ k \in Int
    BY <1>1, <1>4
  <2>2. <<l[j], l[k]>> \in before => j < k
    BY <1>2, <2>1
  <2>3. <<l[k], l[j]>> \in before => k < j
    BY <1>2, <2>1
  <2>4. l[j] = l[k] => j = k
    BY <2>1
  <2> QED
    BY <2>1, <2>2, <2>3, <2>4 DEF Orders
<1> QED
  BY <1>1, <1>5, <1>7, <1>8 DEF n, l

\* Some places of a sequence, in their order.
LEMMA AscendingIs ==
    ASSUME NEW n \in Nat, NEW S \in SUBSET (1..n)
    PROVE  /\ Cardinality(S) \in Nat
           /\ Ascending(S) \in [1..Cardinality(S) -> S]
           /\ \A x \in S : \E k \in 1..Cardinality(S) : Ascending(S)[k] = x
           /\ \A j, k \in 1..Cardinality(S) : Ascending(S)[j] < Ascending(S)[k] <=> j < k
<1> DEFINE before == {p \in S \X S : p[1] < p[2]}
<1>1. \A x, y \in S : <<x, y>> \in before <=> x < y
  OBVIOUS
<1>2. IsFiniteSet(S)
  <2>1. IsFiniteSet(1..n)
    BY FS_Interval
  <2> QED
    BY <2>1, FS_Subset
<1>3. S \subseteq Int
  OBVIOUS
<1>4. Ascending(S) = Listed(S, before)
  BY DEF Ascending
<1> HIDE DEF before
<1>5. Orders(S, before)
  BY <1>1, <1>2, <1>3 DEF Orders
<1>6. /\ Cardinality(S) \in Nat
      /\ Listed(S, before) \in [1..Cardinality(S) -> S]
      /\ \A x \in S : \E k \in 1..Cardinality(S) : Listed(S, before)[k] = x
      /\ \A j, k \in 1..Cardinality(S) : <<Listed(S, before)[j], Listed(S, before)[k]>> \in before <=> j < k
  BY <1>5, ListedIs
<1> QED
  BY <1>1, <1>4, <1>6

\* All the places there are, in their order.
LEMMA AscendingAll == ASSUME NEW n \in Nat PROVE Ascending(1..n) = [k \in 1..n |-> k]
<1> DEFINE S == 1..n
           l == Ascending(S)
<1>1. Cardinality(S) = n /\ S \in SUBSET (1..n)
  <2>1. Cardinality(1..n) = IF 1 > n THEN 0 ELSE n - 1 + 1
    BY FS_Interval
  <2> QED
    BY <2>1
<1>2. l \in [1..n -> S]
  BY <1>1, AscendingIs
<1>3. ASSUME NEW k \in 1..n PROVE l[k] = k
  <2> DEFINE before == {p \in S \X S : p[1] < p[2]}
             Here(x) == Cardinality({y \in S : <<y, x>> \in before}) = k - 1
  <2>1. ASSUME NEW x \in S PROVE Here(x) <=> x = k
    <3> DEFINE B == {y \in S : <<y, x>> \in before}
    <3>1. B = 1..(x - 1)
      OBVIOUS
    <3>2. Cardinality(1..(x - 1)) = IF 1 > x - 1 THEN 0 ELSE x - 1 - 1 + 1
      BY FS_Interval
    <3>3. Cardinality(1..(x - 1)) = x - 1
      BY <3>2
    <3>4. Here(x) <=> Cardinality(B) = k - 1
      OBVIOUS
    <3> HIDE DEF B, Here
    <3> QED
      BY <3>1, <3>3, <3>4
  <2>2. l[k] = CHOOSE x \in S : Here(x)
    BY <1>1 DEF Ascending, Listed
  <2> HIDE DEF l, Here
  <2>3. l[k] \in S /\ Here(l[k])
    BY <2>1, <2>2, Zenon
  <2> QED
    BY <2>1, <2>3
<1> HIDE DEF l
<1>4. l = [k \in 1..n |-> k]
  BY <1>2, <1>3
<1> QED
  BY <1>4 DEF l

\* Array.filter: the entries that were picked, each at its place among them.
Picks(n, seq, places, m, order) ==
    /\ m \in Nat /\ m <= n /\ order \in [1..m -> places]
    /\ Picked(seq, places) = [k \in 1..m |-> seq[order[k]]]
    /\ \A x \in places : \E k \in 1..m : order[k] = x
    /\ \A j, k \in 1..m : order[j] = order[k] => j = k

LEMMA PickedIs ==
    ASSUME NEW n \in Nat, NEW seq, DOMAIN seq = 1..n, NEW places \in SUBSET (1..n)
    PROVE  \E m, order : Picks(n, seq, places, m, order)
<1> DEFINE m == Cardinality(places)
           order == Ascending(places)
<1>1. /\ m \in Nat /\ order \in [1..m -> places]
      /\ \A x \in places : \E k \in 1..m : order[k] = x
      /\ \A j, k \in 1..m : order[j] < order[k] <=> j < k
  BY AscendingIs
<1>2. Picked(seq, places) = [k \in DOMAIN order |-> seq[order[k]]]
  BY DEF Picked
<1>3. m <= n
  <2>1. IsFiniteSet(1..n) /\ Cardinality(1..n) = IF 1 > n THEN 0 ELSE n - 1 + 1
    BY FS_Interval
  <2>2. m <= Cardinality(1..n)
    BY <2>1, FS_Subset
  <2> QED
    BY <2>1, <2>2
<1>4. DOMAIN order = 1..m
  BY DEF Ascending, Listed
<1> HIDE DEF m, order
<1>5. ASSUME NEW j \in 1..m, NEW k \in 1..m, order[j] = order[k] PROVE j = k
  <2>1. order[j] \in Int /\ j \in Int /\ k \in Int
    <3>1. order[j] \in places
      BY <1>1
    <3>2. \A p \in places : p \in Int
      OBVIOUS
    <3>3. order[j] \in Int
      BY <3>1, <3>2, Zenon
    <3>4. m \in Int
      BY <1>1
    <3>5. j \in Int /\ k \in Int
      BY <3>4
    <3> QED
      BY <3>3, <3>5
  <2>2. ~(j < k) /\ ~(k < j)
    BY <1>1, <1>5, <2>1
  <2> QED
    BY <2>1, <2>2
<1>6. Picks(n, seq, places, m, order)
  BY <1>1, <1>2, <1>3, <1>4, <1>5 DEF Picks
<1> QED
  BY <1>6

LEMMA PickedAll ==
    ASSUME NEW n \in Nat, NEW S, NEW seq \in [1..n -> S] PROVE Picked(seq, 1..n) = seq
<1>1. Ascending(1..n) = [k \in 1..n |-> k]
  BY AscendingAll
<1>2. Picked(seq, 1..n) = [k \in DOMAIN Ascending(1..n) |-> seq[Ascending(1..n)[k]]]
  BY DEF Picked
<1> QED
  BY <1>1, <1>2

(***************************************************************************)
(* The directory.  A score is a fraction, and fractions are compared       *)
(* across: what is done with their products is said of plain numbers.      *)
(***************************************************************************)

LEMMA Scaled ==
    ASSUME NEW x \in Int, NEW y \in Int, NEW k \in Nat \ {0}
    PROVE  (x * k >= y * k <=> x >= y) /\ (x * k > y * k <=> x > y) /\ (x * k = y * k <=> x = y)
<1>1. x > y => x * k > y * k
  <2> SUFFICES ASSUME x > y PROVE x * k > y * k
    OBVIOUS
  <2>1. PICK d \in Nat \ {0} : x = y + d
    <3>1. x - y \in Nat \ {0} /\ x = y + (x - y)
      OBVIOUS
    <3> QED
      BY <3>1
  <2>2. x * k = y * k + d * k
    BY <2>1
  <2>3. d * k > 0
    OBVIOUS
  <2> QED
    BY <2>2, <2>3
<1>2. y > x => y * k > x * k
  <2> SUFFICES ASSUME y > x PROVE y * k > x * k
    OBVIOUS
  <2>1. PICK d \in Nat \ {0} : y = x + d
    <3>1. y - x \in Nat \ {0} /\ y = x + (y - x)
      OBVIOUS
    <3> QED
      BY <3>1
  <2>2. y * k = x * k + d * k
    BY <2>1
  <2>3. d * k > 0
    OBVIOUS
  <2> QED
    BY <2>2, <2>3
<1>3. x * k \in Int /\ y * k \in Int
  OBVIOUS
<1> QED
  BY <1>1, <1>2, <1>3

\* To be at least as large, or larger, passes on from one fraction to the next.
LEMMA Fractions ==
    ASSUME NEW a \in Int, NEW b \in Int, NEW c \in Int,
           NEW p \in Nat \ {0}, NEW q \in Nat \ {0}, NEW r \in Nat \ {0},
           a * q >= b * p, b * r >= c * q
    PROVE  /\ a * r >= c * p
           /\ a * q > b * p \/ b * r > c * q => a * r > c * p
<1>1. a * q \in Int /\ b * p \in Int /\ b * r \in Int /\ c * q \in Int /\ a * r \in Int /\ c * p \in Int
  OBVIOUS
<1>2. (a * q) * r >= (b * p) * r /\ (a * q > b * p => (a * q) * r > (b * p) * r)
  BY <1>1, Scaled
<1>3. (b * r) * p >= (c * q) * p /\ (b * r > c * q => (b * r) * p > (c * q) * p)
  BY <1>1, Scaled
<1>4. /\ (a * q) * r = (a * r) * q /\ (b * p) * r = (b * r) * p /\ (c * q) * p = (c * p) * q
      /\ (a * r) * q \in Int /\ (b * r) * p \in Int /\ (c * p) * q \in Int
  OBVIOUS
<1>5. (a * r) * q >= (c * p) * q /\ (a * q > b * p \/ b * r > c * q => (a * r) * q > (c * p) * q)
  BY <1>2, <1>3, <1>4
<1> QED
  BY <1>1, <1>5, Scaled

\* The better average of as many, and the larger number of the same, better than the prior.
LEMMA HigherScore ==
    ASSUME NEW s \in Int, NEW c \in Nat, NEW t \in Int, NEW d \in Nat
    PROVE  /\ c = d /\ s > t => (9 + s) * (3 + d) > (9 + t) * (3 + c)
           /\ s * d = t * c /\ c > d /\ t > 3 * d /\ d > 0 => (9 + s) * (3 + d) > (9 + t) * (3 + c)
<1>1. ASSUME c = d, s > t PROVE (9 + s) * (3 + d) > (9 + t) * (3 + c)
  <2>1. 9 + s \in Int /\ 9 + t \in Int /\ 3 + d \in Nat \ {0} /\ 9 + s > 9 + t
    BY <1>1
  <2> QED
    BY <1>1, <2>1, Scaled
<1>2. ASSUME s * d = t * c, c > d, t > 3 * d, d > 0 PROVE (9 + s) * (3 + d) > (9 + t) * (3 + c)
  <2>1. PICK y \in Nat \ {0} : t = y + 3 * d
    <3>1. t - 3 * d \in Nat \ {0} /\ t = (t - 3 * d) + 3 * d
      BY <1>2
    <3> QED
      BY <3>1
  <2>2. PICK x \in Int : s = x + 3 * c
    <3>1. s - 3 * c \in Int /\ s = (s - 3 * c) + 3 * c
      OBVIOUS
    <3> QED
      BY <3>1
  <2>3. x * d = c * y
    <3>1. s * d = x * d + 3 * (c * d) /\ t * c = y * c + 3 * (c * d)
      BY <2>1, <2>2
    <3>2. x * d \in Int /\ c * d \in Int /\ y * c \in Int /\ y * c = c * y
      OBVIOUS
    <3> QED
      BY <1>2, <3>1, <3>2
  <2>4. c * y > d * y
    BY <1>2, Scaled
  <2>5. x * d > y * d /\ x > y
    <3>1. y * d = d * y /\ d \in Nat \ {0}
      BY <1>2
    <3> QED
      BY <2>3, <2>4, <3>1, Scaled
  <2>6. (9 + s) * (3 + d) = 27 + 9 * d + 3 * x + 9 * c + x * d + 3 * (c * d)
    BY <2>2
  <2>7. (9 + t) * (3 + c) = 27 + 9 * c + 3 * y + 9 * d + c * y + 3 * (c * d)
    BY <2>1
  <2>8. x * d \in Int /\ c * d \in Int
    OBVIOUS
  <2> QED
    BY <2>3, <2>5, <2>6, <2>7, <2>8
<1> QED
  BY <1>1, <1>2

\* Rounded to the nearest.
LEMMA Rounded ==
    ASSUME NEW s \in Int, NEW c \in Nat \ {0}
    PROVE  LET off == ((20 * s + c) \div (2 * c)) * c - 10 * s IN 2 * off \in (-c)..c
<1>1. PICK x \in Int, d \in Nat \ {0}, t \in Int : x = 20 * s + c /\ d = 2 * c /\ t = x \div d
  <2>1. 20 * s + c \in Int /\ 2 * c \in Nat \ {0}
    OBVIOUS
  <2>2. ASSUME NEW x \in Int, NEW d \in Nat \ {0} PROVE x \div d \in Int
    OBVIOUS
  <2>3. (20 * s + c) \div (2 * c) \in Int
    BY <2>1, <2>2
  <2> QED
    BY <2>1, <2>3
<1>2. d * t <= x /\ x < d * t + d
  BY <1>1
<1>3. d * t = 2 * (t * c) /\ t * c \in Int
  BY <1>1
<1> QED
  BY <1>1, <1>2, <1>3

\* The ratings of businesses, those without a review among them.
Rated(n, stars) ==
    /\ n \in Nat /\ DOMAIN stars = 1..n
    /\ \A i \in 1..n : /\ stars[i].sum \in Int /\ stars[i].count \in Nat
                       /\ stars[i].count = 0 => stars[i].sum = 0

Reviewed(stars) == {i \in DOMAIN stars : stars[i].count > 0}

\* The comparator, on plain numbers.
LEMMA SoonerOf ==
    ASSUME NEW n, NEW stars, Rated(n, stars), NEW i \in 1..n, NEW j \in 1..n
    PROVE  Sooner(stars, i, j) <=>
             \/ (9 + stars[i].sum) * (3 + stars[j].count) > (9 + stars[j].sum) * (3 + stars[i].count)
             \/ /\ (9 + stars[i].sum) * (3 + stars[j].count) = (9 + stars[j].sum) * (3 + stars[i].count)
                /\ stars[i].count > stars[j].count \/ (stars[i].count = stars[j].count /\ i < j)
BY DEF Sooner, Above, Level, Score, PRIOR_MEAN, PRIOR_WEIGHT, Rated

LEMMA SoonerPasses ==
    ASSUME NEW n, NEW stars, Rated(n, stars), NEW i \in 1..n, NEW j \in 1..n, NEW k \in 1..n,
           Sooner(stars, i, j), Sooner(stars, j, k)
    PROVE  Sooner(stars, i, k)
<1>1. i \in Int /\ j \in Int /\ k \in Int
  BY DEF Rated
<1>2. PICK a \in Int, b \in Int, c \in Int : a = 9 + stars[i].sum /\ b = 9 + stars[j].sum /\ c = 9 + stars[k].sum
  BY DEF Rated
<1>3. PICK p \in Nat \ {0}, q \in Nat \ {0}, r \in Nat \ {0} :
        p = 3 + stars[i].count /\ q = 3 + stars[j].count /\ r = 3 + stars[k].count
  <2>1. ASSUME NEW x \in 1..n PROVE 3 + stars[x].count \in Nat \ {0}
    BY DEF Rated
  <2> QED
    BY <2>1
<1>4. PICK x \in Nat, y \in Nat, z \in Nat : x = stars[i].count /\ y = stars[j].count /\ z = stars[k].count
  BY DEF Rated
<1>5. a * q > b * p \/ (a * q = b * p /\ (x > y \/ (x = y /\ i < j)))
  BY <1>2, <1>3, <1>4, SoonerOf
<1>6. b * r > c * q \/ (b * r = c * q /\ (y > z \/ (y = z /\ j < k)))
  BY <1>2, <1>3, <1>4, SoonerOf
<1>7. a * q \in Int /\ b * p \in Int /\ b * r \in Int /\ c * q \in Int /\ a * r \in Int /\ c * p \in Int
  OBVIOUS
<1>8. a * r >= c * p /\ (a * q > b * p \/ b * r > c * q => a * r > c * p)
  <2>1. a * q >= b * p
    BY <1>5, <1>7
  <2>2. b * r >= c * q
    BY <1>6, <1>7
  <2> QED
    BY <2>1, <2>2, Fractions
<1>9. a * r > c * p \/ (a * r = c * p /\ (x > z \/ (x = z /\ i < k)))
  BY <1>1, <1>5, <1>6, <1>7, <1>8
<1> QED
  BY <1>2, <1>3, <1>4, <1>9, SoonerOf

LEMMA SoonerOrders ==
    ASSUME NEW n, NEW stars, Rated(n, stars)
    PROVE  Orders(Reviewed(stars), {p \in Reviewed(stars) \X Reviewed(stars) : Sooner(stars, p[1], p[2])})
<1> DEFINE R == Reviewed(stars)
           before == {p \in R \X R : Sooner(stars, p[1], p[2])}
<1>1. R \in SUBSET (1..n) /\ n \in Nat
  BY DEF Rated, Reviewed
<1>2. IsFiniteSet(R)
  <2>1. IsFiniteSet(1..n)
    BY <1>1, FS_Interval
  <2> QED
    BY <1>1, <2>1, FS_Subset
<1>3. \A x, y \in R : <<x, y>> \in before <=> Sooner(stars, x, y)
  <2> HIDE DEF R
  <2> QED
    OBVIOUS
<1> HIDE DEF before
<1>4. ASSUME NEW x \in R PROVE <<x, x>> \notin before
  <2>1. x \in 1..n /\ x \in Int
    BY <1>1
  <2>2. stars[x].sum \in Int /\ stars[x].count \in Nat
    BY <2>1 DEF Rated
  <2>3. (9 + stars[x].sum) * (3 + stars[x].count) \in Int
    BY <2>2
  <2> QED
    BY <1>3, <2>1, <2>2, <2>3, SoonerOf
<1>5. ASSUME NEW x \in R, NEW y \in R, x # y PROVE <<x, y>> \in before \/ <<y, x>> \in before
  <2>1. x \in 1..n /\ x \in Int /\ y \in 1..n /\ y \in Int
    BY <1>1
  <2>2. /\ stars[x].sum \in Int /\ stars[x].count \in Nat
        /\ stars[y].sum \in Int /\ stars[y].count \in Nat
    BY <2>1 DEF Rated
  <2>3. PICK s \in Int, t \in Int : /\ s = (9 + stars[x].sum) * (3 + stars[y].count)
                                    /\ t = (9 + stars[y].sum) * (3 + stars[x].count)
    BY <2>2
  <2>4. \/ s > t \/ (s = t /\ (stars[x].count > stars[y].count \/ (stars[x].count = stars[y].count /\ x < y)))
        \/ t > s \/ (t = s /\ (stars[y].count > stars[x].count \/ (stars[y].count = stars[x].count /\ y < x)))
    BY <1>5, <2>1, <2>2
  <2>5. Sooner(stars, x, y) \/ Sooner(stars, y, x)
    BY <2>1, <2>3, <2>4, SoonerOf
  <2> QED
    BY <1>3, <2>5
<1>6. ASSUME NEW x \in R, NEW y \in R, NEW z \in R, <<x, y>> \in before, <<y, z>> \in before
      PROVE  <<x, z>> \in before
  <2>1. x \in 1..n /\ y \in 1..n /\ z \in 1..n
    BY <1>1
  <2>2. Sooner(stars, x, z)
    BY <1>3, <1>6, <2>1, SoonerPasses
  <2> QED
    BY <1>3, <2>2
<1> HIDE DEF R
<1>7. Orders(R, before)
  BY <1>2, <1>4, <1>5, <1>6 DEF Orders
<1> QED
  BY <1>7 DEF R, before

\* The order of the directory: the reviewed by their scores, then the others as they came.
Ranked(n, stars, m, order) ==
    /\ m <= n /\ order = rankByRating(stars)
    /\ \A k \in 1..n : stars[order[k]].count > 0 <=> k <= m
    /\ \A i \in 1..n : \E k \in 1..n : order[k] = i
    /\ \A j, k \in 1..n : order[j] = order[k] => j = k
    /\ \A j, k \in 1..n : k <= m => (Sooner(stars, order[j], order[k]) /\ j <= m <=> j < k)
    /\ \A j, k \in 1..n : j > m /\ k > m => (order[j] < order[k] <=> j < k)

LEMMA RankedIs ==
    ASSUME NEW n, NEW stars, Rated(n, stars)
    PROVE  \E m \in Nat : \E order \in [1..n -> 1..n] : Ranked(n, stars, m, order)
<1> DEFINE R == Reviewed(stars)
           S == DOMAIN stars \ R
           before == {p \in R \X R : Sooner(stars, p[1], p[2])}
           f == Listed(R, before)
           g == Ascending(S)
           m == Cardinality(R)
           h == f \o g
<1>1. n \in Nat /\ R \in SUBSET (1..n) /\ S \in SUBSET (1..n) /\ R \cup S = 1..n /\ R \cap S = {}
  BY DEF Rated, Reviewed
<1>2. Orders(R, before)
  BY SoonerOrders
<1>3. \A x, y \in R : <<x, y>> \in before <=> Sooner(stars, x, y)
  <2> HIDE DEF R
  <2> QED
    OBVIOUS
<1>4. h = rankByRating(stars)
  BY DEF rankByRating, Reviewed
<1>5. \A i \in 1..n : stars[i].count > 0 <=> i \in R
  BY DEF Reviewed, Rated
<1> HIDE DEF before, S, R
<1>6. /\ m \in Nat /\ f \in [1..m -> R]
      /\ \A x \in R : \E k \in 1..m : f[k] = x
      /\ \A j, k \in 1..m : <<f[j], f[k]>> \in before <=> j < k
  BY <1>2, ListedIs
<1>7. /\ Cardinality(S) \in Nat /\ g \in [1..Cardinality(S) -> S]
      /\ \A x \in S : \E k \in 1..Cardinality(S) : g[k] = x
      /\ \A j, k \in 1..Cardinality(S) : g[j] < g[k] <=> j < k
  BY <1>1, AscendingIs
<1>8. Cardinality(S) = n - m
  <2>1. IsFiniteSet(R) /\ IsFiniteSet(S) /\ Cardinality(1..n) = n
    <3>1. IsFiniteSet(1..n) /\ Cardinality(1..n) = IF 1 > n THEN 0 ELSE n - 1 + 1
      BY <1>1, FS_Interval
    <3> QED
      BY <1>1, <3>1, FS_Subset
  <2>2. Cardinality(1..n) = Cardinality(R) + Cardinality(S) - Cardinality({})
    BY <1>1, <2>1, FS_Union
  <2>3. Cardinality({}) = 0
    BY FS_EmptySet
  <2> HIDE DEF f, g
  <2> QED
    BY <1>1, <1>6, <1>7, <2>1, <2>2, <2>3
<1> HIDE DEF f, g, m
<1>9. m <= n
  BY <1>1, <1>6, <1>7, <1>8
<1>10. h = [k \in 1..n |-> IF k <= m THEN f[k] ELSE g[k - m]]
  <2>1. f \in Seq(R \cup S) /\ Len(f) = m
    BY <1>6
  <2>2. g \in Seq(R \cup S) /\ Len(g) = n - m
    <3>1. n - m \in Nat /\ g \in [1..(n - m) -> S]
      BY <1>7, <1>8
    <3> QED
      BY <3>1
  <2>3. m + (n - m) = n
    BY <1>1, <1>6
  <2>4. /\ h \in Seq(R \cup S) /\ Len(h) = Len(f) + Len(g)
        /\ \A k \in 1..(Len(f) + Len(g)) : h[k] = IF k <= Len(f) THEN f[k] ELSE g[k - Len(f)]
    BY <2>1, <2>2, ConcatProperties
  <2> HIDE DEF h
  <2>5. h = [k \in 1..Len(h) |-> h[k]]
    BY <2>4
  <2> QED
    BY <2>1, <2>2, <2>3, <2>4, <2>5
<1> HIDE DEF h
<1>11. ASSUME NEW k \in 1..n PROVE h[k] \in 1..n /\ (h[k] \in R <=> k <= m) /\ (k > m => h[k] = g[k - m]) /\ (k <= m => h[k] = f[k])
  <2>1. CASE k <= m
    <3>1. k \in 1..m
      BY <1>1, <1>6, <2>1
    <3> QED
      BY <1>1, <1>6, <1>10, <2>1, <3>1
  <2>2. CASE k > m
    <3>1. k - m \in 1..(n - m) /\ ~(k <= m)
      BY <1>1, <1>6, <2>2
    <3>2. h[k] = g[k - m] /\ g[k - m] \in S
      BY <1>7, <1>8, <1>10, <3>1
    <3> QED
      BY <1>1, <2>2, <3>1, <3>2
  <2> QED
    BY <1>1, <1>6, <2>1, <2>2
<1>12. ASSUME NEW i \in 1..n PROVE \E k \in 1..n : h[k] = i
  <2>1. CASE i \in R
    <3>1. PICK k \in 1..m : f[k] = i
      BY <1>6, <2>1
    <3>2. k \in 1..n /\ k <= m
      BY <1>1, <1>6, <1>9
    <3>3. h[k] = f[k]
      BY <1>11, <3>2
    <3> QED
      BY <3>1, <3>2, <3>3
  <2>2. CASE i \in S
    <3>1. PICK k \in 1..(n - m) : g[k] = i
      BY <1>7, <1>8, <2>2
    <3>2. k + m \in 1..n /\ ~(k + m <= m) /\ k + m - m = k
      BY <1>1, <1>6, <1>9
    <3>3. h[k + m] = g[k + m - m]
      BY <1>1, <1>6, <1>10, <3>2
    <3>4. h[k + m] = g[k]
      BY <3>2, <3>3
    <3> QED
      BY <3>1, <3>2, <3>4
  <2> QED
    BY <1>1, <2>1, <2>2
<1>13. ASSUME NEW j \in 1..n, NEW k \in 1..n, k <= m
       PROVE  Sooner(stars, h[j], h[k]) /\ j <= m <=> j < k
  <2>1. CASE j <= m
    <3>1. j \in 1..m /\ k \in 1..m
      BY <1>1, <1>6, <1>13, <2>1
    <3>2. h[j] = f[j] /\ h[k] = f[k] /\ f[j] \in R /\ f[k] \in R
      BY <1>6, <1>11, <1>13, <2>1, <3>1
    <3> QED
      BY <1>3, <1>6, <2>1, <3>1, <3>2
  <2>2. CASE ~(j <= m)
    BY <1>1, <1>6, <1>13, <2>2
  <2> QED
    BY <2>1, <2>2
<1>14. ASSUME NEW j \in 1..n, NEW k \in 1..n, j > m, k > m PROVE h[j] < h[k] <=> j < k
  <2>1. j - m \in 1..(n - m) /\ k - m \in 1..(n - m) /\ (j - m < k - m <=> j < k)
    BY <1>1, <1>6, <1>14
  <2> QED
    BY <1>7, <1>8, <1>11, <1>14, <2>1
<1>15. ASSUME NEW j \in 1..n, NEW k \in 1..n, h[j] = h[k] PROVE j = k
  <2>1. j \in Int /\ k \in Int /\ m \in Int /\ (j <= m <=> k <= m)
    BY <1>1, <1>6, <1>11, <1>15
  <2>2. CASE j <= m
    <3>1. j \in 1..m /\ k \in 1..m
      BY <1>1, <1>6, <2>1, <2>2
    <3>2. j <= m /\ k <= m
      BY <2>1, <2>2
    <3>3. f[j] \in R /\ f[j] = f[k] /\ <<f[j], f[j]>> \notin before
      BY <1>2, <1>6, <1>11, <1>15, <3>1, <3>2 DEF Orders
    <3>4. ~(j < k) /\ ~(k < j)
      <4>1. <<f[j], f[k]>> = <<f[j], f[j]>> /\ <<f[k], f[j]>> = <<f[j], f[j]>>
        BY <3>3
      <4> QED
        BY <1>6, <3>1, <3>3, <4>1, Zenon
    <3> QED
      BY <2>1, <3>4
  <2>3. CASE ~(j <= m)
    <3>1. j > m /\ k > m
      BY <2>1, <2>3
    <3>2. h[j] \in Int
      BY <1>1, <1>11
    <3> QED
      BY <1>14, <1>15, <2>1, <3>1, <3>2
  <2> QED
    BY <2>2, <2>3
<1>16. h \in [1..n -> 1..n]
  BY <1>10, <1>11
<1>17. \A k \in 1..n : stars[h[k]].count > 0 <=> k <= m
  BY <1>5, <1>11
<1>18. \A i \in 1..n : \E k \in 1..n : h[k] = i
  BY <1>12
<1>19. \A j, k \in 1..n : h[j] = h[k] => j = k
  BY <1>15
<1>20. \A j, k \in 1..n : k <= m => (Sooner(stars, h[j], h[k]) /\ j <= m <=> j < k)
  BY <1>13
<1>21. \A j, k \in 1..n : j > m /\ k > m => (h[j] < h[k] <=> j < k)
  BY <1>14
<1>22. m \in Nat
  BY <1>6
<1>23. Ranked(n, stars, m, h)
  BY <1>4, <1>9, <1>17, <1>18, <1>19, <1>20, <1>21 DEF Ranked
<1> QED
  BY <1>16, <1>22, <1>23

\* Whoever Before puts first comes first: among the reviewed the comparator says so, and the
\* others have no sums to tell them apart.
LEMMA BeforeIsSooner ==
    ASSUME NEW n, NEW stars, Rated(n, stars), NEW i \in 1..n, NEW j \in 1..n,
           LET a == stars[i] b == stars[j] IN
             \/ a.count = 0 /\ b.count = 0 /\ i < j
             \/ a.count > 0 /\ b.count = 0
             \/ a.count = b.count /\ a.sum > b.sum
             \/ a.sum * b.count = b.sum * a.count /\ a.count > b.count /\ b.sum > PRIOR_MEAN * b.count
             \/ a = b /\ i < j
    PROVE  \/ stars[i].count > 0 /\ stars[j].count = 0
           \/ stars[i].count = 0 /\ stars[j].count = 0 /\ i < j
           \/ stars[i].count > 0 /\ stars[j].count > 0 /\ Sooner(stars, i, j)
<1>1. PICK s \in Int, t \in Int, c \in Nat, d \in Nat :
        /\ s = stars[i].sum /\ t = stars[j].sum /\ c = stars[i].count /\ d = stars[j].count
        /\ c = 0 => s = 0
        /\ d = 0 => t = 0
  BY DEF Rated
<1>2. \/ c = 0 /\ d = 0 /\ i < j
      \/ c > 0 /\ d = 0
      \/ c = d /\ s > t
      \/ s * d = t * c /\ c > d /\ t > 3 * d
      \/ s = t /\ c = d /\ i < j
  BY <1>1 DEF PRIOR_MEAN
<1>3. CASE d = 0
  BY <1>1, <1>2, <1>3
<1>4. CASE d > 0
  <2>1. /\ c = d /\ s > t => (9 + s) * (3 + d) > (9 + t) * (3 + c)
        /\ s * d = t * c /\ c > d /\ t > 3 * d /\ d > 0 => (9 + s) * (3 + d) > (9 + t) * (3 + c)
    BY HigherScore
  <2>2. s = t /\ c = d => (9 + s) * (3 + d) = (9 + t) * (3 + c)
    OBVIOUS
  <2>3. c > 0
    BY <1>2, <1>4
  <2>4. \/ (9 + s) * (3 + d) > (9 + t) * (3 + c)
        \/ (9 + s) * (3 + d) = (9 + t) * (3 + c) /\ c = d /\ i < j
    BY <1>2, <1>4, <2>1, <2>2
  <2> QED
    BY <1>1, <1>4, <2>3, <2>4, SoonerOf
<1> QED
  BY <1>3, <1>4

\* review-ranking.ts, for any number of businesses with any reviews at all.
THEOREM RankingRight ==
    ASSUME NEW n \in Nat, NEW given, DOMAIN given = 1..n,
           \A i \in 1..n : given[i] \in Seq(Int)
    PROVE  RankingRewards(given)
<1> DEFINE stars == [i \in DOMAIN given |-> loadRatings(given[i])]
           order == rankByRating(stars)
           seat(i) == CHOOSE k \in DOMAIN order : order[k] = i
           Before(i, j) ==
               LET a == stars[i] b == stars[j] IN
               \/ a.count = 0 /\ b.count = 0 /\ i < j
               \/ a.count > 0 /\ b.count = 0
               \/ a.count = b.count /\ a.sum > b.sum
               \/ a.sum * b.count = b.sum * a.count /\ a.count > b.count /\ b.sum > PRIOR_MEAN * b.count
               \/ a = b /\ i < j
<1>1. Rated(n, stars)
  <2>1. ASSUME NEW i \in 1..n
        PROVE  /\ stars[i].sum \in Int /\ stars[i].count \in Nat
               /\ stars[i].count = 0 => stars[i].sum = 0
    <3> DEFINE r == given[i]
    <3>1. r \in Seq(Int) /\ Len(r) \in Nat /\ DOMAIN r = 1..Len(r)
      OBVIOUS
    <3>2. Numbered(Len(r), r, DOMAIN r)
      BY <3>1 DEF Numbered
    <3>3. PICK h : Runs(Len(r), r, DOMAIN r, h) /\ Total(Len(r), r, DOMAIN r) = h[Len(r)]
      BY <3>2, TotalRuns
    <3>4. SumOf(r, DOMAIN r) = h[Len(r)]
      BY <3>2, <3>3, SumIs
    <3>5. stars[i].sum = h[Len(r)] /\ stars[i].count = Len(r)
      BY <3>4 DEF loadRatings
    <3> HIDE DEF stars, r
    <3> QED
      BY <3>1, <3>3, <3>5 DEF Runs
  <2> HIDE DEF stars
  <2>2. DOMAIN stars = 1..n
    BY DEF stars
  <2> QED
    BY <2>1, <2>2 DEF Rated
<1>2. PICK m \in Nat, h \in [1..n -> 1..n] : Ranked(n, stars, m, h)
  <2> HIDE DEF stars
  <2> QED
    BY <1>1, RankedIs
<1>3. DOMAIN stars = 1..n
  OBVIOUS
<1>4. order \in [1..n -> 1..n] /\ DOMAIN order = 1..n /\ h = order
  BY <1>2 DEF Ranked
<1>5. Len(order) = Len(stars) /\ ToSet(order) = DOMAIN stars
  <2> HIDE DEF stars, order
  <2>1. order \in Seq(1..n) /\ Len(order) = n
    BY <1>4
  <2>2. Len(stars) = n
    <3>1. stars = [i \in 1..n |-> stars[i]]
      BY DEF stars
    <3> HIDE DEF stars
    <3> QED
      BY <3>1
  <2>3. ToSet(order) = 1..n
    BY <1>2, <1>4 DEF ToSet, Ranked
  <2> QED
    BY <1>3, <2>1, <2>2, <2>3
<1>6. ASSUME NEW i \in 1..n PROVE seat(i) \in 1..n /\ order[seat(i)] = i
  <2>1. \E k \in DOMAIN order : order[k] = i
    BY <1>2, <1>4 DEF Ranked
  <2> HIDE DEF order
  <2>2. seat(i) \in DOMAIN order /\ order[seat(i)] = i
    BY <2>1
  <2> QED
    BY <1>4, <2>2
<1>7. ASSUME NEW i \in DOMAIN stars, NEW j \in DOMAIN stars, Before(i, j) PROVE seat(i) < seat(j)
  <2>1. i \in 1..n /\ j \in 1..n
    BY <1>3
  <2>2. PICK k \in 1..n, l \in 1..n : k = seat(i) /\ l = seat(j) /\ h[k] = i /\ h[l] = j
    <3> HIDE DEF seat, order, stars
    <3>1. seat(i) \in 1..n /\ h[seat(i)] = i
      BY <1>4, <1>6, <2>1, Zenon
    <3>2. seat(j) \in 1..n /\ h[seat(j)] = j
      BY <1>4, <1>6, <2>1, Zenon
    <3> QED
      BY <3>1, <3>2
  <2> HIDE DEF stars, seat, order
  <2>3. \/ stars[i].count > 0 /\ stars[j].count = 0
        \/ stars[i].count = 0 /\ stars[j].count = 0 /\ i < j
        \/ stars[i].count > 0 /\ stars[j].count > 0 /\ Sooner(stars, i, j)
    BY <1>1, <1>7, <2>1, BeforeIsSooner
  <2>4. (stars[i].count > 0 <=> k <= m) /\ (stars[j].count > 0 <=> l <= m) /\ k \in Int /\ l \in Int
    <3>1. (stars[h[k]].count > 0 <=> k <= m) /\ (stars[h[l]].count > 0 <=> l <= m)
      BY <1>2 DEF Ranked
    <3> QED
      BY <2>2, <3>1
  <2>5. k < l
    <3>1. CASE k <= m /\ ~(l <= m)
      BY <2>4, <3>1
    <3>2. CASE ~(k <= m) /\ ~(l <= m) /\ i < j
      <4>1. k > m /\ l > m
        BY <2>4, <3>2
      <4> QED
        BY <1>2, <2>2, <3>2, <4>1 DEF Ranked
    <3>3. CASE k <= m /\ l <= m /\ Sooner(stars, i, j)
      <4>1. \A a, b \in 1..n : b <= m => (Sooner(stars, h[a], h[b]) /\ a <= m <=> a < b)
        BY <1>2 DEF Ranked
      <4>2. Sooner(stars, h[k], h[l])
        BY <2>2, <3>3
      <4> QED
        BY <3>3, <4>1, <4>2
    <3>4. stars[j].count = 0 => ~(stars[j].count > 0)
      OBVIOUS
    <3>5. stars[i].count = 0 => ~(stars[i].count > 0)
      OBVIOUS
    <3> QED
      BY <2>3, <2>4, <3>1, <3>2, <3>3, <3>4, <3>5
  <2> QED
    BY <2>2, <2>5
<1>8. ASSUME NEW i \in DOMAIN stars, stars[i].count > 0
      PROVE  LET off == publicRating(stars[i]).tenths * stars[i].count - 10 * stars[i].sum
             IN  2 * off \in (-stars[i].count)..stars[i].count
  <2> HIDE DEF stars
  <2>1. PICK s \in Int, c \in Nat \ {0} : s = stars[i].sum /\ c = stars[i].count
    <3>1. stars[i].sum \in Int /\ stars[i].count \in Nat
      BY <1>1, <1>3 DEF Rated
    <3>2. stars[i].count \in Nat \ {0}
      BY <1>8, <3>1
    <3> QED
      BY <3>1, <3>2
  <2>2. publicRating(stars[i]).tenths = (20 * s + c) \div (2 * c)
    BY <2>1 DEF publicRating
  <2>3. LET off == ((20 * s + c) \div (2 * c)) * c - 10 * s IN 2 * off \in (-c)..c
    BY Rounded
  <2> QED
    BY <2>1, <2>2, <2>3
<1>9. Above([sum |-> 192, count |-> 40], [sum |-> 5, count |-> 1])
  BY DEF Above, Score, PRIOR_MEAN, PRIOR_WEIGHT
<1> QED
  <2> HIDE DEF stars, order, seat, Before
  <2>1. /\ Len(order) = Len(stars) /\ ToSet(order) = DOMAIN stars
        /\ \A i, j \in DOMAIN stars : Before(i, j) => seat(i) < seat(j)
        /\ \A i \in DOMAIN stars : stars[i].count > 0 =>
              LET off == publicRating(stars[i]).tenths * stars[i].count - 10 * stars[i].sum
              IN  2 * off \in (-stars[i].count)..stars[i].count
        /\ Above([sum |-> 192, count |-> 40], [sum |-> 5, count |-> 1])
    BY <1>5, <1>7, <1>8, <1>9
  <2> USE DEF stars, order, seat, Before
  <2> QED
    BY <2>1 DEF RankingRewards

(***************************************************************************)
(* What is charged and who is shown first, as MCRules runs them.           *)
(***************************************************************************)

LEMMA PricesOfLines ==
    ASSUME NEW profile \in Profiles, NEW a \in Lines, NEW b \in Lines
    PROVE  PricedFromEntry(profile, <<a, b>>)
<1>1. PICK lines : lines = <<a, b>>
  OBVIOUS
<1>2. Prices \subseteq Nat
  BY MCRulesConstants
<1>3. /\ profile.rate \in Int /\ DOMAIN profile.services = {1, 2}
      /\ \A s \in {1, 2} : profile.services[s] \in [price : Prices \cup {0}, minutes : {0, 90}]
  <2>1. profile \in [visible : BOOLEAN, rate : Prices \cup {0},
                     services : [{1, 2} -> [price : Prices \cup {0}, minutes : {0, 90}]]]
    BY DEF Profiles
  <2>2. /\ profile.rate \in Prices \cup {0}
        /\ profile.services \in [{1, 2} -> [price : Prices \cup {0}, minutes : {0, 90}]]
    BY <2>1
  <2>3. \A p \in Prices \cup {0} : p \in Int
    BY <1>2
  <2>4. profile.rate \in Int
    BY <2>2, <2>3, Zenon
  <2> QED
    BY <2>2, <2>4
<1>4. \A x \in [price : Prices \cup {0}, minutes : {0, 90}] : x.price \in Int /\ x.minutes \in Int
  <2>1. \A x \in [price : Prices \cup {0}, minutes : {0, 90}] : x.price \in Prices \cup {0} /\ x.minutes \in {0, 90}
    OBVIOUS
  <2>2. \A p \in Prices \cup {0} : p \in Int
    BY <1>2
  <2>3. \A p \in {0, 90} : p \in Int
    OBVIOUS
  <2> QED
    BY <2>1, <2>2, <2>3, Zenon
<1>5. \A s \in {1, 2} : profile.services[s].price \in Int /\ profile.services[s].minutes \in Int
  BY <1>3, <1>4
<1>6. ASSUME NEW l \in Lines
      PROVE  l \in [service : Nat, value : Int, unit : {"min", "hour", "day"}, meetGreet : BOOLEAN]
  BY DEF Lines
<1>7. DOMAIN lines = 1..2 /\ \A i \in 1..2 : lines[i] \in Lines
  BY <1>1
<1>8. Sent(profile, 2, lines)
  BY <1>3, <1>5, <1>6, <1>7 DEF Sent
<1> QED
  BY <1>1, <1>8, PricesRight

LEMMA RankingOfRatings ==
    ASSUME NEW x \in UpTo(2, Ratings), NEW y \in UpTo(2, Ratings), NEW z \in UpTo(2, Ratings)
    PROVE  RankingRewards(<<x, y, z>>)
<1>1. Ratings \subseteq Int
  BY MCRulesConstants
<1>2. ASSUME NEW w \in UpTo(2, Ratings) PROVE w \in Seq(Int)
  <2>1. PICK k \in 0..2 : w \in [1..k -> Ratings]
    BY DEF UpTo
  <2>2. \A r \in Ratings : r \in Int
    BY <1>1
  <2>3. \A i \in 1..k : w[i] \in Int
    BY <2>1, <2>2
  <2>4. k \in Nat /\ w \in [1..k -> Int]
    BY <2>1, <2>3
  <2> QED
    BY <2>4
<1>3. PICK given : given = <<x, y, z>>
  OBVIOUS
<1>4. DOMAIN given = 1..3 /\ \A i \in 1..3 : given[i] \in UpTo(2, Ratings)
  BY <1>3
<1>5. RankingRewards(given)
  BY <1>2, <1>4, RankingRight
<1> QED
  BY <1>3, <1>5

\* Every input of the run MarketRules is checked over comes to what its rule is to arrive at,
\* whatever the prices and the ratings (createBooking, cancellation-policy.ts,
\* review-ranking.ts).
THEOREM MarketRulesHold == RulesSpec => []MarketRules
<1>1. Given => MarketRules
  <2> SUFFICES ASSUME Given PROVE MarketRules
    OBVIOUS
  <2>1. input.rule = "price" => \A a, b \in Lines : PricedFromEntry(input.of, <<a, b>>)
    <3>1. ASSUME NEW profile \in Profiles, NEW a \in Lines, NEW b \in Lines
          PROVE  PricedFromEntry(profile, <<a, b>>)
      BY PricesOfLines
    <3>2. input.rule = "price" => input.of \in Profiles
      BY InputOf
    <3> QED
      BY <3>1, <3>2, Zenon
  <2>2. input.rule = "penalty" => PenaltyGrows(input.of, {-60, 0, 119, 120, 121, 600})
    <3>1. ASSUME NEW rate \in Prices PROVE PenaltyGrows(rate, {-60, 0, 119, 120, 121, 600})
      <4>1. rate \in Nat /\ {-60, 0, 119, 120, 121, 600} \in SUBSET Int
        BY MCRulesConstants
      <4> QED
        BY <4>1, PenaltiesGrow
    <3> QED
      BY InputOf, <3>1
  <2>3. input.rule = "ranking" =>
          \A y, z \in UpTo(2, Ratings) : RankingRewards(<<input.of, y, z>>)
    BY InputOf, RankingOfRatings
  <2> QED
    BY <2>1, <2>2, <2>3 DEF MarketRules, For
<1> QED
  BY <1>1, AlwaysGiven, PTL

(***************************************************************************)
(* The comparison of faces.                                                *)
(***************************************************************************)

\* The best of the scores, which is 0 when there are none.
LEMMA BestOf ==
    ASSUME NEW scores \in Seq(Int)
    PROVE  LET best == Max({0} \cup ToSet(scores)) IN
           /\ best \in Nat
           /\ \A s \in ToSet(scores) : best >= s
           /\ best = 0 \/ best \in ToSet(scores)
<1> DEFINE n == Len(scores)
           f == [k \in 1..(n + 1) |-> IF k = 1 THEN 0 ELSE scores[k - 1]]
           S == {f[k] : k \in 1..(n + 1)}
<1>1. n \in Nat /\ DOMAIN scores = 1..n /\ \A k \in 1..n : scores[k] \in Int
  OBVIOUS
<1>2. \A k \in 1..(n + 1) : f[k] \in Int
  <2>1. ASSUME NEW k \in 1..(n + 1) PROVE f[k] \in Int
    <3>1. k # 1 => k - 1 \in 1..n
      BY <1>1
    <3> QED
      BY <1>1, <3>1
  <2> QED
    BY <2>1
<1>3. {0} \cup ToSet(scores) = S
  <2>1. ASSUME NEW k \in 1..n PROVE scores[k] \in S
    <3>1. k + 1 \in 1..(n + 1) /\ k + 1 # 1 /\ k + 1 - 1 = k
      BY <1>1
    <3>2. f[k + 1] = scores[k]
      BY <3>1
    <3> HIDE DEF f
    <3> QED
      BY <3>1, <3>2
  <2>2. 0 \in S
    <3>1. 1 \in 1..(n + 1) /\ f[1] = 0
      BY <1>1
    <3> HIDE DEF f
    <3> QED
      BY <3>1
  <2>3. ASSUME NEW k \in 1..(n + 1) PROVE f[k] \in {0} \cup ToSet(scores)
    <3>1. k # 1 => k - 1 \in 1..n
      BY <1>1
    <3> QED
      BY <1>1, <3>1 DEF ToSet
  <2> HIDE DEF f
  <2> QED
    BY <1>1, <2>1, <2>2, <2>3 DEF ToSet
<1>4. /\ \A i \in 1..(n + 1) : Max(S) >= f[i]
      /\ \E k \in 1..(n + 1) : Max(S) = f[k]
  <2>1. n + 1 \in Nat \ {0}
    BY <1>1
  <2> HIDE DEF f
  <2> QED
    BY <1>2, <2>1, LargestOf
<1>5. Max(S) \in S /\ \A y \in S : Max(S) >= y
  <2> HIDE DEF f
  <2> QED
    BY <1>4
<1>6. \A y \in S : y \in Int
  <2> HIDE DEF f
  <2> QED
    BY <1>2
<1> HIDE DEF S
<1>7. 0 \in S
  BY <1>3
<1>8. Max(S) \in Nat
  BY <1>5, <1>6, <1>7
<1> QED
  BY <1>3, <1>5, <1>8

\* Rounded to tenths of a percent, the best score is below 70 exactly when every one is below
\* 69.95.
LEMMA Alike ==
    ASSUME NEW scores \in Seq(Int)
    PROVE  LET tenths == (Max({0} \cup ToSet(scores)) + 5) \div 10 IN
           /\ tenths \in Nat
           /\ tenths < 700 <=> \A s \in ToSet(scores) : s < 6995
<1>1. PICK best \in Nat : /\ best = Max({0} \cup ToSet(scores))
                          /\ \A s \in ToSet(scores) : best >= s
                          /\ best = 0 \/ best \in ToSet(scores)
  BY BestOf
<1>2. (best + 5) \div 10 \in Nat /\ ((best + 5) \div 10 < 700 <=> best < 6995)
  OBVIOUS
<1>3. \A s \in ToSet(scores) : s \in Int
  BY DEF ToSet
<1>4. best < 6995 <=> \A s \in ToSet(scores) : s < 6995
  <2>1. ASSUME best < 6995, NEW s \in ToSet(scores) PROVE s < 6995
    <3>1. s \in Int /\ best >= s
      BY <1>1, <1>3
    <3> QED
      BY <2>1, <3>1
  <2>2. ASSUME \A s \in ToSet(scores) : s < 6995 PROVE best < 6995
    BY <1>1, <2>2
  <2> QED
    BY <2>1, <2>2
<1> QED
  BY <1>1, <1>2, <1>4

\* What the service may answer, and a verification as it is stored.
ServiceAnswer(answer) ==
    \/ \E scores \in Seq(Int), n \in Nat : answer = Faces(scores, n)
    \/ \E name : answer = Fails(name)

Verification(v) ==
    \E match : v \in [status : {"pending", "verified", "rejected"}, selfie : StoredPhoto,
                      idDocument : StoredPhoto, match : {match}]

\* What an answer comes to.
LEMMA ComparedIs ==
    ASSUME NEW answer, ServiceAnswer(answer)
    PROVE  LET r == compareFaces(answer)
               onId == answer.is = "faces" /\ (answer.scores # <<>> \/ answer.unmatched > 0)
           IN  /\ r.status = IF answer.is = "faces" THEN IF onId THEN "compared" ELSE "no_face_id"
                             ELSE IF answer.name = "InvalidParameter" THEN "no_face_selfie" ELSE "error"
               /\ onId => /\ r.similarity # NULL
                          /\ r.similarity < 700 <=> \A s \in ToSet(answer.scores) : s < 6995
               /\ answer.is = "faces" \/ answer.is = "error"
               /\ answer = Fails("InvalidParameter") <=> answer.is = "error" /\ answer.name = "InvalidParameter"
<1>1. CASE \E scores \in Seq(Int), n \in Nat : answer = Faces(scores, n)
  <2>1. PICK scores \in Seq(Int), n \in Nat : answer = Faces(scores, n)
    BY <1>1
  <2>2. answer.is = "faces" /\ answer.scores = scores /\ answer.unmatched = n /\ answer # Fails("InvalidParameter")
    BY <2>1 DEF Faces, Fails
  <2>3. PICK t \in Nat : /\ t = (Max({0} \cup ToSet(scores)) + 5) \div 10
                         /\ t < 700 <=> \A s \in ToSet(scores) : s < 6995
    BY Alike
  <2>4. compareFaces(answer) = IF scores = <<>> /\ n = 0 THEN Result("no_face_id", NULL) ELSE Result("compared", t)
    BY <2>2, <2>3 DEF compareFaces
  <2> QED
    BY <2>2, <2>3, <2>4 DEF Result, NULL
<1>2. CASE \E name : answer = Fails(name)
  <2>1. PICK name : answer = Fails(name)
    BY <1>2
  <2>2. answer.is = "error" /\ answer.name = name
    BY <2>1 DEF Fails
  <2>3. answer = Fails("InvalidParameter") <=> name = "InvalidParameter"
    BY <2>1 DEF Fails
  <2> QED
    BY <2>2, <2>3 DEF compareFaces, Result
<1> QED
  BY <1>1, <1>2 DEF ServiceAnswer

\* face-match.ts, compare-faces.ts: "never a decision", whatever the service answers.
THEOREM FacesAdvise ==
    ASSUME NEW v, Verification(v), NEW world \in World, NEW answer, ServiceAnswer(answer)
    PROVE  FaceMatchAdvises(v, world, answer)
<1> DEFINE w    == applyFaceMatch(v, world, answer)
           told == photoFeedback(w)
           seen == readStoredPhoto(v.selfie, world) /\ readStoredPhoto(v.idDocument, world)
           onId == answer.is = "faces" /\ (answer.scores # <<>> \/ answer.unmatched > 0)
           again == Submitted(v.idDocument, v.selfie, world, answer)
<1>1. PICK r : r = compareFaces(answer)
  OBVIOUS
<1>2. /\ r.status = IF answer.is = "faces" THEN IF onId THEN "compared" ELSE "no_face_id"
                    ELSE IF answer.name = "InvalidParameter" THEN "no_face_selfie" ELSE "error"
      /\ onId => /\ r.similarity # NULL
                 /\ r.similarity < 700 <=> \A s \in ToSet(answer.scores) : s < 6995
      /\ answer.is = "faces" \/ answer.is = "error"
      /\ answer = Fails("InvalidParameter") <=> answer.is = "error" /\ answer.name = "InvalidParameter"
  BY <1>1, ComparedIs
<1>3. PICK match : v \in [status : {"pending", "verified", "rejected"}, selfie : StoredPhoto,
                          idDocument : StoredPhoto, match : {match}]
  BY DEF Verification
<1>4. /\ w.status = v.status /\ w.selfie = v.selfie /\ w.idDocument = v.idDocument
      /\ faceMatchEnabled(world) => w.match = IF seen THEN r ELSE Result("error", NULL)
  BY <1>1, <1>3 DEF applyFaceMatch
<1>5. /\ again.status = "pending"
      /\ again.match = IF faceMatchEnabled(world) THEN IF seen THEN r ELSE Result("error", NULL)
                       ELSE Result("none", NULL)
  BY <1>1 DEF Submitted, applyFaceMatch
<1>6. Result("error", NULL).status = "error" /\ Result("none", NULL).status = "none"
  BY DEF Result
<1> HIDE DEF w, seen, again, onId
<1>7. ASSUME faceMatchEnabled(world), v.status = "pending"
      PROVE  /\ told = "mismatch" <=> seen /\ onId /\ \A s \in ToSet(answer.scores) : s < 6995
             /\ told = "retake_selfie" <=> seen /\ answer = Fails("InvalidParameter")
             /\ told = "retake_id" <=> seen /\ answer.is = "faces" /\ ~onId
  <2>1. told = CASE w.match.status = "no_face_selfie" -> "retake_selfie"
                 [] w.match.status = "no_face_id" -> "retake_id"
                 [] w.match.status = "compared" /\ w.match.similarity # NULL /\ w.match.similarity < 700 -> "mismatch"
                 [] OTHER -> "nothing"
    BY <1>4, <1>7 DEF photoFeedback, FACE_MISMATCH_BELOW
  <2>2. onId => answer.is = "faces"
    BY DEF onId
  <2>3. CASE ~seen
    BY <1>4, <1>6, <1>7, <2>1, <2>3
  <2>4. CASE seen
    BY <1>2, <1>4, <1>7, <2>1, <2>2, <2>4
  <2> QED
    BY <2>3, <2>4
<1>8. photoFeedback(again) # "nothing" => seen /\ faceMatchEnabled(world)
  BY <1>5, <1>6 DEF photoFeedback
<1>9. ASSUME NEW status \in {"verified", "rejected"}, NEW d
      PROVE  ~emailPhotoFeedback(Decided(w, status), d)
  <2>1. Decided(w, status).status = status
    <3>1. "status" \in DOMAIN w
      BY <1>3 DEF w, applyFaceMatch
    <3> QED
      BY <3>1 DEF Decided
  <2> QED
    BY <2>1 DEF emailPhotoFeedback, photoFeedback
<1>10. ASSUME faceMatchEnabled(world)
       PROVE  /\ w.match.status # "error" => seen
              /\ seen /\ world.keys => (testFaceMatchConnection(world, answer) = "ok" <=> w.match.status # "error")
  <2>1. ~seen => w.match.status = "error"
    BY <1>4, <1>6, <1>10
  <2>2. seen => w.match = r
    BY <1>4, <1>10
  <2>3. world.keys => (testFaceMatchConnection(world, answer) = "ok" <=> r.status # "error")
    BY <1>2 DEF testFaceMatchConnection
  <2> QED
    BY <2>1, <2>2, <2>3
<1>11. /\ faceMatchAvailable(v, TRUE, world) <=> faceMatchNeedsNewConsent(v, FALSE, world)
       /\ faceMatchAvailable(v, TRUE, world) => faceMatchEnabled(world) /\ world.keys
  BY DEF faceMatchAvailable, faceMatchNeedsNewConsent, faceMatchEnabled
<1>12. <<w.status, w.selfie, w.idDocument>> = <<v.status, v.selfie, v.idDocument>>
  BY <1>4
<1> HIDE DEF told
<1>13. faceMatchEnabled(world) /\ v.status = "pending" =>
         /\ told = "mismatch" <=> seen /\ onId /\ \A s \in ToSet(answer.scores) : s < 6995
         /\ told = "retake_selfie" <=> seen /\ answer = Fails("InvalidParameter")
         /\ told = "retake_id" <=> seen /\ answer.is = "faces" /\ ~onId
  BY <1>7
<1>14. \A status \in {"verified", "rejected"}, d \in {"sent", "refused", "throws"} :
         ~emailPhotoFeedback(Decided(w, status), d)
  BY <1>9
<1>15. faceMatchAvailable(v, TRUE, world) =>
         /\ w.match.status # "error" => seen
         /\ seen => (testFaceMatchConnection(world, answer) = "ok" <=> w.match.status # "error")
  BY <1>10, <1>11
<1> QED
  BY <1>8, <1>11, <1>12, <1>13, <1>14, <1>15 DEF w, told, seen, onId, again, FaceMatchAdvises

(***************************************************************************)
(* The fields of a page.  A page is a function, and so is all that is read *)
(* of one; where the code throws, there is none.                           *)
(***************************************************************************)

\* What stands for an error is not itself a page, a list or a text.
NoFunction(x) == x # [k \in DOMAIN x |-> x[k]]

\* What a request may hold of a field, and a page once it is kept.
Sendable == {Undefined, Null} \cup {Text(length, cut) : length \in Nat, cut \in Nat}

Request(params) ==
    /\ DOMAIN params = PageField
    /\ \A f \in ProfileField : params[f] \in Sendable
    /\ \A x \in Coordinate : params[x] \in {"undefined", "null", "on", "off"}

Page(profile) ==
    /\ profile = [x \in PageField |-> profile[x]]
    /\ \A f \in ProfileField : profile[f] = Null \/ \E n \in Nat, cut \in Nat : profile[f] = Text(n, cut)
    /\ Kept(profile)

LEMMA Limits == \A f \in ProfileField : ProfileLimit[f] \in Nat /\ ProfileLimit[f] = InvitationLimit[f] /\ ProfileLimit[f] > 0
BY DEF ProfileField, ProfileLimit, InvitationLimit

LEMMA TextsDiffer ==
    /\ Undefined # Null /\ Undefined # Empty /\ Null # Empty
    /\ \A n, cut : /\ Text(n, cut) # Undefined /\ Text(n, cut) # Null /\ Text(n, cut) # Wrong
                   /\ Text(n, cut).length = n /\ Text(n, cut).trimmed = cut /\ IsText(Text(n, cut))
                   /\ Text(n, cut).is = "text"
    /\ ~IsText(Undefined) /\ ~IsText(Null) /\ Null # Wrong
  BY DEF Undefined, Null, Empty, Text, Wrong, IsText

\* The two coordinates move together, and only to a point on the map or to none.
LEMMA PlaceIs ==
    ASSUME NoFunction(No), NEW profile, Kept(profile), NEW params,
           \A x \in Coordinate : params[x] \in {"undefined", "null", "on", "off"}
    PROVE  \/ place(profile, params) = No
           \/ \E a, b \in {"null", "on"} : /\ place(profile, params) = <<a, b>> /\ <<a, b>> # No
                                           /\ a = "null" <=> b = "null"
<1> DEFINE sent == <<params.latitude, params.longitude>>
           pair == [i \in 1..2 |-> IF sent[i] = "undefined" THEN "null" ELSE sent[i]]
<1>1. \A a, b : <<a, b>> # No
  BY DEF NoFunction
<1>2. /\ params.latitude \in {"undefined", "null", "on", "off"}
      /\ params.longitude \in {"undefined", "null", "on", "off"}
  BY DEF Coordinate
<1>3. PICK a, b : /\ a = IF params.latitude = "undefined" THEN "null" ELSE params.latitude
                  /\ b = IF params.longitude = "undefined" THEN "null" ELSE params.longitude
  OBVIOUS
<1>4. pair = <<a, b>> /\ pair[1] = a /\ pair[2] = b /\ ToSet(pair) = {a, b}
  BY <1>3 DEF ToSet
<1>5. a \in {"null", "on", "off"} /\ b \in {"null", "on", "off"}
  BY <1>2, <1>3
<1>6. sent = <<"undefined", "undefined">> <=> params.latitude = "undefined" /\ params.longitude = "undefined"
  OBVIOUS
<1>7. place(profile, params) =
        CASE sent = <<"undefined", "undefined">> -> <<profile.latitude, profile.longitude>>
          [] (pair[1] = "null") # (pair[2] = "null") -> No
          [] "off" \in ToSet(pair) -> No
          [] OTHER -> pair
  BY DEF place
<1> HIDE DEF sent, pair
<1>8. CASE sent = <<"undefined", "undefined">>
  <2>1. place(profile, params) = <<profile.latitude, profile.longitude>>
    BY <1>3, <1>4, <1>6, <1>7, <1>8
  <2> QED
    BY <1>1, <2>1 DEF Kept
<1>9. CASE sent # <<"undefined", "undefined">>
  <2>1. CASE (a = "null") # (b = "null") \/ "off" \in {a, b}
    BY <1>4, <1>7, <1>9, <2>1
  <2>2. CASE (a = "null") = (b = "null") /\ "off" \notin {a, b}
    <3>1. place(profile, params) = <<a, b>>
      BY <1>4, <1>7, <1>9, <2>2
    <3> QED
      BY <1>1, <1>5, <2>2, <3>1
  <2> QED
    BY <2>1, <2>2
<1> QED
  BY <1>8, <1>9

\* update refuses a request as a whole, or keeps each field that is not sent.
LEMMA UpdateIs ==
    ASSUME NoFunction(No), NEW profile, Page(profile), NEW params, Request(params)
    PROVE  LET q == update(profile, params) IN
           /\ q = No <=> \/ place(profile, params) = No
                         \/ \E f \in ProfileField : ~assertFits(params[f], ProfileLimit[f])
           /\ q # No => /\ Page(q)
                        /\ \A f \in ProfileField :
                              q[f] = IF params[f] = Undefined THEN profile[f] ELSE params[f]
                        /\ <<q.latitude, q.longitude>> = place(profile, params)
<1> DEFINE q == update(profile, params)
           at == place(profile, params)
           Bad == at = No \/ \E f \in ProfileField : ~assertFits(params[f], ProfileLimit[f])
           made == [f \in PageField |->
                      CASE f = "latitude"      -> at[1]
                        [] f = "longitude"     -> at[2]
                        [] f \in ProfileField -> IF params[f] = Undefined THEN profile[f] ELSE params[f]]
<1>1. q = IF Bad THEN No ELSE made
  BY DEF update
<1>2. /\ made = [x \in PageField |-> made[x]]
      /\ \A f \in ProfileField : made[f] = IF params[f] = Undefined THEN profile[f] ELSE params[f]
      /\ made.latitude = at[1] /\ made.longitude = at[2]
  BY DEF PageField, ProfileField, Coordinate
<1>3. made # No
  <2> HIDE DEF made
  <2>1. DOMAIN made = PageField
    BY DEF made
  <2> QED
    BY <1>2, <2>1 DEF NoFunction
<1>4. ASSUME ~Bad PROVE Page(made) /\ <<made.latitude, made.longitude>> = at
  <2>1. PICK a, b \in {"null", "on"} : at = <<a, b>> /\ (a = "null" <=> b = "null")
    BY <1>4, PlaceIs DEF Page, Request
  <2> HIDE DEF at, made
  <2>2. made.latitude = a /\ made.longitude = b
    BY <1>2, <2>1
  <2>3. ASSUME NEW f \in ProfileField
        PROVE  /\ made[f] = Null \/ \E n \in Nat, cut \in Nat : made[f] = Text(n, cut)
               /\ made[f] = Null \/ made[f].length \in 1..ProfileLimit[f]
    <3>1. CASE params[f] = Undefined
      BY <1>2, <3>1 DEF Page, Kept
    <3>2. CASE params[f] # Undefined
      <4>1. made[f] = params[f] /\ assertFits(params[f], ProfileLimit[f])
        BY <1>2, <1>4, <3>2
      <4>2. params[f] = Null \/ \E n \in Nat, cut \in Nat : params[f] = Text(n, cut)
        BY <3>2 DEF Request, Sendable
      <4>3. CASE params[f] # Null
        <5>1. PICK n \in Nat, cut \in Nat : params[f] = Text(n, cut)
          BY <4>2, <4>3
        <5>2. params[f].length = n /\ params[f].length > 0 /\ params[f].length <= ProfileLimit[f]
          BY <3>2, <4>1, <4>3, <5>1, TextsDiffer DEF assertFits
        <5> QED
          BY <4>1, <5>1, <5>2, Limits
      <4> QED
        BY <4>1, <4>3
    <3> QED
      BY <3>1, <3>2
  <2>4. Kept(made)
    BY <2>1, <2>2, <2>3 DEF Kept
  <2> QED
    BY <1>2, <2>1, <2>2, <2>3, <2>4 DEF Page
<1> HIDE DEF made, at, Bad
<1> QED
  BY <1>1, <1>3, <1>2, <1>4 DEF Bad, at, q

LEMMA Drafted == Page(draft) /\ \A f \in ProfileField : draft[f] = Null
<1>1. /\ draft = [x \in PageField |-> draft[x]]
      /\ \A f \in ProfileField : draft[f] = Null
      /\ draft.latitude = "null" /\ draft.longitude = "null"
  BY DEF draft, PageField, ProfileField, Coordinate
<1> QED
  BY <1>1 DEF Page, Kept

\* What the app sends empty is cleared, and an empty text passes no other way.
LEMMA SavedIs ==
    ASSUME NoFunction(No), NEW profile, Page(profile), NEW dto, Request(dto)
    PROVE  LET q == saveMine(profile, dto) IN
           q # No => /\ Page(q)
                     /\ \A f \in ProfileField :
                           q[f] = IF dto[f] = Undefined THEN profile[f]
                                  ELSE IF dto[f] = Empty THEN Null ELSE dto[f]
<1> DEFINE params == [x \in DOMAIN dto |-> IF x \in ProfileField /\ dto[x] = Empty THEN Null ELSE dto[x]]
<1>1. saveMine(profile, dto) = update(profile, params)
  BY DEF saveMine
<1>2. /\ \A f \in ProfileField : params[f] = IF dto[f] = Empty THEN Null ELSE dto[f]
      /\ \A x \in Coordinate : params[x] = dto[x]
      /\ DOMAIN params = PageField
  BY DEF Request, PageField, ProfileField, Coordinate
<1> HIDE DEF params
<1>3. Request(params)
  <2>1. Null \in Sendable
    BY DEF Sendable
  <2>2. \A f \in ProfileField : params[f] \in Sendable
    BY <1>2, <2>1 DEF Request
  <2> QED
    BY <1>2, <2>2 DEF Request
<1>4. ASSUME update(profile, params) # No
      PROVE  /\ Page(update(profile, params))
             /\ \A f \in ProfileField :
                   update(profile, params)[f] = IF params[f] = Undefined THEN profile[f] ELSE params[f]
  BY <1>3, <1>4, UpdateIs
<1>5. Undefined # Null /\ Undefined # Empty
  BY TextsDiffer
<1> QED
  BY <1>1, <1>2, <1>4, <1>5

\* provider-profile.entity.ts: whatever two saves hold, a page has no empty text, none past
\* its limit and no half or impossible place, and keeps what was not sent.
THEOREM EditsKeep ==
    ASSUME NoFunction(No), NEW first, Request(first), NEW second, Request(second)
    PROVE  EditsKeepFields(first, second)
<1> DEFINE p == saveMine(draft, first)
           q == saveMine(p, second)
<1>1. p # No => /\ Page(p)
                /\ \A f \in ProfileField :
                      p[f] = IF first[f] = Undefined THEN draft[f]
                             ELSE IF first[f] = Empty THEN Null ELSE first[f]
  BY Drafted, SavedIs
<1>2. p # No /\ q # No => /\ Page(q)
                          /\ \A f \in ProfileField :
                                q[f] = IF second[f] = Undefined THEN p[f]
                                       ELSE IF second[f] = Empty THEN Null ELSE second[f]
  BY <1>1, SavedIs
<1> HIDE DEF p, q
<1>3. p # No => Kept(p)
  BY <1>1 DEF Page
<1>4. ASSUME p # No, q # No
      PROVE  /\ Kept(q)
             /\ \A f \in ProfileField : second[f] = Undefined => q[f] = p[f]
             /\ \A f \in ProfileField : q[f] = Null \/ q[f] \in {first[f], second[f]}
  BY <1>1, <1>2, <1>4, Drafted DEF Page
<1> QED
  BY <1>3, <1>4 DEF p, q, EditsKeepFields

\* A line as it may be pasted.
Pasted == {Undefined, Null, Wrong} \cup {Text(length, cut) : length \in Nat, cut \in Nat}

Line(line) == \A f \in DOMAIN InvitationLimit : line[f] \in Pasted

LEMMA OptionalIs ==
    ASSUME NEW value \in Pasted, NEW max \in Nat
    PROVE  \/ optional(value, max) \in {No, Null}
           \/ \E t \in 1..max : optional(value, max) = Text(t, t)
<1>1. CASE value \in {Undefined, Null, Wrong}
  <2>1. ~IsText(value)
    <3>1. ~IsText(Undefined) /\ ~IsText(Null) /\ ~IsText(Wrong)
      BY DEF Undefined, Null, Wrong, IsText
    <3> QED
      BY <1>1, <3>1
  <2> QED
    BY <2>1 DEF optional
<1>2. CASE value \notin {Undefined, Null, Wrong}
  <2>1. PICK n \in Nat, cut \in Nat : value = Text(n, cut)
    BY <1>2 DEF Pasted
  <2>2. IsText(value) /\ value.trimmed = cut
    BY <2>1, TextsDiffer
  <2>3. cut \in 1..max \/ cut = 0 \/ cut > max
    OBVIOUS
  <2> QED
    BY <2>2, <2>3 DEF optional
<1> QED
  BY <1>1, <1>2

\* An invitation that is made has texts a page may hold, a name and a few words.
LEMMA InvitedIs ==
    ASSUME NEW line, Line(line), createInvitation(line) # No
    PROVE  LET inv == createInvitation(line) IN
           /\ \A f \in ProfileField : inv[f] = Null \/ \E t \in 1..ProfileLimit[f] : inv[f] = Text(t, t)
           /\ inv.businessName # Null /\ inv.bio # Null
<1> DEFINE read == [f \in DOMAIN InvitationLimit |-> optional(line[f], InvitationLimit[f])]
           inv == createInvitation(line)
<1>1. /\ inv = [read EXCEPT !.bio = IF read.bio = Null THEN DEFAULT_BIO ELSE read.bio]
      /\ read.businessName # Null /\ No \notin {read[f] : f \in DOMAIN read}
  BY DEF createInvitation
<1>2. ProfileField \subseteq DOMAIN InvitationLimit /\ DOMAIN read = DOMAIN InvitationLimit
  BY DEF ProfileField, InvitationLimit
<1>3. ASSUME NEW f \in ProfileField
      PROVE  read[f] = Null \/ \E t \in 1..ProfileLimit[f] : read[f] = Text(t, t)
  <2>1. read[f] = optional(line[f], InvitationLimit[f]) /\ read[f] # No
    BY <1>1, <1>2
  <2>2. line[f] \in Pasted /\ InvitationLimit[f] \in Nat /\ InvitationLimit[f] = ProfileLimit[f]
    BY <1>2, Limits DEF Line
  <2> QED
    BY <2>1, <2>2, OptionalIs
<1> HIDE DEF read, inv
<1>4. /\ \A f \in ProfileField : f # "bio" => inv[f] = read[f]
      /\ inv.bio = IF read.bio = Null THEN DEFAULT_BIO ELSE read.bio
      /\ "bio" \in ProfileField /\ "businessName" \in ProfileField
  BY <1>1, <1>2 DEF ProfileField
<1>5. DEFAULT_BIO # Null /\ DEFAULT_BIO = Text(65, 65) /\ 65 \in 1..ProfileLimit["bio"]
  BY TextsDiffer DEF DEFAULT_BIO, ProfileLimit
<1>6. ASSUME NEW f \in ProfileField
      PROVE  inv[f] = Null \/ \E t \in 1..ProfileLimit[f] : inv[f] = Text(t, t)
  BY <1>3, <1>4, <1>5
<1>7. inv.businessName # Null /\ inv.bio # Null
  BY <1>1, <1>4, <1>5
<1> QED
  BY <1>6, <1>7 DEF inv

\* What a business claims is what it wrote and, where it wrote nothing, what was prepared.
LEMMA ClaimIs ==
    ASSUME NoFunction(No), NEW inv, NEW own, Page(own),
           \A f \in ProfileField : inv[f] = Null \/ \E t \in 1..ProfileLimit[f] : inv[f] = Text(t, t)
    PROVE  LET page == claim(inv, own) IN
           /\ page # No /\ Page(page)
           /\ \A f \in ProfileField : page[f] = IF own[f] = Null THEN inv[f] ELSE own[f]
           /\ page.latitude = own.latitude /\ page.longitude = own.longitude
<1> DEFINE params == [f \in PageField |-> IF f \in Coordinate THEN "undefined"
                                          ELSE IF own[f] = Null THEN inv[f] ELSE own[f]]
           page == claim(inv, own)
<1>1. page = update(own, params)
  BY DEF claim
<1>2. /\ DOMAIN params = PageField
      /\ \A x \in Coordinate : params[x] = "undefined"
      /\ \A f \in ProfileField : params[f] = IF own[f] = Null THEN inv[f] ELSE own[f]
      /\ params.latitude = "undefined" /\ params.longitude = "undefined"
  BY DEF PageField, ProfileField, Coordinate
<1> HIDE DEF params
<1>3. ASSUME NEW f \in ProfileField
      PROVE  params[f] = Null \/ \E n \in Nat, cut \in Nat : params[f] = Text(n, cut) /\ n \in 1..ProfileLimit[f]
  <2>1. CASE own[f] = Null
    <3>1. params[f] = inv[f]
      BY <1>2, <2>1
    <3>2. CASE inv[f] # Null
      <4>1. PICK t \in 1..ProfileLimit[f] : inv[f] = Text(t, t)
        BY <3>2
      <4>2. t \in Nat
        BY Limits
      <4> QED
        BY <3>1, <4>1, <4>2
    <3> QED
      BY <3>1, <3>2
  <2>2. CASE own[f] # Null
    <3>1. PICK n \in Nat, cut \in Nat : own[f] = Text(n, cut)
      BY <2>2 DEF Page
    <3>2. own[f].length \in 1..ProfileLimit[f]
      BY <2>2 DEF Page, Kept
    <3>3. n \in 1..ProfileLimit[f]
      BY <3>1, <3>2, TextsDiffer
    <3> QED
      BY <1>2, <2>2, <3>1, <3>3
  <2> QED
    BY <2>1, <2>2
<1>4. Request(params)
  <2>1. ASSUME NEW f \in ProfileField PROVE params[f] \in Sendable
    BY <1>3 DEF Sendable
  <2> QED
    BY <1>2, <2>1 DEF Request
<1>5. ASSUME NEW f \in ProfileField PROVE assertFits(params[f], ProfileLimit[f]) /\ params[f] # Undefined
  <2>1. CASE params[f] = Null
    BY <2>1, TextsDiffer DEF assertFits
  <2>2. CASE params[f] # Null
    <3>1. PICK n \in Nat, cut \in Nat : params[f] = Text(n, cut) /\ n \in 1..ProfileLimit[f]
      BY <1>3, <2>2
    <3>2. params[f].length = n /\ n > 0 /\ n <= ProfileLimit[f] /\ params[f] # Undefined
      BY <3>1, Limits, TextsDiffer
    <3> QED
      BY <3>2 DEF assertFits
  <2> QED
    BY <2>1, <2>2
<1>6. place(own, params) = <<own.latitude, own.longitude>> /\ <<own.latitude, own.longitude>> # No
  <2>1. \A a, b : <<a, b>> # No
    BY DEF NoFunction
  <2>2. place(own, params) = <<own.latitude, own.longitude>>
    <3>1. <<params.latitude, params.longitude>> = <<"undefined", "undefined">>
      BY <1>2
    <3>2. PICK pair : pair = [i \in 1..2 |-> IF <<params.latitude, params.longitude>>[i] = "undefined" THEN "null"
                                           ELSE <<params.latitude, params.longitude>>[i]]
      OBVIOUS
    <3>3. pair[1] = "null" /\ pair[2] = "null" /\ "off" \notin ToSet(pair)
      BY <1>2, <3>2 DEF ToSet
    <3> QED
      BY <3>1, <3>2, <3>3 DEF place
  <2> QED
    BY <2>1, <2>2
<1>7. page # No /\ Page(page) /\ <<page.latitude, page.longitude>> = <<own.latitude, own.longitude>>
  BY <1>1, <1>4, <1>5, <1>6, UpdateIs
<1>8. \A f \in ProfileField : page[f] = params[f]
  BY <1>1, <1>4, <1>5, <1>7, UpdateIs
<1> HIDE DEF page
<1>9. page.latitude = own.latitude /\ page.longitude = own.longitude
  BY <1>7
<1> QED
  BY <1>2, <1>7, <1>8, <1>9 DEF page

\* business-invitation.entity.ts: "Only fills what its own page doesn't have yet", whatever was
\* pasted and whatever the business wrote.
THEOREM PreparedFits ==
    ASSUME NoFunction(No), NEW line, Line(line), NEW edit, Request(edit)
    PROVE  PreparedPageFits(line, edit)
<1> DEFINE inv == createInvitation(line)
           own == saveMine(draft, edit)
           page == claim(inv, own)
<1> SUFFICES ASSUME inv # No, own # No
             PROVE  /\ page # No
                    /\ Kept(page)
                    /\ \A f \in ProfileField : page[f] = IF own[f] # Null THEN own[f] ELSE inv[f]
                    /\ page.businessName # Null /\ page.bio # Null
                    /\ claim(inv, page) = page
  BY DEF PreparedPageFits
<1>1. /\ \A f \in ProfileField : inv[f] = Null \/ \E t \in 1..ProfileLimit[f] : inv[f] = Text(t, t)
      /\ inv.businessName # Null /\ inv.bio # Null
  BY InvitedIs
<1>2. Page(own)
  BY Drafted, SavedIs
<1> HIDE DEF inv, own
<1>3. /\ page # No /\ Page(page)
      /\ \A f \in ProfileField : page[f] = IF own[f] = Null THEN inv[f] ELSE own[f]
  BY <1>1, <1>2, ClaimIs
<1> HIDE DEF page
<1>4. PICK again : again = claim(inv, page)
  OBVIOUS
<1>5. /\ Page(again)
      /\ \A f \in ProfileField : again[f] = IF page[f] = Null THEN inv[f] ELSE page[f]
      /\ again.latitude = page.latitude /\ again.longitude = page.longitude
  BY <1>1, <1>3, <1>4, ClaimIs
<1>6. again = page
  <2>1. ASSUME NEW x \in PageField PROVE again[x] = page[x]
    <3>1. CASE x \in ProfileField
      BY <1>3, <1>5, <3>1
    <3>2. CASE x \in Coordinate
      BY <1>5, <3>2 DEF Coordinate
    <3> QED
      BY <3>1, <3>2 DEF PageField
  <2> QED
    BY <1>3, <1>5, <2>1 DEF Page
<1>7. "businessName" \in ProfileField /\ "bio" \in ProfileField
  BY DEF ProfileField
<1> QED
  BY <1>1, <1>3, <1>4, <1>6, <1>7 DEF Page

\* invitations.controller.ts: "all or none", of any paste.
THEOREM BatchWhole ==
    ASSUME NoFunction(No), NEW n \in Nat, NEW lines, lines = [i \in 1..n |-> lines[i]]
    PROVE  BatchIsWhole(lines)
<1> DEFINE made == [i \in DOMAIN lines |-> createInvitation(lines[i])]
<1>1. /\ Len(lines) = n /\ DOMAIN lines = 1..n /\ (lines = <<>> <=> n = 0)
      /\ made # No /\ Len(made) = n /\ ToSet(made) = {createInvitation(lines[i]) : i \in 1..n}
      /\ \A i \in 1..n : made[i] = createInvitation(lines[i])
  <2>1. DOMAIN lines = 1..n
    OBVIOUS
  <2>2. Len(lines) = n /\ (lines = <<>> <=> n = 0)
    BY <2>1
  <2>3. made = [i \in 1..n |-> made[i]] /\ \A i \in 1..n : made[i] = createInvitation(lines[i])
    BY <2>1
  <2> HIDE DEF made
  <2>4. Len(made) = n /\ DOMAIN made = 1..n
    BY <2>3
  <2>5. made # No
    BY <2>3, <2>4 DEF NoFunction
  <2> QED
    BY <2>1, <2>2, <2>3, <2>4, <2>5 DEF ToSet
<1>2. create(lines) = IF n = 0 \/ n > MAX_PER_BATCH \/ No \in ToSet(made) THEN No ELSE made
  BY <1>1 DEF create
<1>3. ASSUME NEW line
      PROVE  create(<<line>>) = IF 1 > MAX_PER_BATCH \/ createInvitation(line) = No THEN No
                                ELSE <<createInvitation(line)>>
  <2>1. PICK one : one = [i \in DOMAIN <<line>> |-> createInvitation(<<line>>[i])]
    OBVIOUS
  <2>2. one = <<createInvitation(line)>>
    BY <2>1
  <2>3. ToSet(one) = {createInvitation(line)} /\ <<line>> # <<>> /\ Len(<<line>>) = 1
    BY <2>2 DEF ToSet
  <2>4. create(<<line>>) = IF <<line>> = <<>> \/ Len(<<line>>) > MAX_PER_BATCH \/ No \in ToSet(one) THEN No ELSE one
    BY <2>1 DEF create
  <2> QED
    BY <2>2, <2>3, <2>4
<1>4. \A x : <<x>> # No
  BY DEF NoFunction
<1> HIDE DEF made
<1>5. MAX_PER_BATCH \in Nat
  BY FieldConstants
<1>6. ASSUME NEW i \in DOMAIN lines, create(<<lines[i]>>) = No PROVE create(lines) = No
  <2>1. i \in 1..n /\ n >= 1
    BY <1>1
  <2>2. 1 > MAX_PER_BATCH \/ createInvitation(lines[i]) = No
    BY <1>3, <1>4, <1>6
  <2> QED
    BY <1>1, <1>2, <1>5, <2>1, <2>2
<1>7. ASSUME create(lines) # No
      PROVE  /\ Len(create(lines)) = Len(lines) /\ Len(create(lines)) \in 1..MAX_PER_BATCH
             /\ \A i \in DOMAIN lines : create(<<lines[i]>>) = <<create(lines)[i]>>
  <2>1. create(lines) = made /\ n # 0 /\ n <= MAX_PER_BATCH /\ No \notin ToSet(made)
    BY <1>2, <1>5, <1>7
  <2>2. ASSUME NEW i \in 1..n PROVE create(<<lines[i]>>) = <<made[i]>>
    <3>1. createInvitation(lines[i]) # No /\ ~(1 > MAX_PER_BATCH)
      BY <1>1, <1>5, <2>1
    <3> QED
      BY <1>1, <1>3, <3>1
  <2> QED
    BY <1>1, <1>5, <2>1, <2>2
<1> QED
  BY <1>6, <1>7 DEF BatchIsWhole

(***************************************************************************)
(* Blocks of a page.  What a parser answers, it answers again.             *)
(***************************************************************************)

\* What stands for an error is not a text either.
Word == TextValue \cup {"default", "minimal", "unknown", "url"}

Apart(x) == NoFunction(x) /\ x \notin Word

\* A text as a block keeps it.
Clean == {"", "plain", "handle", "link", "date"}

LEMMA TextSettles ==
    ASSUME Apart(Refusal), NEW value \in TextValue
    PROVE  /\ text(value) = Refusal \/ text(value) \in Clean
           /\ value \in Clean => text(value) = value
<1>1. Refusal # "" /\ Refusal \notin TextValue
  BY DEF Apart, Word, TextValue
<1> QED
  BY <1>1 DEF text, TextValue, Clean

LEMMA FieldSettles ==
    ASSUME Apart(Refusal), NEW parser \in {"text", "link", "handle", "until"}, NEW value \in TextValue,
           parseField(parser, value) # Refusal
    PROVE  /\ parseField(parser, value) \in TextValue \ {"blank", "long", "wrong"}
           /\ parseField(parser, parseField(parser, value)) = parseField(parser, value)
<1>1. Refusal # "" /\ Refusal # "link" /\ Refusal # "handle" /\ Refusal \notin TextValue
  BY DEF Apart, Word, TextValue
<1>2. Clean \subseteq TextValue \ {"blank", "long", "wrong"}
  BY DEF Clean, TextValue
<1>3. CASE parser = "text"
  <2>1. \A x : parseField("text", x) = text(x)
    BY DEF parseField
  <2> QED
    BY <1>2, <1>3, <2>1, TextSettles
<1>4. CASE parser = "link"
  <2>1. \A x : parseField("link", x) = link(x)
    BY DEF parseField
  <2>2. link(value) \in {"", "link"}
    BY <1>4, <2>1, TextSettles DEF link
  <2>3. text("") = "" /\ text("link") = "link"
    BY DEF text
  <2>4. link("") = "" /\ link("link") = "link"
    BY <2>3 DEF link
  <2> QED
    BY <1>2, <1>4, <2>1, <2>2, <2>4 DEF Clean
<1>5. CASE parser = "handle"
  <2>1. \A x : parseField("handle", x) = handle(x)
    BY DEF parseField
  <2>2. handle(value) \in {"", "handle", "link"}
    BY <1>5, <2>1, TextSettles DEF handle
  <2>3. text("") = "" /\ text("link") = "link" /\ text("handle") = "handle"
    BY DEF text
  <2>4. handle("") = "" /\ handle("link") = "link" /\ handle("handle") = "handle"
    BY <2>3 DEF handle
  <2> QED
    BY <1>2, <1>5, <2>1, <2>2, <2>4 DEF Clean
<1>6. CASE parser = "until"
  <2>1. \A x : parseField("until", x) = until(x)
    BY DEF parseField
  <2>2. until(value) \in {"absent", "date"}
    BY <1>6, <2>1 DEF until
  <2>3. until("absent") = "absent" /\ until("date") = "date"
    BY DEF until
  <2> QED
    BY <1>6, <2>1, <2>2, <2>3 DEF TextValue
<1> QED
  BY <1>3, <1>4, <1>5, <1>6

\* The texts of a row, and a list of rows as it may be sent.
RowField(priced) == {"name", "detail"} \cup (IF priced THEN {"price"} ELSE {})

Listing(value) ==
    \/ value.is \in {"absent", "wrong"}
    \/ \E n \in Nat : \E rows : /\ value = List(rows) /\ rows = [i \in 1..n |-> rows[i]]
                                /\ \A i \in 1..n : \A f \in DOMAIN rows[i] : rows[i][f] \in TextValue

\* A list as it is kept: every row clean, and none without a name and a detail.
Settled(rows, priced) ==
    \E m \in Nat :
        /\ m <= MAX_BLOCK_ITEMS /\ rows = [i \in 1..m |-> rows[i]]
        /\ \A i \in 1..m : /\ rows[i] = [f \in RowField(priced) |-> rows[i][f]]
                           /\ \A f \in RowField(priced) : rows[i][f] \in Clean
                           /\ rows[i].name # "" \/ rows[i].detail # ""

LEMMA LengthOf ==
    ASSUME NEW n \in Nat, NEW seq, seq = [i \in 1..n |-> seq[i]]
    PROVE  DOMAIN seq = 1..n /\ Len(seq) = n /\ seq \in [1..n -> {seq[i] : i \in 1..n}]
<1>1. DOMAIN seq = 1..n
  OBVIOUS
<1> QED
  BY <1>1

LEMMA ItemsKept ==
    ASSUME Apart(Refusal), NEW priced \in BOOLEAN, NEW rows, Settled(rows, priced)
    PROVE  items(List(rows), priced) = List(rows)
<1> DEFINE row(e) == [f \in RowField(priced) |-> IF f \in DOMAIN e THEN text(e[f]) ELSE ""]
           all == [i \in DOMAIN rows |-> row(rows[i])]
<1>1. PICK m \in Nat :
        /\ m <= MAX_BLOCK_ITEMS /\ rows = [i \in 1..m |-> rows[i]]
        /\ \A i \in 1..m : /\ rows[i] = [f \in RowField(priced) |-> rows[i][f]]
                           /\ \A f \in RowField(priced) : rows[i][f] \in Clean
                           /\ rows[i].name # "" \/ rows[i].detail # ""
  BY DEF Settled
<1>2. DOMAIN rows = 1..m /\ Len(rows) = m
  <2>1. rows = [i \in 1..m |-> rows[i]]
    BY <1>1
  <2> QED
    BY <2>1, LengthOf
<1>3. ASSUME NEW i \in 1..m PROVE row(rows[i]) = rows[i]
  <2>1. PICK e : e = rows[i]
    OBVIOUS
  <2>2. e = [f \in RowField(priced) |-> e[f]] /\ \A f \in RowField(priced) : e[f] \in Clean
    BY <1>1, <2>1
  <2>3. \A f \in RowField(priced) : f \in DOMAIN e /\ text(e[f]) = e[f]
    <3>1. Clean \subseteq TextValue
      BY DEF Clean, TextValue
    <3> QED
      BY <2>2, <3>1, TextSettles
  <2>4. row(e) = e
    BY <2>2, <2>3
  <2> QED
    BY <2>1, <2>4
<1>4. all = rows
  BY <1>1, <1>2, <1>3
<1>5. /\ List(rows).is = "list" /\ List(rows).rows = rows
  BY DEF List
<1>6. ~\E i \in DOMAIN rows : \E f \in DOMAIN row(rows[i]) : row(rows[i])[f] = Refusal
  <2>1. Refusal \notin Clean
    BY DEF Apart, Word, TextValue, Clean
  <2>2. ASSUME NEW i \in 1..m, NEW f \in DOMAIN row(rows[i]) PROVE row(rows[i])[f] # Refusal
    <3>1. f \in RowField(priced)
      OBVIOUS
    <3> HIDE DEF row
    <3>2. row(rows[i])[f] = rows[i][f]
      BY <1>3
    <3>3. rows[i][f] \in Clean
      BY <1>1, <3>1
    <3> QED
      BY <2>1, <3>2, <3>3
  <2> QED
    BY <1>2, <2>2
<1>7. {i \in DOMAIN rows : row(rows[i]).name # "" \/ row(rows[i]).detail # ""} = 1..m
  <2> HIDE DEF row
  <2> QED
    BY <1>1, <1>2, <1>3
<1>8. items(List(rows), priced)
        = IF \/ Len(rows) > MAX_BLOCK_ITEMS
             \/ \E i \in DOMAIN rows : \E f \in DOMAIN row(rows[i]) : row(rows[i])[f] = Refusal
          THEN Refusal
          ELSE List(Picked(all, {i \in DOMAIN rows : row(rows[i]).name # "" \/ row(rows[i]).detail # ""}))
  BY <1>5 DEF items, RowField
<1> HIDE DEF row, all
<1>9. Picked(rows, 1..m) = rows
  <2>1. rows \in [1..m -> {rows[i] : i \in 1..m}]
    BY <1>1
  <2> QED
    BY <2>1, PickedAll
<1>10. ~(Len(rows) > MAX_BLOCK_ITEMS)
  <2>1. m <= MAX_BLOCK_ITEMS /\ MAX_BLOCK_ITEMS \in Nat
    BY <1>1, DesignConstants
  <2> QED
    BY <1>2, <2>1
<1> QED
  BY <1>4, <1>6, <1>7, <1>8, <1>9, <1>10

LEMMA ItemsSettle ==
    ASSUME Apart(Refusal), NEW priced \in BOOLEAN, NEW value, Listing(value), items(value, priced) # Refusal
    PROVE  \E rows : items(value, priced) = List(rows) /\ Settled(rows, priced)
<1>1. CASE value.is = "absent"
  <2>1. items(value, priced) = List(<<>>)
    BY <1>1 DEF items
  <2>2. Settled(<<>>, priced)
    <3>1. <<>> = [i \in 1..0 |-> <<>>[i]] /\ 0 <= MAX_BLOCK_ITEMS /\ 1..0 = {}
      BY DesignConstants
    <3> QED
      BY <3>1 DEF Settled
  <2> QED
    BY <2>1, <2>2
<1>2. CASE value.is # "absent"
  <2>1. value.is # "wrong"
    BY <1>2 DEF items
  <2>2. \E n \in Nat : \E rows : /\ value = List(rows) /\ rows = [i \in 1..n |-> rows[i]]
                                  /\ \A i \in 1..n : \A f \in DOMAIN rows[i] : rows[i][f] \in TextValue
    BY <1>2, <2>1 DEF Listing
  <2>3. PICK n \in Nat : \E rows : /\ value = List(rows) /\ rows = [i \in 1..n |-> rows[i]]
                                    /\ \A i \in 1..n : \A f \in DOMAIN rows[i] : rows[i][f] \in TextValue
    BY <2>2
  <2>4. PICK sent : /\ value = List(sent) /\ sent = [i \in 1..n |-> sent[i]]
                    /\ \A i \in 1..n : \A f \in DOMAIN sent[i] : sent[i][f] \in TextValue
    BY <2>3
  <2> DEFINE row(e) == [f \in RowField(priced) |-> IF f \in DOMAIN e THEN text(e[f]) ELSE ""]
             all == [i \in DOMAIN sent |-> row(sent[i])]
             kept == {i \in DOMAIN sent : row(sent[i]).name # "" \/ row(sent[i]).detail # ""}
  <2>5. value.rows = sent /\ value.is = "list"
    BY <2>4 DEF List
  <2>6. /\ ~(Len(sent) > MAX_BLOCK_ITEMS)
        /\ \A i \in DOMAIN sent : \A f \in DOMAIN row(sent[i]) : row(sent[i])[f] # Refusal
        /\ items(value, priced) = List(Picked(all, kept))
    BY <2>5 DEF items, RowField
  <2>7. DOMAIN sent = 1..n /\ Len(sent) = n
    BY <2>4
  <2>8. ASSUME NEW i \in 1..n
        PROVE  /\ all[i] = [f \in RowField(priced) |-> all[i][f]]
               /\ \A f \in RowField(priced) : all[i][f] \in Clean
               /\ i \in kept => all[i].name # "" \/ all[i].detail # ""
    <3>1. all[i] = row(sent[i])
      BY <2>7
    <3>2. row(sent[i]) = [f \in RowField(priced) |-> row(sent[i])[f]] /\ DOMAIN row(sent[i]) = RowField(priced)
      OBVIOUS
    <3>3. ASSUME NEW f \in RowField(priced) PROVE row(sent[i])[f] \in Clean
      <4>1. row(sent[i])[f] = (IF f \in DOMAIN sent[i] THEN text(sent[i][f]) ELSE "") /\ row(sent[i])[f] # Refusal
        BY <2>6, <2>7, <3>2
      <4>2. "" \in Clean
        BY DEF Clean
      <4> HIDE DEF row
      <4> QED
        BY <2>4, <4>1, <4>2, TextSettles
    <3> HIDE DEF row, all
    <3>4. i \in kept => row(sent[i]).name # "" \/ row(sent[i]).detail # ""
      OBVIOUS
    <3> QED
      BY <3>1, <3>2, <3>3, <3>4
  <2>9. DOMAIN all = 1..n /\ kept \in SUBSET (1..n)
    BY <2>7
  <2> HIDE DEF row, all, kept
  <2>10. PICK m, order : Picks(n, all, kept, m, order)
    BY <2>9, PickedIs
  <2>11. m \in Nat /\ order \in [1..m -> kept] /\ m <= n /\ Picked(all, kept) = [k \in 1..m |-> all[order[k]]]
    BY <2>10 DEF Picks
  <2>12. PICK rows : rows = Picked(all, kept)
    OBVIOUS
  <2>13. Settled(rows, priced)
    <3>1. m <= MAX_BLOCK_ITEMS
      BY <2>6, <2>7, <2>11, DesignConstants
    <3>2. rows = [k \in 1..m |-> rows[k]]
      BY <2>11, <2>12
    <3>3. ASSUME NEW k \in 1..m
          PROVE  /\ rows[k] = [f \in RowField(priced) |-> rows[k][f]]
                 /\ \A f \in RowField(priced) : rows[k][f] \in Clean
                 /\ rows[k].name # "" \/ rows[k].detail # ""
      <4>1. order[k] \in kept /\ order[k] \in 1..n /\ rows[k] = all[order[k]]
        BY <2>9, <2>11, <2>12
      <4> QED
        BY <2>8, <4>1
    <3> QED
      BY <2>11, <3>1, <3>2, <3>3 DEF Settled
  <2> QED
    BY <2>6, <2>12, <2>13
<1> QED
  BY <1>1, <1>2

\* Each field of a block goes through a parser there is, and only "items" holds a list.
LEMMA Parsers ==
    ASSUME NEW kind \in PAGE_BLOCK_TYPES, NEW f \in DOMAIN Fields[kind]
    PROVE  /\ Fields[kind][f] \in {"text", "link", "handle", "until", "items", "priced"}
           /\ f # "items" => Fields[kind][f] \in {"text", "link", "handle", "until"}
<1>1. PAGE_BLOCK_TYPES = {"hero", "text", "prices", "faq", "team", "promo", "social", "video"}
  BY DEF PAGE_BLOCK_TYPES, Fields
<1>2. /\ Fields.hero = [title |-> "text", subtitle |-> "text"]
      /\ Fields.text = [title |-> "text", body |-> "text"]
      /\ Fields.prices = [title |-> "text", items |-> "priced"]
      /\ Fields.faq = [title |-> "text", items |-> "items"]
      /\ Fields.team = [title |-> "text", items |-> "items"]
      /\ Fields.promo = [title |-> "text", body |-> "text", until |-> "until"]
      /\ Fields.social = [instagram |-> "handle", facebook |-> "handle", tiktok |-> "handle", website |-> "link"]
      /\ Fields.video = [title |-> "text", url |-> "link"]
  BY DEF Fields
<1>3. CASE kind \in {"hero", "text", "video"}
  BY <1>2, <1>3
<1>4. CASE kind \in {"prices", "faq", "team"}
  BY <1>2, <1>4
<1>5. CASE kind \in {"promo", "social"}
  BY <1>2, <1>5
<1> QED
  BY <1>1, <1>3, <1>4, <1>5

\* A value as a field may be sent, and what is made of it.
Offered(parser, value) == IF parser \in {"items", "priced"} THEN Listing(value) ELSE value \in TextValue

LEMMA ParsedSettles ==
    ASSUME Apart(Refusal), NEW parser \in {"text", "link", "handle", "until", "items", "priced"},
           NEW value, Offered(parser, value), parseField(parser, value) # Refusal
    PROVE  LET r == parseField(parser, value) IN
           /\ parseField(parser, r) = r /\ Offered(parser, r)
           /\ parser \in {"text", "link", "handle", "until"} => r \in TextValue \ {"blank", "long", "wrong"}
<1>1. CASE parser \in {"text", "link", "handle", "until"}
  BY <1>1, FieldSettles DEF Offered
<1>2. CASE parser \in {"items", "priced"}
  <2>1. PICK priced \in BOOLEAN : \A x : parseField(parser, x) = items(x, priced)
    <3>1. CASE parser = "items"
      <4>1. \A x : parseField("items", x) = items(x, FALSE)
        BY DEF parseField
      <4> QED
        BY <3>1, <4>1
    <3>2. CASE parser = "priced"
      <4>1. \A x : parseField("priced", x) = items(x, TRUE)
        BY DEF parseField
      <4> QED
        BY <3>2, <4>1
    <3> QED
      BY <1>2, <3>1, <3>2
  <2>2. Listing(value)
    BY <1>2 DEF Offered
  <2>3. PICK rows : items(value, priced) = List(rows) /\ Settled(rows, priced)
    BY <2>1, <2>2, ItemsSettle
  <2>4. items(List(rows), priced) = List(rows)
    BY <2>3, ItemsKept
  <2>5. Listing(List(rows))
    <3>1. PICK m \in Nat :
            /\ rows = [i \in 1..m |-> rows[i]]
            /\ \A i \in 1..m : /\ rows[i] = [f \in RowField(priced) |-> rows[i][f]]
                               /\ \A f \in RowField(priced) : rows[i][f] \in Clean
      BY <2>3 DEF Settled
    <3>2. ASSUME NEW i \in 1..m, NEW f \in DOMAIN rows[i] PROVE rows[i][f] \in TextValue
      <4>1. DOMAIN rows[i] = RowField(priced)
        BY <3>1
      <4>2. rows[i][f] \in Clean
        BY <3>1, <4>1
      <4> QED
        BY <4>2 DEF Clean, TextValue
    <3> QED
      BY <3>1, <3>2 DEF Listing
  <2> QED
    BY <1>2, <2>1, <2>3, <2>4, <2>5 DEF Offered
<1> QED
  BY <1>1, <1>2

\* The data of a block as it may be sent: any fields, each with what a field of its kind may be.
BlockData(kind, data) == \A f \in DOMAIN data \cap DOMAIN Fields[kind] : Offered(Fields[kind][f], data[f])

LEMMA BlockParsed ==
    ASSUME Apart(Refusal), NEW kind \in PAGE_BLOCK_TYPES, NEW data, BlockData(kind, data),
           parseBlockData(kind, data) # Refusal
    PROVE  LET d == parseBlockData(kind, data) IN
           /\ d = [f \in DOMAIN Fields[kind] |-> d[f]]
           /\ BlockData(kind, d)
           /\ \A x \in DOMAIN d \ {"items"} : d[x] \notin {"blank", "long", "wrong"}
           /\ parseBlockData(kind, d) = d
<1> DEFINE parser == Fields[kind]
           Has(from, f) == IF f \in DOMAIN from THEN from[f] ELSE Absent(parser[f])
           Parsed(from) == [f \in DOMAIN parser |-> parseField(parser[f], Has(from, f))]
           d == parseBlockData(kind, data)
<1>1. \A from : parseBlockData(kind, from)
                  = IF Refuses({Parsed(from)[f] : f \in DOMAIN Parsed(from)}) THEN Refusal ELSE Parsed(from)
  BY DEF parseBlockData
<1>2. \A from : DOMAIN Parsed(from) = DOMAIN parser /\ \A f \in DOMAIN parser : Parsed(from)[f] = parseField(parser[f], Has(from, f))
  OBVIOUS
<1>3. d = Parsed(data) /\ \A f \in DOMAIN parser : Parsed(data)[f] # Refusal
  BY <1>1, <1>2 DEF Refuses
<1>4. d = [f \in DOMAIN parser |-> d[f]]
  BY <1>3
<1> HIDE DEF Parsed, Has, d
<1>5. ASSUME NEW f \in DOMAIN parser
      PROVE  /\ parseField(parser[f], d[f]) = d[f] /\ Offered(parser[f], d[f]) /\ d[f] # Refusal
             /\ f # "items" => d[f] \in TextValue \ {"blank", "long", "wrong"}
  <2>1. /\ parser[f] \in {"text", "link", "handle", "until", "items", "priced"}
        /\ f # "items" => parser[f] \in {"text", "link", "handle", "until"}
    BY Parsers
  <2>2. Offered(parser[f], Has(data, f))
    <3>1. CASE f \in DOMAIN data
      BY <3>1 DEF BlockData, Has
    <3>2. CASE f \notin DOMAIN data
      BY <3>2 DEF Has, Offered, Absent, Listing, TextValue
    <3> QED
      BY <3>1, <3>2
  <2>3. d[f] = parseField(parser[f], Has(data, f)) /\ d[f] # Refusal
    BY <1>2, <1>3
  <2> HIDE DEF parser
  <2> QED
    BY <2>1, <2>2, <2>3, ParsedSettles
<1>6. \A f \in DOMAIN parser : Parsed(d)[f] = d[f]
  <2>1. ASSUME NEW f \in DOMAIN parser PROVE Has(d, f) = d[f]
    BY <1>4 DEF Has
  <2> QED
    BY <1>2, <1>5, <2>1
<1>7. Parsed(d) = d
  <2>1. Parsed(d) = [f \in DOMAIN parser |-> Parsed(d)[f]]
    BY DEF Parsed
  <2> QED
    BY <1>4, <1>6, <2>1
<1>8. parseBlockData(kind, d) = d
  BY <1>1, <1>2, <1>5, <1>7 DEF Refuses
<1>9. DOMAIN d = DOMAIN parser
  BY <1>4
<1> QED
  BY <1>4, <1>5, <1>8, <1>9 DEF BlockData, d

\* page-design.ts: no block is stored with a text it may not hold, and reading it back changes
\* nothing, whatever is sent.
THEOREM BlocksSettle ==
    ASSUME Apart(Refusal), NEW kind \in PAGE_BLOCK_TYPES, NEW data, BlockData(kind, data)
    PROVE  BlockSettles(kind, data)
<1> DEFINE d == parseBlockData(kind, data)
<1>1. ASSUME d # Refusal
      PROVE  /\ DOMAIN d = DOMAIN Fields[kind]
             /\ \A x \in DOMAIN d \ {"items"} : d[x] \notin {"blank", "long", "wrong"}
             /\ parseBlockData(kind, d) = d
  <2>1. /\ d = [f \in DOMAIN Fields[kind] |-> d[f]]
        /\ \A x \in DOMAIN d \ {"items"} : d[x] \notin {"blank", "long", "wrong"}
        /\ parseBlockData(kind, d) = d
    BY <1>1, BlockParsed
  <2> HIDE DEF d
  <2> QED
    BY <2>1
<1> QED
  BY <1>1 DEF BlockSettles

(***************************************************************************)
(* The list of services.                                                   *)
(***************************************************************************)

\* A list as it may be sent: rows of any id, with texts for a name and a detail.
Services(n, list) ==
    /\ n \in Nat /\ list = [i \in 1..n |-> list[i]]
    /\ \A i \in 1..n : /\ list[i] = [x \in {"id", "name", "detail", "price", "minutes"} |-> list[i][x]]
                       /\ list[i].name \in TextValue /\ list[i].detail \in TextValue

\* service-catalog.ts: a list that is taken has the rows with a name, their ids all different
\* and in their order, and is read back as it was; for any number of services.
THEOREM ServicesKeep ==
    ASSUME Apart(Refusal), NEW n, NEW list, Services(n, list)
    PROVE  ServicesKeepIds(list)
<1> DEFINE full == {i \in DOMAIN list : ~(isBlank(list[i].name) /\ isBlank(list[i].detail))}
           rows == Picked(list, full)
           bad(r, i) == \/ r[i].id = "bad id"
                        \/ \E j \in 1..(i - 1) : r[j].id = r[i].id
                        \/ isBlank(r[i].name) \/ r[i].name = "long"
                        \/ r[i].detail = "long"
                        \/ r[i].price = "wrong" \/ r[i].minutes = "wrong"
           s == parseServices(list)
           named == {i \in DOMAIN list : ~isBlank(list[i].name)}
<1> SUFFICES ASSUME s # Refusal
             PROVE  /\ \A i, j \in DOMAIN s : s[i].id = s[j].id => i = j
                    /\ \A i \in DOMAIN s : ~isBlank(s[i].name) /\ s[i].id # "bad id"
                    /\ [i \in DOMAIN s |-> s[i].id]
                         = [i \in DOMAIN Picked(list, named) |-> Picked(list, named)[i].id]
                    /\ parseServices(s) = s
  BY DEF ServicesKeepIds
<1>1. n \in Nat /\ DOMAIN list = 1..n
  BY LengthOf DEF Services
<1>2. full \in SUBSET (1..n) /\ named \in SUBSET (1..n) /\ named \subseteq full
  BY <1>1
<1>3. /\ ~(Len(rows) > MAX_SERVICES) /\ ~\E i \in DOMAIN rows : bad(rows, i)
      /\ s = [i \in DOMAIN rows |-> [rows[i] EXCEPT !.detail = trimmed(@)]]
  BY DEF parseServices
<1>4. PICK m, order : Picks(n, list, full, m, order)
  <2> HIDE DEF full
  <2> QED
    BY <1>1, <1>2, PickedIs
<1>5. /\ m \in Nat /\ order \in [1..m -> full] /\ rows = [k \in 1..m |-> list[order[k]]]
      /\ \A x \in full : \E k \in 1..m : order[k] = x
  BY <1>4 DEF Picks
<1>6. full = named
  <2> SUFFICES ASSUME NEW x \in full PROVE x \in named
    BY <1>2
  <2>1. PICK k \in 1..m : order[k] = x
    BY <1>5
  <2>2. rows[k] = list[x] /\ k \in DOMAIN rows
    BY <1>5, <2>1
  <2>3. ~isBlank(list[x].name)
    BY <1>3, <2>2
  <2> QED
    BY <2>3
<1> HIDE DEF rows, s, full, named, bad
<1>7. /\ DOMAIN rows = 1..m /\ DOMAIN s = 1..m /\ Len(rows) = m
      /\ \A k \in 1..m : s[k] = [rows[k] EXCEPT !.detail = trimmed(@)]
      /\ s = [k \in 1..m |-> s[k]]
  BY <1>3, <1>5
<1>8. ASSUME NEW k \in 1..m
      PROVE  /\ rows[k] = [x \in {"id", "name", "detail", "price", "minutes"} |-> rows[k][x]]
             /\ rows[k].name \in TextValue /\ rows[k].detail \in TextValue
  <2>1. order[k] \in 1..n /\ rows[k] = list[order[k]]
    BY <1>2, <1>5
  <2> QED
    BY <2>1 DEF Services
<1>9. ASSUME NEW k \in 1..m
      PROVE  /\ s[k].id = rows[k].id /\ s[k].name = rows[k].name /\ s[k].price = rows[k].price
             /\ s[k].minutes = rows[k].minutes /\ s[k].detail = trimmed(rows[k].detail)
             /\ s[k] = [x \in {"id", "name", "detail", "price", "minutes"} |-> s[k][x]]
  BY <1>7, <1>8
<1>10. ASSUME NEW k \in 1..m
       PROVE  /\ rows[k].id # "bad id" /\ \A j \in 1..(k - 1) : rows[j].id # rows[k].id
              /\ ~isBlank(rows[k].name) /\ rows[k].name # "long" /\ rows[k].detail # "long"
              /\ rows[k].price # "wrong" /\ rows[k].minutes # "wrong"
  BY <1>3, <1>7 DEF bad
<1>11. ASSUME NEW i \in 1..m, NEW j \in 1..m, s[i].id = s[j].id PROVE i = j
  <2>1. rows[i].id = rows[j].id
    BY <1>9, <1>11
  <2>2. i \in 1..(j - 1) \/ j \in 1..(i - 1) \/ i = j
    OBVIOUS
  <2> QED
    BY <1>10, <2>1, <2>2
<1>12. \A i \in 1..m : ~isBlank(s[i].name) /\ s[i].id # "bad id"
  BY <1>9, <1>10
<1>13. [i \in DOMAIN s |-> s[i].id] = [i \in DOMAIN Picked(list, named) |-> Picked(list, named)[i].id]
  <2>1. Picked(list, named) = rows
    BY <1>6 DEF rows
  <2> QED
    BY <1>7, <1>9, <2>1
<1>14. parseServices(s) = s
  <2> DEFINE all == {i \in DOMAIN s : ~(isBlank(s[i].name) /\ isBlank(s[i].detail))}
             again == [i \in DOMAIN s |-> [s[i] EXCEPT !.detail = trimmed(@)]]
  <2>1. all = 1..m
    BY <1>7, <1>12
  <2>2. Picked(s, all) = s
    <3>1. s \in [1..m -> {s[i] : i \in 1..m}]
      BY <1>7
    <3>2. Picked(s, 1..m) = s
      BY <1>5, <3>1, PickedAll
    <3> QED
      BY <2>1, <3>2
  <2>3. ASSUME NEW i \in 1..m PROVE ~bad(s, i)
    <3>1. s[i].detail # "long"
      BY <1>9, <1>10 DEF trimmed
    <3>2. \A j \in 1..(i - 1) : j \in 1..m
      BY <1>5
    <3>3. \A j \in 1..(i - 1) : s[j].id # s[i].id
      BY <1>9, <1>10, <3>2
    <3>4. s[i].id # "bad id" /\ s[i].name # "long" /\ s[i].price # "wrong" /\ s[i].minutes # "wrong"
      BY <1>9, <1>10
    <3> QED
      BY <1>12, <3>1, <3>3, <3>4 DEF bad
  <2>4. again = s
    <3>1. ASSUME NEW i \in 1..m PROVE [s[i] EXCEPT !.detail = trimmed(@)] = s[i]
      <4>1. trimmed(s[i].detail) = s[i].detail
        BY <1>9 DEF trimmed, isBlank
      <4> QED
        BY <1>9, <4>1
    <3> QED
      BY <1>7, <3>1
  <2>5. parseServices(s)
          = IF Len(Picked(s, all)) > MAX_SERVICES \/ \E i \in DOMAIN Picked(s, all) : bad(Picked(s, all), i) THEN Refusal
            ELSE [i \in DOMAIN Picked(s, all) |-> [Picked(s, all)[i] EXCEPT !.detail = trimmed(@)]]
    BY DEF parseServices, bad
  <2>6. Len(s) = m
    BY <1>7, LengthOf
  <2>7. ~(Len(s) > MAX_SERVICES) /\ ~\E i \in DOMAIN s : bad(s, i)
    BY <1>3, <1>7, <2>3, <2>6
  <2> HIDE DEF all
  <2>8. parseServices(s) = IF Len(s) > MAX_SERVICES \/ \E i \in DOMAIN s : bad(s, i) THEN Refusal ELSE again
    BY <2>2, <2>5
  <2> HIDE DEF again
  <2> QED
    BY <2>4, <2>7, <2>8
<1> QED
  BY <1>7, <1>11, <1>12, <1>13, <1>14

(***************************************************************************)
(* The sections of a page.  The parser goes through the entries one by     *)
(* one; what it has taken after each of them is a sequence of states, and  *)
(* what is said of a document is said of every one of these.               *)
(***************************************************************************)

Nothing == [sections |-> <<>>, seen |-> {}, blocks |-> 0]

Took(g, s, entries) ==
    IF s = {} THEN Nothing ELSE LET x == Max(s) IN takeEntry(g[s \ {x}], entries[x])

TookOf(n, g, entries) == g = [s \in SUBSET (1..n) |-> Took(g, s, entries)]

\* What is done with what was taken in the end.
Finished(done) ==
    LET left == {i \in DOMAIN PAGE_SECTIONS : PAGE_SECTIONS[i] \notin done.seen} IN
    IF done = Refusal THEN Refusal
    ELSE done.sections \o Picked([i \in DOMAIN PAGE_SECTIONS |-> Section(PAGE_SECTIONS[i])], left)

LEMMA SectionsOpened ==
    ASSUME NEW n \in Nat, NEW entries, DOMAIN entries = 1..n
    PROVE  parseSections(entries)
             = Finished((CHOOSE g : g = [s \in SUBSET (1..n) |-> Took(g, s, entries)])[1..n])
BY DEF parseSections, FoldLeft, MapThenFoldSet, Took, Finished, Nothing

\* One more entry is one more step of the fold.
LEMMA TookGrows ==
    ASSUME NEW entries, NEW n \in Nat, NEW g, TookOf(n, g, entries)
    PROVE  \E h : TookOf(n + 1, h, entries)
<1> DEFINE h == [s \in SUBSET (1..(n + 1)) |->
                    IF n + 1 \in s THEN takeEntry(g[s \ {n + 1}], entries[n + 1]) ELSE g[s]]
<1>1. ASSUME NEW s \in SUBSET (1..(n + 1)) PROVE h[s] = Took(h, s, entries)
  <2>1. CASE n + 1 \in s
    <3>1. s # {} /\ Max(s) = n + 1 /\ s \ {n + 1} \in SUBSET (1..n)
      BY <2>1, MaxOf
    <3>2. h[s \ {n + 1}] = g[s \ {n + 1}]
      BY <3>1
    <3> QED
      BY <2>1, <3>1, <3>2 DEF Took
  <2>2. CASE n + 1 \notin s
    <3>1. s \in SUBSET (1..n)
      BY <2>2
    <3>2. g[s] = Took(g, s, entries)
      BY <3>1 DEF TookOf
    <3>3. h[s \ {Max(s)}] = g[s \ {Max(s)}]
      <4>1. PICK t : t = s \ {Max(s)}
        OBVIOUS
      <4>2. t \in SUBSET (1..(n + 1)) /\ n + 1 \notin t
        BY <2>2, <4>1
      <4> QED
        BY <4>1, <4>2
    <3> QED
      BY <2>2, <3>2, <3>3 DEF Took
  <2> QED
    BY <2>1, <2>2
<1>2. TookOf(n + 1, h, entries)
  BY <1>1 DEF TookOf
<1> QED
  BY <1>2

\* What was taken after each entry.
Steps(n, entries, h) ==
    /\ h[0] = Nothing
    /\ \A k \in 1..n : h[k] = takeEntry(h[k - 1], entries[k])

LEMMA SectionsAreSteps ==
    ASSUME NEW n \in Nat, NEW entries, DOMAIN entries = 1..n
    PROVE  \E h : Steps(n, entries, h) /\ parseSections(entries) = Finished(h[n])
<1> DEFINE Reached == {m \in Nat : \E g : TookOf(m, g, entries)}
<1>1. 0 \in Reached
  <2> DEFINE g == [s \in SUBSET (1..0) |-> Nothing]
  <2>1. \A s \in SUBSET (1..0) : s = {}
    OBVIOUS
  <2>2. TookOf(0, g, entries)
    BY <2>1 DEF TookOf, Took
  <2> QED
    BY <2>2
<1>2. ASSUME NEW m \in Reached PROVE m + 1 \in Reached
  BY TookGrows
<1>3. n \in Reached
  <2>1. Reached \subseteq Nat
    OBVIOUS
  <2> HIDE DEF Reached
  <2> QED
    BY <1>1, <1>2, <2>1, Induct
<1>4. PICK g : g = CHOOSE f : TookOf(n, f, entries)
  OBVIOUS
<1>5. TookOf(n, g, entries)
  BY <1>3, <1>4
<1>6. parseSections(entries) = Finished(g[1..n])
  BY <1>4, SectionsOpened DEF TookOf
<1> DEFINE h == [k \in 0..n |-> g[1..k]]
<1>7. h[0] = Nothing
  <2>1. 1..0 = {} /\ g[1..0] = Took(g, 1..0, entries)
    BY <1>5 DEF TookOf
  <2> QED
    BY <2>1 DEF Took
<1>8. ASSUME NEW k \in 1..n PROVE h[k] = takeEntry(h[k - 1], entries[k])
  <2>1. 1..k \in SUBSET (1..n) /\ 1..k # {} /\ (1..k) \ {k} = 1..(k - 1) /\ k - 1 \in 0..n /\ k \in 0..n
    <3>1. k \in Int /\ 1 <= k /\ k <= n /\ k \in 1..k
      OBVIOUS
    <3>2. 1..k \subseteq 1..n
      BY <3>1
    <3>3. (1..k) \ {k} = 1..(k - 1)
      BY <3>1
    <3>4. k - 1 \in 0..n /\ k \in 0..n
      BY <3>1
    <3> QED
      BY <3>1, <3>2, <3>3, <3>4
  <2>2. Max(1..k) = k
    <3>1. PICK j \in Nat : k = j + 1
      <4>1. k - 1 \in Nat /\ k = k - 1 + 1
        OBVIOUS
      <4> QED
        BY <4>1
    <3>2. 1..(j + 1) \in SUBSET (1..(j + 1)) /\ j + 1 \in 1..(j + 1)
      OBVIOUS
    <3> QED
      BY <3>1, <3>2, MaxOf
  <2>3. g[1..k] = Took(g, 1..k, entries)
    BY <1>5, <2>1 DEF TookOf
  <2>4. g[1..k] = takeEntry(g[1..(k - 1)], entries[k])
    BY <2>1, <2>2, <2>3 DEF Took
  <2> QED
    BY <2>1, <2>4
<1>9. h[n] = g[1..n]
  OBVIOUS
<1> HIDE DEF h
<1>10. Steps(n, entries, h)
  BY <1>7, <1>8 DEF Steps
<1> QED
  BY <1>6, <1>9, <1>10

LEMMA Appended ==
    ASSUME NEW n \in Nat, NEW seq, seq = [i \in 1..n |-> seq[i]], NEW x
    PROVE  Append(seq, x) = [i \in 1..(n + 1) |-> IF i = n + 1 THEN x ELSE seq[i]]
<1> DEFINE S == {seq[i] : i \in 1..n} \cup {x}
<1>1. seq \in [1..n -> S] /\ Len(seq) = n
  BY LengthOf
<1>2. seq \in Seq(S)
  BY <1>1
<1> HIDE DEF S
<1>3. x \in S
  BY DEF S
<1>4. /\ Append(seq, x) \in Seq(S) /\ Len(Append(seq, x)) = n + 1
      /\ \A i \in 1..n : Append(seq, x)[i] = seq[i]
      /\ Append(seq, x)[n + 1] = x
  BY <1>1, <1>2, <1>3, AppendProperties
<1>5. DOMAIN Append(seq, x) = 1..(n + 1) /\ Append(seq, x) \in [1..(n + 1) -> S]
  BY <1>4, LenProperties
<1> QED
  BY <1>4, <1>5

LEMMA Joined ==
    ASSUME NEW m \in Nat, NEW a, a = [i \in 1..m |-> a[i]], NEW n \in Nat, NEW b, b = [i \in 1..n |-> b[i]]
    PROVE  a \o b = [i \in 1..(m + n) |-> IF i <= m THEN a[i] ELSE b[i - m]]
<1> DEFINE S == {a[i] : i \in 1..m} \cup {b[i] : i \in 1..n}
<1>1. a \in [1..m -> S] /\ Len(a) = m /\ b \in [1..n -> S] /\ Len(b) = n
  BY LengthOf
<1>2. a \in Seq(S) /\ b \in Seq(S)
  <2>1. a \in [1..m -> S] /\ b \in [1..n -> S]
    BY <1>1
  <2> HIDE DEF S
  <2>2. a \in Seq(S)
    BY <2>1
  <2>3. b \in Seq(S)
    BY <2>1
  <2> QED
    BY <2>2, <2>3
<1> HIDE DEF S
<1>3. /\ a \o b \in Seq(S) /\ Len(a \o b) = m + n
      /\ \A i \in 1..(m + n) : (a \o b)[i] = IF i <= m THEN a[i] ELSE b[i - m]
  BY <1>1, <1>2, ConcatProperties
<1>4. DOMAIN (a \o b) = 1..(m + n) /\ a \o b \in [1..(m + n) -> S]
  BY <1>3, LenProperties
<1> QED
  BY <1>3, <1>4

\* The built-in sections are no blocks, and there is one of each.
LEMMA BuiltIns ==
    /\ \E n \in Nat : DOMAIN PAGE_SECTIONS = 1..n
    /\ ToSet(PAGE_SECTIONS) = {PAGE_SECTIONS[i] : i \in DOMAIN PAGE_SECTIONS}
    /\ \A i, j \in DOMAIN PAGE_SECTIONS : PAGE_SECTIONS[i] = PAGE_SECTIONS[j] => i = j
    /\ \A id \in ToSet(PAGE_SECTIONS) : id \notin PAGE_BLOCK_TYPES /\ id # "wrong"
    /\ MAX_CUSTOM_BLOCKS \in Nat
<1> DEFINE S == {"about", "services", "gallery", "hours", "testimonials", "map", "contact"}
<1>1. PAGE_SECTIONS \in Seq(S) /\ IsInjective(PAGE_SECTIONS) /\ MAX_CUSTOM_BLOCKS \in Nat
  BY DesignConstants
<1>2. ToSet(PAGE_SECTIONS) = {PAGE_SECTIONS[i] : i \in DOMAIN PAGE_SECTIONS}
  BY DEF ToSet
<1>3. \A i, j \in DOMAIN PAGE_SECTIONS : PAGE_SECTIONS[i] = PAGE_SECTIONS[j] => i = j
  BY <1>1 DEF IsInjective
<1>4. PAGE_BLOCK_TYPES = {"hero", "text", "prices", "faq", "team", "promo", "social", "video"}
  BY DEF PAGE_BLOCK_TYPES, Fields
<1>5. \A x \in S : x \notin PAGE_BLOCK_TYPES /\ x # "wrong"
  BY <1>4
<1> HIDE DEF S
<1>6. Len(PAGE_SECTIONS) \in Nat /\ DOMAIN PAGE_SECTIONS = 1..Len(PAGE_SECTIONS)
      /\ PAGE_SECTIONS \in [1..Len(PAGE_SECTIONS) -> S]
  BY <1>1, LenProperties
<1> QED
  BY <1>1, <1>2, <1>3, <1>5, <1>6

\* An entry of a document as it may be sent.
Entry(e) ==
    /\ e.enabled \in BOOLEAN
    /\ KindOf(e) \in PAGE_BLOCK_TYPES => BlockData(KindOf(e), e.data)

\* A section as it is stored.
Stored(x) ==
    /\ x = [id |-> x.id, type |-> x.type, enabled |-> x.enabled, data |-> x.data]
    /\ x.enabled \in BOOLEAN /\ x.id # "wrong"
    /\ \/ x.type \in ToSet(PAGE_SECTIONS) /\ x.id = x.type /\ x.data = <<>>
       \/ /\ x.type \in PAGE_BLOCK_TYPES /\ x.type \notin ToSet(PAGE_SECTIONS)
          /\ x.id # "bad id" /\ BlockData(x.type, x.data)
          /\ x.data # Refusal /\ parseBlockData(x.type, x.data) = x.data

BlocksOf(seq) == {i \in DOMAIN seq : seq[i].type \in PAGE_BLOCK_TYPES}

\* So many sections, each as it is stored, of different names, and not too many blocks.
StoredAll(m, seq) ==
    /\ m \in Nat /\ seq = [i \in 1..m |-> seq[i]]
    /\ \A i \in 1..m : Stored(seq[i])
    /\ \A i, j \in 1..m : seq[i].id = seq[j].id => i = j
    /\ Cardinality(BlocksOf(seq)) \in 0..MAX_CUSTOM_BLOCKS

\* What was taken of some entries.
Holding(d, n, entries) ==
    /\ d = [sections |-> d.sections, seen |-> d.seen, blocks |-> d.blocks]
    /\ \E m : /\ StoredAll(m, d.sections)
              /\ d.seen = {d.sections[i].id : i \in 1..m}
              /\ \A i \in 1..m : \E j \in 1..n :
                    entries[j].id = d.sections[i].id /\ KindOf(entries[j]) = d.sections[i].type
    /\ d.blocks = Cardinality(BlocksOf(d.sections))

LEMMA HoldingNothing == ASSUME NEW n, NEW entries PROVE Holding(Nothing, n, entries)
<1>1. BlocksOf(<<>>) = {}
  BY DEF BlocksOf
<1>2. Cardinality({}) = 0
  BY FS_EmptySet
<1>3. 1..0 = {} /\ <<>> = [i \in 1..0 |-> <<>>[i]]
  OBVIOUS
<1>4. MAX_CUSTOM_BLOCKS \in Nat
  BY BuiltIns
<1>5. StoredAll(0, <<>>)
  <2>1. PICK none : none = <<>>
    OBVIOUS
  <2>2. none = [i \in 1..0 |-> none[i]] /\ Cardinality(BlocksOf(none)) \in 0..MAX_CUSTOM_BLOCKS
    <3>1. none = [i \in 1..0 |-> none[i]]
      BY <2>1
    <3>2. Cardinality(BlocksOf(none)) = 0
      BY <1>1, <1>2, <2>1
    <3> QED
      BY <1>4, <3>1, <3>2
  <2>3. StoredAll(0, none)
    BY <1>3, <2>2 DEF StoredAll
  <2> QED
    BY <2>1, <2>3
<1>6. {<<>>[i].id : i \in 1..0} = {}
  BY <1>3
<1>7. Nothing.sections = <<>> /\ Nothing.seen = {} /\ Nothing.blocks = 0
      /\ Nothing = [sections |-> Nothing.sections, seen |-> Nothing.seen, blocks |-> Nothing.blocks]
  BY DEF Nothing
<1> QED
  BY <1>1, <1>2, <1>3, <1>5, <1>6, <1>7 DEF Holding

\* A section more.
LEMMA OneMore ==
    ASSUME NEW m, NEW seq, StoredAll(m, seq), NEW x, Stored(x), \A i \in 1..m : seq[i].id # x.id,
           x.type \in PAGE_BLOCK_TYPES => Cardinality(BlocksOf(seq)) # MAX_CUSTOM_BLOCKS
    PROVE  /\ StoredAll(m + 1, Append(seq, x))
           /\ Append(seq, x) = [i \in 1..(m + 1) |-> IF i = m + 1 THEN x ELSE seq[i]]
           /\ Cardinality(BlocksOf(Append(seq, x)))
                = Cardinality(BlocksOf(seq)) + IF x.type \in PAGE_BLOCK_TYPES THEN 1 ELSE 0
<1>1. PICK all : all = Append(seq, x)
  OBVIOUS
<1>2. m \in Nat /\ seq = [i \in 1..m |-> seq[i]] /\ DOMAIN seq = 1..m
  BY LengthOf DEF StoredAll
<1>3. all = [i \in 1..(m + 1) |-> IF i = m + 1 THEN x ELSE seq[i]]
  BY <1>1, <1>2, Appended
<1>4. DOMAIN all = 1..(m + 1) /\ all[m + 1] = x /\ \A i \in 1..m : all[i] = seq[i]
  BY <1>2, <1>3
<1>5. BlocksOf(all) = BlocksOf(seq) \cup (IF x.type \in PAGE_BLOCK_TYPES THEN {m + 1} ELSE {})
  BY <1>2, <1>4 DEF BlocksOf
<1>6. m + 1 \notin BlocksOf(seq) /\ IsFiniteSet(BlocksOf(seq))
  <2>1. BlocksOf(seq) \subseteq 1..m
    BY <1>2 DEF BlocksOf
  <2>2. IsFiniteSet(1..m)
    BY <1>2, FS_Interval
  <2> QED
    BY <1>2, <2>1, <2>2, FS_Subset
<1>7. Cardinality(BlocksOf(all)) = Cardinality(BlocksOf(seq)) + IF x.type \in PAGE_BLOCK_TYPES THEN 1 ELSE 0
  <2>1. Cardinality(BlocksOf(seq)) \in Nat
    BY <1>6, FS_CardinalityType
  <2>2. Cardinality(BlocksOf(seq) \cup {m + 1}) = Cardinality(BlocksOf(seq)) + 1
    BY <1>6, FS_AddElement
  <2>3. BlocksOf(seq) \cup {} = BlocksOf(seq)
    OBVIOUS
  <2>4. CASE x.type \in PAGE_BLOCK_TYPES
    BY <1>5, <2>2, <2>4
  <2>5. CASE x.type \notin PAGE_BLOCK_TYPES
    BY <1>5, <2>1, <2>3, <2>5
  <2> QED
    BY <2>4, <2>5
<1>8. Cardinality(BlocksOf(all)) \in 0..MAX_CUSTOM_BLOCKS
  <2>1. Cardinality(BlocksOf(seq)) \in 0..MAX_CUSTOM_BLOCKS /\ MAX_CUSTOM_BLOCKS \in Nat
    BY BuiltIns DEF StoredAll
  <2> QED
    BY <1>7, <2>1
<1>9. \A i \in 1..(m + 1) : Stored(all[i])
  BY <1>2, <1>4 DEF StoredAll
<1>10. \A i, j \in 1..(m + 1) : all[i].id = all[j].id => i = j
  <2>1. \A i, j \in 1..m : seq[i].id = seq[j].id => i = j
    BY DEF StoredAll
  <2>2. \A i \in 1..(m + 1) : i \in 1..m \/ i = m + 1
    BY <1>2
  <2> QED
    BY <1>4, <2>1, <2>2
<1>11. StoredAll(m + 1, all)
  BY <1>2, <1>3, <1>8, <1>9, <1>10 DEF StoredAll
<1> QED
  BY <1>1, <1>3, <1>7, <1>11

LEMMA NotRefused == ASSUME Apart(Refusal), NEW d, NEW n, NEW entries, Holding(d, n, entries) PROVE d # Refusal
BY DEF Apart, NoFunction, Holding

LEMMA EntryTaken ==
    ASSUME Apart(Refusal), NEW d, NEW n \in Nat, NEW entries, NEW k \in 1..n, Holding(d, n, entries),
           Entry(entries[k])
    PROVE  takeEntry(d, entries[k]) = Refusal \/ Holding(takeEntry(d, entries[k]), n, entries)
<1>1. PICK e : e = entries[k]
  OBVIOUS
<1> DEFINE kind == KindOf(e)
           builtin == kind \in ToSet(PAGE_SECTIONS)
           block == [id |-> e.id, type |-> kind, enabled |-> e.enabled,
                     data |-> IF builtin THEN <<>> ELSE parseBlockData(kind, e.data)]
           skips == \/ d = Refusal
                    \/ e.id \in {"wrong"} \cup d.seen
                    \/ builtin /\ e.id # kind
                    \/ ~builtin /\ kind \notin PAGE_BLOCK_TYPES
           refuses == \/ ~builtin /\ (e.id = "bad id" \/ d.blocks = MAX_CUSTOM_BLOCKS)
                      \/ block.data = Refusal
           more == [sections |-> Append(d.sections, block),
                    seen     |-> d.seen \cup {e.id},
                    blocks   |-> d.blocks + (IF builtin THEN 0 ELSE 1)]
<1>2. takeEntry(d, e) = IF skips THEN d ELSE IF refuses THEN Refusal ELSE more
  BY DEF takeEntry
<1>3. ASSUME ~skips, ~refuses PROVE Holding(more, n, entries)
  <2>1. /\ e.id # "wrong" /\ e.id \notin d.seen
        /\ builtin => e.id = kind
        /\ ~builtin => kind \in PAGE_BLOCK_TYPES /\ e.id # "bad id" /\ d.blocks # MAX_CUSTOM_BLOCKS
        /\ block.data # Refusal
    BY <1>3
  <2>2. /\ block.id = e.id /\ block.type = kind /\ block.enabled = e.enabled
        /\ block.data = IF builtin THEN <<>> ELSE parseBlockData(kind, e.data)
        /\ block = [id |-> block.id, type |-> block.type, enabled |-> block.enabled, data |-> block.data]
    OBVIOUS
  <2> HIDE DEF block, skips, refuses
  <2>3. builtin => kind \notin PAGE_BLOCK_TYPES
    BY BuiltIns
  <2>4. Stored(block)
    <3>1. e.enabled \in BOOLEAN /\ (kind \in PAGE_BLOCK_TYPES => BlockData(kind, e.data))
      BY <1>1 DEF Entry
    <3> HIDE DEF kind
    <3>2. CASE builtin
      BY <2>1, <2>2, <3>1, <3>2 DEF Stored
    <3>3. CASE ~builtin
      <4>1. kind \in PAGE_BLOCK_TYPES /\ block.data = parseBlockData(kind, e.data) /\ BlockData(kind, e.data)
        BY <2>1, <2>2, <3>1, <3>3
      <4>2. BlockData(kind, block.data) /\ parseBlockData(kind, block.data) = block.data
        BY <2>1, <4>1, BlockParsed
      <4> QED
        BY <2>1, <2>2, <3>1, <3>3, <4>1, <4>2 DEF Stored
    <3> QED
      BY <3>2, <3>3
  <2> HIDE DEF builtin, kind
  <2>5. PICK m : /\ StoredAll(m, d.sections)
                 /\ d.seen = {d.sections[i].id : i \in 1..m}
                 /\ \A i \in 1..m : \E j \in 1..n :
                       entries[j].id = d.sections[i].id /\ KindOf(entries[j]) = d.sections[i].type
    BY DEF Holding
  <2>6. d.blocks = Cardinality(BlocksOf(d.sections))
    BY DEF Holding
  <2>7. \A i \in 1..m : d.sections[i].id # block.id
    BY <2>1, <2>2, <2>5
  <2>8. block.type \in PAGE_BLOCK_TYPES <=> ~builtin
    BY <2>1, <2>2, <2>3
  <2>9. /\ StoredAll(m + 1, Append(d.sections, block))
        /\ Append(d.sections, block) = [i \in 1..(m + 1) |-> IF i = m + 1 THEN block ELSE d.sections[i]]
        /\ Cardinality(BlocksOf(Append(d.sections, block)))
             = Cardinality(BlocksOf(d.sections)) + IF block.type \in PAGE_BLOCK_TYPES THEN 1 ELSE 0
    <3>1. block.type \in PAGE_BLOCK_TYPES => Cardinality(BlocksOf(d.sections)) # MAX_CUSTOM_BLOCKS
      BY <2>1, <2>6, <2>8
    <3>2. PICK seq : seq = d.sections
      OBVIOUS
    <3>3. StoredAll(m, seq) /\ Stored(block) /\ \A i \in 1..m : seq[i].id # block.id
      BY <2>4, <2>5, <2>7, <3>2
    <3>4. block.type \in PAGE_BLOCK_TYPES => Cardinality(BlocksOf(seq)) # MAX_CUSTOM_BLOCKS
      BY <3>1, <3>2
    <3>5. PICK b : b = block
      OBVIOUS
    <3>6. /\ StoredAll(m + 1, Append(seq, b))
          /\ Append(seq, b) = [i \in 1..(m + 1) |-> IF i = m + 1 THEN b ELSE seq[i]]
          /\ Cardinality(BlocksOf(Append(seq, b)))
               = Cardinality(BlocksOf(seq)) + IF b.type \in PAGE_BLOCK_TYPES THEN 1 ELSE 0
      BY <3>3, <3>4, <3>5, OneMore
    <3> QED
      BY <3>2, <3>5, <3>6
  <2>10. PICK all : all = Append(d.sections, block)
    OBVIOUS
  <2>11. m \in Nat
    BY <2>5 DEF StoredAll
  <2>12. all[m + 1] = block /\ \A i \in 1..m : all[i] = d.sections[i]
    BY <2>9, <2>10, <2>11
  <2>13. \A i \in 1..(m + 1) : i \in 1..m \/ i = m + 1
    BY <2>11
  <2>14. d.seen \cup {e.id} = {all[i].id : i \in 1..(m + 1)}
    <3>1. 1..(m + 1) = 1..m \cup {m + 1}
      BY <2>11
    <3>2. all[m + 1].id = e.id /\ \A i \in 1..m : all[i].id = d.sections[i].id
      BY <2>2, <2>12
    <3> QED
      BY <2>5, <3>1, <3>2
  <2>15. ASSUME NEW i \in 1..(m + 1)
         PROVE  \E j \in 1..n : entries[j].id = all[i].id /\ KindOf(entries[j]) = all[i].type
    <3>1. CASE i \in 1..m
      BY <2>5, <2>12, <3>1
    <3>2. CASE i = m + 1
      BY <1>1, <2>2, <2>12, <3>2 DEF kind
    <3> QED
      BY <2>13, <3>1, <3>2
  <2>16. more.sections = all /\ more.seen = d.seen \cup {e.id} /\ more.blocks = d.blocks + (IF builtin THEN 0 ELSE 1)
         /\ more = [sections |-> more.sections, seen |-> more.seen, blocks |-> more.blocks]
    BY <2>10
  <2>17. more.blocks = Cardinality(BlocksOf(all))
    BY <2>6, <2>8, <2>9, <2>10, <2>16
  <2> HIDE DEF more
  <2>18. \E l : /\ StoredAll(l, more.sections)
                /\ more.seen = {more.sections[i].id : i \in 1..l}
                /\ \A i \in 1..l : \E j \in 1..n :
                      entries[j].id = more.sections[i].id /\ KindOf(entries[j]) = more.sections[i].type
    <3>1. PICK l : l = m + 1
      OBVIOUS
    <3>2. PICK secs : secs = more.sections
      OBVIOUS
    <3>3. StoredAll(l, secs)
      BY <2>9, <2>10, <2>16, <3>1, <3>2
    <3>4. more.seen = {secs[i].id : i \in 1..l}
      BY <2>14, <2>16, <3>1, <3>2
    <3>5. \A i \in 1..l : \E j \in 1..n : entries[j].id = secs[i].id /\ KindOf(entries[j]) = secs[i].type
      BY <2>15, <2>16, <3>1, <3>2
    <3> QED
      BY <3>2, <3>3, <3>4, <3>5
  <2> QED
    BY <2>16, <2>17, <2>18 DEF Holding
<1>4. CASE skips
  BY <1>1, <1>2, <1>4
<1>5. CASE ~skips /\ refuses
  BY <1>1, <1>2, <1>5
<1>6. CASE ~skips /\ ~refuses
  <2>1. takeEntry(d, e) = more
    BY <1>2, <1>6
  <2> QED
    BY <1>1, <1>3, <1>6, <2>1
<1> QED
  BY <1>4, <1>5, <1>6

LEMMA RefusedStays == ASSUME NEW e PROVE takeEntry(Refusal, e) = Refusal
BY DEF takeEntry

LEMMA StepsHold ==
    ASSUME Apart(Refusal), NEW n \in Nat, NEW entries, \A i \in 1..n : Entry(entries[i]),
           NEW h, Steps(n, entries, h)
    PROVE  h[n] = Refusal \/ Holding(h[n], n, entries)
<1> DEFINE Upto == {k \in Nat : k <= n => h[k] = Refusal \/ Holding(h[k], n, entries)}
<1>1. 0 \in Upto
  BY HoldingNothing DEF Steps
<1>2. ASSUME NEW k \in Upto PROVE k + 1 \in Upto
  <2>1. k \in Nat
    OBVIOUS
  <2>2. CASE k + 1 <= n
    <3>1. k + 1 \in 1..n /\ k + 1 - 1 = k /\ k <= n
      BY <2>1, <2>2
    <3>2. h[k + 1] = takeEntry(h[k], entries[k + 1])
      BY <3>1 DEF Steps
    <3>3. h[k] = Refusal \/ Holding(h[k], n, entries)
      BY <3>1
    <3>4. h[k + 1] = Refusal \/ Holding(h[k + 1], n, entries)
      BY <3>1, <3>2, <3>3, EntryTaken, RefusedStays
    <3> QED
      BY <2>1, <3>4
  <2>3. CASE ~(k + 1 <= n)
    BY <2>1, <2>3
  <2> QED
    BY <2>2, <2>3
<1>3. n \in Upto
  <2>1. Upto \subseteq Nat
    OBVIOUS
  <2> HIDE DEF Upto
  <2> QED
    BY <1>1, <1>2, <2>1, Induct
<1> QED
  BY <1>3

\* Every built-in section has its place.
Covers(m, seq) == \A id \in ToSet(PAGE_SECTIONS) : \E i \in 1..m : seq[i].id = id

\* What nobody mentioned is put at the end.
LEMMA FinishedCovers ==
    ASSUME Apart(Refusal), NEW n \in Nat, NEW entries, NEW d, Holding(d, n, entries)
    PROVE  \E u : /\ StoredAll(u, Finished(d)) /\ Covers(u, Finished(d))
                  /\ \A i \in 1..u : \/ Finished(d)[i].type \in ToSet(PAGE_SECTIONS)
                                     \/ \E j \in 1..n : /\ entries[j].id = Finished(d)[i].id
                                                        /\ KindOf(entries[j]) = Finished(d)[i].type
<1>1. PICK u : /\ StoredAll(u, d.sections)
               /\ d.seen = {d.sections[i].id : i \in 1..u}
               /\ \A i \in 1..u : \E j \in 1..n :
                     entries[j].id = d.sections[i].id /\ KindOf(entries[j]) = d.sections[i].type
  BY DEF Holding
<1>2. PICK q \in Nat : DOMAIN PAGE_SECTIONS = 1..q
  BY BuiltIns
<1> DEFINE left == {i \in DOMAIN PAGE_SECTIONS : PAGE_SECTIONS[i] \notin d.seen}
           all == [i \in DOMAIN PAGE_SECTIONS |-> Section(PAGE_SECTIONS[i])]
<1>3. PICK rest : rest = Picked(all, left)
  OBVIOUS
<1>4. PICK sec : sec = d.sections
  OBVIOUS
<1>5. PICK s : s = Finished(d)
  OBVIOUS
<1>6. s = sec \o rest
  BY <1>3, <1>4, <1>5, NotRefused DEF Finished
<1>7. DOMAIN all = 1..q /\ left \in SUBSET (1..q) /\ \A i \in 1..q : all[i] = Section(PAGE_SECTIONS[i])
  BY <1>2
<1>8. \A i \in 1..q : PAGE_SECTIONS[i] \in ToSet(PAGE_SECTIONS)
  BY <1>2, BuiltIns
<1>9. ASSUME NEW i \in 1..q
      PROVE  /\ all[i].id = PAGE_SECTIONS[i] /\ all[i].type = PAGE_SECTIONS[i]
             /\ Stored(all[i]) /\ all[i].type \notin PAGE_BLOCK_TYPES
  <2>1. all[i] = [id |-> PAGE_SECTIONS[i], type |-> PAGE_SECTIONS[i], enabled |-> TRUE, data |-> <<>>]
    BY <1>7 DEF Section
  <2>2. PAGE_SECTIONS[i] \in ToSet(PAGE_SECTIONS) /\ PAGE_SECTIONS[i] \notin PAGE_BLOCK_TYPES /\ PAGE_SECTIONS[i] # "wrong"
    BY <1>8, BuiltIns
  <2>3. PICK x : x = all[i]
    OBVIOUS
  <2>4. PICK id : id = PAGE_SECTIONS[i]
    OBVIOUS
  <2>5. x = [id |-> id, type |-> id, enabled |-> TRUE, data |-> <<>>]
    BY <2>1, <2>3, <2>4
  <2>6. Stored(x)
    BY <2>2, <2>4, <2>5 DEF Stored
  <2> QED
    BY <2>2, <2>3, <2>4, <2>5, <2>6
<1>10. \A i \in left : PAGE_SECTIONS[i] \notin {sec[j].id : j \in 1..u}
  BY <1>1, <1>4
<1>11. \A i \in (1..q) \ left : PAGE_SECTIONS[i] \in {sec[j].id : j \in 1..u}
  BY <1>1, <1>2, <1>4
<1> HIDE DEF all, left
<1>13. PICK c, order : Picks(q, all, left, c, order)
  BY <1>2, <1>7, PickedIs
<1>14. /\ c \in Nat /\ order \in [1..c -> left]
       /\ Picked(all, left) = [k \in 1..c |-> all[order[k]]]
       /\ \A x \in left : \E k \in 1..c : order[k] = x
       /\ \A j, k \in 1..c : order[j] = order[k] => j = k
  BY <1>13 DEF Picks
<1>15. rest = [k \in 1..c |-> rest[k]] /\ \A k \in 1..c : rest[k] = all[order[k]]
  BY <1>3, <1>14
<1>16. u \in Nat /\ sec = [i \in 1..u |-> sec[i]] /\ DOMAIN sec = 1..u
  BY <1>1, <1>4, LengthOf DEF StoredAll
<1>17. s = [i \in 1..(u + c) |-> IF i <= u THEN sec[i] ELSE rest[i - u]]
  BY <1>6, <1>14, <1>15, <1>16, Joined
<1>18. DOMAIN s = 1..(u + c) /\ s = [i \in 1..(u + c) |-> s[i]]
  BY <1>17
<1>19. ASSUME NEW i \in 1..(u + c)
       PROVE  \/ i \in 1..u /\ s[i] = sec[i]
              \/ i - u \in 1..c /\ i \notin 1..u /\ order[i - u] \in 1..q /\ order[i - u] \in left
                 /\ s[i] = all[order[i - u]]
  <2>1. CASE i <= u
    BY <1>16, <1>17, <2>1
  <2>2. CASE ~(i <= u)
    <3>1. i - u \in 1..c /\ i \notin 1..u
      BY <1>14, <1>16, <2>2
    <3>2. s[i] = rest[i - u]
      BY <1>17, <2>2
    <3>3. order[i - u] \in left /\ order[i - u] \in 1..q
      BY <1>14, <1>7, <3>1
    <3> QED
      BY <1>15, <3>1, <3>2, <3>3
  <2> QED
    BY <2>1, <2>2
<1>20. BlocksOf(s) = BlocksOf(sec)
  <2>1. ASSUME NEW i \in 1..(u + c) PROVE s[i].type \in PAGE_BLOCK_TYPES <=> i \in 1..u /\ sec[i].type \in PAGE_BLOCK_TYPES
    BY <1>9, <1>19
  <2>2. 1..u \subseteq 1..(u + c)
    BY <1>14, <1>16
  <2> QED
    BY <1>16, <1>18, <2>1, <2>2 DEF BlocksOf
<1>21. \A i \in 1..(u + c) : Stored(s[i])
  <2>1. \A i \in 1..u : Stored(sec[i])
    BY <1>1, <1>4 DEF StoredAll
  <2> QED
    BY <1>9, <1>19, <2>1
<1>22. ASSUME NEW i \in 1..(u + c), NEW j \in 1..(u + c), s[i].id = s[j].id PROVE i = j
  <2>1. CASE i \in 1..u /\ j \in 1..u
    <3>1. \A a, b \in 1..u : sec[a].id = sec[b].id => a = b
      BY <1>1, <1>4 DEF StoredAll
    <3>2. s[i] = sec[i] /\ s[j] = sec[j]
      BY <1>19, <2>1
    <3> QED
      BY <1>22, <2>1, <3>1, <3>2
  <2>2. CASE i \in 1..u /\ j \notin 1..u
    <3>1. s[i] = sec[i] /\ s[j] = all[order[j - u]] /\ order[j - u] \in left /\ order[j - u] \in 1..q
      BY <1>19, <2>2
    <3>2. s[j].id = PAGE_SECTIONS[order[j - u]]
      BY <1>9, <3>1
    <3> QED
      BY <1>10, <1>22, <2>2, <3>1, <3>2
  <2>3. CASE i \notin 1..u /\ j \in 1..u
    <3>1. s[j] = sec[j] /\ s[i] = all[order[i - u]] /\ order[i - u] \in left /\ order[i - u] \in 1..q
      BY <1>19, <2>3
    <3>2. s[i].id = PAGE_SECTIONS[order[i - u]]
      BY <1>9, <3>1
    <3> QED
      BY <1>10, <1>22, <2>3, <3>1, <3>2
  <2>4. CASE i \notin 1..u /\ j \notin 1..u
    <3>1. i - u \in 1..c /\ s[i] = all[order[i - u]] /\ order[i - u] \in 1..q
      BY <1>19, <2>4
    <3>2. j - u \in 1..c /\ s[j] = all[order[j - u]] /\ order[j - u] \in 1..q
      BY <1>19, <2>4
    <3>3. PAGE_SECTIONS[order[i - u]] = PAGE_SECTIONS[order[j - u]]
      BY <1>9, <1>22, <3>1, <3>2
    <3>4. order[i - u] = order[j - u]
      BY <1>2, <3>1, <3>2, <3>3, BuiltIns
    <3>5. i - u = j - u
      BY <1>14, <3>1, <3>2, <3>4
    <3> QED
      BY <1>16, <3>5
  <2> QED
    BY <2>1, <2>2, <2>3, <2>4
<1>23. StoredAll(u + c, s)
  <2>1. Cardinality(BlocksOf(s)) \in 0..MAX_CUSTOM_BLOCKS
    BY <1>1, <1>4, <1>20 DEF StoredAll
  <2>2. u + c \in Nat
    BY <1>14, <1>16
  <2> QED
    BY <1>18, <1>21, <1>22, <2>1, <2>2 DEF StoredAll
<1>24. Covers(u + c, s)
  <2> SUFFICES ASSUME NEW i \in 1..q PROVE \E a \in 1..(u + c) : s[a].id = PAGE_SECTIONS[i]
    BY <1>2, BuiltIns DEF Covers
  <2>1. CASE i \in left
    <3>1. PICK k \in 1..c : order[k] = i
      BY <1>14, <2>1
    <3>2. u + k \in 1..(u + c) /\ u + k - u = k /\ ~(u + k <= u)
      BY <1>14, <1>16
    <3>3. s[u + k] = all[i]
      <4>1. PICK a : a = u + k
        OBVIOUS
      <4>2. s[a] = rest[a - u]
        BY <1>17, <3>2, <4>1
      <4>3. a - u = k
        BY <1>16, <4>1
      <4>4. s[a] = rest[k] /\ rest[k] = all[order[k]]
        BY <1>15, <4>2, <4>3
      <4> QED
        BY <3>1, <4>1, <4>4
    <3> QED
      BY <1>9, <3>2, <3>3
  <2>2. CASE i \notin left
    <3>1. PICK j \in 1..u : sec[j].id = PAGE_SECTIONS[i]
      BY <1>11, <2>2
    <3>2. j \in 1..(u + c)
      BY <1>14, <1>16
    <3>3. s[j] = sec[j]
      BY <1>19, <3>2
    <3> QED
      BY <3>1, <3>2, <3>3
  <2> QED
    BY <2>1, <2>2
<1>25. ASSUME NEW i \in 1..(u + c)
       PROVE  \/ s[i].type \in ToSet(PAGE_SECTIONS)
              \/ \E j \in 1..n : entries[j].id = s[i].id /\ KindOf(entries[j]) = s[i].type
  BY <1>1, <1>4, <1>8, <1>9, <1>19
<1>26. PICK l : l = u + c
  OBVIOUS
<1>27. /\ StoredAll(l, s) /\ Covers(l, s)
       /\ \A i \in 1..l : \/ s[i].type \in ToSet(PAGE_SECTIONS)
                          \/ \E j \in 1..n : entries[j].id = s[i].id /\ KindOf(entries[j]) = s[i].type
  BY <1>23, <1>24, <1>25, <1>26
<1> QED
  BY <1>5, <1>27

\* A section that is stored is taken as it is.
LEMMA TakenAgain ==
    ASSUME Apart(Refusal), NEW d, d # Refusal, NEW x, Stored(x), x.id \notin d.seen,
           x.type \in PAGE_BLOCK_TYPES => d.blocks # MAX_CUSTOM_BLOCKS
    PROVE  takeEntry(d, x) = [sections |-> Append(d.sections, x), seen |-> d.seen \cup {x.id},
                              blocks |-> d.blocks + (IF x.type \in PAGE_BLOCK_TYPES THEN 1 ELSE 0)]
<1>1. KindOf(x) = x.type
  <2>1. x = [id |-> x.id, type |-> x.type, enabled |-> x.enabled, data |-> x.data]
    BY DEF Stored
  <2>2. "type" \in DOMAIN x
    BY <2>1
  <2> QED
    BY <2>2 DEF KindOf
<1> DEFINE builtin == x.type \in ToSet(PAGE_SECTIONS)
           block == [id |-> x.id, type |-> x.type, enabled |-> x.enabled,
                     data |-> IF builtin THEN <<>> ELSE parseBlockData(x.type, x.data)]
           skips == \/ d = Refusal
                    \/ x.id \in {"wrong"} \cup d.seen
                    \/ builtin /\ x.id # x.type
                    \/ ~builtin /\ x.type \notin PAGE_BLOCK_TYPES
           refuses == \/ ~builtin /\ (x.id = "bad id" \/ d.blocks = MAX_CUSTOM_BLOCKS)
                      \/ block.data = Refusal
<1>2. takeEntry(d, x) = IF skips THEN d ELSE IF refuses THEN Refusal
                        ELSE [sections |-> Append(d.sections, block),
                              seen     |-> d.seen \cup {x.id},
                              blocks   |-> d.blocks + (IF builtin THEN 0 ELSE 1)]
  BY <1>1 DEF takeEntry
<1>3. builtin <=> x.type \notin PAGE_BLOCK_TYPES
  BY BuiltIns DEF Stored
<1>4. <<>> # Refusal
  <2>1. <<>> = [i \in {} |-> 0]
    OBVIOUS
  <2> QED
    BY <2>1 DEF Apart, NoFunction
<1>5. (IF builtin THEN <<>> ELSE parseBlockData(x.type, x.data)) = x.data /\ x.data # Refusal
  BY <1>3, <1>4 DEF Stored
<1>6. block = x /\ block.data = x.data
  <2>1. x = [id |-> x.id, type |-> x.type, enabled |-> x.enabled, data |-> x.data]
    BY DEF Stored
  <2>2. block = [id |-> x.id, type |-> x.type, enabled |-> x.enabled, data |-> x.data]
    BY <1>5
  <2> QED
    BY <2>1, <2>2
<1>7. ~skips
  BY <1>3 DEF Stored
<1>8. ~refuses
  <2> HIDE DEF block
  <2> QED
    BY <1>3, <1>5, <1>6 DEF Stored
<1> HIDE DEF block, skips, refuses
<1>9. takeEntry(d, x) = [sections |-> Append(d.sections, x), seen |-> d.seen \cup {x.id},
                         blocks |-> d.blocks + (IF builtin THEN 0 ELSE 1)]
  BY <1>2, <1>6, <1>7, <1>8
<1> QED
  BY <1>3, <1>9

\* The first k sections of those that are stored, as the parser has taken them.
TakenFirst(seq, k) ==
    [sections |-> [i \in 1..k |-> seq[i]], seen |-> {seq[i].id : i \in 1..k},
     blocks |-> Cardinality({i \in 1..k : seq[i].type \in PAGE_BLOCK_TYPES})]

LEMMA TakesFirst ==
    ASSUME Apart(Refusal), NEW m, NEW seq, StoredAll(m, seq), NEW k \in Nat, k + 1 <= m
    PROVE  takeEntry(TakenFirst(seq, k), seq[k + 1]) = TakenFirst(seq, k + 1)
<1>1. m \in Nat /\ seq = [i \in 1..m |-> seq[i]] /\ DOMAIN seq = 1..m /\ k + 1 \in 1..m /\ k \in 0..m
  BY LengthOf DEF StoredAll
<1>2. PICK d : d = TakenFirst(seq, k)
  OBVIOUS
<1>3. PICK x : x = seq[k + 1]
  OBVIOUS
<1> DEFINE blocks(j) == {i \in 1..j : seq[i].type \in PAGE_BLOCK_TYPES}
<1>4. /\ d.sections = [i \in 1..k |-> seq[i]] /\ d.seen = {seq[i].id : i \in 1..k}
      /\ d.blocks = Cardinality(blocks(k)) /\ d # Refusal
  <2>1. d = [sections |-> d.sections, seen |-> d.seen, blocks |-> d.blocks]
    BY <1>2 DEF TakenFirst
  <2>2. d # Refusal
    BY <2>1 DEF Apart, NoFunction
  <2> QED
    BY <1>2, <2>2 DEF TakenFirst
<1>5. Stored(x)
  BY <1>1, <1>3 DEF StoredAll
<1>6. x.id \notin d.seen
  <2>1. \A i \in 1..k : seq[i].id # seq[k + 1].id
    <3>1. \A i \in 1..k : i \in 1..m /\ i # k + 1
      BY <1>1
    <3>2. \A i, j \in 1..m : seq[i].id = seq[j].id => i = j
      BY DEF StoredAll
    <3> QED
      BY <1>1, <3>1, <3>2
  <2> QED
    BY <1>3, <1>4, <2>1
<1>7. /\ IsFiniteSet(blocks(k)) /\ Cardinality(blocks(k)) \in Nat /\ k + 1 \notin blocks(k)
      /\ blocks(k + 1) = blocks(k) \cup (IF x.type \in PAGE_BLOCK_TYPES THEN {k + 1} ELSE {})
  <2>1. IsFiniteSet(1..k) /\ blocks(k) \subseteq 1..k
    BY FS_Interval
  <2>2. IsFiniteSet(blocks(k))
    BY <2>1, FS_Subset
  <2>3. Cardinality(blocks(k)) \in Nat
    BY <2>2, FS_CardinalityType
  <2>4. 1..(k + 1) = 1..k \cup {k + 1} /\ k + 1 \notin 1..k
    OBVIOUS
  <2>5. blocks(k + 1) = blocks(k) \cup (IF x.type \in PAGE_BLOCK_TYPES THEN {k + 1} ELSE {})
    BY <1>3, <2>4
  <2> QED
    BY <2>1, <2>2, <2>3, <2>4, <2>5
<1>8. x.type \in PAGE_BLOCK_TYPES => d.blocks # MAX_CUSTOM_BLOCKS
  <2> SUFFICES ASSUME x.type \in PAGE_BLOCK_TYPES PROVE Cardinality(blocks(k)) # MAX_CUSTOM_BLOCKS
    BY <1>4
  <2>1. Cardinality(BlocksOf(seq)) \in 0..MAX_CUSTOM_BLOCKS /\ MAX_CUSTOM_BLOCKS \in Nat
    BY BuiltIns DEF StoredAll
  <2>2. blocks(k) \cup {k + 1} \subseteq BlocksOf(seq)
    <3>1. k + 1 \in BlocksOf(seq)
      BY <1>1, <1>3 DEF BlocksOf
    <3>2. 1..k \subseteq 1..m
      BY <1>1
    <3>3. blocks(k) \subseteq BlocksOf(seq)
      BY <1>1, <3>2 DEF BlocksOf
    <3> QED
      BY <3>1, <3>3
  <2>3. IsFiniteSet(BlocksOf(seq))
    <3>1. BlocksOf(seq) \subseteq 1..m
      BY <1>1 DEF BlocksOf
    <3>2. IsFiniteSet(1..m)
      <4>1. 1 \in Int /\ m \in Int
        BY <1>1
      <4> QED
        BY <4>1, FS_Interval
    <3> QED
      BY <3>1, <3>2, FS_Subset
  <2>4. Cardinality(blocks(k) \cup {k + 1}) = Cardinality(blocks(k)) + 1
    BY <1>7, FS_AddElement
  <2>5. Cardinality(blocks(k) \cup {k + 1}) <= Cardinality(BlocksOf(seq))
    BY <2>2, <2>3, FS_Subset
  <2> HIDE DEF blocks
  <2> QED
    BY <1>7, <2>1, <2>4, <2>5
<1>9. takeEntry(d, x) = [sections |-> Append(d.sections, x), seen |-> d.seen \cup {x.id},
                         blocks |-> d.blocks + (IF x.type \in PAGE_BLOCK_TYPES THEN 1 ELSE 0)]
  BY <1>4, <1>5, <1>6, <1>8, TakenAgain
<1>10. Append(d.sections, x) = [i \in 1..(k + 1) |-> seq[i]]
  <2>1. PICK first : first = d.sections
    OBVIOUS
  <2>2. first = [i \in 1..k |-> seq[i]] /\ first = [i \in 1..k |-> first[i]]
    BY <1>4, <2>1
  <2>3. Append(first, x) = [i \in 1..(k + 1) |-> IF i = k + 1 THEN x ELSE first[i]]
    BY <2>2, Appended
  <2>4. ASSUME NEW i \in 1..(k + 1) PROVE (IF i = k + 1 THEN x ELSE first[i]) = seq[i]
    <3>1. i = k + 1 \/ i \in 1..k
      OBVIOUS
    <3> QED
      BY <1>3, <2>2, <3>1
  <2> QED
    BY <2>1, <2>3, <2>4
<1>11. d.seen \cup {x.id} = {seq[i].id : i \in 1..(k + 1)}
  <2>1. 1..(k + 1) = 1..k \cup {k + 1}
    OBVIOUS
  <2> QED
    BY <1>3, <1>4, <2>1
<1>12. d.blocks + (IF x.type \in PAGE_BLOCK_TYPES THEN 1 ELSE 0) = Cardinality(blocks(k + 1))
  <2>1. PICK b : b = blocks(k)
    OBVIOUS
  <2>2. Cardinality(b \cup {k + 1}) = Cardinality(b) + 1 /\ b \cup {} = b /\ Cardinality(b) \in Nat
    <3>1. IsFiniteSet(b) /\ k + 1 \notin b /\ Cardinality(b) \in Nat
      BY <1>7, <2>1
    <3> QED
      BY <3>1, FS_AddElement
  <2>3. CASE x.type \in PAGE_BLOCK_TYPES
    BY <1>4, <1>7, <2>1, <2>2, <2>3
  <2>4. CASE x.type \notin PAGE_BLOCK_TYPES
    <3>1. blocks(k + 1) = b
      BY <1>7, <2>1, <2>2, <2>4
    <3>2. d.blocks = Cardinality(b) /\ Cardinality(b) + 0 = Cardinality(b)
      BY <1>4, <2>1, <2>2
    <3> HIDE DEF blocks
    <3> QED
      BY <2>4, <3>1, <3>2
  <2> QED
    BY <2>3, <2>4
<1>13. TakenFirst(seq, k + 1) = [sections |-> [i \in 1..(k + 1) |-> seq[i]], seen |-> {seq[i].id : i \in 1..(k + 1)},
                                blocks |-> Cardinality(blocks(k + 1))]
  BY DEF TakenFirst
<1> HIDE DEF blocks
<1> QED
  BY <1>2, <1>3, <1>9, <1>10, <1>11, <1>12, <1>13

\* Sections as they are stored are read back as they are.
LEMMA ReadBack ==
    ASSUME Apart(Refusal), NEW m, NEW seq, StoredAll(m, seq), Covers(m, seq)
    PROVE  parseSections(seq) = seq
<1>1. m \in Nat /\ seq = [i \in 1..m |-> seq[i]] /\ DOMAIN seq = 1..m
  BY LengthOf DEF StoredAll
<1>2. PICK h : Steps(m, seq, h) /\ parseSections(seq) = Finished(h[m])
  BY <1>1, SectionsAreSteps
<1> DEFINE Upto == {k \in Nat : k <= m => h[k] = TakenFirst(seq, k)}
<1>3. 0 \in Upto
  <2>1. 1..0 = {} /\ {i \in {} : seq[i].type \in PAGE_BLOCK_TYPES} = {} /\ Cardinality({}) = 0
    BY FS_EmptySet
  <2>2. {i \in 1..0 : seq[i].type \in PAGE_BLOCK_TYPES} = {} /\ {seq[i].id : i \in 1..0} = {}
        /\ [i \in 1..0 |-> seq[i]] = <<>>
    BY <2>1
  <2>3. TakenFirst(seq, 0) = Nothing
    BY <2>1, <2>2 DEF TakenFirst, Nothing
  <2> QED
    BY <1>2, <2>3 DEF Steps
<1>4. ASSUME NEW k \in Upto PROVE k + 1 \in Upto
  <2>1. k \in Nat
    OBVIOUS
  <2>2. CASE k + 1 <= m
    <3>1. k + 1 \in 1..m /\ k + 1 - 1 = k /\ k <= m
      BY <1>1, <2>1, <2>2
    <3>2. h[k + 1] = takeEntry(h[k], seq[k + 1]) /\ h[k] = TakenFirst(seq, k)
      BY <1>2, <3>1 DEF Steps
    <3>3. h[k + 1] = TakenFirst(seq, k + 1)
      BY <2>1, <2>2, <3>2, TakesFirst
    <3> QED
      BY <2>1, <3>3
  <2>3. CASE ~(k + 1 <= m)
    BY <2>1, <2>3
  <2> QED
    BY <2>2, <2>3
<1>5. h[m] = TakenFirst(seq, m)
  <2>1. Upto \subseteq Nat
    OBVIOUS
  <2>2. m \in Upto
    <3> HIDE DEF Upto
    <3> QED
      BY <1>1, <1>3, <1>4, <2>1, Induct
  <2> QED
    BY <1>1, <2>2
<1>6. PICK d : d = h[m]
  OBVIOUS
<1>7. d.sections = seq /\ d.seen = {seq[i].id : i \in 1..m} /\ d # Refusal
  <2>1. d = [sections |-> d.sections, seen |-> d.seen, blocks |-> d.blocks]
    BY <1>5, <1>6 DEF TakenFirst
  <2> QED
    BY <1>1, <1>5, <1>6, <2>1 DEF TakenFirst, Apart, NoFunction
<1>8. {i \in DOMAIN PAGE_SECTIONS : PAGE_SECTIONS[i] \notin d.seen} = {}
  <2> SUFFICES ASSUME NEW i \in DOMAIN PAGE_SECTIONS PROVE PAGE_SECTIONS[i] \in d.seen
    OBVIOUS
  <2>1. PAGE_SECTIONS[i] \in ToSet(PAGE_SECTIONS)
    BY BuiltIns
  <2> QED
    BY <1>7, <2>1 DEF Covers
<1>9. Picked([i \in DOMAIN PAGE_SECTIONS |-> Section(PAGE_SECTIONS[i])], {}) = <<>>
  <2>1. PICK all : all = [i \in DOMAIN PAGE_SECTIONS |-> Section(PAGE_SECTIONS[i])]
    OBVIOUS
  <2>2. PICK q \in Nat : DOMAIN PAGE_SECTIONS = 1..q
    BY BuiltIns
  <2>3. DOMAIN all = 1..q /\ {} \in SUBSET (1..q)
    BY <2>1, <2>2
  <2>4. PICK c, order : Picks(q, all, {}, c, order)
    BY <2>3, PickedIs
  <2>5. c \in Nat /\ order \in [1..c -> {}] /\ Picked(all, {}) = [k \in 1..c |-> all[order[k]]]
    BY <2>4 DEF Picks
  <2>6. c = 0
    <3>1. 1 \notin 1..c
      BY <2>5
    <3> QED
      BY <2>5, <3>1
  <2> QED
    BY <2>1, <2>5, <2>6
<1>10. Finished(d) = d.sections \o <<>>
  BY <1>7, <1>8, <1>9 DEF Finished
<1>11. seq \o <<>> = seq
  <2>1. PICK S : S = {seq[i] : i \in 1..m}
    OBVIOUS
  <2>2. seq \in [1..m -> S]
    BY <1>1, <2>1
  <2>3. seq \in Seq(S)
    BY <1>1, <2>2
  <2> QED
    BY <2>3, ConcatEmptySeq
<1> QED
  BY <1>2, <1>6, <1>7, <1>10, <1>11

\* A page's document as it may be sent.
Document(n, entries) ==
    n \in Nat /\ DOMAIN entries = 1..n /\ \A i \in 1..n : Entry(entries[i])

LEMMA SectionsStored ==
    ASSUME Apart(Refusal), NEW n, NEW entries, Document(n, entries), parseSections(entries) # Refusal
    PROVE  \E m : /\ StoredAll(m, parseSections(entries)) /\ Covers(m, parseSections(entries))
                  /\ \A i \in 1..m : \/ parseSections(entries)[i].type \in ToSet(PAGE_SECTIONS)
                                     \/ \E j \in 1..n : /\ entries[j].id = parseSections(entries)[i].id
                                                        /\ KindOf(entries[j]) = parseSections(entries)[i].type
<1>1. n \in Nat /\ DOMAIN entries = 1..n /\ \A i \in 1..n : Entry(entries[i])
  BY DEF Document
<1>2. PICK h : Steps(n, entries, h) /\ parseSections(entries) = Finished(h[n])
  BY <1>1, SectionsAreSteps
<1>3. h[n] # Refusal
  BY <1>2 DEF Finished
<1>4. PICK d : d = h[n]
  OBVIOUS
<1>5. Holding(d, n, entries)
  BY <1>1, <1>2, <1>3, <1>4, StepsHold
<1> QED
  BY <1>1, <1>2, <1>4, <1>5, FinishedCovers

\* page-design.ts: no sequence of entries loses a built-in section (unless a block took its
\* name), doubles one or passes the limit, and what is stored is read back as it was, in its
\* order; for any number of entries, of any names and types.
THEOREM SectionsRight ==
    ASSUME Apart(Refusal), NEW n, NEW entries, Document(n, entries)
    PROVE  SectionsSurvive(entries)
<1>1. PICK s : s = parseSections(entries)
  OBVIOUS
<1> SUFFICES ASSUME s # Refusal
             PROVE  /\ \A i, j \in DOMAIN s : s[i].id = s[j].id => i = j
                    /\ \A id \in ToSet(PAGE_SECTIONS) :
                          \/ \E i \in DOMAIN s : s[i] \in {[Section(id) EXCEPT !.enabled = e] : e \in BOOLEAN}
                          \/ \E i \in DOMAIN entries : entries[i].id = id /\ TakesName(entries[i])
                    /\ Cardinality({i \in DOMAIN s : s[i].type \in PAGE_BLOCK_TYPES}) <= MAX_CUSTOM_BLOCKS
                    /\ parseSections(s) = s
  BY <1>1 DEF SectionsSurvive
<1>2. PICK m : /\ StoredAll(m, s) /\ Covers(m, s)
               /\ \A i \in 1..m : \/ s[i].type \in ToSet(PAGE_SECTIONS)
                                  \/ \E j \in 1..n : entries[j].id = s[i].id /\ KindOf(entries[j]) = s[i].type
  BY <1>1, SectionsStored
<1>3. m \in Nat /\ DOMAIN s = 1..m /\ DOMAIN entries = 1..n
  BY <1>2, LengthOf DEF StoredAll, Document
<1>4. \A i, j \in DOMAIN s : s[i].id = s[j].id => i = j
  BY <1>2, <1>3 DEF StoredAll
<1>5. ASSUME NEW id \in ToSet(PAGE_SECTIONS)
      PROVE  \/ \E i \in DOMAIN s : s[i] \in {[Section(id) EXCEPT !.enabled = e] : e \in BOOLEAN}
             \/ \E i \in DOMAIN entries : entries[i].id = id /\ TakesName(entries[i])
  <2>1. PICK i \in 1..m : s[i].id = id
    BY <1>2 DEF Covers
  <2>2. Stored(s[i])
    BY <1>2 DEF StoredAll
  <2>3. PICK x : x = s[i]
    OBVIOUS
  <2>4. CASE x.type \in ToSet(PAGE_SECTIONS)
    <3>1. x = [id |-> id, type |-> id, enabled |-> x.enabled, data |-> <<>>] /\ x.enabled \in BOOLEAN
      <4>1. x.id = x.type /\ x.data = <<>> /\ x.id = id
        BY <2>1, <2>2, <2>3, <2>4, BuiltIns DEF Stored
      <4> QED
        BY <2>2, <2>3, <4>1 DEF Stored
    <3>2. x = [Section(id) EXCEPT !.enabled = x.enabled]
      BY <3>1 DEF Section
    <3> QED
      BY <1>3, <2>3, <3>1, <3>2
  <2>5. CASE x.type \notin ToSet(PAGE_SECTIONS)
    <3>1. x.type \in PAGE_BLOCK_TYPES
      BY <2>2, <2>3, <2>5 DEF Stored
    <3>2. PICK j \in 1..n : entries[j].id = s[i].id /\ KindOf(entries[j]) = s[i].type
      BY <1>2, <2>3, <2>5
    <3>3. TakesName(entries[j])
      BY <2>1, <2>3, <3>1, <3>2 DEF TakesName
    <3> QED
      BY <1>3, <2>1, <3>2, <3>3
  <2> QED
    BY <2>4, <2>5
<1>6. Cardinality({i \in DOMAIN s : s[i].type \in PAGE_BLOCK_TYPES}) <= MAX_CUSTOM_BLOCKS
  BY <1>2, BuiltIns DEF StoredAll, BlocksOf
<1>7. parseSections(s) = s
  BY <1>2, ReadBack
<1> QED
  BY <1>4, <1>5, <1>6, <1>7

(***************************************************************************)
(* A design.                                                               *)
(***************************************************************************)

\* Testimonials as they may be sent, and as they are kept.
Praises(n, praises) ==
    /\ n \in Nat /\ praises = [i \in 1..n |-> praises[i]]
    /\ \A i \in 1..n : praises[i].text \in TextValue /\ praises[i].author \in TextValue

LEMMA PraisesSettle ==
    ASSUME Apart(Refusal), NEW n, NEW praises, Praises(n, praises), parseTestimonials(praises) # Refusal
    PROVE  LET t == parseTestimonials(praises) IN
           /\ Len(t) = Len(praises) /\ Len(t) <= MAX_TESTIMONIALS
           /\ parseTestimonials(t) = t
<1> DEFINE t == parseTestimonials(praises)
           Bad(s) == \E i \in DOMAIN s : \/ s[i].text \in {"absent", "", "blank", "wrong", "long"}
                                         \/ s[i].author = "long"
           Clear(s) == [i \in DOMAIN s |-> [text   |-> s[i].text,
                                            author |-> IF s[i].author = "wrong" THEN ""
                                                       ELSE text(s[i].author)]]
<1>1. \A s : parseTestimonials(s) = IF Len(s) > MAX_TESTIMONIALS \/ Bad(s) THEN Refusal ELSE Clear(s)
  BY DEF parseTestimonials
<1>2. n \in Nat /\ DOMAIN praises = 1..n /\ Len(praises) = n
  BY LengthOf DEF Praises
<1>3. t = Clear(praises) /\ ~(Len(praises) > MAX_TESTIMONIALS) /\ ~Bad(praises)
  BY <1>1
<1> HIDE DEF t
<1>4. t = [i \in 1..n |-> t[i]] /\ DOMAIN t = 1..n
      /\ \A i \in 1..n : t[i] = [text |-> praises[i].text,
                                 author |-> IF praises[i].author = "wrong" THEN "" ELSE text(praises[i].author)]
  BY <1>2, <1>3
<1>5. Len(t) = n
  BY <1>2, <1>4, LengthOf
<1>6. ASSUME NEW i \in 1..n
      PROVE  /\ t[i] = [text |-> t[i].text, author |-> t[i].author]
             /\ t[i].text \notin {"absent", "", "blank", "wrong", "long"}
             /\ t[i].author \in Clean
  <2>1. PICK p : p = praises[i]
    OBVIOUS
  <2>2. PICK x : x = t[i]
    OBVIOUS
  <2>3. PICK a : a = IF p.author = "wrong" THEN "" ELSE text(p.author)
    OBVIOUS
  <2>4. x = [text |-> p.text, author |-> a]
    BY <1>4, <2>1, <2>2, <2>3
  <2>5. p.text \notin {"absent", "", "blank", "wrong", "long"} /\ p.author # "long"
    BY <1>2, <1>3, <2>1
  <2>6. p.author \in TextValue
    BY <2>1 DEF Praises
  <2>7. a \in Clean
    BY <2>3, <2>5, <2>6 DEF text, TextValue, Clean
  <2>8. x = [text |-> x.text, author |-> x.author] /\ x.text = p.text /\ x.author = a
    BY <2>4
  <2> QED
    BY <2>2, <2>5, <2>7, <2>8
<1>7. Clear(t) = t
  <2>1. ASSUME NEW i \in 1..n
        PROVE  [text |-> t[i].text, author |-> IF t[i].author = "wrong" THEN "" ELSE text(t[i].author)] = t[i]
    <3>1. \A a \in Clean : a # "wrong" /\ text(a) = a
      BY DEF text, Clean
    <3>2. (IF t[i].author = "wrong" THEN "" ELSE text(t[i].author)) = t[i].author
      BY <1>6, <3>1
    <3> QED
      BY <1>6, <3>2
  <2> QED
    BY <1>4, <2>1
<1>8. ~Bad(t)
  <2>1. "long" \notin Clean
    BY DEF Clean
  <2> QED
    BY <1>4, <1>6, <2>1
<1>9. ~(Len(t) > MAX_TESTIMONIALS) /\ Len(t) <= MAX_TESTIMONIALS
  <2>1. n \in Nat /\ MAX_TESTIMONIALS \in Nat /\ ~(n > MAX_TESTIMONIALS)
    BY <1>2, <1>3, DesignConstants
  <2> QED
    BY <1>5, <2>1
<1>10. parseTestimonials(t) = t
  <2> HIDE DEF Bad, Clear
  <2> QED
    BY <1>1, <1>7, <1>8, <1>9
<1> QED
  BY <1>2, <1>5, <1>9, <1>10 DEF t

\* A design as it may be sent: any sections, any testimonials, any look and any pictures.
Design(raw) ==
    /\ \E n : Document(n, raw.sections)
    /\ \E n : Praises(n, raw.testimonials)

\* page-design.ts: a design that is stored is served as it was stored, with every testimonial,
\* whatever the design.
THEOREM DesignsSettle ==
    ASSUME Apart(Refusal), NEW raw, Design(raw)
    PROVE  DesignSettles(raw)
<1> DEFINE Parsed(r) == [look         |-> oneOf(r.look),
                         logo         |-> picture(r.logo),
                         sections     |-> parseSections(r.sections),
                         testimonials |-> parseTestimonials(r.testimonials)]
<1>1. ASSUME NEW r
      PROVE  parsePageDesign(r)
               = IF \/ oneOf(r.look) = Refusal \/ picture(r.logo) = Refusal
                    \/ parseSections(r.sections) = Refusal \/ parseTestimonials(r.testimonials) = Refusal
                 THEN Refusal ELSE Parsed(r)
  <2>1. parsePageDesign(r) = IF Refuses({Parsed(r)[f] : f \in DOMAIN Parsed(r)}) THEN Refusal ELSE Parsed(r)
    BY DEF parsePageDesign
  <2>2. DOMAIN Parsed(r) = {"look", "logo", "sections", "testimonials"}
    OBVIOUS
  <2>3. /\ Parsed(r).look = oneOf(r.look) /\ Parsed(r).logo = picture(r.logo)
        /\ Parsed(r).sections = parseSections(r.sections)
        /\ Parsed(r).testimonials = parseTestimonials(r.testimonials)
    OBVIOUS
  <2> HIDE DEF Parsed
  <2>4. Refuses({Parsed(r)[f] : f \in DOMAIN Parsed(r)}) <=> \E f \in DOMAIN Parsed(r) : Parsed(r)[f] = Refusal
    BY DEF Refuses
  <2> QED
    BY <2>1, <2>2, <2>3, <2>4
<1>2. PICK d : d = parsePageDesign(raw)
  OBVIOUS
<1> SUFFICES ASSUME d # Refusal
             PROVE  /\ normalizeDesign(d) = d /\ parsePageDesign(d) = d
                    /\ Len(d.testimonials) = Len(raw.testimonials)
                    /\ Len(d.testimonials) <= MAX_TESTIMONIALS
  BY <1>2 DEF DesignSettles
<1>3. /\ oneOf(raw.look) # Refusal /\ picture(raw.logo) # Refusal
      /\ parseSections(raw.sections) # Refusal /\ parseTestimonials(raw.testimonials) # Refusal
      /\ d = Parsed(raw)
  BY <1>1, <1>2
<1>4. /\ d.look = oneOf(raw.look) /\ d.logo = picture(raw.logo)
      /\ d.sections = parseSections(raw.sections) /\ d.testimonials = parseTestimonials(raw.testimonials)
      /\ d = [look |-> d.look, logo |-> d.logo, sections |-> d.sections, testimonials |-> d.testimonials]
  BY <1>3
<1> HIDE DEF Parsed
<1>5. oneOf(d.look) = d.look
  <2>1. \A v : oneOf(v) # Refusal => oneOf(oneOf(v)) = oneOf(v)
    <3> SUFFICES ASSUME NEW v, oneOf(v) # Refusal PROVE oneOf(oneOf(v)) = oneOf(v)
      OBVIOUS
    <3>1. CASE v = "absent"
      BY <3>1 DEF oneOf
    <3>2. CASE v # "absent"
      BY <3>2 DEF oneOf
    <3> QED
      BY <3>1, <3>2
  <2> QED
    BY <1>3, <1>4, <2>1
<1>6. picture(d.logo) = d.logo
  BY <1>4 DEF picture
<1>7. parseSections(d.sections) = d.sections
  <2>1. PICK n : Document(n, raw.sections)
    BY DEF Design
  <2>2. SectionsSurvive(raw.sections)
    BY <2>1, SectionsRight
  <2>3. parseSections(parseSections(raw.sections)) = parseSections(raw.sections)
    BY <1>3, <2>2 DEF SectionsSurvive
  <2> QED
    BY <1>4, <2>3
<1>8. /\ parseTestimonials(d.testimonials) = d.testimonials
      /\ Len(d.testimonials) = Len(raw.testimonials) /\ Len(d.testimonials) <= MAX_TESTIMONIALS
  <2>1. PICK n : Praises(n, raw.testimonials)
    BY DEF Design
  <2> QED
    BY <1>3, <1>4, <2>1, PraisesSettle
<1>9. Parsed(d) = d
  BY <1>4, <1>5, <1>6, <1>7, <1>8 DEF Parsed
<1>10. parsePageDesign(d) = d
  BY <1>1, <1>3, <1>4, <1>5, <1>6, <1>7, <1>8, <1>9
<1> QED
  BY <1>8, <1>10 DEF normalizeDesign

(***************************************************************************)
(* The inputs of MCRules are such as the theorems are about.               *)
(***************************************************************************)

LEMMA TwoAtMost ==
    ASSUME NEW S, NEW seq \in UpTo(2, S)
    PROVE  \E k \in 0..2 : seq \in [1..k -> S] /\ seq = [i \in 1..k |-> seq[i]]
<1>1. PICK k \in 0..2 : seq \in [1..k -> S]
  BY DEF UpTo
<1>2. seq = [i \in 1..k |-> seq[i]]
  BY <1>1
<1> QED
  BY <1>1, <1>2

LEMMA EntryOf == ASSUME NEW e \in Entries PROVE Entry(e)
<1>1. /\ Fields.promo = [title |-> "text", body |-> "text", until |-> "until"]
      /\ Fields.text = [title |-> "text", body |-> "text"]
      /\ PAGE_BLOCK_TYPES = {"hero", "text", "prices", "faq", "team", "promo", "social", "video"}
  BY DEF Fields, PAGE_BLOCK_TYPES
<1>2. CASE e \in [id : ToSet(PAGE_SECTIONS), enabled : BOOLEAN, data : {<<>>}]
  <2>1. KindOf(e) = e.id /\ e.id \in ToSet(PAGE_SECTIONS) /\ e.enabled \in BOOLEAN
    BY <1>2 DEF KindOf
  <2> QED
    BY <2>1, BuiltIns DEF Entry
<1>3. CASE e \in {[id |-> i, type |-> i, enabled |-> TRUE, data |-> <<>>] : i \in ToSet(PAGE_SECTIONS)}
  <2>1. PICK i \in ToSet(PAGE_SECTIONS) : e = [id |-> i, type |-> i, enabled |-> TRUE, data |-> <<>>]
    BY <1>3
  <2>2. KindOf(e) = i /\ e.enabled = TRUE
    BY <2>1 DEF KindOf
  <2> QED
    BY <2>2, BuiltIns DEF Entry
<1>4. CASE e \in [id : {"k1"}, type : {"about"}, enabled : {TRUE}, data : {<<>>}]
  <2>1. KindOf(e) = "about" /\ e.enabled = TRUE
    BY <1>4 DEF KindOf
  <2> QED
    BY <1>1, <2>1 DEF Entry
<1>5. CASE e \in [id : {"k1", "k2", "bad id"}, type : {"promo"}, enabled : {TRUE},
                  data : [title : {"plain"}, until : {"", "date"}]]
  <2>1. KindOf(e) = "promo" /\ e.enabled = TRUE /\ e.data \in [title : {"plain"}, until : {"", "date"}]
    BY <1>5 DEF KindOf
  <2>2. PICK sent : sent = e.data
    OBVIOUS
  <2>3. DOMAIN sent = {"title", "until"} /\ sent.title = "plain" /\ sent.until \in {"", "date"}
    BY <2>1, <2>2
  <2>4. PICK parser : parser = [title |-> "text", body |-> "text", until |-> "until"]
    OBVIOUS
  <2>5. parser["title"] = "text" /\ parser["until"] = "until" /\ Fields["promo"] = parser
    BY <1>1, <2>4
  <2>6. Offered("text", "plain") /\ \A u \in {"", "date"} : Offered("until", u)
    BY DEF Offered, TextValue
  <2>7. BlockData("promo", sent)
    BY <2>3, <2>5, <2>6 DEF BlockData
  <2> QED
    BY <2>1, <2>2, <2>7 DEF Entry
<1>6. CASE e \in [id : {"about"}, type : {"text"}, enabled : {TRUE}, data : [body : {"blank"}]]
  <2>1. KindOf(e) = "text" /\ e.enabled = TRUE /\ e.data \in [body : {"blank"}]
    BY <1>6 DEF KindOf
  <2>2. PICK sent : sent = e.data
    OBVIOUS
  <2>3. DOMAIN sent = {"body"} /\ sent.body = "blank"
    BY <2>1, <2>2
  <2>4. PICK parser : parser = [title |-> "text", body |-> "text"]
    OBVIOUS
  <2>5. parser["body"] = "text" /\ Fields["text"] = parser
    BY <1>1, <2>4
  <2>6. Offered("text", "blank")
    BY DEF Offered, TextValue
  <2>7. BlockData("text", sent)
    BY <2>3, <2>5, <2>6 DEF BlockData
  <2> QED
    BY <2>1, <2>2, <2>7 DEF Entry
<1> QED
  BY <1>2, <1>3, <1>4, <1>5, <1>6 DEF Entries

LEMMA DocumentOf ==
    ASSUME NEW document \in UpTo(2, Entries)
    PROVE  /\ \E n : Document(n, document)
           /\ \A last \in Entries : \E n : Document(n, Append(document, last))
<1>1. PICK k \in 0..2 : document \in [1..k -> Entries] /\ document = [i \in 1..k |-> document[i]]
  BY TwoAtMost
<1>2. \A i \in 1..k : Entry(document[i])
  BY <1>1, EntryOf
<1>3. Document(k, document)
  BY <1>1, <1>2 DEF Document
<1>4. ASSUME NEW last \in Entries PROVE Document(k + 1, Append(document, last))
  <2>1. PICK all : all = Append(document, last)
    OBVIOUS
  <2>2. all = [i \in 1..(k + 1) |-> IF i = k + 1 THEN last ELSE document[i]]
    BY <1>1, <2>1, Appended
  <2>3. ASSUME NEW i \in 1..(k + 1) PROVE Entry(all[i])
    <3>1. i = k + 1 \/ i \in 1..k
      OBVIOUS
    <3>2. Entry(last)
      BY EntryOf
    <3> QED
      BY <1>2, <2>2, <3>1, <3>2
  <2>4. DOMAIN all = 1..(k + 1) /\ k + 1 \in Nat
    BY <2>2
  <2> QED
    BY <2>1, <2>3, <2>4 DEF Document
<1> QED
  BY <1>3, <1>4

LEMMA SectionsOfEntries ==
    ASSUME Apart(Refusal), NEW document \in UpTo(2, Entries)
    PROVE  SectionsSurvive(document) /\ \A last \in Entries : SectionsSurvive(Append(document, last))
<1>1. SectionsSurvive(document)
  <2>1. PICK n : Document(n, document)
    BY DocumentOf
  <2> QED
    BY <2>1, SectionsRight
<1>2. ASSUME NEW last \in Entries PROVE SectionsSurvive(Append(document, last))
  <2>1. PICK n : Document(n, Append(document, last))
    BY DocumentOf
  <2> QED
    BY <2>1, SectionsRight
<1> QED
  BY <1>1, <1>2

LEMMA OfferedOf ==
    ASSUME NEW parser \in {"text", "link", "handle", "until", "items", "priced"}, NEW v \in Values(parser)
    PROVE  Offered(parser, v)
<1>1. CASE parser \notin {"items", "priced"}
  BY <1>1 DEF Values, Offered
<1>2. CASE parser \in {"items", "priced"}
  <2> DEFINE SentRow == [name : {"absent", "blank", "plain"}, price : {"plain", "long", "absent"}]
  <2>1. v \in [is : {"absent", "wrong"}] \/ \E rows \in UpTo(2, SentRow) : v = List(rows)
    BY <1>2 DEF Values
  <2>2. ASSUME v \in [is : {"absent", "wrong"}] PROVE Listing(v)
    BY <2>2 DEF Listing
  <2>3. ASSUME NEW rows \in UpTo(2, SentRow), v = List(rows) PROVE Listing(v)
    <3>1. PICK n \in 0..2 : rows \in [1..n -> SentRow] /\ rows = [i \in 1..n |-> rows[i]]
      <4> HIDE DEF SentRow
      <4> QED
        BY TwoAtMost
    <3>2. ASSUME NEW i \in 1..n, NEW f \in DOMAIN rows[i] PROVE rows[i][f] \in TextValue
      <4>1. PICK r : r = rows[i]
        OBVIOUS
      <4>2. r \in SentRow
        BY <3>1, <4>1
      <4>3. DOMAIN r = {"name", "price"} /\ r.name \in TextValue /\ r.price \in TextValue
        BY <4>2 DEF TextValue
      <4> QED
        BY <4>1, <4>3
    <3>3. n \in Nat
      OBVIOUS
    <3> QED
      BY <2>3, <3>1, <3>2, <3>3 DEF Listing
  <2> QED
    BY <1>2, <2>1, <2>2, <2>3 DEF Offered
<1> QED
  BY <1>1, <1>2

LEMMA BlocksOfValues ==
    ASSUME Apart(Refusal), NEW kind \in PAGE_BLOCK_TYPES, NEW f \in DOMAIN Fields[kind],
           NEW g \in DOMAIN Fields[kind],
           NEW v \in Values(Fields[kind][f]), NEW w \in Values(Fields[kind][g]),
           NEW data, DOMAIN data = {f, g}, data[f] = v, g # f => data[g] = w
    PROVE  BlockSettles(kind, data)
<1>1. Offered(Fields[kind][f], v) /\ Offered(Fields[kind][g], w)
  <2>1. /\ Fields[kind][f] \in {"text", "link", "handle", "until", "items", "priced"}
        /\ Fields[kind][g] \in {"text", "link", "handle", "until", "items", "priced"}
    BY Parsers
  <2> QED
    BY <2>1, OfferedOf
<1>2. BlockData(kind, data)
  BY <1>1 DEF BlockData
<1> QED
  BY <1>2, BlocksSettle

LEMMA ServicesOfRows ==
    ASSUME Apart(Refusal), NEW row \in Rows, NEW other \in Rows
    PROVE  ServicesKeepIds(<<row, other>>)
<1>1. PICK list : list = <<row, other>>
  OBVIOUS
<1>2. list = [i \in 1..2 |-> list[i]] /\ list[1] = row /\ list[2] = other
  BY <1>1
<1>3. ASSUME NEW r \in Rows
      PROVE  /\ r = [x \in {"id", "name", "detail", "price", "minutes"} |-> r[x]]
             /\ r.name \in TextValue /\ r.detail \in TextValue
  BY DEF Rows, TextValue
<1>4. \A i \in 1..2 : list[i] \in Rows
  BY <1>2
<1>5. Services(2, list)
  BY <1>2, <1>3, <1>4 DEF Services
<1> QED
  BY <1>1, <1>5, ServicesKeep

LEMMA DesignsOfMC == ASSUME Apart(Refusal), NEW raw \in Designs PROVE DesignSettles(raw)
<1> DEFINE Praise == [text : TextValue, author : {"wrong", "blank", "plain", "long"}]
<1>1. raw.sections = <<>> /\ raw.testimonials \in UpTo(2, Praise)
  BY DEF Designs
<1>2. Document(0, raw.sections)
  <2>1. DOMAIN <<>> = 1..0 /\ 1..0 = {} /\ 0 \in Nat
    OBVIOUS
  <2> QED
    BY <1>1, <2>1 DEF Document
<1>3. PICK praises : praises = raw.testimonials
  OBVIOUS
<1>4. PICK n \in 0..2 : praises \in [1..n -> Praise] /\ praises = [i \in 1..n |-> praises[i]]
  <2> HIDE DEF Praise
  <2>1. praises \in UpTo(2, Praise)
    BY <1>1, <1>3
  <2> QED
    BY <2>1, TwoAtMost
<1>5. ASSUME NEW i \in 1..n PROVE praises[i].text \in TextValue /\ praises[i].author \in TextValue
  <2>1. praises[i] \in Praise
    BY <1>4
  <2>2. \A p \in Praise : p.text \in TextValue /\ p.author \in TextValue
    BY DEF TextValue
  <2> HIDE DEF Praise
  <2> QED
    BY <2>1, <2>2
<1>6. Praises(n, praises)
  BY <1>4, <1>5 DEF Praises
<1> QED
  BY <1>2, <1>3, <1>6, DesignsSettle DEF Design

LEMMA TextsOf ==
    ASSUME NEW f \in ProfileField
    PROVE  Texts(f) \subseteq Sendable /\ Besides \subseteq Sendable
<1>1. PICK n : n = ProfileLimit[f]
  OBVIOUS
<1>2. n \in Nat
  BY <1>1, Limits
<1>3. \A a \in Nat, b \in Nat : Text(a, b) \in Sendable
  BY DEF Sendable
<1>4. Undefined \in Sendable /\ Null \in Sendable
  BY DEF Sendable
<1>5. n + 1 \in Nat /\ 0 \in Nat /\ 1 \in Nat /\ 4 \in Nat /\ 5 \in Nat
  BY <1>2
<1>6. /\ Text(0, 0) \in Sendable /\ Text(1, 0) \in Sendable /\ Text(1, 1) \in Sendable
      /\ Text(5, 4) \in Sendable
      /\ Text(n, n) \in Sendable /\ Text(n + 1, n) \in Sendable /\ Text(n + 1, n + 1) \in Sendable
  BY <1>2, <1>3, <1>5
<1>7. Texts(f) = {Undefined, Null, Text(0, 0), Text(1, 0), Text(1, 1)}
                   \cup {Text(n, n), Text(n + 1, n), Text(n + 1, n + 1)}
  BY <1>1 DEF Texts, Empty
<1>8. Besides = {Undefined, Text(5, 4)}
  BY DEF Besides
<1> QED
  BY <1>4, <1>6, <1>7, <1>8

LEMMA RequestOf ==
    ASSUME NEW f \in ProfileField, NEW places, NEW edit \in Edits(f, places),
           places \subseteq {"undefined", "null", "on", "off"} \X {"undefined", "null", "on", "off"}
    PROVE  Request(edit)
<1> DEFINE other == IF f = "bio" THEN "hours" ELSE "bio"
<1>1. PICK v \in Texts(f), b \in Besides, at \in places :
        edit = [NoEdit EXCEPT ![f] = v, ![other] = b, !.latitude = at[1], !.longitude = at[2]]
  <2>1. \E v \in Texts(f), b \in Besides, at \in places : edit = Edit(f, v, b, at)
    BY DEF Edits
  <2> QED
    BY <2>1 DEF Edit
<1>2. at[1] \in {"undefined", "null", "on", "off"} /\ at[2] \in {"undefined", "null", "on", "off"}
  OBVIOUS
<1>3. v \in Sendable /\ b \in Sendable /\ Undefined \in Sendable
  BY TextsOf DEF Sendable
<1>4. other \in ProfileField
  BY DEF ProfileField
<1>5. NoEdit = [x \in PageField |-> IF x \in Coordinate THEN "undefined" ELSE Undefined]
      /\ DOMAIN NoEdit = PageField
  BY DEF NoEdit
<1>6. f \in PageField /\ other \in PageField /\ "latitude" \in PageField /\ "longitude" \in PageField
      /\ f \notin Coordinate /\ other \notin Coordinate
  BY <1>4 DEF PageField, ProfileField, Coordinate
<1>7. DOMAIN edit = PageField
  BY <1>1, <1>5
<1> HIDE DEF other
<1>8. edit.latitude = at[1] /\ edit.longitude = at[2]
  BY <1>1, <1>5, <1>6
<1>9. ASSUME NEW x \in ProfileField PROVE edit[x] \in Sendable
  <2>1. x \in PageField /\ x \notin Coordinate /\ x # "latitude" /\ x # "longitude"
    BY DEF PageField, ProfileField, Coordinate
  <2>2. edit[x] = IF x = other THEN b ELSE IF x = f THEN v ELSE Undefined
    BY <1>1, <1>5, <1>6, <2>1
  <2> QED
    BY <1>3, <2>2
<1> QED
  BY <1>2, <1>7, <1>8, <1>9 DEF Request, Coordinate

LEMMA LineOf ==
    ASSUME NEW f \in ProfileField, NEW line \in Pastes(f)
    PROVE  Line(line)
<1>1. PICK v \in OnALine(f), rest \in Elsewhere, known \in BOOLEAN :
        line = [[x \in DOMAIN InvitationLimit \cup {"categoryKnown"} |->
                    CASE x = "categoryKnown" -> known [] x = "businessName" -> Text(4, 4) [] OTHER -> rest]
                 EXCEPT ![f] = v]
  BY DEF Pastes
<1>2. Sendable \subseteq Pasted /\ Wrong \in Pasted /\ Text(4, 4) \in Pasted
      /\ Undefined \in Pasted /\ Text(2, 0) \in Pasted /\ Text(9, 9) \in Pasted
  <2>1. \A a \in Nat, b \in Nat : Text(a, b) \in Pasted
    BY DEF Pasted
  <2>2. 0 \in Nat /\ 2 \in Nat /\ 4 \in Nat /\ 9 \in Nat
    OBVIOUS
  <2>3. Sendable \subseteq Pasted
    BY DEF Pasted, Sendable
  <2>4. Wrong \in Pasted /\ Undefined \in Pasted
    BY DEF Pasted
  <2> QED
    BY <2>1, <2>2, <2>3, <2>4
<1>3. v \in Pasted /\ rest \in Pasted
  BY <1>2, TextsOf DEF OnALine, Elsewhere
<1>4. DOMAIN InvitationLimit = {"businessName", "publicAddress", "whatsapp", "hours", "bio", "note"}
  BY DEF InvitationLimit
<1>5. ASSUME NEW x \in DOMAIN InvitationLimit
      PROVE  line[x] = IF x = f THEN v ELSE IF x = "businessName" THEN Text(4, 4) ELSE rest
  <2>1. x # "categoryKnown"
    BY <1>4
  <2> QED
    BY <1>1, <2>1
<1> QED
  BY <1>2, <1>3, <1>5 DEF Line

LEMMA FieldsOfEdits ==
    ASSUME NoFunction(No), NEW f \in ProfileField
    PROVE  /\ \A a \in Edits(f, Somewhere), b \in Edits(f, Anywhere) : EditsKeepFields(a, b)
           /\ \A line \in Pastes(f), edit \in Edits(f, Somewhere) : PreparedPageFits(line, edit)
           /\ \A a, b \in Pastes(f) : BatchIsWhole(<<a, b>>) /\ BatchIsWhole(<<a, b, a>>)
<1> DEFINE All == {"undefined", "null", "on", "off"} \X {"undefined", "null", "on", "off"}
<1>1. Somewhere \subseteq All /\ Anywhere \subseteq All
  BY DEF Somewhere, Anywhere
<1> HIDE DEF All
<1>2. \A a \in Edits(f, Somewhere) : Request(a)
  BY <1>1, RequestOf DEF All
<1>3. \A b \in Edits(f, Anywhere) : Request(b)
  BY <1>1, RequestOf DEF All
<1>4. \A line \in Pastes(f) : Line(line)
  BY LineOf
<1>5. \A a, b : BatchIsWhole(<<a, b>>) /\ BatchIsWhole(<<a, b, a>>)
  <2> SUFFICES ASSUME NEW a, NEW b PROVE BatchIsWhole(<<a, b>>) /\ BatchIsWhole(<<a, b, a>>)
    OBVIOUS
  <2>1. PICK two : two = <<a, b>>
    OBVIOUS
  <2>2. PICK three : three = <<a, b, a>>
    OBVIOUS
  <2>3. two = [i \in 1..2 |-> two[i]]
    BY <2>1
  <2>4. three = [i \in 1..3 |-> three[i]]
    BY <2>2
  <2>5. 2 \in Nat /\ 3 \in Nat
    OBVIOUS
  <2>6. BatchIsWhole(two)
    BY <2>3, <2>5, BatchWhole
  <2>7. BatchIsWhole(three)
    BY <2>4, <2>5, BatchWhole
  <2> QED
    BY <2>1, <2>2, <2>6, <2>7
<1>6. \A a \in Edits(f, Somewhere), b \in Edits(f, Anywhere) : EditsKeepFields(a, b)
  BY <1>2, <1>3, EditsKeep
<1>7. \A line \in Pastes(f), edit \in Edits(f, Somewhere) : PreparedPageFits(line, edit)
  BY <1>2, <1>4, PreparedFits
<1> QED
  BY <1>5, <1>6, <1>7

LEMMA FacesOf ==
    ASSUME NEW v \in Verifications, NEW world \in World, NEW answer \in Answers
    PROVE  FaceMatchAdvises(v, world, answer)
<1>1. Verification(v)
  <2>1. PICK match : match = v.match
    OBVIOUS
  <2>2. v \in [status : {"pending", "verified", "rejected"}, selfie : StoredPhoto,
               idDocument : StoredPhoto, match : {match}]
    BY <2>1 DEF Verifications
  <2> QED
    BY <2>2 DEF Verification
<1>2. ServiceAnswer(answer)
  <2> DEFINE S == {0, 6994, 6995, 9980}
  <2>1. \/ \E scores \in UpTo(2, S), n \in 0..1 : answer = Faces(scores, n)
        \/ \E name : answer = Fails(name)
    BY DEF Answers
  <2>2. ASSUME NEW scores \in UpTo(2, S) PROVE scores \in Seq(Int)
    <3>1. S \subseteq Int
      OBVIOUS
    <3> HIDE DEF S
    <3>2. PICK k \in 0..2 : scores \in [1..k -> S]
      BY TwoAtMost
    <3>3. \A s \in S : s \in Int
      BY <3>1
    <3>4. \A i \in 1..k : scores[i] \in Int
      BY <3>2, <3>3
    <3>5. scores \in [1..k -> Int] /\ k \in Nat
      BY <3>2, <3>4
    <3> QED
      BY <3>5
  <2>3. \A n \in 0..1 : n \in Nat
    OBVIOUS
  <2> HIDE DEF S
  <2> QED
    BY <2>1, <2>2, <2>3 DEF ServiceAnswer
<1> QED
  BY <1>1, <1>2, FacesAdvise

\* Every input of the run DocumentsSettle is checked over comes to what its rule is to arrive
\* at, whatever the limits and the built-in sections, provided that what stands for a thrown
\* error is no text and no record (page-design.ts, service-catalog.ts,
\* provider-profile.entity.ts, business-invitation.entity.ts, face-match.ts).
THEOREM DocumentsSettleHold ==
    ASSUME Apart(Refusal), NoFunction(No) PROVE RulesSpec => []DocumentsSettle
<1>1. Given => DocumentsSettle
  <2> SUFFICES ASSUME Given PROVE DocumentsSettle
    OBVIOUS
  <2>1. input.rule = "sections" =>
          /\ SectionsSurvive(input.of)
          /\ \A last \in Entries : SectionsSurvive(Append(input.of, last))
    BY InputOf, SectionsOfEntries
  <2>2. input.rule = "block" =>
          \A g \in DOMAIN Fields[input.of[1]] :
             input.of[2] \in DOMAIN Fields[input.of[1]] =>
             \A v \in Values(Fields[input.of[1]][input.of[2]]), w \in Values(Fields[input.of[1]][g]) :
                BlockSettles(input.of[1], [x \in {input.of[2], g} |-> IF x = input.of[2] THEN v ELSE w])
    <3> SUFFICES ASSUME input.rule = "block", NEW g \in DOMAIN Fields[input.of[1]],
                        input.of[2] \in DOMAIN Fields[input.of[1]],
                        NEW v \in Values(Fields[input.of[1]][input.of[2]]),
                        NEW w \in Values(Fields[input.of[1]][g])
                 PROVE  BlockSettles(input.of[1], [x \in {input.of[2], g} |-> IF x = input.of[2] THEN v ELSE w])
      OBVIOUS
    <3>1. input.of[1] \in PAGE_BLOCK_TYPES
      BY InputOf
    <3>2. PICK kind : kind = input.of[1]
      OBVIOUS
    <3>3. PICK f : f = input.of[2]
      OBVIOUS
    <3>4. kind \in PAGE_BLOCK_TYPES /\ f \in DOMAIN Fields[kind] /\ g \in DOMAIN Fields[kind]
          /\ v \in Values(Fields[kind][f]) /\ w \in Values(Fields[kind][g])
      BY <3>1, <3>2, <3>3
    <3>5. PICK data : data = [x \in {f, g} |-> IF x = f THEN v ELSE w]
      OBVIOUS
    <3>6. DOMAIN data = {f, g} /\ data[f] = v /\ (g # f => data[g] = w)
      BY <3>5
    <3>7. BlockSettles(kind, data)
      BY <3>4, <3>6, BlocksOfValues
    <3> QED
      BY <3>2, <3>3, <3>5, <3>7
  <2>3. input.rule = "services" => \A other \in Rows : ServicesKeepIds(<<input.of, other>>)
    BY InputOf, ServicesOfRows
  <2>4. input.rule = "design" => \A raw \in Designs : DesignSettles(raw)
    BY DesignsOfMC
  <2>5. input.rule = "fields" =>
          /\ \A a \in Edits(input.of, Somewhere), b \in Edits(input.of, Anywhere) : EditsKeepFields(a, b)
          /\ \A line \in Pastes(input.of), edit \in Edits(input.of, Somewhere) : PreparedPageFits(line, edit)
          /\ \A a, b \in Pastes(input.of) : BatchIsWhole(<<a, b>>) /\ BatchIsWhole(<<a, b, a>>)
    BY InputOf, FieldsOfEdits
  <2>6. input.rule = "faces" =>
          \A world \in World, answer \in Answers : FaceMatchAdvises(input.of, world, answer)
    BY InputOf, FacesOf
  <2> QED
    BY <2>1, <2>2, <2>3, <2>4, <2>5, <2>6 DEF DocumentsSettle, For
<1> QED
  BY <1>1, AlwaysGiven, PTL
================================================================================
