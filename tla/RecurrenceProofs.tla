-------------------------- MODULE RecurrenceProofs ---------------------------
(***************************************************************************)
(* Proofs about Recurrence: a row whose readings no transition skips keeps *)
(* its wall-clock schedule in any zone, and loses no run ahead of the poll *)
(* in a zone whose transitions come in order.                              *)
(***************************************************************************)
EXTENDS Recurrence, WallClockProofs, OrderLemmas

\* Of some transitions before an instant one is the last.
LEMMA LastTransition ==
  ASSUME NEW T \in SUBSET Zone, T # {}, NEW x \in Int, \A t \in T : t.at <= x
  PROVE  \E t \in T : \A s \in T : s.at <= t.at
<1> DEFINE S == {x - t.at : t \in T}
<1>1. \A t \in T : t.at \in Int /\ x - t.at \in Nat
  BY ZoneAssumption
<1>2. PICK m \in S : \A n \in S : m <= n
  <2>1. S \in SUBSET Nat /\ S # {}
    BY <1>1
  <2> HIDE DEF S
  <2> QED BY <2>1, LeastNumber
<1>3. PICK t \in T : m = x - t.at
  BY <1>2
<1>4. \A s \in T : x - t.at <= x - s.at
  BY <1>2, <1>3
<1> QED BY <1>1, <1>3, <1>4

\* Of some transitions after an instant one is the first.
LEMMA FirstTransition ==
  ASSUME NEW T \in SUBSET Zone, T # {}, NEW x \in Int, \A t \in T : x <= t.at
  PROVE  \E t \in T : \A s \in T : t.at <= s.at
<1> DEFINE S == {t.at - x : t \in T}
<1>1. \A t \in T : t.at \in Int /\ t.at - x \in Nat
  BY ZoneAssumption
<1>2. PICK m \in S : \A n \in S : m <= n
  <2>1. S \in SUBSET Nat /\ S # {}
    BY <1>1
  <2> HIDE DEF S
  <2> QED BY <2>1, LeastNumber
<1>3. PICK t \in T : m = t.at - x
  BY <1>2
<1>4. \A s \in T : t.at - x <= s.at - x
  BY <1>2, <1>3
<1> QED BY <1>1, <1>3, <1>4

\* Clocks change in the order of the instants, by the wall clock, too.
LEMMA WallOrder ==
  ASSUME OrderlyZone, NEW s \in Zone, NEW t \in Zone
  PROVE  /\ WallTakesEffect(s) \in Int /\ s.at \in Int
         /\ s.at + s.before <= WallTakesEffect(s) /\ s.at + s.after <= WallTakesEffect(s)
         /\ WallTakesEffect(s) <= s.at + MaxOffset
         /\ s.at < t.at <=> WallTakesEffect(s) < WallTakesEffect(t)
         /\ s.at <= t.at <=> WallTakesEffect(s) <= WallTakesEffect(t)
         /\ s.at = t.at => s = t
<1>1. /\ MaxOffset \in Nat /\ s.at \in Int /\ t.at \in Int
      /\ s.before \in Offsets /\ s.after \in Offsets /\ t.before \in Offsets /\ t.after \in Offsets
  BY ZoneAssumption
<1>2. s = t \/ s.at + 2 * MaxOffset < t.at \/ t.at + 2 * MaxOffset < s.at
  BY DEF OrderlyZone
<1>3. /\ WallTakesEffect(s) \in Int /\ WallTakesEffect(t) \in Int
      /\ s.at + s.before <= WallTakesEffect(s) /\ s.at + s.after <= WallTakesEffect(s)
      /\ s.at - MaxOffset <= WallTakesEffect(s) /\ WallTakesEffect(s) <= s.at + MaxOffset
      /\ t.at - MaxOffset <= WallTakesEffect(t) /\ WallTakesEffect(t) <= t.at + MaxOffset
  BY <1>1 DEF WallTakesEffect, Offsets
<1> QED BY <1>1, <1>2, <1>3

\* Until a transition takes effect the offset is the one it ends.
LEMMA OffsetBefore ==
  ASSUME OrderlyZone, NEW r \in Zone, NEW latest,
         latest = {t \in Zone : /\ t.at < r.at
                                /\ \A s \in Zone : s.at < r.at => s.at <= t.at}
  PROVE  OffsetAfter(latest) = r.before
<1>1. \A t \in Zone : t.at \in Int
  BY ZoneAssumption
<1>2. CASE latest = {}
  <2>1. ~ \E s \in Zone : s.at < r.at
    <3> SUFFICES ASSUME NEW s \in Zone, s.at < r.at PROVE FALSE
      OBVIOUS
    <3> DEFINE T == {t \in Zone : t.at < r.at}
    <3>1. T \in SUBSET Zone /\ T # {} /\ \A t \in T : t.at <= r.at
      BY <1>1
    <3>2. \E t \in T : \A q \in T : q.at <= t.at
      <4> HIDE DEF T
      <4> QED BY <1>1, <3>1, LastTransition
    <3> QED BY <1>2, <3>2
  <2>2. r.before = BaseOffset
    BY <2>1 DEF OrderlyZone
  <2> QED BY <1>2, <2>2 DEF OffsetAfter
<1>3. CASE latest # {}
  <2> DEFINE t == CHOOSE t \in latest : TRUE
  <2>1. t \in latest
    BY <1>3
  <2> HIDE DEF t
  <2>2. t \in Zone /\ t.at < r.at /\ \A s \in Zone : s.at < r.at => s.at <= t.at
    BY <2>1
  <2>3. ~ \E q \in Zone : t.at < q.at /\ q.at < r.at
    BY <1>1, <2>2
  <2>4. t.after = r.before
    BY <2>2, <2>3 DEF OrderlyZone
  <2> QED BY <1>3, <2>4 DEF OffsetAfter, t
<1> QED BY <1>2, <1>3

\* A reading before the clocks change stands for an instant before, if it exists.
LEMMA BeforeTheChange ==
  ASSUME OrderlyZone, NEW r \in Zone, NEW v \in Int, v < WallTakesEffect(r),
         AsLocal(ToUtc(v)) = v
  PROVE  ToUtc(v) < r.at
<1>1. \A t \in Zone : t.at \in Int /\ WallTakesEffect(t) \in Int /\ MaxOffset \in Nat
                      /\ t.before \in Offsets /\ t.after \in Offsets
  BY WallOrder, ZoneAssumption
<1> DEFINE T == {t \in Zone : v < WallTakesEffect(t)}
<1>2. PICK f \in T : \A s \in T : f.at <= s.at
  <2>1. \A t \in T : v - MaxOffset <= t.at
    <3> TAKE t \in T
    <3>1. WallTakesEffect(t) <= t.at + MaxOffset /\ v < WallTakesEffect(t) /\ t \in Zone
      BY WallOrder
    <3> QED BY <1>1, <3>1
  <2>2. T \in SUBSET Zone /\ T # {} /\ v - MaxOffset \in Int
    BY <1>1
  <2> HIDE DEF T
  <2> QED BY <2>1, <2>2, FirstTransition
<1>3. f \in Zone /\ v < WallTakesEffect(f) /\ f.at <= r.at
  BY <1>2
<1>4. \A s \in Zone : WallTakesEffect(s) <= v <=> s.at < f.at
  <2> TAKE s \in Zone
  <2>1. WallTakesEffect(s) <= v => s.at < f.at
    <3>1. WallTakesEffect(s) <= v => WallTakesEffect(s) < WallTakesEffect(f)
      BY <1>1, <1>3
    <3> QED BY <1>3, <3>1, WallOrder
  <2>2. s.at < f.at => s \notin T
    BY <1>1, <1>2
  <2> QED BY <2>1, <2>2, <1>1
<1>5. \A s, t \in Zone : WallTakesEffect(s) <= WallTakesEffect(t) <=> s.at <= t.at
  BY WallOrder
<1>6. LatestBy(WallTakesEffect, v) = {t \in Zone : /\ t.at < f.at
                                        /\ \A s \in Zone : s.at < f.at => s.at <= t.at}
  BY <1>4, <1>5 DEF LatestBy
<1>7. ToUtc(v) = v - f.before
  BY <1>3, <1>6, OffsetBefore DEF ToUtc, WallOffset
<1>8. ToUtc(v) < f.at
  <2> SUFFICES ASSUME ToUtc(v) >= f.at PROVE FALSE
    BY <1>1, <1>3, <1>7 DEF Offsets
  <2> DEFINE u == ToUtc(v)
  <2>1. u \in Int /\ f.at <= u /\ u < f.at + 2 * MaxOffset /\ f.before # f.after
    BY <1>1, <1>3, <1>7 DEF WallTakesEffect, Offsets
  <2> HIDE DEF u
  <2>2. \A s \in Zone : s.at <= u => s.at <= f.at
    BY <1>1, <1>3, <2>1 DEF OrderlyZone
  <2>3. LatestBy(TakesEffect, u) = {f}
    <3>1. f \in LatestBy(TakesEffect, u)
      BY <1>3, <2>1, <2>2 DEF LatestBy, TakesEffect
    <3>2. ASSUME NEW t \in LatestBy(TakesEffect, u) PROVE t \in Zone /\ t.at = f.at
      <4>1. t \in Zone /\ t.at <= u /\ f.at <= t.at
        BY <1>3, <2>1, <3>2 DEF LatestBy, TakesEffect
      <4> QED BY <1>1, <1>3, <2>2, <4>1
    <3> QED BY <1>3, <3>1, <3>2, WallOrder
  <2>4. UtcOffset(u) = f.after
    BY <2>3 DEF UtcOffset, OffsetAfter
  <2>5. u + f.after = v
    BY <2>4 DEF AsLocal, u
  <2> QED BY <1>1, <1>3, <1>7, <2>1, <2>5 DEF u, Offsets
<1> QED BY <1>1, <1>3, <1>7, <1>8 DEF Offsets

\* A reading after the clocks change stands for an instant after.
LEMMA AfterTheChange ==
  ASSUME OrderlyZone, NEW r \in Zone, NEW w \in Int, WallTakesEffect(r) <= w
  PROVE  r.at <= ToUtc(w)
<1>1. \A t \in Zone : t.at \in Int /\ WallTakesEffect(t) \in Int /\ MaxOffset \in Nat
                      /\ t.before \in Offsets /\ t.after \in Offsets
  BY WallOrder, ZoneAssumption
<1> DEFINE T == {t \in Zone : WallTakesEffect(t) <= w}
<1>2. PICK f \in T : \A s \in T : s.at <= f.at
  <2>1. \A t \in T : t.at <= w + MaxOffset
    <3> TAKE t \in T
    <3>1. t.at - MaxOffset <= WallTakesEffect(t)
      BY <1>1 DEF WallTakesEffect, Offsets
    <3> QED BY <1>1, <3>1
  <2>2. T \in SUBSET Zone /\ T # {} /\ w + MaxOffset \in Int
    BY <1>1
  <2> HIDE DEF T
  <2> QED BY <2>1, <2>2, LastTransition
<1>3. f \in LatestBy(WallTakesEffect, w)
  BY <1>2, WallOrder DEF LatestBy
<1> DEFINE t == CHOOSE t \in LatestBy(WallTakesEffect, w) : TRUE
<1>4. t \in LatestBy(WallTakesEffect, w)
  BY <1>3
<1> HIDE DEF t
<1>5. t \in Zone /\ WallTakesEffect(t) <= w /\ WallTakesEffect(r) <= WallTakesEffect(t)
  BY <1>4 DEF LatestBy
<1>6. ToUtc(w) = w - t.after
  BY <1>3 DEF ToUtc, WallOffset, OffsetAfter, t
<1>7. r.at <= t.at /\ t.at + t.after <= WallTakesEffect(t)
  BY <1>5, WallOrder
<1> QED BY <1>1, <1>5, <1>6, <1>7 DEF Offsets

(***************************************************************************)
(* In an orderly zone, of two readings that exist the earlier one comes    *)
(* first.                                                                  *)
(***************************************************************************)
LEMMA ReadingsInOrder ==
  ASSUME OrderlyZone, NEW v \in Int, NEW w \in Int, v <= w, AsLocal(ToUtc(v)) = v
  PROVE  ToUtc(v) <= ToUtc(w)
<1>1. ToUtc(v) \in Int /\ ToUtc(w) \in Int
  BY ConversionType
<1>2. \A t \in Zone : t.at \in Int /\ WallTakesEffect(t) \in Int
  BY WallOrder
<1>3. CASE \E r \in Zone : v < WallTakesEffect(r) /\ WallTakesEffect(r) <= w
  BY <1>1, <1>2, <1>3, BeforeTheChange, AfterTheChange
<1>4. CASE ~ \E r \in Zone : v < WallTakesEffect(r) /\ WallTakesEffect(r) <= w
  <2>1. \A r \in Zone : WallTakesEffect(r) <= v <=> WallTakesEffect(r) <= w
    <3> TAKE r \in Zone
    <3>1. WallTakesEffect(r) \in Int /\ ~(v < WallTakesEffect(r) /\ WallTakesEffect(r) <= w)
      BY <1>2, <1>4
    <3> QED BY <3>1
  <2>2. LatestBy(WallTakesEffect, v) = LatestBy(WallTakesEffect, w)
    BY <2>1 DEF LatestBy
  <2>3. WallOffset(v) = WallOffset(w) /\ WallOffset(v) \in Offsets
    BY <2>2, OffsetBounds DEF WallOffset
  <2> QED BY <2>3, ZoneAssumption DEF ToUtc, Offsets
<1> QED BY <1>3, <1>4

\* A reading that comes twice stands for the first time (fold = 0).
LEMMA FirstOfTwo ==
  ASSUME OrderlyZone, NEW u \in Int, AsLocal(ToUtc(AsLocal(u))) = AsLocal(u)
  PROVE  ToUtc(AsLocal(u)) <= u
<1> DEFINE w == AsLocal(u)
           x == ToUtc(w)
<1>1. w \in Int /\ x \in Int
  BY ConversionType
<1> SUFFICES ASSUME u < x PROVE FALSE
  BY <1>1
<1>2. \A t \in Zone : t.at \in Int /\ t.before \in Offsets
  BY ZoneAssumption
<1>3. CASE \E r \in Zone : u < r.at /\ r.at <= x
  <2> HIDE DEF w, x
  <2> DEFINE T == {t \in Zone : u < t.at}
  <2>1. PICK f \in T : \A s \in T : f.at <= s.at
    <3>1. T \in SUBSET Zone /\ T # {} /\ \A t \in T : u <= t.at
      BY <1>2, <1>3
    <3> HIDE DEF T
    <3> QED BY <3>1, FirstTransition
  <2>2. f \in Zone /\ u < f.at /\ f.at <= x
    BY <1>1, <1>2, <1>3, <2>1
  <2>3. \A s \in Zone : s.at <= u <=> s.at < f.at
    <3> TAKE s \in Zone
    <3>1. s.at \in Int /\ f.at \in Int /\ (u < s.at => f.at <= s.at)
      BY <1>2, <2>1, <2>2
    <3> QED BY <2>2, <3>1
  <2>4. LatestBy(TakesEffect, u) = {t \in Zone : /\ t.at < f.at
                                       /\ \A s \in Zone : s.at < f.at => s.at <= t.at}
    BY <2>3 DEF LatestBy, TakesEffect
  <2>5. w = u + f.before
    BY <2>2, <2>4, OffsetBefore DEF AsLocal, UtcOffset, w
  <2>6. w < WallTakesEffect(f)
    <3>1. f.at + f.before <= WallTakesEffect(f) /\ WallTakesEffect(f) \in Int
      BY <2>2, WallOrder
    <3> QED BY <1>1, <1>2, <2>2, <2>5, <3>1, ZoneAssumption DEF Offsets
  <2>7. ToUtc(w) < f.at
    BY <1>1, <2>2, <2>6, BeforeTheChange DEF w
  <2> QED BY <1>1, <1>2, <2>2, <2>7 DEF x
<1>4. CASE ~ \E r \in Zone : u < r.at /\ r.at <= x
  <2> HIDE DEF x
  <2>1. \A r \in Zone : r.at <= u <=> r.at <= x
    <3> TAKE r \in Zone
    <3>1. r.at \in Int /\ ~(u < r.at /\ r.at <= x)
      BY <1>2, <1>4
    <3> QED BY <1>1, <3>1
  <2>2. LatestBy(TakesEffect, u) = LatestBy(TakesEffect, x)
    BY <2>1 DEF LatestBy, TakesEffect
  <2>3. AsLocal(x) - x = AsLocal(u) - u
    <3>1. UtcOffset(x) = UtcOffset(u) /\ UtcOffset(u) \in Int
      BY <2>2, OffsetBounds, ZoneAssumption DEF UtcOffset, Offsets
    <3> QED BY <1>1, <3>1 DEF AsLocal
  <2>4. AsLocal(x) = AsLocal(u)
    BY DEF x
  <2> QED BY <1>1, <2>3, <2>4, ConversionType
<1> QED BY <1>3, <1>4

-----------------------------------------------------------------------------

LEMMA Multiples ==
  ASSUME NEW a \in Nat, NEW b \in Nat, NEW e \in Nat \ {0}
  PROVE  /\ a * e \in Nat /\ (a + b) * e = a * e + b * e
         /\ a <= a * e /\ (a <= b => a * e <= b * e) /\ 0 * e = 0
<1>1. a * e \in Nat /\ b * e \in Nat /\ (a + b) * e = a * e + b * e /\ 0 * e = 0
  OBVIOUS
<1>2. \A c \in Nat : c * e >= c
  <2> TAKE c \in Nat
  <2>1. c * (e - 1) \in Nat /\ c * e = c + c * (e - 1)
    OBVIOUS
  <2> QED BY <2>1
<1>3. ASSUME a <= b PROVE a * e <= b * e
  <2>1. (b - a) * e \in Nat /\ b * e = a * e + (b - a) * e
    BY <1>3
  <2> QED BY <1>1, <2>1
<1> QED BY <1>1, <1>2, <1>3

\* The parameters of the row, and the readings it is about.
LEMMA RowFacts ==
  ASSUME RecurrenceInv
  PROVE  /\ now \in Int /\ polled \in Int /\ due \in Int /\ wall \in Int /\ MaxTime \in Nat
         /\ MaxOffset \in Nat /\ every \in Nat \ {OneShot} /\ every \in Nat \ {0}
         /\ \A m \in 0..(MaxTime + 2 * MaxOffset) :
              /\ wall + m * every \in Int /\ wall + m * every \in Readings
              /\ Unskipped => AsLocal(ToUtc(wall + m * every)) = wall + m * every
<1>1. /\ now \in Int /\ polled \in Int /\ due \in Int /\ wall \in Int /\ MaxTime \in Nat
      /\ MaxOffset \in Nat /\ every \in Nat \ {OneShot} /\ every \in Nat \ {0}
  BY RecurrenceAssumption, ZoneAssumption DEF RecurrenceInv, OneShot
<1>2. ASSUME NEW m \in 0..(MaxTime + 2 * MaxOffset)
      PROVE  /\ wall + m * every \in Int /\ wall + m * every \in Readings
             /\ Unskipped => AsLocal(ToUtc(wall + m * every)) = wall + m * every
  <2>1. m * every \in Nat
    BY <1>1, Multiples
  <2>2. wall + m * every \in Readings
    BY DEF Readings
  <2> QED BY <1>1, <2>1, <2>2 DEF Unskipped
<1> QED BY <1>1, <1>2

LEMMA InitRInv == Init => RecurrenceInv
<1> SUFFICES ASSUME Init PROVE RecurrenceInv
  OBVIOUS
<1>1. now = 0 /\ polled = 0 /\ every \in Intervals /\ every \in Nat \ {0}
      /\ MaxTime \in Nat /\ MaxOffset \in Nat
  BY RecurrenceAssumption, ZoneAssumption DEF Init, OneShot
<1>2. PICK request \in Requests :
        Accepted(0, request) /\ due = FirstRun(0, request) /\ wall = AskedReading(request)
  BY DEF Init
<1>3. request \in RequestType /\ request.value \in Int
  BY RecurrenceAssumption DEF RequestType
<1>4. due \in Int /\ due > 0
  BY <1>2, <1>3, AcceptedIsAhead
<1>5. wall \in Int /\ wall > -MaxOffset /\ (AsLocal(due) = wall \/ due = ToUtc(wall))
  <2>1. CASE request.kind = "naive"
    <3>1. due = ToUtc(wall) /\ wall \in Int
      BY <1>2, <1>3, <2>1 DEF FirstRun, AskedReading
    <3>2. wall - ToUtc(wall) \in Offsets
      BY <3>1, ConversionType
    <3> QED BY <1>1, <1>4, <3>1, <3>2 DEF Offsets
  <2>2. CASE request.kind # "naive"
    <3>1. wall = AsLocal(due)
      BY <1>2, <2>2 DEF AskedReading
    <3>2. AsLocal(due) \in Int /\ AsLocal(due) - due \in Offsets
      BY <1>4, ConversionType
    <3> QED BY <1>1, <1>4, <3>1, <3>2 DEF Offsets
  <2> QED BY <2>1, <2>2
<1>6. ASSUME Unskipped PROVE OnSchedule
  <2>1. wall + 0 * every = wall /\ 0 \in 0..(MaxTime + 2 * MaxOffset)
    BY <1>1, <1>5
  <2>2. wall \in Readings
    BY <2>1 DEF Readings
  <2>3. AsLocal(due) = wall + 0 * every
    BY <1>5, <1>6, <2>1, <2>2 DEF Unskipped
  <2>4. ~Rescheduled
    BY <1>1 DEF Rescheduled
  <2> QED BY <2>1, <2>3, <2>4 DEF OnSchedule
<1> QED BY <1>1, <1>4, <1>5, <1>6 DEF RecurrenceInv

\* A poll that finds the row due leaves no reading out and repeats none.
LEMMA ClaimRInv ==
  ASSUME RecurrenceInv, Claim
  PROVE  RecurrenceInv'
<1>1. /\ now' = now /\ every' = every /\ wall' = wall /\ polled' = now /\ due <= now
      /\ due' = NextRun(due, every, now)
  BY DEF Claim
<1>2. /\ now \in Int /\ now <= MaxTime /\ due \in Int /\ wall \in Int /\ wall > -MaxOffset
      /\ MaxTime \in Nat /\ MaxOffset \in Nat
      /\ every \in Nat \ {OneShot} /\ every \in Nat \ {0}
  BY RowFacts DEF RecurrenceInv
<1>3. PICK k \in Nat \ {0} :
        /\ due' = Slot(due, every, k) /\ Slot(due, every, k) > now
        /\ \A j \in 1..(k - 1) : Slot(due, every, j) <= now
  BY <1>1, <1>2, NextRunIsFirst
<1>4. due' \in Int
  BY <1>2, <1>3, SlotType
<1>5. Readings' = Readings /\ (Unskipped' <=> Unskipped)
  BY <1>1 DEF Readings, Unskipped
<1>6. ASSUME Unskipped PROVE OnSchedule'
  <2>1. PICK m \in 0..(MaxTime + 2 * MaxOffset) : AsLocal(due) = wall + m * every
    BY <1>6 DEF RecurrenceInv, OnSchedule
  <2>2. \A i \in Nat : Slot(due, every, i) = ToUtc(wall + (m + i) * every)
    <3> TAKE i \in Nat
    <3>1. m \in Nat /\ (m + i) * every = m * every + i * every /\ m * every \in Nat
          /\ i * every \in Nat
      BY <1>2, Multiples
    <3>2. wall + m * every + i * every = wall + (m + i) * every
      BY <1>2, <3>1
    <3> QED BY <2>1, <3>2 DEF Slot
  <2> DEFINE n == m + k
  <2>3. wall + (n - 1) * every <= now + MaxOffset
    <3>1. CASE k = 1
      <4>1. n - 1 = m /\ AsLocal(due) \in Int /\ AsLocal(due) - due \in Offsets
        BY <1>2, <3>1, ConversionType
      <4>2. AsLocal(due) <= now + MaxOffset
        BY <1>1, <1>2, <4>1 DEF Offsets
      <4> QED BY <2>1, <4>1, <4>2
    <3>2. CASE k # 1
      <4>1. k - 1 \in 1..(k - 1) /\ k - 1 \in Nat /\ m + (k - 1) = n - 1 /\ n - 1 \in Nat
        BY <3>2
      <4>2. ToUtc(wall + (n - 1) * every) <= now
        BY <1>3, <2>2, <4>1
      <4>3. wall + (n - 1) * every \in Int
        BY <1>2, <4>1, Multiples
      <4> DEFINE w == wall + (n - 1) * every
      <4>4. w \in Int /\ ToUtc(w) <= now
        BY <4>2, <4>3
      <4> HIDE DEF w
      <4>5. ToUtc(w) \in Int /\ w - ToUtc(w) \in Offsets
        BY <4>4, ConversionType
      <4>6. w <= now + MaxOffset
        BY <1>2, <4>4, <4>5 DEF Offsets
      <4> QED BY <4>6 DEF w
    <3> QED BY <3>1, <3>2
  <2>4. n \in 0..(MaxTime + 2 * MaxOffset)
    <3>1. n - 1 \in Nat
      OBVIOUS
    <3>2. (n - 1) * every \in Nat /\ n - 1 <= (n - 1) * every
      BY <1>2, <3>1, Multiples
    <3> QED BY <1>2, <2>3, <3>1, <3>2
  <2>5. due' = ToUtc(wall + n * every) /\ AsLocal(due') = wall + n * every
    BY <1>3, <1>6, <2>2, <2>4, RowFacts
  <2>6. ASSUME OrderlyZone, NEW j \in 0..(n - 1) PROVE ToUtc(wall + j * every) <= now
    <3>1. CASE j <= m
      <4>1. j \in 0..(MaxTime + 2 * MaxOffset) /\ j \in Nat /\ m \in Nat
        BY <1>2, <3>1
      <4>2. wall + j * every \in Int /\ wall + m * every \in Int
            /\ wall + j * every <= wall + m * every
        BY <1>2, <3>1, <4>1, Multiples
      <4>3. AsLocal(ToUtc(wall + j * every)) = wall + j * every
            /\ AsLocal(ToUtc(wall + m * every)) = wall + m * every
        BY <1>6, <4>1, RowFacts
      <4>4. ToUtc(wall + j * every) <= ToUtc(wall + m * every)
        BY <2>6, <4>2, <4>3, ReadingsInOrder
      <4>5. ToUtc(wall + m * every) <= due
        BY <1>2, <2>1, <2>6, <4>3, FirstOfTwo
      <4>6. ToUtc(wall + j * every) \in Int /\ ToUtc(wall + m * every) \in Int
        BY <4>2, ConversionType
      <4> QED BY <1>1, <1>2, <4>4, <4>5, <4>6
    <3>2. CASE m < j
      <4>1. j - m \in 1..(k - 1) /\ j - m \in Nat /\ m + (j - m) = j
        BY <3>2
      <4> QED BY <1>3, <2>2, <4>1
    <3> QED BY <3>1, <3>2
  <2> HIDE DEF n
  <2> QED BY <1>1, <2>4, <2>5, <2>6 DEF OnSchedule
<1> QED BY <1>1, <1>2, <1>4, <1>5, <1>6 DEF RecurrenceInv

LEMMA NextRInv ==
  ASSUME RecurrenceInv, [Next]_vars
  PROVE  RecurrenceInv'
<1>1. CASE Claim
  BY <1>1, ClaimRInv
<1>2. CASE Tick \/ PollTooEarly \/ UNCHANGED vars
  <2>1. /\ UNCHANGED <<due, every, wall, polled>> /\ now' \in 0..MaxTime /\ now <= now'
    BY <1>2, RowFacts DEF Tick, PollTooEarly, vars, RecurrenceInv
  <2>2. (Unskipped' <=> Unskipped) /\ (OnSchedule' <=> OnSchedule)
    BY <2>1 DEF Unskipped, Readings, OnSchedule, Rescheduled
  <2>3. polled \in 0..now'
    BY <2>1, RowFacts DEF RecurrenceInv
  <2> QED BY <2>1, <2>2, <2>3 DEF RecurrenceInv
<1> QED BY <1>1, <1>2 DEF Next

(***************************************************************************)
(* The inductive invariant of a recurring row (next_run): it stands at a   *)
(* reading the user asked for, and those before it are over.               *)
(***************************************************************************)
THEOREM RecurrenceInvariance == Spec => []RecurrenceInv
<1> QED BY InitRInv, NextRInv, PTL DEF Spec

(***************************************************************************)
(* A recurring job keeps its wall-clock time across every transition of    *)
(* any zone (KeepsWallTime), if the zone skips none of its readings: the   *)
(* code does not keep it otherwise, as a run shows.                        *)
(***************************************************************************)
THEOREM KeepsWallTimeCorrect == Spec => [](Unskipped => KeepsWallTime)
<1>1. RecurrenceInv => (Unskipped => KeepsWallTime)
  BY RowFacts DEF RecurrenceInv, OnSchedule, KeepsWallTime, Schedule
<1> QED BY <1>1, RecurrenceInvariance, PTL

(***************************************************************************)
(* next_run passes over no run that is still ahead of the poll             *)
(* (NothingSkippedAhead), if moreover the transitions of the zone do not   *)
(* crowd and each leads on from the last, as those of a real zone do.      *)
(***************************************************************************)
THEOREM NothingSkippedAheadCorrect ==
  Spec => [](OrderlyZone /\ Unskipped => NothingSkippedAhead)
<1>1. ASSUME RecurrenceInv, OrderlyZone, Unskipped, Rescheduled,
             NEW u \in Schedule, u > polled
      PROVE  u >= due
  <2>1. PICK m \in 0..(MaxTime + 2 * MaxOffset) :
          /\ due = ToUtc(wall + m * every)
          /\ \A j \in 0..(m - 1) : ToUtc(wall + j * every) <= polled
    BY <1>1 DEF RecurrenceInv, OnSchedule
  <2>2. PICK j \in 0..(MaxTime + 2 * MaxOffset) : u = ToUtc(wall + j * every)
    BY DEF Schedule, Readings
  <2>3. wall + j * every \in Int /\ wall + m * every \in Int
        /\ AsLocal(ToUtc(wall + m * every)) = wall + m * every
    BY <1>1, RowFacts
  <2>4. u \in Int /\ due \in Int /\ polled \in Int
    BY <1>1, <2>2, <2>3, ConversionType, RowFacts
  <2>5. m <= j
    BY <1>1, <2>1, <2>2, <2>4
  <2>6. wall + m * every <= wall + j * every
    <3>1. m * every <= j * every /\ m * every \in Nat /\ j * every \in Nat /\ wall \in Int
      <4>1. m \in Nat /\ j \in Nat /\ every \in Nat \ {0} /\ wall \in Int
        BY <1>1, RowFacts
      <4> QED BY <2>5, <4>1, Multiples
    <3> QED BY <3>1
  <2> QED BY <1>1, <2>1, <2>2, <2>3, <2>4, <2>6, ReadingsInOrder
<1>2. RecurrenceInv => (OrderlyZone /\ Unskipped => NothingSkippedAhead)
  BY <1>1 DEF NothingSkippedAhead
<1> QED BY <1>2, RecurrenceInvariance, PTL

=============================================================================
