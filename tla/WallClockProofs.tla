--------------------------- MODULE WallClockProofs ---------------------------
(***************************************************************************)
(* Facts about the time arithmetic: conversions stay within MaxOffset, an  *)
(* accepted request lies ahead, and a claimed job is moved past the poll.  *)
(***************************************************************************)
EXTENDS WallClock, NaturalsInduction, WellFoundedInduction, TLAPS

LEMMA OffsetBounds ==
  ASSUME NEW u \in Int
  PROVE  UtcOffset(u) \in Offsets /\ WallOffset(u) \in Offsets
<1>1. ASSUME NEW latest, latest \subseteq Zone
      PROVE  OffsetAfter(latest) \in Offsets
  <2>1. CASE latest = {}
    BY <2>1, ZoneAssumption DEF OffsetAfter
  <2>2. CASE latest # {}
    <3>1. (CHOOSE t \in latest : TRUE) \in latest
      BY <2>2
    <3>2. (CHOOSE t \in latest : TRUE).after \in Offsets
      BY <3>1, <1>1, ZoneAssumption
    <3> QED BY <2>2, <3>2 DEF OffsetAfter
  <2> QED BY <2>1, <2>2
<1>2. LatestBy(TakesEffect, u) \subseteq Zone /\ LatestBy(WallTakesEffect, u) \subseteq Zone
  BY DEF LatestBy
<1> QED BY <1>1, <1>2 DEF UtcOffset, WallOffset

LEMMA ConversionType ==
  ASSUME NEW x \in Int
  PROVE  /\ AsLocal(x) \in Int /\ AsLocal(x) - x \in Offsets
         /\ ToUtc(x) \in Int /\ x - ToUtc(x) \in Offsets
BY OffsetBounds, ZoneAssumption DEF AsLocal, ToUtc, Offsets

\* What first_run returns for a request it accepts is an instant after `now'.
LEMMA AcceptedIsAhead ==
  ASSUME NEW now \in Int, NEW request \in RequestType, Accepted(now, request)
  PROVE  FirstRun(now, request) \in Int /\ FirstRun(now, request) > now
<1>1. request.value \in Int
  BY DEF RequestType
<1>2. ToUtc(request.value) \in Int
  BY <1>1, ConversionType
<1> QED BY <1>1, <1>2 DEF Accepted, FirstRun

LEMMA SlotType ==
  ASSUME NEW prev \in Int, NEW every \in Nat, NEW k \in Nat
  PROVE  Slot(prev, every, k) \in Int
<1>1. AsLocal(prev) \in Int
  BY ConversionType
<1>2. AsLocal(prev) + k * every \in Int
  BY <1>1
<1> QED BY <1>2, ConversionType DEF Slot

(***************************************************************************)
(* The last step of the search is far enough: a slot may come at most      *)
(* 2 * MaxOffset earlier than its distance in local time.                  *)
(***************************************************************************)
LEMMA SearchEnds ==
  ASSUME NEW prev \in Int, NEW now \in Int, prev <= now, NEW every \in Nat \ {OneShot}
  PROVE  Slot(prev, every, now - prev + 2 * MaxOffset + 1) > now
<1> DEFINE last == now - prev + 2 * MaxOffset + 1
           local == AsLocal(prev) + last * every
<1>1. MaxOffset \in Nat /\ last \in Nat /\ every >= 1
  BY ZoneAssumption DEF OneShot
<1>2. last * every \in Int /\ last * every >= last
  <2>1. last * (every - 1) >= 0 /\ last * every = last + last * (every - 1)
    BY <1>1
  <2> QED BY <2>1, <1>1
<1>3. AsLocal(prev) \in Int /\ AsLocal(prev) >= prev - MaxOffset
  BY ConversionType, <1>1 DEF Offsets
<1>4. local \in Int /\ local >= prev - MaxOffset + last
  <2> HIDE DEF last
  <2> QED BY <1>1, <1>2, <1>3
<1>5. ToUtc(local) \in Int /\ ToUtc(local) >= local - MaxOffset
  <2> HIDE DEF local
  <2> QED BY <1>1, <1>4, ConversionType DEF Offsets
<1>6. ToUtc(local) >= prev - 2 * MaxOffset + last
  <2> HIDE DEF local, last
  <2> QED BY <1>1, <1>4, <1>5
<1>7. prev - 2 * MaxOffset + last = now + 1
  BY <1>1
<1>8. ToUtc(local) > now
  <2> HIDE DEF local, last
  <2> QED BY <1>1, <1>5, <1>6, <1>7
<1> QED BY <1>8 DEF Slot

(***************************************************************************)
(* next_run returns the first slot of the job after `now', whatever the    *)
(* zone, the interval and the length of the downtime.                      *)
(***************************************************************************)
THEOREM NextRunIsFirst ==
  ASSUME NEW prev \in Int, NEW now \in Int, prev <= now, NEW every \in Nat \ {OneShot}
  PROVE  \E k \in Nat \ {0} :
           /\ NextRun(prev, every, now) = Slot(prev, every, k)
           /\ Slot(prev, every, k) > now
           /\ \A j \in 1..(k - 1) : Slot(prev, every, j) <= now
<1> DEFINE Ahead(k) == Slot(prev, every, k) > now
           First(k) == Ahead(k) /\ \A j \in 1..(k - 1) : Slot(prev, every, j) <= now
           last     == now - prev + 2 * MaxOffset + 1
           T        == {k \in Steps(prev, now) : Ahead(k)}
<1>1. last \in Nat \ {0} /\ Steps(prev, now) = 1..last /\ every \in Nat
  BY ZoneAssumption DEF Steps
<1>2. last \in T
  BY <1>1, SearchEnds
<1>3. PICK k \in T : \A j \in T : ~(<<j, k>> \in OpToRel(<, Nat))
  <2>1. T \subseteq Nat /\ T # {}
    BY <1>1, <1>2
  <2> HIDE DEF T
  <2> QED BY <2>1, NatLessThanWellFounded, WFMin
<1>4. First(k)
  <2>1. k \in 1..last /\ Ahead(k)
    BY <1>1, <1>3
  <2>2. ASSUME NEW j \in 1..(k - 1) PROVE Slot(prev, every, j) <= now
    <3>1. j \in 1..last /\ j < k /\ j \in Nat /\ k \in Nat
      BY <1>1, <2>1
    <3>2. <<j, k>> \in OpToRel(<, Nat)
      BY <3>1 DEF OpToRel
    <3>3. ~Ahead(j)
      BY <3>1, <3>2, <1>1, <1>3
    <3>4. Slot(prev, every, j) \in Int
      BY <3>1, <1>1, SlotType
    <3> QED BY <3>3, <3>4
  <2> QED BY <2>1, <2>2
<1>5. \E n \in Steps(prev, now) : First(n)
  BY <1>3, <1>4
<1> DEFINE n == CHOOSE n \in Steps(prev, now) : First(n)
<1>6. n \in Steps(prev, now) /\ First(n)
  <2> HIDE DEF First
  <2> QED BY <1>5
<1>7. n \in Nat \ {0}
  BY <1>1, <1>6
<1>8. NextRun(prev, every, now) = Slot(prev, every, n)
  BY DEF NextRun
<1> HIDE DEF n
<1> QED BY <1>6, <1>7, <1>8

LEMMA NextRunIsAhead ==
  ASSUME NEW prev \in Int, NEW now \in Int, prev <= now, NEW every \in Nat \ {OneShot}
  PROVE  /\ NextRun(prev, every, now) \in Int
         /\ NextRun(prev, every, now) > now
<1>1. PICK k \in Nat \ {0} :
        NextRun(prev, every, now) = Slot(prev, every, k) /\ Slot(prev, every, k) > now
  BY NextRunIsFirst
<1>2. Slot(prev, every, k) \in Int
  BY SlotType
<1> QED BY <1>1, <1>2
=============================================================================
