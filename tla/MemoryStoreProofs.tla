-------------------------- MODULE MemoryStoreProofs --------------------------
(***************************************************************************)
(* Proofs about MemoryStore: for any keys, seed files and bounds, no value *)
(* that was replaced comes back, created_at is kept, seeding replaces      *)
(* nothing that was acknowledged, and a listing omits no point that was    *)
(* there all the while unless points vanished under it.                    *)
(***************************************************************************)
EXTENDS MemoryStore, OrderLemmas, TLAPS

(***************************************************************************)
(* Writes.  Most steps only move operations on.  They are all Frames, and  *)
(* that a Frame keeps the invariant is proved once; what is left are the   *)
(* beginning of a write and its landing.                                   *)
(***************************************************************************)

\* How the state of an operation changes while the points stay.
Goes(a, b) ==
  \/ b = a
  \/ a = "embedding" /\ b \in {"looking", "failed"}
  \/ a = "looking" /\ b \in {"sent", "failed"}
  \/ a = "sent" /\ b = "orphan"
  \/ a = "landed" /\ b \in {"acked", "failed"}

\* What stays of an operation.
Same(o, r) == r.key = o.key /\ r.kind = o.kind /\ r.saw = o.saw /\ r.prior = o.prior

\* What a put writes as created_at is what it looked up.
Looked(o, r) ==
  IF o.pc = "looking" /\ r.pc = "sent"
  THEN points[o.key].life # 0 => r.created = points[o.key].created
  ELSE r.created = o.created

Frame ==
  /\ points' = points /\ ops' \in Seq(Op) /\ Len(ops') = Len(ops)
  /\ \A i \in DOMAIN ops :
       Same(ops[i], ops'[i]) /\ Looked(ops[i], ops'[i]) /\ Goes(ops[i].pc, ops'[i].pc)

\* All of the invariant but the types and the phases.
Core == PriorsAcked /\ NotStale /\ LivesSettled /\ CreatedAgrees /\ SeedsFirst

-----------------------------------------------------------------------------
\* Records.

LEMMA OpFields ==
  ASSUME NEW o \in Op
  PROVE  /\ o.key \in Keys /\ o.kind \in {"put", "delete", "seed"} /\ o.pc \in OpPc
         /\ o.created \in Numbers /\ o.saw \in Numbers /\ o.prior \in SUBSET Numbers
  BY DEF Op

LEMMA PcSet ==
  ASSUME NEW o \in Op, NEW q \in OpPc
  PROVE  LET r == [o EXCEPT !.pc = q]
         IN  r \in Op /\ Same(o, r) /\ r.pc = q /\ r.created = o.created
  BY DEF Op, Same

LEMMA CreatedSet ==
  ASSUME NEW o \in Op, NEW q \in OpPc, NEW c \in Numbers
  PROVE  LET r == [o EXCEPT !.pc = q, !.created = c]
         IN  r \in Op /\ Same(o, r) /\ r.pc = q /\ r.created = c
  BY DEF Op, Same

LEMMA EndedIsPc ==
  ASSUME NEW q \in OpPc
  PROVE  Ended(q) \in OpPc /\ Goes(q, Ended(q))
  BY DEF OpPc, Ended, Goes

\* One operation replaced by the same one in another state.
LEMMA MovesFrame ==
  ASSUME MemoryTypeOK, NEW i \in DOMAIN ops, NEW r \in Op, NEW from, Moves(i, from, r),
         Same(ops[i], r), Looked(ops[i], r), Goes(ops[i].pc, r.pc), points' = points
  PROVE  Frame
<1>1. ops \in Seq(Op) BY DEF MemoryTypeOK
<1>2. /\ ops' \in Seq(Op) /\ Len(ops') = Len(ops)
      /\ \A j \in DOMAIN ops : ops'[j] = IF j = i THEN r ELSE ops[j]
  BY <1>1 DEF Moves
<1>3. \A j \in DOMAIN ops : Same(ops[j], ops[j]) /\ Looked(ops[j], ops[j]) /\ Goes(ops[j].pc, ops[j].pc)
  BY DEF Same, Looked, Goes
<1>4. QED BY <1>2, <1>3 DEF Frame

-----------------------------------------------------------------------------
\* Frames keep the invariant.

LEMMA FrameCore ==
  ASSUME MemoryTypeOK, Core, Frame
  PROVE  Core'
<1>1. /\ points' = points /\ DOMAIN ops' = DOMAIN ops /\ DOMAIN ops = 1..Len(ops)
      /\ Len(ops) \in Nat
  BY DEF Frame, MemoryTypeOK
<1>2. \A i \in DOMAIN ops :
        /\ ops'[i].key = ops[i].key /\ ops'[i].kind = ops[i].kind
        /\ ops'[i].saw = ops[i].saw /\ ops'[i].prior = ops[i].prior
        /\ ops[i].pc = "acked" => ops'[i].pc = "acked"
        /\ ops[i].pc = "failed" => ops'[i].pc = "failed"
        /\ ops'[i].pc \in {"landed", "acked"} => ops[i].pc \in {"landed", "acked"}
        /\ ops[i].pc \in {"landed", "acked", "failed"} => ops'[i].pc \in {"landed", "acked", "failed"}
        /\ ops'[i].pc \in {"embedding", "looking", "sent"} =>
             ops[i].pc \in {"embedding", "looking", "sent"}
        /\ ops'[i].pc \in {"sent", "orphan"} => ops[i].pc \in {"looking", "sent", "orphan"}
  BY DEF Frame, Same, Goes
<1>3. ASSUME NEW i \in DOMAIN ops
      PROVE  ops[i].prior \subseteq Numbers /\ ops[i].key \in Keys
  BY OpFields DEF MemoryTypeOK
<1>4. PriorsAcked'
  BY <1>1, <1>2 DEF Core, PriorsAcked
<1>5. NotStale'
  BY <1>1, <1>2 DEF Core, NotStale
<1>6. LivesSettled'
  BY <1>1, <1>2 DEF Core, LivesSettled, Settled, Exists
<1>7. CreatedAgrees'
  <2>1. CreatedKept' BY <1>1 DEF Core, CreatedAgrees, CreatedKept, Exists
  <2>2. ASSUME NEW i \in DOMAIN ops, ops[i].kind # "delete", ops'[i].pc \in {"sent", "orphan"},
               ops[i].saw # 0, ops[i].saw = points[ops[i].key].life, ~points[ops[i].key].raced
        PROVE  ops'[i].created = points[ops[i].key].first
    <3>1. CASE ops[i].pc = "looking"
      <4>1. ops'[i].created = points[ops[i].key].created
        <5>1. ops'[i].pc = "sent" BY <2>2, <3>1 DEF Frame, Goes
        <5>2. QED BY <5>1, <3>1, <2>2 DEF Frame, Looked
      <4>2. points[ops[i].key].created = points[ops[i].key].first
        BY <2>2, <1>3 DEF Core, CreatedAgrees, CreatedKept, Exists
      <4>3. QED BY <3>1, <4>1, <4>2, <2>2
    <3>2. CASE ops[i].pc \in {"sent", "orphan"}
      <4>1. ops'[i].created = ops[i].created
        BY <3>2, "looking" # "sent" DEF Frame, Looked
      <4>2. QED BY <3>2, <4>1, <2>2 DEF Core, CreatedAgrees, SawLife
    <3>3. QED BY <3>1, <3>2, <2>2, <1>2
  <2>3. QED BY <2>1, <2>2, <1>1, <1>2 DEF CreatedAgrees, SawLife
<1>8. SeedsFirst'
  BY <1>1, <1>2, <1>3 DEF Core, SeedsFirst, LivesSettled, Exists
<1>9. QED BY <1>4, <1>5, <1>6, <1>7, <1>8 DEF Core

LEMMA SameFrame ==
  ASSUME MemoryTypeOK, ops' = ops, points' = points
  PROVE  Frame
  BY DEF Frame, MemoryTypeOK, Same, Looked, Goes

LEMMA EmbedFrame ==
  ASSUME MemoryTypeOK, NEW i \in DOMAIN ops, Embed(i)
  PROVE  Frame
<1> DEFINE r == [ops[i] EXCEPT !.pc = "looking"]
<1>1. ops[i] \in Op /\ ops[i].pc = "embedding" /\ "looking" \in OpPc
  BY DEF MemoryTypeOK, Embed, Moves, OpPc
<1>2. r \in Op /\ Same(ops[i], r) /\ r.pc = "looking" /\ r.created = ops[i].created
  BY <1>1, PcSet
<1>3. Moves(i, "embedding", r) /\ points' = points BY DEF Embed
<1> HIDE DEF r
<1>4. Looked(ops[i], r) /\ Goes(ops[i].pc, r.pc) BY <1>1, <1>2 DEF Looked, Goes
<1>5. QED BY <1>1, <1>2, <1>3, <1>4, MovesFrame

LEMMA LookFrame ==
  ASSUME MemoryTypeOK, NEW i \in DOMAIN ops, Look(i)
  PROVE  Frame
<1> DEFINE p == points[ops[i].key]
           c == IF p.life # 0 THEN p.created ELSE i
           r == [ops[i] EXCEPT !.pc = "sent", !.created = c]
<1>1. ops[i] \in Op /\ ops[i].pc = "looking" /\ "sent" \in OpPc
  BY DEF MemoryTypeOK, Look, Moves, OpPc
<1>2. p \in Point /\ i \in Numbers
  BY <1>1, OpFields, MemoryAssumption DEF MemoryTypeOK, Numbers
<1>3. c \in Numbers BY <1>2 DEF Point
<1>4. Moves(i, "looking", r) /\ points' = points BY DEF Look
<1>5. c = (IF points[ops[i].key].life # 0 THEN points[ops[i].key].created ELSE i)
  OBVIOUS
<1> HIDE DEF c
<1>6. r \in Op /\ Same(ops[i], r) /\ r.pc = "sent" /\ r.created = c
  BY <1>1, <1>3, CreatedSet
<1> HIDE DEF r
<1>7. Looked(ops[i], r) /\ Goes(ops[i].pc, r.pc) BY <1>1, <1>5, <1>6 DEF Looked, Goes
<1>8. QED BY <1>1, <1>4, <1>6, <1>7, MovesFrame

LEMMA AcknowledgeFrame ==
  ASSUME MemoryTypeOK, NEW i \in DOMAIN ops, Acknowledge(i)
  PROVE  Frame
<1> DEFINE r == [ops[i] EXCEPT !.pc = "acked"]
<1>1. ops[i] \in Op /\ ops[i].pc = "landed" /\ "acked" \in OpPc
  BY DEF MemoryTypeOK, Acknowledge, Moves, OpPc
<1>2. r \in Op /\ Same(ops[i], r) /\ r.pc = "acked" /\ r.created = ops[i].created
  BY <1>1, PcSet
<1>3. Moves(i, "landed", r) /\ points' = points BY DEF Acknowledge
<1> HIDE DEF r
<1>4. Looked(ops[i], r) /\ Goes(ops[i].pc, r.pc) BY <1>1, <1>2 DEF Looked, Goes
<1>5. QED BY <1>1, <1>2, <1>3, <1>4, MovesFrame

LEMMA FailFrame ==
  ASSUME MemoryTypeOK, NEW i \in DOMAIN ops, FailOp(i)
  PROVE  Frame
<1>1. PICK q \in {"embedding", "looking", "sent", "landed"} :
        Moves(i, q, [ops[i] EXCEPT !.pc = Ended(q)])
  BY DEF FailOp
<1> DEFINE r == [ops[i] EXCEPT !.pc = Ended(q)]
<1>2. ops[i] \in Op /\ ops[i].pc = q /\ q \in OpPc
  BY <1>1 DEF MemoryTypeOK, Moves, OpPc
<1>3. Ended(q) \in OpPc /\ Goes(q, Ended(q)) /\ Ended(q) # "sent" /\ points' = points
  BY <1>2, EndedIsPc DEF FailOp, Ended, OpPc
<1>4. r \in Op /\ Same(ops[i], r) /\ r.pc = Ended(q) /\ r.created = ops[i].created
  BY <1>2, <1>3, PcSet
<1>5. Moves(i, q, r) BY <1>1
<1> HIDE DEF r
<1>6. Looked(ops[i], r) BY <1>3, <1>4 DEF Looked
<1>7. QED BY <1>2, <1>3, <1>4, <1>5, <1>6, MovesFrame

LEMMA DieFrame ==
  ASSUME MemoryTypeOK, Die
  PROVE  Frame
<1> DEFINE r(i) == [ops[i] EXCEPT !.pc = Ended(ops[i].pc)]
<1>1. ops \in Seq(Op) /\ ops' = [i \in DOMAIN ops |-> r(i)] /\ points' = points
  BY DEF MemoryTypeOK, Die
<1>2. ASSUME NEW i \in DOMAIN ops
      PROVE  /\ r(i) \in Op /\ Same(ops[i], r(i)) /\ Looked(ops[i], r(i))
             /\ Goes(ops[i].pc, r(i).pc)
  <2>1. ops[i] \in Op /\ ops[i].pc \in OpPc BY <1>1, OpFields
  <2>2. /\ Ended(ops[i].pc) \in OpPc /\ Goes(ops[i].pc, Ended(ops[i].pc))
        /\ Ended(ops[i].pc) # "sent"
    BY <2>1, EndedIsPc DEF Ended, OpPc
  <2>3. /\ r(i) \in Op /\ Same(ops[i], r(i)) /\ r(i).pc = Ended(ops[i].pc)
        /\ r(i).created = ops[i].created
    BY <2>1, <2>2, PcSet
  <2>4. QED BY <2>2, <2>3 DEF Looked
<1> HIDE DEF r
<1>3. ops' \in Seq(Op) /\ Len(ops') = Len(ops) BY <1>1, <1>2
<1>4. QED BY <1>1, <1>2, <1>3 DEF Frame

-----------------------------------------------------------------------------
\* The beginning of a write.

LEMMA BeginType ==
  ASSUME MemoryTypeOK, NEW k \in Keys, NEW kind \in {"put", "delete", "seed"}, BeginOp(k, kind)
  PROVE  /\ Len(ops) \in Nat /\ Len(ops) + 1 \in Numbers
         /\ ops' \in Seq(Op) /\ Len(ops') = Len(ops) + 1 /\ Len(ops') <= MaxOps
         /\ \A i \in DOMAIN ops : ops'[i] = ops[i]
         /\ LET r == ops'[Len(ops) + 1]
            IN  /\ r.key = k /\ r.kind = kind /\ r.saw = points[k].life
                /\ r.prior = {i \in DOMAIN ops : ops[i].pc = "acked" /\ ops[i].key = k}
                /\ r.pc = IF kind = "delete" THEN "sent" ELSE "embedding"
<1> DEFINE prior == {i \in DOMAIN ops : ops[i].pc = "acked" /\ ops[i].key = k}
           pc == IF kind = "delete" THEN "sent" ELSE "embedding"
           r == [key |-> k, kind |-> kind, pc |-> pc, created |-> 0, saw |-> points[k].life,
                 prior |-> prior]
<1>1. /\ ops \in Seq(Op) /\ Len(ops) < MaxOps /\ ops' = Append(ops, r) /\ points[k] \in Point
      /\ Len(ops) \in Nat /\ MaxOps \in Nat
  BY MemoryAssumption DEF BeginOp, MemoryTypeOK
<1>2. DOMAIN ops \subseteq Numbers /\ 0 \in Numbers /\ Len(ops) + 1 \in Numbers
  BY <1>1 DEF Numbers
<1>3. prior \in SUBSET Numbers /\ pc \in OpPc /\ points[k].life \in Numbers
  BY <1>1, <1>2 DEF OpPc, Point
<1>4. /\ r.key = k /\ r.kind = kind /\ r.saw = points[k].life /\ r.prior = prior /\ r.pc = pc
  OBVIOUS
<1>5. r \in Op
  <2> HIDE DEF prior, pc
  <2>1. QED BY <1>2, <1>3 DEF Op
<1> HIDE DEF r
<1>6. /\ ops' \in Seq(Op) /\ Len(ops') = Len(ops) + 1 /\ ops'[Len(ops) + 1] = r
      /\ \A i \in DOMAIN ops : ops'[i] = ops[i]
  BY <1>1, <1>5
<1>7. QED BY <1>1, <1>2, <1>4, <1>6

LEMMA BeginCore ==
  ASSUME MemoryTypeOK, Core, NEW k \in Keys, NEW kind \in {"put", "delete", "seed"},
         BeginOp(k, kind), kind = "seed" => ~Exists(k), points' = points
  PROVE  Core'
<1> DEFINE n == Len(ops) + 1
<1>1. /\ Len(ops) \in Nat /\ DOMAIN ops = 1..Len(ops) /\ DOMAIN ops' = 1..n
      /\ \A i \in DOMAIN ops : ops'[i] = ops[i]
      /\ ops'[n].key = k /\ ops'[n].kind = kind /\ ops'[n].saw = points[k].life
      /\ ops'[n].prior = {i \in DOMAIN ops : ops[i].pc = "acked" /\ ops[i].key = k}
      /\ ops'[n].pc \in {"sent", "embedding"} /\ (ops'[n].pc = "sent" => kind = "delete")
  BY BeginType DEF MemoryTypeOK
<1>2. \A i \in DOMAIN ops : ops[i].key \in Keys
  BY OpFields DEF MemoryTypeOK
<1> HIDE DEF n
<1>3. n \in Nat /\ n = Len(ops) + 1 /\ n \notin DOMAIN ops /\ DOMAIN ops' = DOMAIN ops \cup {n}
  BY <1>1 DEF n
<1>4. PriorsAcked'
  BY <1>1, <1>3 DEF Core, PriorsAcked
<1>5. NotStale'
  BY <1>1, <1>3 DEF Core, NotStale
<1>6. LivesSettled'
  BY <1>1, <1>3 DEF Core, LivesSettled, Settled, Exists
<1>7. CreatedAgrees'
  BY <1>1, <1>3 DEF Core, CreatedAgrees, CreatedKept, SawLife, Exists
<1>8. SeedsFirst'
  BY <1>1, <1>2, <1>3 DEF Core, SeedsFirst, LivesSettled, Exists
<1>9. QED BY <1>4, <1>5, <1>6, <1>7, <1>8 DEF Core

-----------------------------------------------------------------------------
\* The landing of a write.

LEMMA StoredFacts ==
  ASSUME MemoryTypeOK, NEW i \in DOMAIN ops, NEW p, p = points[ops[i].key]
  PROVE  /\ Stored(i) \in Point /\ Stored(i).last = i /\ p \in Point
         /\ ops[i].kind = "delete" => Stored(i).life = 0
         /\ ops[i].kind # "delete" /\ p.life = 0 =>
              Stored(i).life = i /\ Stored(i).created = Stored(i).first
         /\ ops[i].kind # "delete" /\ p.life # 0 =>
              /\ Stored(i).life = p.life /\ Stored(i).first = p.first
              /\ Stored(i).created = ops[i].created
              /\ Stored(i).raced = (p.raced \/ ops[i].saw # p.life)
<1>1. /\ ops[i] \in Op /\ i \in Numbers /\ 0 \in Numbers /\ ops[i].created \in Numbers
      /\ ops[i].saw \in Numbers /\ ops[i].key \in Keys /\ ops[i].kind \in {"put", "delete", "seed"}
  BY OpFields, MemoryAssumption DEF MemoryTypeOK, Numbers
<1>2. p \in Point BY <1>1 DEF MemoryTypeOK
<1> DEFINE c == ops[i].created
<1>3. CASE ops[i].kind = "delete"
  <2>1. Stored(i) = [life |-> 0, created |-> 0, first |-> 0, raced |-> FALSE, last |-> i]
    BY <1>3 DEF Stored, Absent
  <2>2. QED BY <1>1, <1>2, <1>3, <2>1 DEF Point
<1>4. CASE ops[i].kind # "delete" /\ p.life = 0
  <2>1. Stored(i) = [life |-> i, created |-> c, first |-> c, raced |-> FALSE, last |-> i]
    BY <1>4 DEF Stored
  <2>2. QED BY <1>1, <1>2, <1>4, <2>1 DEF Point
<1>5. CASE ops[i].kind # "delete" /\ p.life # 0
  <2> DEFINE raced == p.raced \/ ops[i].saw # p.life
  <2>1. Stored(i) = [p EXCEPT !.created = c, !.last = i, !.raced = raced]
    BY <1>5 DEF Stored
  <2>2. raced \in BOOLEAN BY <1>2 DEF Point
  <2> HIDE DEF raced
  <2>3. /\ Stored(i) \in Point /\ Stored(i).last = i /\ Stored(i).life = p.life
        /\ Stored(i).first = p.first /\ Stored(i).created = c /\ Stored(i).raced = raced
    BY <1>1, <1>2, <2>1, <2>2 DEF Point
  <2>4. QED BY <1>2, <1>5, <2>3 DEF raced
<1>6. QED BY <1>3, <1>4, <1>5

LEMMA LandsFacts ==
  ASSUME MemoryTypeOK, NEW i \in DOMAIN ops, NEW from \in {"sent", "orphan"},
         NEW to \in {"landed", "failed"}, Lands(i, from, to)
  PROVE  /\ DOMAIN ops' = DOMAIN ops /\ ops' \in Seq(Op) /\ Len(ops') = Len(ops)
         /\ ops[i].pc = from /\ Same(ops[i], ops'[i]) /\ ops'[i].pc = to
         /\ \A j \in DOMAIN ops : j # i => ops'[j] = ops[j]
         /\ ops[i].key \in Keys /\ points' \in [Keys -> Point]
         /\ points'[ops[i].key] = Stored(i)
         /\ \A k \in Keys : k # ops[i].key => points'[k] = points[k]
<1> DEFINE r == [ops[i] EXCEPT !.pc = to]
<1>1. /\ ops \in Seq(Op) /\ ops[i] \in Op /\ ops[i].pc = from /\ ops' = [ops EXCEPT ![i] = r]
      /\ points' = [points EXCEPT ![ops[i].key] = Stored(i)]
      /\ ops[i].key \in Keys /\ points \in [Keys -> Point]
  BY OpFields DEF MemoryTypeOK, Lands, Moves
<1>2. to \in OpPc BY DEF OpPc
<1>3. r \in Op /\ Same(ops[i], r) /\ r.pc = to BY <1>1, <1>2, PcSet
<1>4. Stored(i) \in Point BY StoredFacts
<1> HIDE DEF r
<1>5. QED BY <1>1, <1>3, <1>4

LEMMA LandsCore ==
  ASSUME MemoryInv, NEW i \in DOMAIN ops, NEW from \in {"sent", "orphan"},
         NEW to \in {"landed", "failed"}, from = "orphan" => to = "failed", Lands(i, from, to)
  PROVE  Core'
<1> DEFINE k == ops[i].key
           p == points[k]
           s == Stored(i)
<1>1. MemoryTypeOK /\ PriorsAcked /\ NotStale /\ LivesSettled /\ CreatedAgrees /\ Phases /\ SeedsFirst
  BY DEF MemoryInv
<1>2. /\ DOMAIN ops' = DOMAIN ops /\ DOMAIN ops = 1..Len(ops) /\ Len(ops) \in Nat
      /\ ops[i].pc = from /\ ops'[i].pc = to
      /\ \A j \in DOMAIN ops : j # i => ops'[j] = ops[j]
      /\ \A j \in DOMAIN ops : /\ ops'[j].key = ops[j].key /\ ops'[j].kind = ops[j].kind
                               /\ ops'[j].saw = ops[j].saw /\ ops'[j].prior = ops[j].prior
      /\ k \in Keys /\ points'[k] = s
      /\ \A l \in Keys : l # k => points'[l] = points[l]
  BY <1>1, LandsFacts DEF Same, MemoryTypeOK
<1>3. /\ s.last = i
      /\ ops[i].kind = "delete" => s.life = 0
      /\ ops[i].kind # "delete" /\ p.life = 0 => s.life = i /\ s.created = s.first
      /\ ops[i].kind # "delete" /\ p.life # 0 =>
           /\ s.life = p.life /\ s.first = p.first /\ s.created = ops[i].created
           /\ s.raced = (p.raced \/ ops[i].saw # p.life)
  BY <1>1, StoredFacts
<1>4. \A j \in DOMAIN ops : ops[j].key \in Keys
  BY <1>1, OpFields DEF MemoryTypeOK
<1> HIDE DEF k, p, s
<1>5. k = ops[i].key /\ p = points[k] BY DEF k, p
<1>6. PriorsAcked'
  BY <1>1, <1>2 DEF PriorsAcked
<1>7. NotStale'
  BY <1>1, <1>2, <1>3, <1>4, <1>5 DEF NotStale, PriorsAcked
<1>8. LivesSettled'
  <2> DEFINE settled == {"landed", "acked", "failed"}
  <2>1. \A j \in DOMAIN ops : ops[j].pc \in settled \/ j = i => ops'[j].pc \in settled
    BY <1>2
  <2>2. \A j \in DOMAIN ops : ops[j].saw # 0 =>
          ops[j].saw \in DOMAIN ops /\ ops[ops[j].saw].pc \in settled
    BY <1>1 DEF LivesSettled, Settled
  <2>3. \A l \in Keys : points[l].life # 0 =>
          /\ points[l].life \in DOMAIN ops /\ ops[points[l].life].pc \in settled
          /\ points[l].last \in DOMAIN ops
    BY <1>1 DEF LivesSettled, Settled, Exists
  <2> HIDE DEF settled
  <2>4. ASSUME NEW l \in Keys, points'[l].life # 0
        PROVE  /\ points'[l].life \in DOMAIN ops /\ ops'[points'[l].life].pc \in settled
               /\ points'[l].last \in DOMAIN ops
    <3>1. CASE l # k BY <1>2, <2>1, <2>3, <2>4, <3>1
    <3>2. CASE l = k BY <1>2, <1>3, <1>5, <2>1, <2>3, <2>4, <3>2
    <3>3. QED BY <3>1, <3>2
  <2>5. \A j \in DOMAIN ops' : ops'[j].saw # 0 =>
          ops'[j].saw \in DOMAIN ops' /\ ops'[ops'[j].saw].pc \in settled
    BY <1>2, <2>1, <2>2
  <2>6. QED BY <1>2, <2>4, <2>5 DEF LivesSettled, Settled, Exists, settled
<1>9. CreatedAgrees'
  <2>1. ASSUME NEW l \in Keys, points'[l].life # 0, ~points'[l].raced
        PROVE  points'[l].created = points'[l].first
    <3>1. CASE l # k
      BY <1>1, <1>2, <2>1, <3>1 DEF CreatedAgrees, CreatedKept, Exists
    <3>2. CASE l = k
      <4>1. ops[i].kind # "delete" BY <1>2, <1>3, <2>1, <3>2
      <4>2. CASE p.life = 0 BY <1>2, <1>3, <3>2, <4>1, <4>2
      <4>3. CASE p.life # 0
        <5>1. ~p.raced /\ ops[i].saw = p.life BY <1>2, <1>3, <2>1, <3>2, <4>1, <4>3
        <5>2. SawLife(i) BY <1>5, <4>3, <5>1 DEF SawLife
        <5>3. ops[i].created = p.first BY <1>1, <1>2, <1>5, <4>1, <5>2 DEF CreatedAgrees
        <5>4. QED BY <1>2, <1>3, <3>2, <4>1, <4>3, <5>3
      <4>4. QED BY <4>2, <4>3
    <3>3. QED BY <3>1, <3>2
  <2>2. ASSUME NEW j \in DOMAIN ops, ops'[j].kind # "delete", ops'[j].pc \in {"sent", "orphan"},
               SawLife(j)'
        PROVE  ops'[j].created = points'[ops'[j].key].first
    <3>1. /\ j # i /\ ops'[j] = ops[j] /\ ops[j].saw # 0 /\ ops[j].saw = points'[ops[j].key].life
          /\ ~points'[ops[j].key].raced
      BY <1>2, <2>2 DEF SawLife
    <3>2. CASE ops[j].key # k
      <4>1. points'[ops[j].key] = points[ops[j].key] BY <1>2, <1>4, <3>2
      <4>2. QED BY <1>1, <2>2, <3>1, <4>1 DEF CreatedAgrees, SawLife
    <3>3. CASE ops[j].key = k
      <4>1. ops[j].saw # i BY <1>1, <1>2, <3>1 DEF LivesSettled, Settled
      <4>2. ops[i].kind # "delete" /\ p.life # 0 /\ ops[j].saw = p.life /\ ~p.raced
        BY <1>2, <1>3, <3>1, <3>3, <4>1
      <4>3. SawLife(j) BY <1>5, <3>1, <3>3, <4>2 DEF SawLife
      <4>4. ops[j].created = p.first BY <1>1, <1>5, <2>2, <3>1, <3>3, <4>3 DEF CreatedAgrees
      <4>5. QED BY <1>2, <1>3, <3>1, <3>3, <4>2, <4>4
    <3>4. QED BY <3>2, <3>3
  <2>3. QED BY <1>2, <2>1, <2>2 DEF CreatedAgrees, CreatedKept, Exists
<1>10. SeedsFirst'
  <2> SUFFICES ASSUME NEW j \in DOMAIN ops, ops'[j].kind = "seed",
                      ops'[j].pc \in {"embedding", "looking", "sent"},
                      points'[ops'[j].key].life # 0
               PROVE  ops'[points'[ops'[j].key].last].pc = "failed"
    BY <1>2 DEF SeedsFirst, Exists
  <2>1. j # i /\ ops'[j] = ops[j] BY <1>2
  <2>2. CASE ops[j].key # k
    <3>1. points'[ops[j].key] = points[ops[j].key] BY <1>2, <1>4, <2>2
    <3>2. ops[points[ops[j].key].last].pc = "failed"
      BY <1>1, <2>1, <3>1 DEF SeedsFirst, Exists
    <3>3. points[ops[j].key].last \in DOMAIN ops
      BY <1>1, <1>4, <2>1, <3>1 DEF LivesSettled, Exists
    <3>4. QED BY <1>2, <2>1, <3>1, <3>2, <3>3
  <2>3. CASE ops[j].key = k
    <3>1. Seeding BY <2>1 DEF Seeding, Underway
    <3>2. process # "up" BY <1>1, <3>1 DEF Phases
    <3>3. from = "orphan"
      BY <1>1, <1>2, <2>1, <3>2 DEF Phases, Underway
    <3>4. QED BY <1>2, <1>3, <2>1, <2>3, <3>3
  <2>4. QED BY <2>2, <2>3
<1>11. QED BY <1>6, <1>7, <1>8, <1>9, <1>10 DEF Core

-----------------------------------------------------------------------------
\* The phases of the process.

LEMMA FramePhases ==
  ASSUME MemoryTypeOK, Phases, Frame, process' = process
  PROVE  Phases'
<1>1. /\ DOMAIN ops' = DOMAIN ops
      /\ \A i \in DOMAIN ops :
           /\ ops'[i].kind = ops[i].kind
           /\ ops'[i].pc \in {"embedding", "looking", "sent", "landed"} =>
                ops[i].pc \in {"embedding", "looking", "sent", "landed"}
           /\ ops[i].pc \in {"orphan", "acked", "failed"} =>
                ops'[i].pc \in {"orphan", "acked", "failed"}
  BY DEF Frame, Same, Goes, MemoryTypeOK
<1>2. QED BY <1>1 DEF Phases, Seeding, Underway

LEMMA BootPhases ==
  ASSUME Phases, Boot
  PROVE  Phases'
  BY DEF Boot, Phases, Seeding, Underway

\* What BeginOp adds.
LEMMA Begun ==
  ASSUME MemoryTypeOK, NEW k \in Keys, NEW kind \in {"put", "delete", "seed"}, BeginOp(k, kind)
  PROVE  /\ Len(ops) \in Nat /\ DOMAIN ops' = DOMAIN ops \cup {Len(ops) + 1}
         /\ ops'[Len(ops) + 1].kind = kind
         /\ \A i \in DOMAIN ops : ops'[i] = ops[i]
<1>1. /\ Len(ops) \in Nat /\ ops' \in Seq(Op) /\ Len(ops') = Len(ops) + 1
      /\ \A i \in DOMAIN ops : ops'[i] = ops[i]
      /\ ops'[Len(ops) + 1].kind = kind
  BY BeginType
<1>2. DOMAIN ops = 1..Len(ops) /\ DOMAIN ops' = 1..Len(ops') BY <1>1 DEF MemoryTypeOK
<1>3. QED BY <1>1, <1>2

LEMMA SeedPhases ==
  ASSUME MemoryTypeOK, Phases, SeedFile, BeginOp(Head(todo), "seed"), Head(todo) \in Keys
  PROVE  Phases'
<1>1. /\ process = "seeding" /\ process' = "seeding" /\ ~Seeding /\ Len(ops) \in Nat
      /\ DOMAIN ops' = DOMAIN ops \cup {Len(ops) + 1} /\ ops'[Len(ops) + 1].kind = "seed"
      /\ \A i \in DOMAIN ops : ops'[i] = ops[i]
  BY Begun DEF SeedFile
<1>2. QED BY <1>1 DEF Phases, Seeding, Underway

LEMMA WritePhases ==
  ASSUME MemoryTypeOK, Phases, NEW k \in Keys, NEW kind \in {"put", "delete"}, UserWrite(k, kind)
  PROVE  Phases'
<1>1. BeginOp(k, kind) /\ kind \in {"put", "delete", "seed"} BY DEF UserWrite
<1>2. /\ process = "up" /\ process' = "up" /\ Len(ops) \in Nat
      /\ DOMAIN ops' = DOMAIN ops \cup {Len(ops) + 1} /\ ops'[Len(ops) + 1].kind # "seed"
      /\ \A i \in DOMAIN ops : ops'[i] = ops[i]
  BY <1>1, Begun DEF UserWrite
<1>3. QED BY <1>2 DEF Phases, Seeding, Underway

LEMMA DiePhases ==
  ASSUME MemoryTypeOK, Die
  PROVE  Phases'
<1>1. ASSUME NEW i \in DOMAIN ops
      PROVE  ops'[i].pc \in {"orphan", "acked", "failed"}
  <2>1. ops[i] \in Op /\ ops[i].pc \in OpPc BY OpFields DEF MemoryTypeOK
  <2>2. Ended(ops[i].pc) \in {"orphan", "acked", "failed"} /\ Ended(ops[i].pc) \in OpPc
    BY <2>1 DEF Ended, OpPc
  <2>3. ops'[i] = [ops[i] EXCEPT !.pc = Ended(ops[i].pc)] BY DEF Die
  <2>4. QED BY <2>1, <2>2, <2>3, PcSet
<1>2. DOMAIN ops' = DOMAIN ops /\ process' = "down" BY DEF Die
<1>3. QED BY <1>1, <1>2 DEF Phases, Seeding, Underway

LEMMA LandsPhases ==
  ASSUME MemoryTypeOK, Phases, NEW i \in DOMAIN ops, NEW from \in {"sent", "orphan"},
         NEW to \in {"landed", "failed"}, from = "orphan" => to = "failed", Lands(i, from, to)
  PROVE  Phases'
<1>1. /\ DOMAIN ops' = DOMAIN ops /\ ops[i].pc = from /\ ops'[i].pc = to
      /\ ops'[i].kind = ops[i].kind /\ \A j \in DOMAIN ops : j # i => ops'[j] = ops[j]
  BY LandsFacts DEF Same
<1>2. process' = process BY DEF Lands, Moves
<1>3. QED BY <1>1, <1>2 DEF Phases, Seeding, Underway

-----------------------------------------------------------------------------
\* What the other variables are.

StartsListing == \E kind \in {"offset", "cursor"}, limit \in Limits, within \in SUBSET Keys :
            StartList(kind, limit, within)

LEMMA StartsOne ==
  ASSUME NEW limit \in Limits, StartNamespaces(limit) \/ \E k \in Keys : StartSearch(k, limit)
  PROVE  StartsListing
<1>1. CASE StartNamespaces(limit)
  <2>1. StartList("cursor", limit, Keys) BY <1>1 DEF StartNamespaces
  <2>2. Keys \in SUBSET Keys OBVIOUS
  <2>3. QED BY <2>1, <2>2 DEF StartsListing
<1>2. ASSUME NEW k \in Keys, StartSearch(k, limit) PROVE StartsListing
  <2> DEFINE W == {j \in Keys : NamespaceOf[j] = NamespaceOf[k]}
  <2>1. StartList("offset", limit, W) /\ W \in SUBSET Keys BY <1>2 DEF StartSearch
  <2> HIDE DEF W
  <2>2. QED BY <2>1 DEF StartsListing
<1>3. QED BY <1>1, <1>2

LEMMA NoListType == NoList \in List
<1>1. PICK n \in Limits : n = CHOOSE m \in Limits : TRUE BY MemoryAssumption
<1>2. QED BY <1>1 DEF NoList, List

LEMMA ListType ==
  ASSUME MemoryTypeOK, list' = NoList \/ Page \/ StartsListing
  PROVE  list' \in List
<1>1. Listed \subseteq Keys BY DEF Listed, MemoryTypeOK, List
<1>2. CASE list' = NoList BY <1>2, NoListType
<1>3. CASE Page
  <2>1. ByOffset \subseteq Keys /\ ByCursor \subseteq Keys
    BY <1>1 DEF ByOffset, ByCursor
  <2>2. PICK page \in SUBSET Keys, n \in Nat :
          \/ list' = [list EXCEPT !.got = list.got \cup page, !.pc = "done"]
          \/ list' = [list EXCEPT !.got = list.got \cup page, !.at = n]
    <3>1. list \in List /\ Keys \subseteq Nat
      BY MemoryAssumption DEF MemoryTypeOK, Keys
    <3>2. list.at \in Nat /\ list.limit \in Nat BY <3>1, MemoryAssumption DEF List
    <3>3. list.at + list.limit \in Nat BY <3>1, <3>2
    <3> DEFINE page == IF list.kind = "offset" THEN ByOffset ELSE ByCursor
    <3>4. page \subseteq Keys BY <2>1
    <3>5. {k \in Listed : k >= list.at /\ k \notin page} \subseteq Nat BY <1>1, <3>1
    <3>6. \/ list' = [list EXCEPT !.got = list.got \cup page, !.pc = "done"]
          \/ \E n \in {k \in Listed : k >= list.at /\ k \notin page} \cup {list.at + list.limit} :
               list' = [list EXCEPT !.got = list.got \cup page, !.at = n]
      BY <1>3 DEF Page
    <3> HIDE DEF page
    <3>7. QED BY <3>2, <3>3, <3>4, <3>5, <3>6
  <2>3. list \in List BY DEF MemoryTypeOK
  <2>4. QED BY <2>2, <2>3 DEF List
<1>4. CASE StartsListing BY <1>4 DEF StartsListing, StartList, List
<1>5. QED BY <1>2, <1>3, <1>4

-----------------------------------------------------------------------------
\* The invariant.

Others == /\ process \in {"down", "seeding", "up"} /\ boots \in 0..MaxBoots
          /\ todo \in Seq(Keys) /\ list \in List

LEMMA FrameInv ==
  ASSUME MemoryInv, Frame, Others', Phases'
  PROVE  MemoryInv'
<1>1. MemoryTypeOK /\ Core BY DEF MemoryInv, Core
<1>2. Core' BY <1>1, FrameCore
<1>3. MemoryTypeOK' BY <1>1 DEF MemoryTypeOK, Others, Frame
<1>4. QED BY <1>2, <1>3 DEF MemoryInv, Core

LEMMA BeginInv ==
  ASSUME MemoryInv, NEW k \in Keys, NEW kind \in {"put", "delete", "seed"}, BeginOp(k, kind),
         kind = "seed" => ~Exists(k), points' = points, Others', Phases'
  PROVE  MemoryInv'
<1>1. MemoryTypeOK /\ Core BY DEF MemoryInv, Core
<1>2. Core' BY <1>1, BeginCore
<1>3. MemoryTypeOK' BY <1>1, BeginType DEF MemoryTypeOK, Others
<1>4. QED BY <1>2, <1>3 DEF MemoryInv, Core

LEMMA LandsInv ==
  ASSUME MemoryInv, NEW i \in DOMAIN ops, NEW from \in {"sent", "orphan"},
         NEW to \in {"landed", "failed"}, from = "orphan" => to = "failed", Lands(i, from, to)
  PROVE  MemoryInv'
<1>1. MemoryTypeOK /\ Phases BY DEF MemoryInv
<1>2. Core' /\ Phases' BY <1>1, LandsCore, LandsPhases
<1>3. /\ ops' \in Seq(Op) /\ Len(ops') = Len(ops) /\ points' \in [Keys -> Point]
      /\ process' = process /\ boots' = boots /\ todo' = todo
  BY <1>1, LandsFacts DEF Lands, Moves
<1>4. list' \in List
  <2>1. list \in List BY <1>1 DEF MemoryTypeOK
  <2>2. list' = list \/ list' = [list EXCEPT !.stayed = list.stayed \ {ops[i].key}, !.deleted = TRUE]
    BY DEF Lands
  <2>3. QED BY <2>1, <2>2 DEF List
<1>5. MemoryTypeOK' BY <1>1, <1>3, <1>4 DEF MemoryTypeOK
<1>6. QED BY <1>2, <1>5 DEF MemoryInv, Core

LEMMA InitInv ==
  ASSUME MemoryInit
  PROVE  MemoryInv
<1>1. 0 \in Numbers /\ 0 \in 0..MaxBoots /\ MaxOps \in Nat
  BY MemoryAssumption DEF Numbers
<1>2. \A k \in Keys : points[k] \in Point /\ points[k].life = 0
  BY <1>1 DEF MemoryInit, Absent, Point
<1>3. points \in [Keys -> Point] /\ list \in List
  BY <1>1, <1>2, NoListType DEF MemoryInit
<1>4. MemoryTypeOK BY <1>1, <1>3 DEF MemoryTypeOK, MemoryInit
<1>5. ops = << >> /\ DOMAIN ops = {} /\ process = "down" BY DEF MemoryInit
<1>6. QED BY <1>2, <1>4, <1>5
          DEF MemoryInv, PriorsAcked, NotStale, LivesSettled, CreatedAgrees, CreatedKept, Phases,
              Seeding, SeedsFirst, Exists

LEMMA NextInv ==
  ASSUME MemoryInv, [MemoryNext]_memoryVars
  PROVE  MemoryInv'
<1>1. MemoryTypeOK /\ Phases /\ Others BY DEF MemoryInv, MemoryTypeOK, Others
<1>2. CASE Boot
  <2>1. Frame BY <1>1, <1>2, SameFrame DEF Boot
  <2>2. Others' BY <1>1, <1>2, MemoryAssumption DEF Boot, Others, Keys
  <2>3. QED BY <1>1, <1>2, <2>1, <2>2, BootPhases, FrameInv
<1>3. CASE SeedFile
  <2>1. Head(todo) \in Keys /\ Tail(todo) \in Seq(Keys)
    BY <1>1, <1>3 DEF Others, SeedFile
  <2>2. Others' BY <1>1, <1>3, <2>1 DEF Others, SeedFile
  <2>3. points' = points /\ process' = process BY <1>3 DEF SeedFile
  <2>4. CASE Exists(Head(todo))
    <3>1. ops' = ops BY <1>3, <2>4 DEF SeedFile
    <3>2. Frame BY <1>1, <2>3, <3>1, SameFrame
    <3>3. QED BY <1>1, <2>2, <2>3, <3>2, FramePhases, FrameInv
  <2>5. CASE ~Exists(Head(todo))
    <3>1. BeginOp(Head(todo), "seed") BY <1>3, <2>5 DEF SeedFile
    <3>2. Phases' BY <1>1, <1>3, <2>1, <3>1, SeedPhases
    <3>3. QED BY <2>1, <2>2, <2>3, <2>5, <3>1, <3>2, BeginInv
  <2>6. QED BY <2>4, <2>5
<1>4. CASE Serve
  <2>1. Frame BY <1>1, <1>4, SameFrame DEF Serve
  <2>2. Others' BY <1>1, <1>4 DEF Serve, Others
  <2>3. Phases' BY <1>1, <1>4 DEF Serve, Phases, Seeding, Underway
  <2>4. QED BY <2>1, <2>2, <2>3, FrameInv
<1>5. CASE Die
  <2>1. Frame BY <1>1, <1>5, DieFrame
  <2>2. list' \in List BY <1>1, <1>5, ListType DEF Die
  <2>3. Others' BY <1>1, <1>5, <2>2 DEF Die, Others
  <2>4. QED BY <1>1, <1>5, <2>1, <2>3, DiePhases, FrameInv
<1>6. CASE Page \/ StartsListing
  <2>1. /\ ops' = ops /\ points' = points /\ process' = process /\ boots' = boots /\ todo' = todo
        /\ list' \in List
    BY <1>1, <1>6, ListType DEF Page, StartList, StartsListing
  <2>2. Frame BY <1>1, <2>1, SameFrame
  <2>3. QED BY <1>1, <2>1, <2>2, FramePhases, FrameInv DEF Others
<1>7. CASE \E k \in Keys, kind \in {"put", "delete"} : UserWrite(k, kind)
  <2>1. PICK k \in Keys, kind \in {"put", "delete"} : UserWrite(k, kind) BY <1>7
  <2>2. Others' BY <1>1, <2>1 DEF UserWrite, Others
  <2>3. BeginOp(k, kind) /\ points' = points BY <2>1 DEF UserWrite
  <2>4. Phases' BY <1>1, <2>1, WritePhases
  <2>5. kind \in {"put", "delete", "seed"} /\ kind # "seed" OBVIOUS
  <2>6. QED BY <2>2, <2>3, <2>4, <2>5, BeginInv
<1>8. CASE \E i \in DOMAIN ops : OpStep(i)
  <2>1. PICK i \in DOMAIN ops : OpStep(i) BY <1>8
  <2>2. CASE Embed(i) \/ Look(i) \/ Acknowledge(i) \/ FailOp(i)
    <3>1. Frame BY <1>1, <2>2, EmbedFrame, LookFrame, AcknowledgeFrame, FailFrame
    <3>2. process' = process /\ boots' = boots /\ todo' = todo /\ list' = list
      BY <2>2 DEF Embed, Look, Acknowledge, FailOp, Moves
    <3>3. QED BY <1>1, <3>1, <3>2, FramePhases, FrameInv DEF Others
  <2>3. CASE Lands(i, "sent", "landed") BY <2>3, LandsInv
  <2>4. CASE Lands(i, "orphan", "failed") BY <2>4, LandsInv
  <2>5. QED BY <2>1, <2>2, <2>3, <2>4 DEF OpStep
<1>9. CASE UNCHANGED memoryVars
  <2>1. Frame BY <1>1, <1>9, SameFrame DEF memoryVars
  <2>2. Others' /\ process' = process BY <1>1, <1>9 DEF memoryVars, Others
  <2>3. QED BY <1>1, <2>1, <2>2, FramePhases, FrameInv
<1>10. QED BY <1>2, <1>3, <1>4, <1>5, <1>6, <1>7, <1>8, <1>9, StartsOne DEF MemoryNext, MemoryRest

-----------------------------------------------------------------------------
\* The theorems.

(***************************************************************************)
(* The inductive invariant: an acknowledged write stays acknowledged and   *)
(* never lands again, a key is brought to life by a write once, and seed   *)
(* files are written while nobody is served.                               *)
(***************************************************************************)
THEOREM MemoryInvariance == MemorySpec => []MemoryInv
<1>1. MemoryInit => MemoryInv BY InitInv
<1>2. MemoryInv /\ [MemoryNext]_memoryVars => MemoryInv' BY NextInv
<1>3. QED BY <1>1, <1>2, PTL DEF MemorySpec

(***************************************************************************)
(* What was replaced stays replaced (NoStaleReturn), for any keys, writes, *)
(* crashes and late requests.                                              *)
(***************************************************************************)
THEOREM NoStaleReturnCorrect == MemorySpec => []NoStaleReturn
<1>1. MemoryInv => NoStaleReturn BY DEF MemoryInv, NotStale, NoStaleReturn
<1>2. QED BY <1>1, MemoryInvariance, PTL

(***************************************************************************)
(* created_at is that of the put that found nothing (CreatedKept), unless  *)
(* a put that began in an earlier life lands in this one.                  *)
(***************************************************************************)
THEOREM CreatedKeptCorrect == MemorySpec => []CreatedKept
<1>1. MemoryInv => CreatedKept BY DEF MemoryInv, CreatedAgrees
<1>2. QED BY <1>1, MemoryInvariance, PTL

\* A point changes only when a write lands there.
LEMMA ChangedByLanding ==
  ASSUME MemoryInv, [MemoryNext]_memoryVars, NEW k \in Keys, points'[k].last # points[k].last
  PROVE  \E i \in DOMAIN ops : /\ ops[i].key = k /\ points'[k].last = i
                               /\ ops[i].pc \in {"sent", "orphan"} /\ ops'[i].kind = ops[i].kind
<1>1. PICK i \in DOMAIN ops : Lands(i, "sent", "landed") \/ Lands(i, "orphan", "failed")
  BY DEF MemoryNext, memoryVars, Boot, SeedFile, Serve, Die, Page, MemoryRest, UserWrite,
         StartNamespaces, StartSearch, StartList, OpStep, Embed, Look, Acknowledge, FailOp
<1>2. MemoryTypeOK BY DEF MemoryInv
<1>3. PICK from \in {"sent", "orphan"}, to \in {"landed", "failed"} : Lands(i, from, to)
  BY <1>1
<1>4. /\ ops[i].pc = from /\ Same(ops[i], ops'[i]) /\ points'[ops[i].key] = Stored(i)
      /\ \A l \in Keys : l # ops[i].key => points'[l] = points[l]
  BY <1>2, <1>3, LandsFacts
<1>5. Stored(i).last = i BY <1>2, StoredFacts
<1>6. ops[i].key = k BY <1>4
<1>7. QED BY <1>4, <1>5, <1>6 DEF Same

(***************************************************************************)
(* Seeding replaces nothing that was acknowledged (SeedKeepsEdits): only   *)
(* what a dead process sent can land on a user's edit.                     *)
(***************************************************************************)
THEOREM SeedKeepsEditsCorrect == MemorySpec => SeedKeepsEdits
<1> DEFINE Kept(k) ==
      Exists(k) /\ points'[k].last # points[k].last /\ ops[points'[k].last].kind = "seed" =>
        ops[points[k].last].pc # "acked" \/ ops[points'[k].last].pc = "orphan"
<1>1. ASSUME MemoryInv, [MemoryNext]_memoryVars, NEW k \in Keys PROVE Kept(k)
  <2> SUFFICES ASSUME Exists(k), points'[k].last # points[k].last,
                      ops[points'[k].last].kind = "seed", ops[points'[k].last].pc # "orphan"
               PROVE  ops[points[k].last].pc # "acked"
    OBVIOUS
  <2>1. PICK i \in DOMAIN ops :
          ops[i].key = k /\ points'[k].last = i /\ ops[i].pc \in {"sent", "orphan"}
    BY <1>1, ChangedByLanding
  <2>2. ops[points[k].last].pc = "failed"
    BY <1>1, <2>1 DEF MemoryInv, SeedsFirst
  <2>3. QED BY <2>2
<1>2. MemoryInv /\ [MemoryNext]_memoryVars => [\A k \in Keys : Kept(k)]_memoryVars
  BY <1>1
<1>3. QED BY <1>2, MemoryInvariance, PTL DEF MemorySpec, SeedKeepsEdits

-----------------------------------------------------------------------------
\* Listings.

LEMMA ListedRanks ==
  ASSUME MemoryTypeOK
  PROVE  /\ Listed \in SUBSET Keys /\ Listed \in SUBSET Nat /\ IsFiniteSet(Listed)
         /\ Orders(LessThan, Listed)
         /\ \A k \in Listed : RankIn(LessThan, Listed, k) = Rank(k)
         /\ \A k \in Keys : Rank(k) \in Nat
<1>1. Listed \in SUBSET Keys /\ Keys \in SUBSET Nat /\ IsFiniteSet(Keys)
  <2>1. list.within \in SUBSET Keys BY DEF MemoryTypeOK, List
  <2>2. Listed \in SUBSET Keys BY <2>1 DEF Listed
  <2>3. QED BY <2>2, MemoryAssumption, FS_Interval DEF Keys
<1>2. IsFiniteSet(Listed) /\ Orders(LessThan, Listed) BY <1>1, FS_Subset, NumbersOrdered
<1>3. ASSUME NEW k \in Listed PROVE RankIn(LessThan, Listed, k) = Rank(k)
  <2>1. {j \in Listed : <<j, k>> \in LessThan} = {j \in Listed : j < k} BY <1>1 DEF LessThan
  <2>2. QED BY <2>1 DEF RankIn, Rank
<1>4. ASSUME NEW k \in Keys PROVE Rank(k) \in Nat
  <2>1. {j \in Listed : j < k} \in SUBSET Listed OBVIOUS
  <2>2. IsFiniteSet({j \in Listed : j < k}) BY <1>2, <2>1, FS_Subset
  <2>3. QED BY <2>2, FS_CardinalityType DEF Rank
<1>5. QED BY <1>1, <1>2, <1>3, <1>4

\* A page with a point behind it is full.
LEMMA FullPage ==
  ASSUME MemoryTypeOK, NEW x \in Listed, Rank(x) >= list.limit + list.at
  PROVE  Cardinality(ByOffset) >= list.limit
<1>1. list.at \in Nat /\ list.limit \in Nat \ {0}
  BY MemoryAssumption DEF MemoryTypeOK, List
<1>2. RankIn(LessThan, Listed, x) >= list.at + list.limit BY <1>1, ListedRanks
<1> DEFINE T == {y \in Listed : /\ RankIn(LessThan, Listed, y) >= list.at
                               /\ RankIn(LessThan, Listed, y) < list.at + list.limit}
<1>3. Cardinality(T) = list.limit BY <1>1, <1>2, ListedRanks, RankSlice
<1>4. T = ByOffset BY <1>1, ListedRanks DEF ByOffset
<1> HIDE DEF T
<1>5. QED BY <1>1, <1>3, <1>4

\* A namespace that was seen is returned, or as many are as were asked for, all before it.
LEMMA ReturnedFirst ==
  ASSUME MemoryTypeOK, NEW n \in Seen, n \notin Returned
  PROVE  Cardinality(Returned) = list.limit /\ \A m \in Returned : m < n
<1>1. /\ list.limit \in Nat \ {0} /\ list.got \in SUBSET Keys
      /\ Seen \in SUBSET Nat
  BY MemoryAssumption DEF MemoryTypeOK, List, Seen, Keys
<1>2. IsFiniteSet(Seen)
  <2>1. IsFiniteSet(Keys) BY MemoryAssumption, FS_Interval DEF Keys
  <2>3. IsFiniteSet(list.got) BY <1>1, <2>1, FS_Subset
  <2>2. QED BY <2>3, FiniteImage DEF Seen
<1>3. Orders(LessThan, Seen) BY <1>1, NumbersOrdered
<1>4. ASSUME NEW m \in Seen
      PROVE  RankIn(LessThan, Seen, m) = Cardinality({i \in Seen : i < m})
  <2>1. {i \in Seen : <<i, m>> \in LessThan} = {i \in Seen : i < m} BY <1>1 DEF LessThan
  <2>2. QED BY <2>1 DEF RankIn
<1>5. \A m \in Seen : RankIn(LessThan, Seen, m) \in Nat BY <1>2, <1>3, Ranks
<1>6. RankIn(LessThan, Seen, n) >= 0 + list.limit BY <1>1, <1>4, <1>5 DEF Returned
<1>7. Returned = {m \in Seen : /\ RankIn(LessThan, Seen, m) >= 0
                               /\ RankIn(LessThan, Seen, m) < 0 + list.limit}
  BY <1>1, <1>4, <1>5 DEF Returned
<1>8. Cardinality(Returned) = list.limit BY <1>1, <1>2, <1>3, <1>6, <1>7, RankSlice
<1>9. ASSUME NEW m \in Returned PROVE m < n
  <2>1. m \in Seen /\ RankIn(LessThan, Seen, m) < RankIn(LessThan, Seen, n)
    BY <1>1, <1>5, <1>6, <1>7
  <2>2. <<m, n>> \in LessThan BY <1>2, <1>3, <2>1, Ranks
  <2>3. QED BY <2>2 DEF LessThan
<1>10. QED BY <1>8, <1>9

LEMMA PageKeeps ==
  ASSUME MemoryTypeOK, ListInv, Page
  PROVE  ListInv'
<1> DEFINE page == IF list.kind = "offset" THEN ByOffset ELSE ByCursor
           left == {k \in Listed : k >= list.at /\ k \notin page}
           over == IF list.kind = "offset" THEN Cardinality(page) < list.limit ELSE left = {}
<1>1. /\ list \in List /\ list.at \in Nat /\ list.kind \in {"offset", "cursor"} /\ list.pc = "scan"
      /\ list.limit \in Nat \ {0} /\ points' = points
      /\ list'.within = list.within
  BY MemoryAssumption DEF MemoryTypeOK, List, Page
<1>2. Listed' = Listed /\ \A k : Rank(k)' = Rank(k) BY <1>1 DEF Listed, Exists, Rank
<1>3. /\ Listed \in SUBSET Nat /\ \A k \in Listed : Rank(k) \in Nat
  BY ListedRanks
<1>4. list.stayed \subseteq Listed BY <1>1 DEF ListInv, Got
<1>5. (list.kind = "cursor" \/ ~list.deleted) => \A k \in list.stayed : Behind(k) => k \in list.got
  BY <1>1 DEF ListInv, Got
<1>6. CASE over /\ list' = [list EXCEPT !.got = list.got \cup page, !.pc = "done"]
  <2>1. /\ list'.kind = list.kind /\ list'.pc = "done" /\ list'.stayed = list.stayed
        /\ list'.deleted = list.deleted /\ list'.got = list.got \cup page
    BY <1>1, <1>6 DEF List
  <2>2. ASSUME list.kind = "cursor" \/ ~list.deleted, NEW k \in list.stayed
        PROVE  k \in list.got \cup page
    <3>0. k \in Listed /\ k \in Nat /\ Rank(k) \in Nat BY <1>3, <1>4
    <3>1. CASE Behind(k) BY <1>5, <2>2, <3>1
    <3>2. CASE ~Behind(k) /\ list.kind = "offset"
      <4>1. k \in Listed /\ Rank(k) >= list.at /\ Rank(k) \in Nat BY <1>1, <3>0, <3>2 DEF Behind
      <4>2. ~(Rank(k) >= list.limit + list.at)
        <5>1. ~(Cardinality(ByOffset) >= list.limit)
          <6>1. Cardinality(ByOffset) < list.limit BY <1>6, <3>2
          <6>2. IsFiniteSet(ByOffset) BY ListedRanks, FS_Subset DEF ByOffset
          <6>3. QED BY <1>1, <6>1, <6>2, FS_CardinalityType
        <5>2. QED BY <4>1, <5>1, FullPage
      <4>3. k \in ByOffset BY <1>1, <4>1, <4>2 DEF ByOffset
      <4>4. QED BY <3>2, <4>3
    <3>3. CASE ~Behind(k) /\ list.kind = "cursor"
      <4>1. k \in Listed /\ k >= list.at BY <1>1, <3>0, <3>3 DEF Behind
      <4>2. left = {} BY <1>6, <3>3
      <4>3. QED BY <4>1, <4>2
    <3>4. QED BY <1>1, <3>1, <3>2, <3>3
  <2> HIDE DEF page
  <2>3. QED BY <2>1, <2>2 DEF ListInv, Got
<1>7. CASE ~over /\ \E n \in left \cup {list.at + list.limit} :
             /\ IF list.kind = "offset" THEN n = list.at + list.limit
                                        ELSE n \in left /\ \A k \in left : n <= k
             /\ list' = [list EXCEPT !.got = list.got \cup page, !.at = n]
  <2>1. PICK n \in left \cup {list.at + list.limit} :
             /\ IF list.kind = "offset" THEN n = list.at + list.limit
                                        ELSE n \in left /\ \A k \in left : n <= k
             /\ list' = [list EXCEPT !.got = list.got \cup page, !.at = n]
    BY <1>7
  <2>2. /\ list'.kind = list.kind /\ list'.pc = "scan" /\ list'.stayed = list.stayed
        /\ list'.deleted = list.deleted /\ list'.got = list.got \cup page /\ list'.at = n
    BY <1>1, <2>1 DEF List
  <2>3. n \in Nat BY <1>1, <1>3
  <2>4. ASSUME list.kind = "cursor" \/ ~list.deleted, NEW k \in list.stayed,
               IF list.kind = "offset" THEN Rank(k) < n ELSE k < n
        PROVE  k \in list.got \cup page
    <3>0. k \in Listed /\ k \in Nat /\ Rank(k) \in Nat BY <1>3, <1>4
    <3>1. CASE Behind(k) BY <1>5, <2>4, <3>1
    <3>2. CASE ~Behind(k) /\ list.kind = "offset"
      <4>1. k \in Listed /\ Rank(k) >= list.at /\ Rank(k) \in Nat BY <1>1, <3>0, <3>2 DEF Behind
      <4>2. Rank(k) < list.at + list.limit BY <2>1, <2>4, <3>2
      <4>3. k \in ByOffset BY <1>1, <4>1, <4>2 DEF ByOffset
      <4>4. QED BY <3>2, <4>3
    <3>3. CASE ~Behind(k) /\ list.kind = "cursor"
      <4>1. k \in Listed /\ k >= list.at /\ k \in Nat BY <1>1, <3>0, <3>3 DEF Behind
      <4>2. k < n /\ \A j \in left : n <= j BY <2>1, <2>4, <3>3
      <4>3. k \notin left BY <2>3, <4>1, <4>2
      <4>4. QED BY <4>1, <4>3
    <3>4. QED BY <1>1, <3>1, <3>2, <3>3
  <2> HIDE DEF page
  <2>5. QED BY <1>2, <1>4, <2>2, <2>4 DEF ListInv, Got, Behind
<1>8. QED BY <1>6, <1>7 DEF Page

\* A write that lands takes at most its own key away, and then says so.
LEMMA LandsKeepsList ==
  ASSUME MemoryInv, ListInv, NEW i \in DOMAIN ops, NEW from \in {"sent", "orphan"},
         NEW to \in {"landed", "failed"}, Lands(i, from, to)
  PROVE  ListInv'
<1>1. MemoryTypeOK BY DEF MemoryInv
<1>2. /\ ops[i] \in Op /\ i \in Nat \ {0} /\ list \in List /\ ops[i].key \in Keys
  BY <1>1, OpFields DEF MemoryTypeOK
<1>3. /\ points'[ops[i].key] = Stored(i) /\ \A k \in Keys : k # ops[i].key => points'[k] = points[k]
  BY <1>1, LandsFacts
<1>0. list'.within = list.within /\ list.within \in SUBSET Keys BY <1>2 DEF Lands, List
<1>4. CASE ops[i].kind = "delete"
  <2>1. list' = [list EXCEPT !.stayed = list.stayed \ {ops[i].key}, !.deleted = TRUE]
    BY <1>4 DEF Lands
  <2>2. /\ list'.kind = list.kind /\ list'.pc = list.pc /\ list'.got = list.got
        /\ list'.stayed = list.stayed \ {ops[i].key} /\ list'.deleted = TRUE /\ list'.at = list.at
    BY <1>2, <2>1 DEF List
  <2>3. \A k \in Listed : k # ops[i].key => k \in Listed' BY <1>3, <1>0 DEF Listed, Exists
  <2>4. "offset" # "cursor" OBVIOUS
  <2>5. QED BY <2>2, <2>3, <2>4 DEF ListInv, Got, Behind
<1>5. CASE ops[i].kind # "delete"
  <2>1. list' = list BY <1>5 DEF Lands
  <2>2. Listed \subseteq Listed'
    <3>1. points[ops[i].key].life # 0 => Stored(i).life # 0 BY <1>1, <1>5, StoredFacts
    <3>2. QED BY <1>3, <1>0, <3>1 DEF Listed, Exists
  <2>3. \A k \in Keys : Rank(k) \in Nat BY <1>1, ListedRanks
  <2>4. ASSUME NEW k \in Keys PROVE Rank(k)' \in Nat /\ Rank(k) <= Rank(k)'
    <3>1. IsFiniteSet(Listed')
      <4>1. IsFiniteSet(Keys) /\ Listed' \in SUBSET Keys
        BY <1>0, MemoryAssumption, FS_Interval DEF Listed, Keys
      <4>2. QED BY <4>1, FS_Subset
    <3> DEFINE B == {j \in Listed : j < k}
               C == {j \in Listed' : j < k}
    <3>2. IsFiniteSet(C) BY <3>1, FS_Subset
    <3>3. B \in SUBSET C BY <2>2
    <3>4. Cardinality(C) \in Nat /\ Cardinality(B) <= Cardinality(C)
      <4> HIDE DEF B, C
      <4>1. QED BY <3>2, <3>3, FS_Subset, FS_CardinalityType
    <3>5. QED BY <3>4 DEF Rank
  <2>5. list.stayed \in SUBSET Keys /\ list.at \in Nat BY <1>2 DEF List
  <2>6. \A k \in list.stayed : Behind(k)' => Behind(k) BY <2>1, <2>3, <2>4, <2>5 DEF Behind
  <2>7. QED BY <2>1, <2>2, <2>6 DEF ListInv, Got
<1>6. QED BY <1>4, <1>5

LEMMA NextListInv ==
  ASSUME MemoryInv, ListInv, [MemoryNext]_memoryVars
  PROVE  ListInv'
<1>1. MemoryTypeOK BY DEF MemoryInv
<1>2. CASE points' = points /\ list' = list
  <2>1. Listed' = Listed /\ \A k : Rank(k)' = Rank(k) BY <1>2 DEF Listed, Exists, Rank
  <2>2. QED BY <1>2, <2>1 DEF ListInv, Got, Behind
<1>3. CASE list' = NoList BY <1>3 DEF ListInv, Got, NoList
<1>4. CASE Page BY <1>1, <1>4, PageKeeps
<1>5. ASSUME NEW kind \in {"offset", "cursor"}, NEW limit \in Limits, NEW within \in SUBSET Keys,
             StartList(kind, limit, within)
      PROVE  ListInv'
  <2>1. /\ list'.pc = "scan" /\ list'.at = 0 /\ list'.within = within
        /\ list'.stayed = {k \in within : Exists(k)} /\ points' = points
    BY <1>5 DEF StartList
  <2>2. Listed' = list'.stayed BY <2>1 DEF Listed, Exists
  <2>3. \A k \in Keys : Rank(k)' \in Nat /\ k \in Nat
    <3>1. IsFiniteSet(Keys) /\ Keys \in SUBSET Nat BY MemoryAssumption, FS_Interval DEF Keys
    <3>2. ASSUME NEW k \in Keys PROVE Cardinality({j \in list'.stayed : j < k}) \in Nat
      <4>1. {j \in list'.stayed : j < k} \in SUBSET Keys BY <2>1
      <4>2. QED BY <3>1, <4>1, FS_Subset, FS_CardinalityType
    <3>3. QED BY <2>2, <3>1, <3>2 DEF Rank
  <2>4. \A k \in list'.stayed : k \in Keys BY <2>1
  <2>5. \A k \in list'.stayed : ~(k < 0) /\ ~(Rank(k)' < 0) BY <2>3, <2>4
  <2>6. QED BY <2>1, <2>2, <2>5 DEF ListInv, Got, Behind
<1>6. ASSUME NEW i \in DOMAIN ops, Lands(i, "sent", "landed") \/ Lands(i, "orphan", "failed")
      PROVE  ListInv'
  BY <1>6, LandsKeepsList
<1>7. ASSUME NEW limit \in Limits, StartNamespaces(limit) \/ \E k \in Keys : StartSearch(k, limit)
      PROVE  ListInv'
  BY <1>5, <1>7, StartsOne DEF StartsListing
<1>8. QED BY <1>2, <1>3, <1>4, <1>6, <1>7
          DEF MemoryNext, memoryVars, Boot, SeedFile, Serve, Die, MemoryRest, UserWrite,
              OpStep, Embed, Look, Acknowledge, FailOp

(***************************************************************************)
(* The inductive invariant of a listing (_do_search, _do_list_namespaces): *)
(* on the way, what was there all along is still there, and the listing    *)
(* has got all of it that lies behind, at the end all of it.               *)
(***************************************************************************)
THEOREM ListingInvariance == MemorySpec => []ListInv
<1>1. MemoryInit => ListInv BY DEF MemoryInit, NoList, ListInv, Got
<1>2. MemoryInv /\ ListInv /\ [MemoryNext]_memoryVars => ListInv' BY NextListInv
<1>3. QED BY <1>1, <1>2, MemoryInvariance, PTL DEF MemorySpec

(***************************************************************************)
(* What a listing returns (ListingComplete), for any keys, namespaces,     *)
(* page size and limits, and any writes during it: a search, in pages, has *)
(* everything that was there all along, if nothing was deleted, as a page  *)
(* that is not full has nothing behind it and points that are added only   *)
(* move others back; a listing of namespaces lacks one of them only if it  *)
(* is full with others that sort before it.                                *)
(***************************************************************************)
THEOREM ListingCompleteCorrect == MemorySpec => []ListingComplete
<1>1. ASSUME MemoryTypeOK, ListInv PROVE ListingComplete
  <2>1. ASSUME list.pc = "done", list.kind = "cursor", NEW k \in list.stayed,
               NamespaceOf[k] \notin Returned
        PROVE  /\ Cardinality(Returned) = list.limit
               /\ \A n \in Returned : n < NamespaceOf[k]
    <3>1. NamespaceOf[k] \in Seen BY <1>1, <2>1 DEF ListInv, Got, Seen
    <3>2. QED BY <1>1, <2>1, <3>1, ReturnedFirst
  <2>2. QED BY <1>1, <2>1 DEF ListInv, Got, ListingComplete
<1>2. MemoryInv => MemoryTypeOK BY DEF MemoryInv
<1>3. QED BY <1>1, <1>2, MemoryInvariance, ListingInvariance, PTL

=============================================================================
