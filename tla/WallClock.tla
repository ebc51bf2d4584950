------------------------------ MODULE WallClock ------------------------------
(***************************************************************************)
(* The time arithmetic of src/agent/app/scheduler.py.                      *)
(*                                                                         *)
(* An instant is an integer: a number of time units since an epoch, in     *)
(* UTC.  A wall-clock reading is an integer too: instant + the zone's      *)
(* offset.  A zone is a set of transitions, each the instant `at' from     *)
(* which the offset `after' holds instead of `before'.  The conversions    *)
(* are those Python's zoneinfo makes for a datetime with fold = 0, which   *)
(* is what `datetime + timedelta' and `replace(tzinfo=tz)' produce.        *)
(***************************************************************************)
EXTENDS Integers

CONSTANTS Zone,        \* the transitions, [at, before, after] records
          BaseOffset,  \* the offset before the first transition
          MaxOffset    \* no offset is larger than this, either way

Offsets == (-MaxOffset)..MaxOffset

ASSUME ZoneAssumption ==
  /\ MaxOffset \in Nat
  /\ BaseOffset \in Offsets
  /\ Zone \subseteq [at : Int, before : Offsets, after : Offsets]

(***************************************************************************)
(* The transitions among T, ordered by the reading When(t), that are the   *)
(* latest at or before x.                                                  *)
(***************************************************************************)
LatestBy(When(_), x) ==
  {t \in Zone : /\ When(t) <= x
                /\ \A s \in Zone : When(s) <= x => When(s) <= When(t)}

OffsetAfter(latest) ==
  IF latest = {} THEN BaseOffset ELSE (CHOOSE t \in latest : TRUE).after

TakesEffect(t) == t.at
\* With fold = 0 a wall reading belongs to the old offset through a repeated
\* hour and through a skipped one.
WallTakesEffect(t) == t.at + (IF t.before >= t.after THEN t.before ELSE t.after)

UtcOffset(u)  == OffsetAfter(LatestBy(TakesEffect, u))
WallOffset(w) == OffsetAfter(LatestBy(WallTakesEffect, w))

AsLocal(u) == u + UtcOffset(u)      \* astimezone(tz)
ToUtc(w)   == w - WallOffset(w)     \* astimezone(timezone.utc)

-----------------------------------------------------------------------------
(***************************************************************************)
(* first_run.  A request is what the tool's arguments resolve to: a delay  *)
(* ("in_minutes"), a local time without an offset ("naive"), a time with   *)
(* one ("aware"), or arguments it refuses whatever the time ("malformed":  *)
(* both or neither given, or not ISO 8601).                                *)
(***************************************************************************)
RequestKinds == {"in_minutes", "naive", "aware", "malformed"}
RequestType  == [kind : RequestKinds, value : Int]

FirstRun(now, request) ==
  CASE request.kind = "in_minutes" -> now + request.value
    [] request.kind = "naive"      -> ToUtc(request.value)
    [] OTHER                       -> request.value

Accepted(now, request) ==
  /\ request.kind # "malformed"
  /\ request.kind = "in_minutes" => request.value >= 1
  /\ FirstRun(now, request) > now

(***************************************************************************)
(* next_run.  The code steps the local reading of the stored run until its *)
(* instant is after now: the k-th slot, for the least such k.  Slots are   *)
(* at most 2 * MaxOffset early, which bounds the search.                   *)
(***************************************************************************)
OneShot == 0   \* every_minutes IS NULL

\* Mutant of Slot: steps in UTC.
SlotInUtc(prev, every, k) == prev + k * every

Slot(prev, every, k) == ToUtc(AsLocal(prev) + k * every)

Steps(prev, now) == 1..(now - prev + 2 * MaxOffset + 1)

\* Mutants of NextRun: the interval counted from the poll, and one step without
\* the loop.
NextRunFromPoll(prev, every, now) == ToUtc(AsLocal(now) + every)
NextRunOneStep(prev, every, now)  == Slot(prev, every, 1)

NextRun(prev, every, now) ==
  LET first == CHOOSE k \in Steps(prev, now) :
                 /\ Slot(prev, every, k) > now
                 /\ \A j \in 1..(k - 1) : Slot(prev, every, j) <= now
  IN  Slot(prev, every, first)
=============================================================================
