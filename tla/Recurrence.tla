----------------------------- MODULE Recurrence -----------------------------
(***************************************************************************)
(* The life of one recurring row of scheduled_jobs across the transitions  *)
(* of its time zone: created by schedule_task, then moved on by every poll *)
(* that finds it due.  Polls may be late by any amount (the process was    *)
(* down).  Who claims, and what becomes of the run, is Scheduler's         *)
(* business; this module is about where next_run puts the row.             *)
(***************************************************************************)
EXTENDS WallClock

CONSTANTS Requests,   \* the first-run arguments a user may give
          Intervals,  \* the repeat intervals, none of them OneShot
          MaxTime     \* bound on the clock

ASSUME RecurrenceAssumption ==
  /\ Requests \subseteq RequestType
  /\ Intervals \subseteq Nat \ {OneShot}
  /\ MaxTime \in Nat

VARIABLES now,     \* the clock, UTC
          due,     \* next_run of the row
          every,   \* every_minutes of the row
          wall,    \* the wall-clock reading the user asked for
          polled   \* the clock the row was last computed from

vars == <<now, due, every, wall, polled>>

AskedReading(request) ==
  IF request.kind = "naive" THEN request.value ELSE AsLocal(FirstRun(0, request))

Init ==
  /\ now = 0
  /\ polled = 0
  /\ every \in Intervals
  /\ \E request \in Requests :
       /\ Accepted(0, request)
       /\ due = FirstRun(0, request)
       /\ wall = AskedReading(request)

Tick ==
  /\ now < MaxTime
  /\ now' = now + 1
  /\ UNCHANGED <<due, every, wall, polled>>

Claim ==
  /\ due <= now
  /\ due' = NextRun(due, every, now)
  /\ polled' = now
  /\ UNCHANGED <<now, every, wall>>

\* A poll before the row is due selects nothing.
PollTooEarly ==
  /\ due > now
  /\ UNCHANGED vars

Next == Tick \/ Claim \/ PollTooEarly

Spec == Init /\ [][Next]_vars

-----------------------------------------------------------------------------
\* The readings the user asked for that the bound on the clock lets occur, and
\* the instants they stand for.
Readings == {wall + k * every : k \in 0..(MaxTime + 2 * MaxOffset)}
Schedule == {ToUtc(w) : w \in Readings}

Rescheduled == polled > 0

(***************************************************************************)
(* "Every day at 08:00 stays at 08:00 across DST changes" (scheduler.py,   *)
(* next_run): a row that was moved on stands at an instant of the schedule *)
(* the user asked for; for a reading the zone skips, that is the instant   *)
(* Python gives it.                                                        *)
(***************************************************************************)
KeepsWallTime == Rescheduled => due \in Schedule

(***************************************************************************)
(* A late poll passes over the occurrences missed while down and over no   *)
(* other: nothing the user asked for lies between the poll and the run     *)
(* next_run chose.                                                         *)
(***************************************************************************)
NothingSkippedAhead ==
  Rescheduled => \A u \in Schedule : u > polled => u >= due

-----------------------------------------------------------------------------
(***************************************************************************)
(* What the two properties need of the zone and of the request, and the    *)
(* inductive invariant.                                                    *)
(***************************************************************************)
\* The transitions of a zone do not crowd, and each leads on from the last.
OrderlyZone ==
  /\ \A s, t \in Zone : s # t => s.at + 2 * MaxOffset < t.at \/ t.at + 2 * MaxOffset < s.at
  /\ \A s, t \in Zone :
       s.at < t.at => s.after = t.before \/ \E r \in Zone : s.at < r.at /\ r.at < t.at
  /\ \A t \in Zone : t.before = BaseOffset \/ \E s \in Zone : s.at < t.at

\* No reading the user asked for is one the zone skips.
Unskipped == \A w \in Readings : AsLocal(ToUtc(w)) = w

\* The row stands at a reading that was asked for, and the readings before it
\* are over.
OnSchedule ==
  \E m \in 0..(MaxTime + 2 * MaxOffset) :
    /\ AsLocal(due) = wall + m * every
    /\ Rescheduled => due = ToUtc(wall + m * every)
    /\ OrderlyZone /\ Rescheduled => \A j \in 0..(m - 1) : ToUtc(wall + j * every) <= polled

\* All of it: what every claim keeps.
RecurrenceInv ==
  /\ now \in 0..MaxTime /\ polled \in 0..now
  /\ due \in Int /\ wall \in Int /\ wall > -MaxOffset /\ every \in Intervals
  /\ Unskipped => OnSchedule
=============================================================================
