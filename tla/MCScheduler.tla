----------------------------- MODULE MCScheduler -----------------------------
(***************************************************************************)
(* Small instances of Scheduler.  One unit of time is the grain at which   *)
(* the interleavings differ; the zone has one transition, a step of one    *)
(* unit forward at 2, so that a job of every minute falls due three times. *)
(***************************************************************************)
EXTENDS Scheduler

MCZone == {[at |-> 2, before |-> 0, after |-> 1]}

MCRequests ==
  {[kind |-> "in_minutes", value |-> 1],
   [kind |-> "naive", value |-> 3],
   [kind |-> "malformed", value |-> 0]}

MCIntervals == {OneShot, 1, 2}
=============================================================================
