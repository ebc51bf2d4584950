------------------------------ MODULE Scheduler ------------------------------
(***************************************************************************)
(* Scheduled tasks: src/agent/app/scheduler.py and tools/schedule.py.      *)
(*                                                                         *)
(* Jobs are rows of a Postgres table.  The agent's tools insert and delete *)
(* them; the loop of each agent process polls: it reads the clock, waits   *)
(* for a connection, selects and locks the due rows, moves them on (or     *)
(* deletes them) and commits, and only then starts a task per row, which   *)
(* runs a turn and sends the reply.  Processes crash and restart, the      *)
(* database fails a poll before or after its commit took effect, and the   *)
(* clock runs on between any two steps.                                    *)
(***************************************************************************)
EXTENDS WallClock

CONSTANTS Agents,     \* agent processes on one database
          Owners,     \* <<platform, user>> pairs
          Requests,   \* first-run arguments given to schedule_task
          Intervals,  \* every_minutes values, OneShot among them
          MaxJobs,    \* bound on rows ever inserted
          MaxTime,    \* bound on the clock
          MaxLag,     \* bound on the delay between first_run and the INSERT
          MaxCrashes, \* bound on crashes
          MaxBlips    \* bound on polls the database fails

ASSUME SchedulerAssumption ==
  /\ Requests \subseteq RequestType
  /\ Intervals \subseteq Nat
  /\ MaxJobs \in Nat /\ MaxTime \in Nat /\ MaxLag \in Nat
  /\ MaxCrashes \in Nat /\ MaxBlips \in Nat

VARIABLES
  now,       \* the clock, UTC
  jobs,      \* table scheduled_jobs
  lastId,    \* its id sequence
  loop,      \* where each process stands in scheduler_loop
  clock,     \* the `now' its current poll was called with
  rows,      \* the rows its open transaction selected and locks
  tasks,     \* its _fire tasks
  enabled,   \* the owners its senders and allowlists admit
  crashes, blips,   \* counted against their bounds
  \* history
  claimed,   \* the occurrences whose claim was committed
  ran,       \* the occurrences whose turn was started
  cancelled  \* the jobs cancel_scheduled_task reported cancelled

table   == <<jobs, lastId>>
poller  == <<loop, clock, rows>>
faults  == <<crashes, blips>>
history == <<claimed, ran, cancelled>>
vars    == <<now, table, poller, tasks, enabled, faults, history>>

JobIds == 1..MaxJobs
Job    == [id : JobIds, owner : Owners, next : Int, every : Intervals]
Run    == [job : JobIds, due : Int, at : Int]
Task   == [run : Run, owner : Owners, pc : {"new", "turn", "send"}]

TypeOK ==
  /\ now \in 0..MaxTime
  /\ jobs \subseteq Job
  /\ lastId \in 0..MaxJobs
  /\ loop \in [Agents -> {"down", "asleep", "polling", "claiming"}]
  /\ clock \in [Agents -> 0..MaxTime]
  /\ rows \in [Agents -> SUBSET Job]
  /\ tasks \in [Agents -> SUBSET Task]
  /\ enabled \in [Agents -> SUBSET Owners]
  /\ crashes \in 0..MaxCrashes
  /\ blips \in 0..MaxBlips
  /\ claimed \subseteq Run
  /\ ran \subseteq Run
  /\ cancelled \subseteq JobIds

Init ==
  /\ now = 0
  /\ jobs = {} /\ lastId = 0
  /\ loop = [a \in Agents |-> "asleep"]
  /\ clock = [a \in Agents |-> 0]
  /\ rows = [a \in Agents |-> {}]
  /\ tasks = [a \in Agents |-> {}]
  /\ enabled = [a \in Agents |-> Owners]
  /\ crashes = 0 /\ blips = 0
  /\ claimed = {} /\ ran = {} /\ cancelled = {}

-----------------------------------------------------------------------------
\* The tools.

(***************************************************************************)
(* schedule_task: first_run reads the clock, add_job inserts the row.  The *)
(* clock may have moved on between the two.                                *)
(***************************************************************************)
Schedule(o, request, every) ==
  /\ lastId < MaxJobs
  /\ \E asked \in (now - MaxLag)..now :
       /\ asked >= 0
       /\ Accepted(asked, request)
       /\ jobs' = jobs \cup {[id |-> lastId + 1, owner |-> o,
                              next |-> FirstRun(asked, request), every |-> every]}
  /\ lastId' = lastId + 1
  /\ UNCHANGED <<now, poller, tasks, enabled, faults, history>>

\* Mutant of Unlocked: a SELECT without FOR UPDATE.
NeverLocked(r) == TRUE

\* FOR UPDATE: no other transaction writes the row until this one ends.
Unlocked(r) == \A a \in Agents : r \notin rows[a]

\* Mutant of Cancel: the DELETE does not wait for the poll that holds the row.
CancelHeld(o, id) ==
  /\ \E r \in jobs : r.id = id /\ r.owner = o /\ jobs' = jobs \ {r}
  /\ cancelled' = cancelled \cup {id}
  /\ UNCHANGED <<now, lastId, poller, tasks, enabled, faults, claimed, ran>>

(***************************************************************************)
(* cancel_scheduled_task: the DELETE takes the row only if it is the       *)
(* caller's, and waits for a poll that holds it.                           *)
(***************************************************************************)
Cancel(o, id) ==
  /\ \E r \in jobs :
       /\ r.id = id /\ r.owner = o
       /\ Unlocked(r)
       /\ jobs' = jobs \ {r}
  /\ cancelled' = cancelled \cup {id}
  /\ UNCHANGED <<now, lastId, poller, tasks, enabled, faults, claimed, ran>>

-----------------------------------------------------------------------------
\* scheduler_loop and _claim_due.

\* Mutant of PollBegin: a loop that awaits its turns.
PollBeginIdle(a) ==
  /\ loop[a] = "asleep" /\ tasks[a] = {}
  /\ loop' = [loop EXCEPT ![a] = "polling"]
  /\ clock' = [clock EXCEPT ![a] = now]
  /\ UNCHANGED <<now, table, rows, tasks, enabled, faults, history>>

\* datetime.now() is evaluated before the connection is awaited.
PollBegin(a) ==
  /\ loop[a] = "asleep"
  /\ loop' = [loop EXCEPT ![a] = "polling"]
  /\ clock' = [clock EXCEPT ![a] = now]
  /\ UNCHANGED <<now, table, rows, tasks, enabled, faults, history>>

\* Mutant of SelectDue: WHERE next_run < now.
SelectOverdue(a) ==
  /\ loop[a] = "polling"
  /\ loop' = [loop EXCEPT ![a] = "claiming"]
  /\ rows' = [rows EXCEPT ![a] = {r \in jobs : r.next < clock[a] /\ Unlocked(r)}]
  /\ UNCHANGED <<now, table, clock, tasks, enabled, faults, history>>

\* SELECT ... WHERE next_run <= now FOR UPDATE SKIP LOCKED
SelectDue(a) ==
  /\ loop[a] = "polling"
  /\ loop' = [loop EXCEPT ![a] = "claiming"]
  /\ rows' = [rows EXCEPT ![a] = {r \in jobs : r.next <= clock[a] /\ Unlocked(r)}]
  /\ UNCHANGED <<now, table, clock, tasks, enabled, faults, history>>

Advanced(r, at) == [r EXCEPT !.next = NextRun(r.next, r.every, at)]

\* Mutant of AfterClaim: every claimed row is deleted, to come back after its run.
AfterClaimDeleted(claim, at) == {r \in jobs : \A c \in claim : c.id # r.id}

\* The UPDATEs and DELETEs of the claim, each of the row it names.
AfterClaim(claim, at) ==
  {r \in jobs : \A c \in claim : c.id # r.id}
    \cup {Advanced(c, at) : c \in {d \in claim :
            d.every # OneShot /\ \E r \in jobs : r.id = d.id}}

RunOf(r, at) == [job |-> r.id, due |-> r.next, at |-> at]

Commit(a) ==
  /\ loop[a] = "claiming"
  /\ jobs' = AfterClaim(rows[a], clock[a])
  /\ claimed' = claimed \cup {RunOf(r, clock[a]) : r \in rows[a]}
  /\ rows' = [rows EXCEPT ![a] = {}]
  /\ loop' = [loop EXCEPT ![a] = "asleep"]

\* The poll succeeds and a task is created for every row it returned.
Claim(a) ==
  /\ Commit(a)
  /\ tasks' = [tasks EXCEPT ![a] = @ \cup
       {[run |-> RunOf(r, clock[a]), owner |-> r.owner, pc |-> "new"] : r \in rows[a]}]
  /\ UNCHANGED <<now, lastId, clock, enabled, faults, ran, cancelled>>

\* The connection breaks after the commit took effect: the poll raises, the
\* loop logs it and sleeps, and nobody knows of the rows.
ClaimUnacknowledged(a) ==
  /\ blips < MaxBlips
  /\ blips' = blips + 1
  /\ Commit(a)
  /\ UNCHANGED <<now, lastId, clock, tasks, enabled, crashes, ran, cancelled>>

\* Mutant of PollFails: the failed transaction is left open.
PollFailsHolding(a) ==
  /\ loop[a] \in {"polling", "claiming"}
  /\ blips < MaxBlips
  /\ blips' = blips + 1
  /\ loop' = [loop EXCEPT ![a] = "asleep"]
  /\ UNCHANGED <<now, table, clock, rows, tasks, enabled, crashes, history>>

\* Any earlier failure of the poll rolls the transaction back.
PollFails(a) ==
  /\ loop[a] \in {"polling", "claiming"}
  /\ blips < MaxBlips
  /\ blips' = blips + 1
  /\ rows' = [rows EXCEPT ![a] = {}]
  /\ loop' = [loop EXCEPT ![a] = "asleep"]
  /\ UNCHANGED <<now, table, clock, tasks, enabled, crashes, history>>

-----------------------------------------------------------------------------
\* _fire, one task per claimed row.

Moved(a, t, pc) == [tasks EXCEPT ![a] = (@ \ {t}) \cup {[t EXCEPT !.pc = pc]}]

DropDisabled(a, t) ==
  /\ t.pc = "new"
  /\ t.owner \notin enabled[a]
  /\ tasks' = [tasks EXCEPT ![a] = @ \ {t}]
  /\ UNCHANGED <<now, table, poller, enabled, faults, history>>

StartTurn(a, t) ==
  /\ t.pc = "new"
  /\ t.owner \in enabled[a]
  /\ tasks' = Moved(a, t, "turn")
  /\ ran' = ran \cup {t.run}
  /\ UNCHANGED <<now, table, poller, enabled, faults, claimed, cancelled>>

\* Mutant of EndTurn: a failed turn is run again.
EndTurnRetries(a, t) ==
  /\ t.pc = "turn"
  /\ \E pc \in {"new", "send"} : tasks' = Moved(a, t, pc)
  /\ UNCHANGED <<now, table, poller, enabled, faults, history>>

\* handle_turn returns or raises; either way there is a reply to send.
EndTurn(a, t) ==
  /\ t.pc = "turn"
  /\ tasks' = Moved(a, t, "send")
  /\ UNCHANGED <<now, table, poller, enabled, faults, history>>

\* send returns, or raises: nobody awaits the task, so that ends it as well.
Send(a, t) ==
  /\ t.pc = "send"
  /\ tasks' = [tasks EXCEPT ![a] = @ \ {t}]
  /\ UNCHANGED <<now, table, poller, enabled, faults, history>>

-----------------------------------------------------------------------------
\* The process and the clock.

\* A crash, or a shutdown: main cancels the loop and the tasks die with the
\* event loop; Postgres rolls an open claim back.
Crash(a) ==
  /\ loop[a] # "down"
  /\ crashes < MaxCrashes
  /\ crashes' = crashes + 1
  /\ loop' = [loop EXCEPT ![a] = "down"]
  /\ rows' = [rows EXCEPT ![a] = {}]
  /\ tasks' = [tasks EXCEPT ![a] = {}]
  /\ UNCHANGED <<now, table, clock, enabled, blips, history>>

\* The settings are read again, so platforms and users may have changed.
Restart(a) ==
  /\ loop[a] = "down"
  /\ loop' = [loop EXCEPT ![a] = "asleep"]
  /\ \E admitted \in SUBSET Owners : enabled' = [enabled EXCEPT ![a] = admitted]
  /\ UNCHANGED <<now, table, clock, rows, tasks, faults, history>>

Tick ==
  /\ now < MaxTime
  /\ now' = now + 1
  /\ UNCHANGED <<table, poller, tasks, enabled, faults, history>>

-----------------------------------------------------------------------------
Tools ==
  \E o \in Owners :
    \/ \E request \in Requests, every \in Intervals : Schedule(o, request, every)
    \/ \E id \in JobIds : Cancel(o, id)

Poll(a) ==
  PollBegin(a) \/ SelectDue(a) \/ Claim(a) \/ ClaimUnacknowledged(a) \/ PollFails(a)

Fire(a, t) == DropDisabled(a, t) \/ StartTurn(a, t) \/ EndTurn(a, t) \/ Send(a, t)

Next ==
  \/ Tools
  \/ \E a \in Agents :
       \/ Poll(a) \/ Crash(a) \/ Restart(a)
       \/ \E t \in tasks[a] : Fire(a, t)
  \/ Tick

Spec == Init /\ [][Next]_vars

(***************************************************************************)
(* The loop sleeps for 30 s between polls, a statement and a commit return *)
(* or raise; the container is restarted (docker-compose: unless-stopped).  *)
(* Nothing is asked of the tools, of the clock, of faults, or of the tasks *)
(* the loop has started: a turn may last forever (LLM_HARD_TIMEOUT=0).     *)
(***************************************************************************)
Fairness ==
  \A a \in Agents :
    /\ WF_vars(PollBegin(a)) /\ WF_vars(SelectDue(a)) /\ WF_vars(Claim(a))
    /\ WF_vars(Restart(a))

FairSpec == Spec /\ Fairness

-----------------------------------------------------------------------------
(***************************************************************************)
(* "A crash mid-turn never makes a job fire repeatedly" (_claim_due): a    *)
(* turn is started for an occurrence that never had one, by any process    *)
(* and across crashes, failed polls and restarts.                          *)
(***************************************************************************)
AtMostOnce ==
  [][\A a \in Agents : \A t \in tasks[a] : StartTurn(a, t) => t.run \notin ran]_vars

(***************************************************************************)
(* Occurrences missed while the process was down are skipped, not caught   *)
(* up on: each claimed occurrence of a job falls due after the poll that   *)
(* claimed the one before.                                                 *)
(***************************************************************************)
NoBacklog ==
  \A c, d \in claimed : c.job = d.job /\ c # d => c.at < d.due \/ d.at < c.due

(***************************************************************************)
(* Once cancel_scheduled_task said "Cancelled", no poll claims the job,    *)
(* not even one that had read the clock or was about to select it.         *)
(***************************************************************************)
CancelIsFinal ==
  [][\A c \in claimed' \ claimed : c.job \notin cancelled]_vars

(***************************************************************************)
(* A row leaves the table only because it was cancelled, or because it was *)
(* a one-time job and its occurrence was claimed in that very step: no     *)
(* failed poll, crash or race of two polls loses a job.                    *)
(***************************************************************************)
NothingLost ==
  [][\A r \in jobs :
       \/ \E s \in jobs' : s.id = r.id /\ s.every = r.every
       \/ r.id \in cancelled'
       \/ r.every = OneShot /\ \E c \in claimed' : c.job = r.id /\ c.due = r.next]_vars

Due(id) == \E r \in jobs : r.id = id /\ r.next <= now

(***************************************************************************)
(* A due job is claimed (or cancelled), once crashes and database failures *)
(* stop, though every turn the loops have started hang forever.            *)
(***************************************************************************)
DueIsClaimed == \A id \in JobIds : Due(id) ~> ~Due(id)

-----------------------------------------------------------------------------
\* The inductive invariant.

\* The primary key, and the cancelled ids that are gone for good.
Keyed ==
  /\ \A r, s \in jobs : r.id = s.id => r = s
  /\ \A r \in jobs : r.id \in 1..lastId /\ r.id \notin cancelled
  /\ cancelled \subseteq 1..lastId

\* A locked row is due, still stands in the table as selected, and is locked
\* by one transaction.
Locked ==
  \A a \in Agents :
    /\ rows[a] # {} => loop[a] = "claiming"
    /\ \A r \in rows[a] : r \in jobs /\ r.next <= clock[a]
    /\ \A b \in Agents : b # a => rows[a] \cap rows[b] = {}

\* A job's next run lies after every poll that claimed it.
MovedOn ==
  \A c \in claimed :
    /\ c.job \in 1..lastId
    /\ c.due <= c.at
    /\ \A r \in jobs : r.id = c.job => c.at < r.next

\* A claimed occurrence has at most one task, and no turn before its task.
OneTask ==
  /\ ran \subseteq claimed
  /\ \A a \in Agents : \A t \in tasks[a] :
       /\ t.run \in claimed
       /\ t.pc = "new" => t.run \notin ran
       /\ \A b \in Agents : \A u \in tasks[b] : t.run = u.run => a = b /\ t = u

IInv == TypeOK /\ Keyed /\ Locked /\ MovedOn /\ OneTask /\ NoBacklog

-----------------------------------------------------------------------------
(***************************************************************************)
(* The scheduler keeps the ledger.                                         *)
(***************************************************************************)
OfPc(pcs) == {t.run : t \in {u \in UNION {tasks[a] : a \in Agents} : u.pc \in pcs}}

Ledger == INSTANCE JobLedger WITH
  known   <- 1..lastId,
  open    <- {r.id : r \in jobs},
  handed  <- claimed,
  waiting <- OfPc({"new"}),
  running <- OfPc({"turn", "send"})

KeepsLedger == Ledger!Spec
=============================================================================
