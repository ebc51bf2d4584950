--------------------------- MODULE SchedulerProofs ---------------------------
(***************************************************************************)
(* The inductive invariant of Scheduler and what follows from it, for any  *)
(* number of processes, owners, jobs, crashes and database failures, any   *)
(* zone and any requests and intervals; and that it implements JobLedger.  *)
(***************************************************************************)
EXTENDS Scheduler, WallClockProofs

LEMMA InitIInv == Init => IInv
<1> SUFFICES ASSUME Init PROVE IInv
  OBVIOUS
<1>1. TypeOK
  BY SchedulerAssumption DEF Init, TypeOK
<1> QED BY <1>1 DEF Init, IInv, Keyed, Locked, MovedOn, OneTask, NoBacklog

\* Nothing the invariant speaks of changes.
LEMMA StutterIInv ==
  ASSUME IInv, UNCHANGED vars
  PROVE  IInv'
BY DEF IInv, TypeOK, Keyed, Locked, MovedOn, OneTask, NoBacklog,
       vars, table, poller, faults, history

LEMMA ScheduleIInv ==
  ASSUME IInv, NEW o \in Owners, NEW request \in Requests, NEW every \in Intervals,
         Schedule(o, request, every)
  PROVE  IInv'
<1> USE DEF Schedule, poller, faults, history
<1>1. PICK asked \in (now - MaxLag)..now :
        /\ Accepted(asked, request)
        /\ jobs' = jobs \cup {[id |-> lastId + 1, owner |-> o,
                               next |-> FirstRun(asked, request), every |-> every]}
  OBVIOUS
<1> DEFINE new == [id |-> lastId + 1, owner |-> o,
                   next |-> FirstRun(asked, request), every |-> every]
<1>2. new \in Job /\ lastId' \in 1..MaxJobs
  <2>1. asked \in Int
    BY SchedulerAssumption DEF IInv, TypeOK
  <2>2. FirstRun(asked, request) \in Int
    BY <1>1, <2>1, AcceptedIsAhead, SchedulerAssumption
  <2>3. lastId + 1 \in JobIds
    BY SchedulerAssumption DEF IInv, TypeOK, JobIds
  <2> QED BY <2>2, <2>3 DEF Job, JobIds
<1>3. jobs' = jobs \cup {new} /\ new.id = lastId + 1 /\ lastId \in Nat
  BY <1>1 DEF IInv, TypeOK
<1> HIDE DEF new
<1>4. TypeOK'
  BY <1>2, <1>3 DEF IInv, TypeOK
<1>5. Keyed'
  BY <1>3 DEF IInv, Keyed
<1>6. Locked'
  BY <1>3 DEF IInv, Locked
<1>7. MovedOn'
  <2> SUFFICES ASSUME NEW c \in claimed
               PROVE  /\ c.job \in 1..lastId' /\ c.due <= c.at
                      /\ \A r \in jobs' : r.id = c.job => c.at < r.next
    BY DEF MovedOn
  <2>1. c.job \in 1..lastId
    BY DEF IInv, MovedOn
  <2> QED BY <2>1, <1>3 DEF IInv, MovedOn
<1> QED BY <1>4, <1>5, <1>6, <1>7 DEF IInv, OneTask, NoBacklog

LEMMA CancelIInv ==
  ASSUME IInv, NEW o \in Owners, NEW id \in JobIds, Cancel(o, id)
  PROVE  IInv'
<1> USE DEF Cancel, poller, faults
<1>1. PICK r \in jobs : r.id = id /\ Unlocked(r) /\ jobs' = jobs \ {r}
  OBVIOUS
<1>2. TypeOK'
  BY <1>1 DEF IInv, TypeOK
<1>3. Keyed'
  BY <1>1 DEF IInv, Keyed
<1>4. Locked'
  BY <1>1 DEF IInv, Locked, Unlocked
<1>5. MovedOn'
  BY <1>1 DEF IInv, MovedOn
<1> QED BY <1>2, <1>3, <1>4, <1>5 DEF IInv, OneTask, NoBacklog

LEMMA PollBeginIInv ==
  ASSUME IInv, NEW a \in Agents, PollBegin(a)
  PROVE  IInv'
<1> USE DEF PollBegin, table, faults, history
<1>1. TypeOK'
  BY DEF IInv, TypeOK
<1>2. Locked'
  <2>1. rows[a] = {}
    BY DEF IInv, Locked
  <2> QED BY <2>1 DEF IInv, Locked, TypeOK
<1> QED BY <1>1, <1>2 DEF IInv, Keyed, MovedOn, OneTask, NoBacklog

LEMMA SelectDueIInv ==
  ASSUME IInv, NEW a \in Agents, SelectDue(a)
  PROVE  IInv'
<1> USE DEF SelectDue, table, faults, history
<1>1. TypeOK'
  BY DEF IInv, TypeOK
<1>2. Locked'
  <2>1. \A b \in Agents : rows'[b] = IF b = a THEN {r \in jobs : r.next <= clock[a] /\ Unlocked(r)}
                                              ELSE rows[b]
    BY DEF IInv, TypeOK
  <2>2. \A b \in Agents : loop'[b] = IF b = a THEN "claiming" ELSE loop[b]
    BY DEF IInv, TypeOK
  <2> QED BY <2>1, <2>2 DEF IInv, Locked, Unlocked
<1> QED BY <1>1, <1>2 DEF IInv, Keyed, MovedOn, OneTask, NoBacklog

(***************************************************************************)
(* What a committed claim does to the table: a row stays as it is, or it   *)
(* was claimed, keeps its id and moves past the poll's clock.              *)
(***************************************************************************)
LEMMA AfterClaimFacts ==
  ASSUME IInv, NEW a \in Agents
  PROVE  \A s \in AfterClaim(rows[a], clock[a]) :
           /\ s \in Job
           /\ \/ s \in jobs /\ \A c \in rows[a] : c.id # s.id
              \/ \E c \in rows[a] : s.id = c.id /\ s.every = c.every /\ s.next > clock[a]
<1> SUFFICES ASSUME NEW s \in AfterClaim(rows[a], clock[a])
             PROVE  /\ s \in Job
                    /\ \/ s \in jobs /\ \A c \in rows[a] : c.id # s.id
                       \/ \E c \in rows[a] : s.id = c.id /\ s.every = c.every /\ s.next > clock[a]
  OBVIOUS
<1>1. CASE s \in jobs /\ \A c \in rows[a] : c.id # s.id
  BY <1>1 DEF IInv, TypeOK
<1>2. ASSUME NEW c \in rows[a], c.every # OneShot, s = Advanced(c, clock[a])
      PROVE  s \in Job /\ s.id = c.id /\ s.every = c.every /\ s.next > clock[a]
  <2>1. c \in Job /\ c.next <= clock[a] /\ clock[a] \in Int
    BY DEF IInv, TypeOK, Locked
  <2>2. c.next \in Int /\ c.every \in Nat \ {OneShot}
    BY <1>2, <2>1, SchedulerAssumption DEF Job
  <2>3. NextRun(c.next, c.every, clock[a]) \in Int /\ NextRun(c.next, c.every, clock[a]) > clock[a]
    BY <2>1, <2>2, NextRunIsAhead
  <2> QED BY <1>2, <2>1, <2>3 DEF Advanced, Job
<1>3. \/ s \in jobs /\ \A c \in rows[a] : c.id # s.id
      \/ \E c \in rows[a] : c.every # OneShot /\ s = Advanced(c, clock[a])
  BY DEF AfterClaim
<1> QED BY <1>1, <1>2, <1>3

(***************************************************************************)
(* The occurrences a claim hands out are new, and each falls due after the *)
(* last claim of its job.                                                  *)
(***************************************************************************)
LEMMA NewRuns ==
  ASSUME IInv, NEW a \in Agents, NEW r \in rows[a]
  PROVE  /\ RunOf(r, clock[a]) \in Run
         /\ \A d \in claimed : d.job = r.id => d.at < r.next /\ d.due < r.next
         /\ RunOf(r, clock[a]) \notin claimed
<1>1. r \in jobs /\ r \in Job /\ clock[a] \in Int
  BY DEF IInv, TypeOK, Locked
<1>2. RunOf(r, clock[a]) \in Run
  BY <1>1 DEF RunOf, Run, Job
<1>3. \A d \in claimed : d.job = r.id => d.at < r.next /\ d.due < r.next
  <2> SUFFICES ASSUME NEW d \in claimed, d.job = r.id PROVE d.at < r.next /\ d.due < r.next
    OBVIOUS
  <2>1. d.at < r.next /\ d.due <= d.at
    BY <1>1 DEF IInv, MovedOn
  <2>2. d.at \in Int /\ d.due \in Int /\ r.next \in Int
    BY <1>1 DEF IInv, TypeOK, Run, Job
  <2> QED BY <2>1, <2>2
<1>4. RunOf(r, clock[a]) \notin claimed
  <2>1. RunOf(r, clock[a]).job = r.id /\ RunOf(r, clock[a]).due = r.next /\ r.next \in Int
    BY <1>1 DEF RunOf, Job
  <2> QED BY <2>1, <1>3
<1> QED BY <1>2, <1>3, <1>4

LEMMA CommitKeeps ==
  ASSUME IInv, NEW a \in Agents, Commit(a), UNCHANGED <<lastId, clock, cancelled>>
  PROVE  /\ jobs' \subseteq Job
         /\ loop' \in [Agents -> {"down", "asleep", "polling", "claiming"}]
         /\ rows' \in [Agents -> SUBSET Job]
         /\ claimed' \subseteq Run
         /\ Keyed' /\ Locked' /\ MovedOn' /\ NoBacklog'
<1> USE DEF Commit
<1>1. jobs' \subseteq Job
  BY AfterClaimFacts
<1>2. /\ loop' \in [Agents -> {"down", "asleep", "polling", "claiming"}]
      /\ rows' \in [Agents -> SUBSET Job]
  BY DEF IInv, TypeOK
<1>3. claimed' \subseteq Run
  BY NewRuns DEF IInv, TypeOK
<1>4. \A r \in rows[a] : r \in jobs /\ r.next <= clock[a]
  BY DEF IInv, Locked
<1>5. \A r, s \in jobs : r.id = s.id => r = s
  BY DEF IInv, Keyed
<1>6. Keyed'
  <2>1. ASSUME NEW r \in jobs', NEW s \in jobs', r.id = s.id PROVE r = s
    <3>1. \A x \in jobs' : \/ x \in jobs /\ \A c \in rows[a] : c.id # x.id
                           \/ \E c \in rows[a] : x = Advanced(c, clock[a]) /\ x.id = c.id
      <4>1. \A c \in rows[a] : c \in Job
        BY DEF IInv, TypeOK
      <4>2. \A c \in rows[a] : Advanced(c, clock[a]).id = c.id
        BY <4>1 DEF Advanced, Job
      <4> QED BY <4>2 DEF AfterClaim
    <3> QED BY <3>1, <2>1, <1>4, <1>5
  <2>2. \A s \in jobs' : \E r \in jobs : r.id = s.id
    BY AfterClaimFacts, <1>4
  <2> QED BY <2>1, <2>2 DEF IInv, Keyed
<1>7. Locked'
  <2>1. ASSUME NEW b \in Agents, b # a, NEW r \in rows[b] PROVE r \in jobs'
    <3>1. r \in jobs /\ r \notin rows[a]
      BY <2>1 DEF IInv, Locked
    <3>2. \A c \in rows[a] : c.id # r.id
      BY <3>1, <1>4, <1>5
    <3> QED BY <3>1, <3>2 DEF AfterClaim
  <2>2. \A b \in Agents : rows'[b] = IF b = a THEN {} ELSE rows[b]
    BY DEF IInv, TypeOK
  <2>3. \A b \in Agents : loop'[b] = IF b = a THEN "asleep" ELSE loop[b]
    BY DEF IInv, TypeOK
  <2> QED BY <2>1, <2>2, <2>3 DEF IInv, Locked
<1>8. \A c \in claimed' : c \in claimed \/ \E r \in rows[a] : c = RunOf(r, clock[a])
  OBVIOUS
<1>9. \A r \in rows[a] : /\ RunOf(r, clock[a]).job = r.id
                         /\ RunOf(r, clock[a]).due = r.next
                         /\ RunOf(r, clock[a]).at = clock[a]
  BY DEF RunOf
<1>10. MovedOn'
  <2> SUFFICES ASSUME NEW c \in claimed'
               PROVE  /\ c.job \in 1..lastId /\ c.due <= c.at
                      /\ \A s \in jobs' : s.id = c.job => c.at < s.next
    BY DEF MovedOn
  <2>1. CASE c \in claimed
    <3>1. c.job \in 1..lastId /\ c.due <= c.at
      BY <2>1 DEF IInv, MovedOn
    <3>2. ASSUME NEW s \in jobs', s.id = c.job PROVE c.at < s.next
      <4>1. CASE s \in jobs
        BY <4>1, <3>2, <2>1 DEF IInv, MovedOn
      <4>2. ASSUME NEW r \in rows[a], s.id = r.id, s.next > clock[a] PROVE c.at < s.next
        <5>1. c.at < r.next /\ r.next <= clock[a]
          BY <4>2, <3>2, <2>1, NewRuns, <1>4
        <5>2. c.at \in Int /\ r.next \in Int /\ clock[a] \in Int /\ s.next \in Int
          BY <2>1, <1>1, <1>4 DEF IInv, TypeOK, Run, Job
        <5> QED BY <5>1, <5>2, <4>2
      <4> QED BY <4>1, <4>2, AfterClaimFacts
    <3> QED BY <3>1, <3>2
  <2>2. ASSUME NEW r \in rows[a], c = RunOf(r, clock[a])
        PROVE  /\ c.job \in 1..lastId /\ c.due <= c.at
               /\ \A s \in jobs' : s.id = c.job => c.at < s.next
    <3>1. c.job = r.id /\ c.due = r.next /\ c.at = clock[a] /\ r \in jobs /\ r.next <= clock[a]
      BY <2>2, <1>4, <1>9
    <3>2. r.id \in 1..lastId
      BY <3>1 DEF IInv, Keyed
    <3>3. ASSUME NEW s \in jobs', s.id = r.id PROVE clock[a] < s.next
      <4>1. PICK d \in rows[a] : s.next > clock[a]
        BY <3>3, AfterClaimFacts
      <4>2. s.next \in Int /\ clock[a] \in Int
        BY <1>1 DEF IInv, TypeOK, Job
      <4> QED BY <4>1, <4>2
    <3> QED BY <3>1, <3>2, <3>3
  <2> QED BY <2>1, <2>2, <1>8
<1>11. NoBacklog'
  <2> SUFFICES ASSUME NEW c \in claimed', NEW d \in claimed', c.job = d.job, c # d
               PROVE  c.at < d.due \/ d.at < c.due
    BY DEF NoBacklog
  <2>1. CASE c \in claimed /\ d \in claimed
    BY <2>1 DEF IInv, NoBacklog
  <2>2. ASSUME NEW r \in rows[a], c = RunOf(r, clock[a]), d \in claimed PROVE d.at < c.due
    BY <2>2, <1>9, NewRuns
  <2>3. ASSUME NEW r \in rows[a], d = RunOf(r, clock[a]), c \in claimed PROVE c.at < d.due
    BY <2>3, <1>9, NewRuns
  <2>4. ASSUME NEW r \in rows[a], NEW s \in rows[a],
               c = RunOf(r, clock[a]), d = RunOf(s, clock[a])
        PROVE  FALSE
    BY <2>4, <1>9, <1>4, <1>5
  <2> QED BY <2>1, <2>2, <2>3, <2>4, <1>8
<1> QED BY <1>1, <1>2, <1>3, <1>6, <1>7, <1>10, <1>11

LEMMA ClaimUnacknowledgedIInv ==
  ASSUME IInv, NEW a \in Agents, ClaimUnacknowledged(a)
  PROVE  IInv'
<1>1. Commit(a) /\ UNCHANGED <<now, lastId, clock, tasks, enabled, crashes, ran, cancelled>>
  BY DEF ClaimUnacknowledged
<1>2. claimed \subseteq claimed'
  BY <1>1 DEF Commit
<1>3. blips' \in 0..MaxBlips
  BY SchedulerAssumption DEF ClaimUnacknowledged, IInv, TypeOK
<1>4. TypeOK'
  BY <1>1, <1>3, CommitKeeps DEF IInv, TypeOK
<1>5. OneTask'
  BY <1>1, <1>2 DEF IInv, OneTask
<1> QED BY <1>1, <1>4, <1>5, CommitKeeps DEF IInv

LEMMA ClaimIInv ==
  ASSUME IInv, NEW a \in Agents, Claim(a)
  PROVE  IInv'
<1> DEFINE started == {[run |-> RunOf(r, clock[a]), owner |-> r.owner, pc |-> "new"] : r \in rows[a]}
<1>1. Commit(a) /\ UNCHANGED <<now, lastId, clock, enabled, faults, ran, cancelled>>
  BY DEF Claim
<1>2. claimed' = claimed \cup {RunOf(r, clock[a]) : r \in rows[a]}
  BY <1>1 DEF Commit
<1>3. \A b \in Agents : tasks'[b] = IF b = a THEN tasks[a] \cup started ELSE tasks[b]
  BY DEF Claim, IInv, TypeOK
<1>4. \A t \in started : \E r \in rows[a] :
        t = [run |-> RunOf(r, clock[a]), owner |-> r.owner, pc |-> "new"]
  OBVIOUS
<1>5. \A r \in rows[a] : r \in jobs /\ r \in Job
  BY DEF IInv, TypeOK, Locked
<1>6. started \subseteq Task
  BY <1>4, <1>5, NewRuns DEF Task, Job
<1> HIDE DEF started
<1>7. TypeOK'
  <2>1. tasks' \in [Agents -> SUBSET Task]
    BY <1>6 DEF Claim, started, IInv, TypeOK
  <2> QED BY <1>1, <2>1, CommitKeeps DEF IInv, TypeOK, faults
<1>8. OneTask'
  <2>1. \A t \in started : t.run \in claimed' /\ t.run \notin claimed
    BY <1>2, <1>4, NewRuns
  <2>2. \A t, u \in started : t.run = u.run => t = u
    <3> SUFFICES ASSUME NEW t \in started, NEW u \in started, t.run = u.run PROVE t = u
      OBVIOUS
    <3>1. PICK r \in rows[a] : t = [run |-> RunOf(r, clock[a]), owner |-> r.owner, pc |-> "new"]
      BY <1>4
    <3>2. PICK q \in rows[a] : u = [run |-> RunOf(q, clock[a]), owner |-> q.owner, pc |-> "new"]
      BY <1>4
    <3>3. r.id = q.id
      BY <3>1, <3>2 DEF RunOf
    <3>4. r = q
      BY <3>3, <1>5 DEF IInv, Keyed
    <3> QED BY <3>1, <3>2, <3>4
  <2>3. \A b \in Agents : \A t \in tasks[b] : t.run \in claimed
    BY DEF IInv, OneTask
  <2>4. ran' \subseteq claimed'
    BY <1>1, <1>2 DEF IInv, OneTask
  <2>5. ASSUME NEW b \in Agents, NEW t \in tasks'[b]
        PROVE  /\ t.run \in claimed'
               /\ t.pc = "new" => t.run \notin ran'
               /\ \A c \in Agents : \A u \in tasks'[c] : t.run = u.run => b = c /\ t = u
    <3>1. \/ t \in tasks[b]
          \/ b = a /\ t \in started
      BY <1>3
    <3>2. t.run \in claimed'
      BY <3>1, <2>1, <2>3, <1>2
    <3>3. t.pc = "new" => t.run \notin ran'
      BY <3>1, <2>1, <1>1 DEF IInv, OneTask
    <3>4. ASSUME NEW c \in Agents, NEW u \in tasks'[c], t.run = u.run PROVE b = c /\ t = u
      <4>1. \/ u \in tasks[c]
            \/ c = a /\ u \in started
        BY <1>3
      <4> QED BY <3>1, <3>4, <4>1, <2>1, <2>2, <2>3 DEF IInv, OneTask
    <3> QED BY <3>2, <3>3, <3>4
  <2> QED BY <2>4, <2>5 DEF OneTask
<1> QED BY <1>1, <1>7, <1>8, CommitKeeps DEF IInv

LEMMA PollFailsIInv ==
  ASSUME IInv, NEW a \in Agents, PollFails(a)
  PROVE  IInv'
<1> USE DEF PollFails, table, history
<1>1. TypeOK'
  BY SchedulerAssumption DEF IInv, TypeOK
<1>2. Locked'
  <2>1. \A b \in Agents : /\ rows'[b] = IF b = a THEN {} ELSE rows[b]
                          /\ loop'[b] = IF b = a THEN "asleep" ELSE loop[b]
    BY DEF IInv, TypeOK
  <2> QED BY <2>1 DEF IInv, Locked
<1> QED BY <1>1, <1>2 DEF IInv, Keyed, MovedOn, OneTask, NoBacklog

LEMMA CrashIInv ==
  ASSUME IInv, NEW a \in Agents, Crash(a)
  PROVE  IInv'
<1> USE DEF Crash, table, history
<1>1. TypeOK'
  BY SchedulerAssumption DEF IInv, TypeOK
<1>2. \A b \in Agents : /\ rows'[b] = IF b = a THEN {} ELSE rows[b]
                        /\ loop'[b] = IF b = a THEN "down" ELSE loop[b]
                        /\ tasks'[b] = IF b = a THEN {} ELSE tasks[b]
  BY DEF IInv, TypeOK
<1>3. Locked'
  BY <1>2 DEF IInv, Locked
<1>4. OneTask'
  BY <1>2 DEF IInv, OneTask
<1> QED BY <1>1, <1>3, <1>4 DEF IInv, Keyed, MovedOn, NoBacklog

LEMMA RestartIInv ==
  ASSUME IInv, NEW a \in Agents, Restart(a)
  PROVE  IInv'
<1> USE DEF Restart, table, faults, history
<1>1. TypeOK'
  BY DEF IInv, TypeOK
<1>2. Locked'
  <2>1. rows[a] = {}
    BY DEF IInv, Locked
  <2>2. \A b \in Agents : loop'[b] = IF b = a THEN "asleep" ELSE loop[b]
    BY DEF IInv, TypeOK
  <2> QED BY <2>1, <2>2 DEF IInv, Locked
<1> QED BY <1>1, <1>2 DEF IInv, Keyed, MovedOn, OneTask, NoBacklog

\* A task that ends takes its run with it; one that moves on keeps its run.
LEMMA FireIInv ==
  ASSUME IInv, NEW a \in Agents, NEW t \in tasks[a], Fire(a, t)
  PROVE  IInv'
<1> USE DEF table, poller, faults, history
<1>1. /\ UNCHANGED <<now, jobs, lastId, loop, clock, rows, enabled, crashes, blips, claimed, cancelled>>
      /\ \/ tasks' = [tasks EXCEPT ![a] = @ \ {t}] /\ ran' = ran
         \/ /\ t.pc = "new" /\ tasks' = Moved(a, t, "turn") /\ ran' = ran \cup {t.run}
         \/ /\ t.pc = "turn" /\ tasks' = Moved(a, t, "send") /\ ran' = ran
  BY DEF Fire, DropDisabled, StartTurn, EndTurn, Send
<1>2. t \in Task /\ t.run \in claimed /\ t.run \in Run
  BY DEF IInv, TypeOK, OneTask, Task
<1>3. ASSUME NEW pc \in {"turn", "send"}
      PROVE  /\ [t EXCEPT !.pc = pc] \in Task
             /\ [t EXCEPT !.pc = pc].run = t.run
             /\ [t EXCEPT !.pc = pc].pc # "new"
  BY <1>2 DEF Task
<1>4. TypeOK'
  <2>1. ran' \subseteq Run
    BY <1>1, <1>2 DEF IInv, TypeOK
  <2>2. tasks' \in [Agents -> SUBSET Task]
    BY <1>1, <1>3 DEF IInv, TypeOK, Moved
  <2> QED BY <1>1, <2>1, <2>2 DEF IInv, TypeOK
<1>5. OneTask'
  <2>1. CASE tasks' = [tasks EXCEPT ![a] = @ \ {t}] /\ ran' = ran
    <3>1. \A b \in Agents : tasks'[b] \subseteq tasks[b]
      BY <2>1 DEF IInv, TypeOK
    <3> QED BY <1>1, <2>1, <3>1 DEF IInv, OneTask
  <2>2. ASSUME NEW pc \in {"turn", "send"}, tasks' = Moved(a, t, pc),
               ran' = ran \/ ran' = ran \cup {t.run}
        PROVE  OneTask'
    <3> DEFINE moved == [t EXCEPT !.pc = pc]
    <3>1. \A b \in Agents : tasks'[b] = IF b = a THEN (tasks[a] \ {t}) \cup {moved} ELSE tasks[b]
      BY <2>2 DEF Moved, IInv, TypeOK
    <3>2. moved.run = t.run /\ moved.pc # "new"
      BY <1>3
    <3> HIDE DEF moved
    <3>3. ran' \subseteq claimed'
      BY <1>1, <1>2, <2>2 DEF IInv, OneTask
    <3>4. ASSUME NEW b \in Agents, NEW u \in tasks'[b]
          PROVE  /\ u.run \in claimed'
                 /\ u.pc = "new" => u.run \notin ran'
                 /\ \A c \in Agents : \A v \in tasks'[c] : u.run = v.run => b = c /\ u = v
      <4>1. \A c \in Agents : \A v \in tasks'[c] :
              \/ c = a /\ v = moved
              \/ v \in tasks[c] /\ ~(c = a /\ v = t)
        BY <3>1
      <4>2. \A c \in Agents : \A v \in tasks[c] : v.run = t.run => c = a /\ v = t
        BY DEF IInv, OneTask
      <4>3. CASE b = a /\ u = moved
        BY <4>1, <4>2, <4>3, <3>2, <1>1, <1>2
      <4>4. CASE u \in tasks[b] /\ ~(b = a /\ u = t)
        <5>1. u.run \in claimed /\ u.run # t.run /\ (u.pc = "new" => u.run \notin ran)
          BY <4>4, <4>2 DEF IInv, OneTask
        <5>2. ASSUME NEW c \in Agents, NEW v \in tasks'[c], u.run = v.run PROVE b = c /\ u = v
          BY <5>1, <5>2, <4>1, <4>4, <3>2 DEF IInv, OneTask
        <5> QED BY <5>1, <5>2, <1>1, <2>2
      <4> QED BY <4>1, <4>3, <4>4
    <3> QED BY <3>3, <3>4 DEF OneTask
  <2> QED BY <1>1, <2>1, <2>2
<1> QED BY <1>1, <1>4, <1>5 DEF IInv, Keyed, Locked, MovedOn, NoBacklog

LEMMA TickIInv ==
  ASSUME IInv, Tick
  PROVE  IInv'
BY SchedulerAssumption
   DEF Tick, IInv, TypeOK, Keyed, Locked, MovedOn, OneTask, NoBacklog,
       table, poller, faults, history

LEMMA NextIInv == IInv /\ [Next]_vars => IInv'
<1> SUFFICES ASSUME IInv, [Next]_vars PROVE IInv'
  OBVIOUS
<1>1. CASE Tools
  BY <1>1, ScheduleIInv, CancelIInv DEF Tools
<1>2. ASSUME NEW a \in Agents, Poll(a) PROVE IInv'
  BY <1>2, PollBeginIInv, SelectDueIInv, ClaimIInv, ClaimUnacknowledgedIInv, PollFailsIInv DEF Poll
<1>3. ASSUME NEW a \in Agents, Crash(a) \/ Restart(a) PROVE IInv'
  BY <1>3, CrashIInv, RestartIInv
<1>4. ASSUME NEW a \in Agents, NEW t \in tasks[a], Fire(a, t) PROVE IInv'
  BY <1>4, FireIInv
<1>5. CASE Tick
  BY <1>5, TickIInv
<1>6. CASE UNCHANGED vars
  BY <1>6, StutterIInv
<1> QED BY <1>1, <1>2, <1>3, <1>4, <1>5, <1>6 DEF Next

(***************************************************************************)
(* The inductive invariant holds in every reachable state: every row moved *)
(* past the polls that claimed it, one lock per row, one task per          *)
(* occurrence.                                                             *)
(***************************************************************************)
THEOREM Invariance == Spec => []IInv
BY InitIInv, NextIInv, PTL DEF Spec

-----------------------------------------------------------------------------
\* Every variable keeps its type.
THEOREM TypeCorrect == Spec => []TypeOK
<1>1. IInv => TypeOK
  BY DEF IInv
<1> QED BY <1>1, Invariance, PTL

\* Occurrences missed while no poll ran are skipped: no backlog of runs.
THEOREM NoBacklogCorrect == Spec => []NoBacklog
<1>1. IInv => NoBacklog
  BY DEF IInv
<1> QED BY <1>1, Invariance, PTL

\* No occurrence is given a second turn, whatever crashes, failed polls,
\* restarts and polls of other processes come between.
THEOREM AtMostOnceCorrect == Spec => AtMostOnce
<1>1. IInv => \A a \in Agents : \A t \in tasks[a] : StartTurn(a, t) => t.run \notin ran
  BY DEF IInv, OneTask, StartTurn
<1>2. IInv /\ [Next]_vars =>
        [\A a \in Agents : \A t \in tasks[a] : StartTurn(a, t) => t.run \notin ran]_vars
  BY <1>1
<1> QED BY <1>2, Invariance, PTL DEF Spec, AtMostOnce
-----------------------------------------------------------------------------
\* The steps that touch the table or the claims.
LEMMA StepKinds ==
  ASSUME [Next]_vars
  PROVE  \/ \E o \in Owners, request \in Requests, every \in Intervals :
              Schedule(o, request, every)
         \/ \E o \in Owners, id \in JobIds : Cancel(o, id)
         \/ \E a \in Agents : Commit(a) /\ UNCHANGED <<lastId, clock, cancelled>>
         \/ UNCHANGED <<table, history>>
         \/ UNCHANGED <<table, claimed, cancelled>>
<1> USE DEF table, poller, faults, history
<1>1. CASE Tools
  BY <1>1 DEF Tools
<1>2. ASSUME NEW a \in Agents, Poll(a)
      PROVE  \/ Commit(a) /\ UNCHANGED <<lastId, clock, cancelled>>
             \/ UNCHANGED <<table, history>>
  BY <1>2 DEF Poll, PollBegin, SelectDue, Claim, ClaimUnacknowledged, PollFails
<1>3. ASSUME NEW a \in Agents, Crash(a) \/ Restart(a) PROVE UNCHANGED <<table, history>>
  BY <1>3 DEF Crash, Restart
<1>4. ASSUME NEW a \in Agents, NEW t \in tasks[a], Fire(a, t)
      PROVE  UNCHANGED <<table, claimed, cancelled>>
  BY <1>4 DEF Fire, DropDisabled, StartTurn, EndTurn, Send
<1>5. CASE Tick
  BY <1>5 DEF Tick
<1>6. CASE UNCHANGED vars
  BY <1>6 DEF vars
<1> QED BY <1>1, <1>2, <1>3, <1>4, <1>5, <1>6 DEF Next

\* No poll claims a job after cancel_scheduled_task reported it cancelled.
THEOREM CancelIsFinalCorrect == Spec => CancelIsFinal
<1>1. ASSUME IInv, [Next]_vars
      PROVE  \A c \in claimed' \ claimed : c.job \notin cancelled
  <2>1. ASSUME NEW a \in Agents, Commit(a)
        PROVE  \A c \in claimed' \ claimed : c.job \notin cancelled
    <3>1. \A r \in rows[a] : r.id \notin cancelled
      BY <1>1 DEF IInv, Locked, Keyed
    <3>2. \A c \in claimed' \ claimed : \E r \in rows[a] : c.job = r.id
      BY <2>1 DEF Commit, RunOf
    <3> QED BY <3>1, <3>2
  <2>2. CASE claimed' = claimed
    BY <2>2
  <2>3. (\E a \in Agents : Commit(a)) \/ claimed' = claimed
    BY <1>1, StepKinds DEF Schedule, Cancel, history
  <2> QED BY <2>1, <2>2, <2>3
<1>2. IInv /\ [Next]_vars => [\A c \in claimed' \ claimed : c.job \notin cancelled]_vars
  BY <1>1
<1> QED BY <1>2, Invariance, PTL DEF Spec, CancelIsFinal

\* A row leaves the table only by a cancellation or by the claim of a one-time
\* job's occurrence.
THEOREM NothingLostCorrect == Spec => NothingLost
<1> DEFINE Kept(r) == \/ \E s \in jobs' : s.id = r.id /\ s.every = r.every
                      \/ r.id \in cancelled'
                      \/ r.every = OneShot /\ \E c \in claimed' : c.job = r.id /\ c.due = r.next
<1>1. ASSUME IInv, [Next]_vars, NEW r \in jobs
      PROVE  Kept(r)
  <2>1. ASSUME NEW o \in Owners, NEW request \in Requests, NEW every \in Intervals,
               Schedule(o, request, every)
        PROVE  r \in jobs'
    BY <2>1 DEF Schedule
  <2>2. ASSUME NEW o \in Owners, NEW id \in JobIds, Cancel(o, id)
        PROVE  r \in jobs' \/ r.id \in cancelled'
    BY <2>2 DEF Cancel
  <2>3. ASSUME NEW a \in Agents, Commit(a)
        PROVE  Kept(r)
    <3>1. CASE \A c \in rows[a] : c.id # r.id
      <4>1. r \in jobs'
        BY <2>3, <3>1 DEF Commit, AfterClaim
      <4> QED BY <4>1
    <3>2. ASSUME NEW c \in rows[a], c.id = r.id
          PROVE  Kept(r)
      <4>1. c = r
        BY <1>1, <3>2 DEF IInv, Locked, Keyed
      <4>2. CASE r.every = OneShot
        <5>1. RunOf(r, clock[a]) \in claimed'
          BY <2>3, <4>1 DEF Commit
        <5>2. RunOf(r, clock[a]).job = r.id /\ RunOf(r, clock[a]).due = r.next
          BY DEF RunOf
        <5> QED BY <4>2, <5>1, <5>2
      <4>3. CASE r.every # OneShot
        <5>1. Advanced(r, clock[a]) \in jobs'
          BY <2>3, <4>1, <4>3 DEF Commit, AfterClaim
        <5>2. Advanced(r, clock[a]).id = r.id /\ Advanced(r, clock[a]).every = r.every
          <6>1. r \in Job
            BY <1>1 DEF IInv, TypeOK
          <6> QED BY <6>1 DEF Advanced, Job
        <5> QED BY <5>1, <5>2
      <4> QED BY <4>2, <4>3
    <3> QED BY <3>1, <3>2
  <2>4. CASE jobs' = jobs
    BY <2>4
  <2> HIDE DEF Kept
  <2>5. r \in jobs' \/ r.id \in cancelled' => Kept(r)
    BY DEF Kept
  <2> QED BY <1>1, StepKinds, <2>1, <2>2, <2>3, <2>4, <2>5 DEF table
<1>2. IInv /\ [Next]_vars => [\A r \in jobs : Kept(r)]_vars
  BY <1>1
<1> QED BY <1>2, Invariance, PTL DEF Spec, NothingLost

-----------------------------------------------------------------------------

(***************************************************************************)
(* Scheduler implements JobLedger: an insert offers a job, a cancellation  *)
(* withdraws one, a committed claim hands occurrences out, a turn begins   *)
(* one, and every other step settles or loses occurrences or is a stutter. *)
(***************************************************************************)

\* Membership in the mapped variables, before and after a step.
LEMMA OfPcFacts ==
  ASSUME NEW pcs, NEW x
  PROVE  /\ x \in OfPc(pcs)  <=> \E a \in Agents : \E t \in tasks[a] :
                                   t.pc \in pcs /\ t.run = x
         /\ x \in OfPc(pcs)' <=> \E a \in Agents : \E t \in tasks'[a] :
                                   t.pc \in pcs /\ t.run = x
BY DEF OfPc

LEMMA OfPcUnchanged ==
  ASSUME NEW pcs, UNCHANGED tasks
  PROVE  OfPc(pcs)' = OfPc(pcs)
BY DEF OfPc

LEMMA InitRefines == Init => Ledger!Init
<1> SUFFICES ASSUME Init PROVE Ledger!Init
  OBVIOUS
<1>1. 1..lastId = {} /\ {r.id : r \in jobs} = {} /\ claimed = {}
  BY DEF Init
<1>2. OfPc({"new"}) = {} /\ OfPc({"turn", "send"}) = {}
  BY DEF Init, OfPc
<1> QED BY <1>1, <1>2 DEF Ledger!Init

LEMMA ScheduleRefines ==
  ASSUME IInv, NEW o \in Owners, NEW request \in Requests, NEW every \in Intervals,
         Schedule(o, request, every)
  PROVE  Ledger!Next
<1>1. lastId \in Nat /\ lastId' = lastId + 1
  BY DEF IInv, TypeOK, Schedule
<1>2. lastId + 1 \notin 1..lastId /\ 1..lastId' = (1..lastId) \cup {lastId + 1}
  BY <1>1
<1>3. {r.id : r \in jobs'} = {r.id : r \in jobs} \cup {lastId + 1}
  <2>1. PICK new : new.id = lastId + 1 /\ jobs' = jobs \cup {new}
    BY DEF Schedule
  <2> QED BY <2>1
<1>4. UNCHANGED <<claimed, tasks>>
  BY DEF Schedule, history
<1>5. PICK j \in (1..lastId)' : j = lastId + 1
  BY <1>1
<1>6. Ledger!Offer(j)
  BY <1>2, <1>3, <1>4, <1>5, OfPcUnchanged DEF Ledger!Offer
<1> QED BY <1>6 DEF Ledger!Next

LEMMA CancelRefines ==
  ASSUME IInv, NEW o \in Owners, NEW id \in JobIds, Cancel(o, id)
  PROVE  Ledger!Next
<1>1. PICK r \in jobs : r.id = id /\ jobs' = jobs \ {r}
  BY DEF Cancel
<1>2. {s.id : s \in jobs'} = {s.id : s \in jobs} \ {id}
  BY <1>1 DEF IInv, Keyed
<1>3. UNCHANGED <<lastId, claimed, tasks>>
  BY DEF Cancel
<1>4. Ledger!Withdraw(id)
  BY <1>2, <1>3, OfPcUnchanged DEF Ledger!Withdraw
<1> QED BY <1>1, <1>4 DEF Ledger!Next

(***************************************************************************)
(* A committed claim hands out one occurrence of each row it locked,       *)
(* whether its tasks were created or not.                                  *)
(***************************************************************************)
LEMMA CommitRefines ==
  ASSUME IInv, NEW a \in Agents, Commit(a), lastId' = lastId,
         OfPc({"turn", "send"})' = OfPc({"turn", "send"}),
         OfPc({"new"}) \subseteq OfPc({"new"})',
         OfPc({"new"})' \subseteq OfPc({"new"}) \cup {RunOf(r, clock[a]) : r \in rows[a]}
  PROVE  Ledger!HandOut
<1> DEFINE runs == {RunOf(r, clock[a]) : r \in rows[a]}
<1>1. \A r \in rows[a] : r \in jobs /\ r.next <= clock[a]
  BY DEF IInv, Locked
<1>2. \A r \in rows[a] : /\ RunOf(r, clock[a]).job = r.id
                         /\ RunOf(r, clock[a]).due = r.next
                         /\ RunOf(r, clock[a]).at = clock[a]
  BY DEF RunOf
<1>3. \A r, s \in jobs : r.id = s.id => r = s
  BY DEF IInv, Keyed
<1>4. claimed' = claimed \cup runs /\ runs \cap claimed = {}
  BY NewRuns DEF Commit
<1>5. claimed' \ claimed = runs
  BY <1>4
<1>6. ASSUME NEW o \in runs
      PROVE  /\ o.job \in {r.id : r \in jobs}
             /\ o.due <= o.at
             /\ \A h \in claimed : h.job = o.job => h.at < o.due
             /\ \A p \in runs : p.job = o.job => p = o
  <2>1. PICK r \in rows[a] : o = RunOf(r, clock[a])
    OBVIOUS
  <2>2. \A h \in claimed : h.job = o.job => h.at < o.due
    BY <2>1, <1>2, NewRuns
  <2>3. ASSUME NEW p \in runs, p.job = o.job PROVE p = o
    <3>1. PICK s \in rows[a] : p = RunOf(s, clock[a])
      OBVIOUS
    <3> QED BY <3>1, <2>1, <2>3, <1>1, <1>2, <1>3
  <2> QED BY <2>1, <2>2, <2>3, <1>1, <1>2
<1>7. {r.id : r \in jobs'} \subseteq {r.id : r \in jobs}
  <2>1. \A s \in jobs' : \E r \in jobs : s.id = r.id
    BY AfterClaimFacts, <1>1 DEF Commit
  <2> QED BY <2>1
<1>8. ASSUME NEW r \in jobs, r.id \notin {s.id : s \in jobs'}
      PROVE  r.id \in {o.job : o \in runs}
  <2>1. r \notin jobs'
    BY <1>8
  <2>2. PICK c \in rows[a] : c.id = r.id
    BY <2>1 DEF Commit, AfterClaim
  <2> QED BY <2>2, <1>2
<1> HIDE DEF runs
<1>9. {r.id : r \in jobs} \ {r.id : r \in jobs'} \subseteq {o.job : o \in runs}
  BY <1>8
<1>10. OfPc({"new"})' \ OfPc({"new"}) \subseteq runs
  BY DEF runs
<1> QED BY <1>4, <1>5, <1>6, <1>7, <1>9, <1>10 DEF Ledger!HandOut

LEMMA ClaimRefines ==
  ASSUME IInv, NEW a \in Agents, Claim(a)
  PROVE  Ledger!Next
<1> DEFINE started == {[run |-> RunOf(r, clock[a]), owner |-> r.owner, pc |-> "new"] : r \in rows[a]}
<1>1. \A b \in Agents : tasks'[b] = IF b = a THEN tasks[a] \cup started ELSE tasks[b]
  BY DEF Claim, IInv, TypeOK
<1>2. \A t \in started : t.pc = "new" /\ t.run \in {RunOf(r, clock[a]) : r \in rows[a]}
  OBVIOUS
<1> HIDE DEF started
<1>3. \A x : x \in OfPc({"turn", "send"})' <=> x \in OfPc({"turn", "send"})
  BY <1>1, <1>2, OfPcFacts
<1>4. \A x : x \in OfPc({"new"}) => x \in OfPc({"new"})'
  BY <1>1, OfPcFacts
<1>5. \A x : x \in OfPc({"new"})' => x \in OfPc({"new"}) \cup {RunOf(r, clock[a]) : r \in rows[a]}
  BY <1>1, <1>2, OfPcFacts
<1>6. Commit(a) /\ lastId' = lastId
  BY DEF Claim
<1>7. Ledger!HandOut
  BY <1>3, <1>4, <1>5, <1>6, CommitRefines
<1> QED BY <1>7 DEF Ledger!Next

LEMMA ClaimUnacknowledgedRefines ==
  ASSUME IInv, NEW a \in Agents, ClaimUnacknowledged(a)
  PROVE  Ledger!Next
<1>1. Commit(a) /\ lastId' = lastId /\ UNCHANGED tasks
  BY DEF ClaimUnacknowledged
<1>2. Ledger!HandOut
  BY <1>1, CommitRefines, OfPcUnchanged
<1> QED BY <1>2 DEF Ledger!Next

\* A task that starts its turn begins its occurrence; the others settle one.
LEMMA FireRefines ==
  ASSUME IInv, NEW a \in Agents, NEW t \in tasks[a], Fire(a, t)
  PROVE  Ledger!Next
<1> USE DEF table, poller, faults, history
<1>1. /\ UNCHANGED <<jobs, lastId, claimed>>
      /\ \/ tasks' = [tasks EXCEPT ![a] = @ \ {t}]
         \/ t.pc = "new"  /\ tasks' = Moved(a, t, "turn")
         \/ t.pc = "turn" /\ tasks' = Moved(a, t, "send")
  BY DEF Fire, DropDisabled, StartTurn, EndTurn, Send
<1>2. t \in Task
  BY DEF IInv, TypeOK
<1>3. \A b \in Agents : \A u \in tasks[b] : u.run = t.run => b = a /\ u = t
  BY DEF IInv, OneTask
<1>4. CASE tasks' = [tasks EXCEPT ![a] = @ \ {t}]
  <2>1. \A b \in Agents : tasks'[b] \subseteq tasks[b]
    BY <1>4 DEF IInv, TypeOK
  <2>2. \A pcs : OfPc(pcs)' \subseteq OfPc(pcs)
    BY <2>1, OfPcFacts
  <2> QED BY <1>1, <2>2 DEF Ledger!Next, Ledger!End
<1>5. ASSUME NEW pc \in {"turn", "send"}, tasks' = Moved(a, t, pc)
      PROVE  \A b \in Agents : \A u : u \in tasks'[b] <=>
               \/ u \in tasks[b] /\ u.run # t.run
               \/ b = a /\ u = [t EXCEPT !.pc = pc]
  <2>1. \A b \in Agents : tasks'[b] = IF b = a THEN (tasks[a] \ {t}) \cup {[t EXCEPT !.pc = pc]}
                                               ELSE tasks[b]
    BY <1>5 DEF Moved, IInv, TypeOK
  <2> QED BY <2>1, <1>3
<1>6. ASSUME NEW pc \in {"turn", "send"}
      PROVE  [t EXCEPT !.pc = pc].pc = pc /\ [t EXCEPT !.pc = pc].run = t.run
  BY <1>2 DEF Task
<1>7. CASE t.pc = "new" /\ tasks' = Moved(a, t, "turn")
  <2> DEFINE u == [t EXCEPT !.pc = "turn"]
  <2>1. \A b \in Agents : \A v : v \in tasks'[b] <=>
          (v \in tasks[b] /\ v.run # t.run) \/ (b = a /\ v = u)
    BY <1>5, <1>7
  <2>2. u.pc = "turn" /\ u.run = t.run
    BY <1>6
  <2> HIDE DEF u
  <2>3. t.run \in OfPc({"new"})
    BY <1>7, OfPcFacts
  <2>4. \A x : x \in OfPc({"new"})' <=> x \in OfPc({"new"}) /\ x # t.run
    BY <2>1, <2>2, OfPcFacts
  <2>5. \A x : x \in OfPc({"turn", "send"})' <=> x \in OfPc({"turn", "send"}) \/ x = t.run
    <3>1. t.run \notin OfPc({"turn", "send"})
      BY <1>3, <1>7, OfPcFacts
    <3>2. t.run \in OfPc({"turn", "send"})'
      BY <2>1, <2>2, OfPcFacts
    <3> QED BY <2>1, <2>2, <3>1, <3>2, OfPcFacts
  <2>6. /\ OfPc({"new"})' = OfPc({"new"}) \ {t.run}
        /\ OfPc({"turn", "send"})' = OfPc({"turn", "send"}) \cup {t.run}
    BY <2>4, <2>5
  <2>7. Ledger!Begin(t.run)
    BY <1>1, <2>3, <2>6 DEF Ledger!Begin
  <2> QED BY <2>3, <2>7 DEF Ledger!Next
<1>8. CASE t.pc = "turn" /\ tasks' = Moved(a, t, "send")
  <2> DEFINE u == [t EXCEPT !.pc = "send"]
  <2>1. \A b \in Agents : \A v : v \in tasks'[b] <=>
          (v \in tasks[b] /\ v.run # t.run) \/ (b = a /\ v = u)
    BY <1>5, <1>8
  <2>2. u.pc = "send" /\ u.run = t.run
    BY <1>6
  <2> HIDE DEF u
  <2>3. \A x : x \in OfPc({"new"})' => x \in OfPc({"new"})
    BY <2>1, <2>2, OfPcFacts
  <2>4. \A x : x \in OfPc({"turn", "send"})' => x \in OfPc({"turn", "send"})
    <3>1. t.run \in OfPc({"turn", "send"})
      BY <1>8, OfPcFacts
    <3> QED BY <2>1, <2>2, <3>1, OfPcFacts
  <2>5. Ledger!End
    BY <1>1, <2>3, <2>4 DEF Ledger!End
  <2> QED BY <2>5 DEF Ledger!Next
<1> QED BY <1>1, <1>4, <1>7, <1>8

\* The tasks die with their process; nothing else the ledger speaks of changes.
LEMMA CrashRefines ==
  ASSUME IInv, NEW a \in Agents, Crash(a)
  PROVE  Ledger!Next
<1>1. \A b \in Agents : tasks'[b] \subseteq tasks[b]
  BY DEF Crash, IInv, TypeOK
<1>2. \A pcs : OfPc(pcs)' \subseteq OfPc(pcs)
  BY <1>1, OfPcFacts
<1>3. UNCHANGED <<jobs, lastId, claimed>>
  BY DEF Crash, table, history
<1> QED BY <1>2, <1>3 DEF Ledger!Next, Ledger!End

LEMMA StutterRefines ==
  ASSUME UNCHANGED <<jobs, lastId, claimed, tasks>>
  PROVE  Ledger!Next
BY OfPcUnchanged DEF Ledger!Next, Ledger!End

LEMMA NextRefines ==
  ASSUME IInv, [Next]_vars
  PROVE  Ledger!Next
<1> USE DEF table, poller, faults, history
<1>1. CASE Tools
  BY <1>1, ScheduleRefines, CancelRefines DEF Tools
<1>2. ASSUME NEW a \in Agents, Poll(a) PROVE Ledger!Next
  <2>1. CASE PollBegin(a) \/ SelectDue(a) \/ PollFails(a)
    BY <2>1, StutterRefines DEF PollBegin, SelectDue, PollFails
  <2>2. CASE Claim(a) \/ ClaimUnacknowledged(a)
    BY <2>2, ClaimRefines, ClaimUnacknowledgedRefines
  <2> QED BY <1>2, <2>1, <2>2 DEF Poll
<1>3. ASSUME NEW a \in Agents, Restart(a) PROVE Ledger!Next
  BY <1>3, StutterRefines DEF Restart
<1>4. CASE Tick
  BY <1>4, StutterRefines DEF Tick
<1>5. CASE UNCHANGED vars
  BY <1>5, StutterRefines DEF vars
<1> QED BY <1>1, <1>2, <1>3, <1>4, <1>5, CrashRefines, FireRefines DEF Next

(***************************************************************************)
(* The scheduler implements the ledger: whatever polls, crashes and        *)
(* database failures do, jobs are offered once, withdrawn for good, handed *)
(* out one occurrence at a time and run at most once.                      *)
(***************************************************************************)
THEOREM ImplementsLedger == Spec => KeepsLedger
<1>1. IInv /\ [Next]_vars => [Ledger!Next]_(Ledger!vars)
  BY NextRefines
<1> QED BY InitRefines, <1>1, Invariance, PTL DEF Spec, KeepsLedger, Ledger!Spec

=============================================================================
