---------------------------- MODULE SandboxProofs ----------------------------
(***************************************************************************)
(* Proofs about the sandbox and what is built on it. Of the server: for    *)
(* any requests, any timeouts with 3 * Lag < Slack and any bounds, the     *)
(* server's limit wins the race, an undisturbed answer is complete, and a  *)
(* timed-out group is gone. Of files: for any number of transfers of any   *)
(* lengths, what reports success is whole unless writers met. Of skills:   *)
(* for any finite repositories, folders and users, the playbook stored is  *)
(* the skill's own and stands behind its code.                             *)
(***************************************************************************)
EXTENDS MCSandbox, OrderLemmas, SequenceTheorems, TLAPS

-----------------------------------------------------------------------------

(***************************************************************************)
(* The server.  A request is a record that one step replaces, so each      *)
(* action has a lemma about records: the new one is Sound if the old one   *)
(* was.                                                                    *)
(***************************************************************************)

LEMMA LeastFacts ==
  ASSUME NEW a \in Nat, NEW b \in Nat
  PROVE  Least(a, b) \in Nat /\ Least(a, b) <= a /\ Least(a, b) <= b
  BY DEF Least

\* The limit is a number, and the backend's client waits longer than it.
LEMMA LimitFacts ==
  ASSUME NEW a \in Asks
  PROVE  /\ Limit(a) \in Nat /\ Limit(a) <= MaxTimeout
         /\ Patience("backend", a) \in Nat /\ Patience("installer", a) \in Nat
         /\ Limit(a) + 3 * Lag < Patience("backend", a)
  BY SandboxAssumption DEF Limit, Patience, OrDefault, Least

LEMMA CountFacts ==
  ASSUME NEW n \in Nat
  PROVE  /\ Count(n) \in Seq(Nat) /\ Len(Count(n)) = n
         /\ Append(Count(n), n + 1) = Count(n + 1)
         /\ \A m \in Nat : m <= n => SubSeq(Count(n), 1, m) = Count(m)
<1>1. Count(n) \in Seq(Nat) /\ Len(Count(n)) = n
  BY DEF Count
<1>2. Append(Count(n), n + 1) = Count(n + 1)
  <2>1. Append(Count(n), n + 1) \in Seq(Nat) /\ Len(Append(Count(n), n + 1)) = n + 1
    BY <1>1
  <2>2. \A i \in 1..(n + 1) : Append(Count(n), n + 1)[i] = i
    BY <1>1 DEF Count
  <2>3. QED BY <2>1, <2>2 DEF Count
<1>3. ASSUME NEW m \in Nat, m <= n
      PROVE  SubSeq(Count(n), 1, m) = Count(m)
  <2>1. SubSeq(Count(n), 1, m) \in Seq(Nat) /\ Len(SubSeq(Count(n), 1, m)) = m
    BY <1>1, <1>3
  <2>2. \A i \in 1..m : SubSeq(Count(n), 1, m)[i] = i
    BY <1>1, <1>3 DEF Count
  <2>3. QED BY <2>1, <2>2 DEF Count
<1>4. QED BY <1>1, <1>2, <1>3

-----------------------------------------------------------------------------
\* One lemma per action of a request.

LEMMA Fields ==
  ASSUME NEW r \in Call
  PROVE  /\ r.pc \in Pc /\ r.ask \in Asks /\ r.caller \in Callers
         /\ r.client \in {"waiting"} \cup Ends
         /\ r.sent \in Nat /\ r.started \in Nat /\ r.due \in Nat
         /\ r.offset \in Nat /\ r.size \in Nat /\ r.writes \in Nat
         /\ r.shell \in BOOLEAN /\ r.kid \in BOOLEAN /\ r.detached \in BOOLEAN
         /\ r.outlived \in BOOLEAN /\ r.timedOut \in BOOLEAN
         /\ Limit(r.ask) \in Nat /\ Lag \in Nat
<1>1. r.writes \in Written BY DEF Call
<1>2. r.writes \in Nat BY <1>1, SandboxAssumption DEF Written
<1>3. QED BY <1>2, LimitFacts, SandboxAssumption DEF Call

LEMMA SendSound ==
  ASSUME NEW t \in Nat, NEW caller \in Callers, NEW a \in Asks
  PROVE  Sound(t, [NoCall EXCEPT !.pc = "sent", !.caller = caller, !.ask = a,
                                 !.sent = t, !.due = t + Lag])
<1> DEFINE s == [NoCall EXCEPT !.pc = "sent", !.caller = caller, !.ask = a,
                               !.sent = t, !.due = t + Lag]
<1>1. /\ NoCall \in Call /\ NoCall.client = "waiting" /\ NoCall.kid = FALSE
      /\ NoCall.timedOut = FALSE /\ NoCall.shell = FALSE
      /\ NoCall.offset = 0 /\ NoCall.writes = 0 /\ NoCall.out = Count(0)
  <2>1. /\ "idle" \in Pc /\ "backend" \in Callers /\ 0 \in Asks /\ << >> \in Files
        /\ 0 \in Written /\ {} \in SUBSET Written /\ Count(0) = << >>
    BY SandboxAssumption DEF Pc, Callers, Files, Written, Count
  <2>2. QED BY <2>1 DEF NoCall, Call
<1>2. "sent" \in Pc /\ t + Lag \in Nat
  BY SandboxAssumption DEF Pc
<1>3. /\ s \in Call /\ s.pc = "sent" /\ s.sent = t /\ s.due = t + Lag
      /\ s.client = "waiting" /\ s.kid = FALSE /\ s.timedOut = FALSE /\ s.shell = FALSE
      /\ s.offset = 0 /\ s.writes = 0 /\ s.out = Count(0)
  BY <1>1, <1>2 DEF Call
<1> HIDE DEF s
<1>4. Timely(t, s)
  BY <1>3, Fields DEF Timely
<1>5. Recorded(s)
  BY <1>3 DEF Recorded, Untouched
<1>6. QED BY <1>3, <1>4, <1>5 DEF Sound, s

LEMMA StartSound ==
  ASSUME NEW t \in Nat, NEW r, Sound(t, r), r.pc = "sent"
  PROVE  Sound(t, [r EXCEPT !.pc = "runs", !.shell = TRUE, !.started = t,
                            !.due = t + Limit(r.ask) + Lag])
<1> DEFINE s == [r EXCEPT !.pc = "runs", !.shell = TRUE, !.started = t,
                            !.due = t + Limit(r.ask) + Lag]
<1>1. r \in Call
  BY DEF Sound
<1>2. "runs" \in Pc /\ t + Limit(r.ask) + Lag \in Nat
  BY <1>1, Fields DEF Pc
<1>3. /\ s \in Call /\ s.pc = "runs" /\ s.shell = TRUE /\ s.started = t /\ s.due = t + Limit(r.ask) + Lag
      /\ s.caller = r.caller /\ s.ask = r.ask /\ s.client = r.client
      /\ s.sent = r.sent /\ s.kid = r.kid /\ s.detached = r.detached
      /\ s.out = r.out /\ s.offset = r.offset /\ s.writes = r.writes
      /\ s.own = r.own /\ s.size = r.size /\ s.outlived = r.outlived
      /\ s.timedOut = r.timedOut /\ s.text = r.text
  BY <1>1, <1>2, Fields DEF Call
<1> HIDE DEF s
<1>4. Timely(t, s)
  BY <1>1, <1>2, <1>3, Fields DEF Sound, Timely
<1>5. Recorded(s)
  BY <1>1, <1>2, <1>3, Fields DEF Sound, Recorded, Untouched, Alone, Complete
<1>6. QED BY <1>1, <1>3, <1>4, <1>5, Fields DEF Sound, Timely, s

LEMMA RefuseSound ==
  ASSUME NEW t \in Nat, NEW r, Sound(t, r), r.pc = "sent"
  PROVE  Sound(t, [r EXCEPT !.pc = "over",
                            !.client = IF r.client = "waiting" THEN "error" ELSE r.client])
<1> DEFINE s == [r EXCEPT !.pc = "over",
                            !.client = IF r.client = "waiting" THEN "error" ELSE r.client]
<1>1. r \in Call
  BY DEF Sound
<1>2. /\ "over" \in Pc
      /\ (IF r.client = "waiting" THEN "error" ELSE r.client) \in {"waiting"} \cup Ends
  BY <1>1, Fields DEF Pc, Ends
<1>3. /\ s \in Call /\ s.pc = "over" /\ s.client = (IF r.client = "waiting" THEN "error" ELSE r.client)
      /\ s.caller = r.caller /\ s.ask = r.ask /\ s.sent = r.sent
      /\ s.started = r.started /\ s.due = r.due /\ s.shell = r.shell
      /\ s.kid = r.kid /\ s.detached = r.detached /\ s.out = r.out
      /\ s.offset = r.offset /\ s.writes = r.writes /\ s.own = r.own
      /\ s.size = r.size /\ s.outlived = r.outlived /\ s.timedOut = r.timedOut
      /\ s.text = r.text
  BY <1>1, <1>2, Fields DEF Call
<1> HIDE DEF s
<1>4. Timely(t, s)
  BY <1>1, <1>2, <1>3, Fields DEF Sound, Timely
<1>5. Recorded(s)
  BY <1>1, <1>2, <1>3, Fields DEF Sound, Recorded, Untouched, Alone, Complete
<1>6. QED BY <1>1, <1>3, <1>4, <1>5, Fields DEF Sound, Timely, s

LEMMA BackgroundSound ==
  ASSUME NEW t \in Nat, NEW r, Sound(t, r), NEW d \in BOOLEAN, r.shell
  PROVE  Sound(t, [r EXCEPT !.kid = TRUE, !.detached = d])
<1> DEFINE s == [r EXCEPT !.kid = TRUE, !.detached = d]
<1>1. r \in Call
  BY DEF Sound
<1>2. /\ s \in Call /\ s.kid = TRUE /\ s.detached = d
      /\ s.pc = r.pc /\ s.caller = r.caller /\ s.ask = r.ask
      /\ s.client = r.client /\ s.sent = r.sent /\ s.started = r.started
      /\ s.due = r.due /\ s.shell = r.shell /\ s.out = r.out
      /\ s.offset = r.offset /\ s.writes = r.writes /\ s.own = r.own
      /\ s.size = r.size /\ s.outlived = r.outlived /\ s.timedOut = r.timedOut
      /\ s.text = r.text
  BY <1>1, Fields DEF Call
<1> HIDE DEF s
<1>3. Timely(t, s)
  BY <1>1, <1>2, Fields DEF Sound, Timely
<1>4. Recorded(s)
  BY <1>1, <1>2, Fields DEF Sound, Recorded, Untouched, Alone, Complete
<1>5. QED BY <1>1, <1>2, <1>3, <1>4, Fields DEF Sound, Timely, s

LEMMA KidEndsSound ==
  ASSUME NEW t \in Nat, NEW r, Sound(t, r)
  PROVE  Sound(t, [r EXCEPT !.kid = FALSE])
<1> DEFINE s == [r EXCEPT !.kid = FALSE]
<1>1. r \in Call
  BY DEF Sound
<1>2. /\ s \in Call /\ s.kid = FALSE
      /\ s.pc = r.pc /\ s.caller = r.caller /\ s.ask = r.ask
      /\ s.client = r.client /\ s.sent = r.sent /\ s.started = r.started
      /\ s.due = r.due /\ s.shell = r.shell /\ s.detached = r.detached
      /\ s.out = r.out /\ s.offset = r.offset /\ s.writes = r.writes
      /\ s.own = r.own /\ s.size = r.size /\ s.outlived = r.outlived
      /\ s.timedOut = r.timedOut /\ s.text = r.text
  BY <1>1, Fields DEF Call
<1> HIDE DEF s
<1>3. Timely(t, s)
  BY <1>1, <1>2, Fields DEF Sound, Timely
<1>4. Recorded(s)
  BY <1>1, <1>2, Fields DEF Sound, Recorded, Untouched, Alone, Complete
<1>5. QED BY <1>1, <1>2, <1>3, <1>4, Fields DEF Sound, Timely, s

LEMMA ShellEndsSound ==
  ASSUME NEW t \in Nat, NEW r, Sound(t, r), r.shell, t <= r.due
  PROVE  Sound(t, [r EXCEPT !.shell = FALSE, !.due = Least(@, t + Lag)])
<1> DEFINE s == [r EXCEPT !.shell = FALSE, !.due = Least(@, t + Lag)]
<1>1. r \in Call
  BY DEF Sound
<1>2. /\ Least(r.due, t + Lag) \in Nat /\ Least(r.due, t + Lag) <= r.due
      /\ t <= Least(r.due, t + Lag)
  BY <1>1, Fields DEF Least
<1>3. /\ s \in Call /\ s.shell = FALSE /\ s.due = Least(r.due, t + Lag)
      /\ s.pc = r.pc /\ s.caller = r.caller /\ s.ask = r.ask
      /\ s.client = r.client /\ s.sent = r.sent /\ s.started = r.started
      /\ s.kid = r.kid /\ s.detached = r.detached /\ s.out = r.out
      /\ s.offset = r.offset /\ s.writes = r.writes /\ s.own = r.own
      /\ s.size = r.size /\ s.outlived = r.outlived /\ s.timedOut = r.timedOut
      /\ s.text = r.text
  BY <1>1, <1>2, Fields DEF Call
<1> HIDE DEF s
<1>4. Timely(t, s)
  BY <1>1, <1>2, <1>3, Fields DEF Sound, Timely
<1>5. Recorded(s)
  BY <1>1, <1>2, <1>3, Fields DEF Sound, Recorded, Untouched, Alone, Complete
<1>6. QED BY <1>1, <1>3, <1>4, <1>5, Fields DEF Sound, Timely, s

LEMMA WaitReturnsSound ==
  ASSUME NEW t \in Nat, NEW r, Sound(t, r), r.pc = "runs", ~r.shell
  PROVE  Sound(t, [r EXCEPT !.pc = "exited"])
<1> DEFINE s == [r EXCEPT !.pc = "exited"]
<1>1. r \in Call
  BY DEF Sound
<1>2. "exited" \in Pc
  BY DEF Pc
<1>3. /\ s \in Call /\ s.pc = "exited"
      /\ s.caller = r.caller /\ s.ask = r.ask /\ s.client = r.client
      /\ s.sent = r.sent /\ s.started = r.started /\ s.due = r.due
      /\ s.shell = r.shell /\ s.kid = r.kid /\ s.detached = r.detached
      /\ s.out = r.out /\ s.offset = r.offset /\ s.writes = r.writes
      /\ s.own = r.own /\ s.size = r.size /\ s.outlived = r.outlived
      /\ s.timedOut = r.timedOut /\ s.text = r.text
  BY <1>1, <1>2, Fields DEF Call
<1> HIDE DEF s
<1>4. Timely(t, s)
  BY <1>1, <1>2, <1>3, Fields DEF Sound, Timely
<1>5. Recorded(s)
  BY <1>1, <1>2, <1>3, Fields DEF Sound, Recorded, Untouched, Alone, Complete
<1>6. QED BY <1>1, <1>3, <1>4, <1>5, Fields DEF Sound, Timely, s

LEMMA ExpireSound ==
  ASSUME NEW t \in Nat, NEW r, Sound(t, r), r.pc = "runs", r.shell
  PROVE  Sound(t, [r EXCEPT !.pc = "expired", !.timedOut = TRUE, !.due = t + Lag])
<1> DEFINE s == [r EXCEPT !.pc = "expired", !.timedOut = TRUE, !.due = t + Lag]
<1>1. r \in Call
  BY DEF Sound
<1>2. "expired" \in Pc /\ t + Lag \in Nat
  BY <1>1, Fields DEF Pc
<1>3. /\ s \in Call /\ s.pc = "expired" /\ s.timedOut = TRUE /\ s.due = t + Lag
      /\ s.caller = r.caller /\ s.ask = r.ask /\ s.client = r.client
      /\ s.sent = r.sent /\ s.started = r.started /\ s.shell = r.shell
      /\ s.kid = r.kid /\ s.detached = r.detached /\ s.out = r.out
      /\ s.offset = r.offset /\ s.writes = r.writes /\ s.own = r.own
      /\ s.size = r.size /\ s.outlived = r.outlived /\ s.text = r.text
  BY <1>1, <1>2, Fields DEF Call
<1> HIDE DEF s
<1>4. Timely(t, s)
  BY <1>1, <1>2, <1>3, Fields DEF Sound, Timely
<1>5. Recorded(s)
  BY <1>1, <1>2, <1>3, Fields DEF Sound, Recorded, Untouched, Alone, Complete
<1>6. QED BY <1>1, <1>3, <1>4, <1>5, Fields DEF Sound, Timely, s

LEMMA KillGroupSound ==
  ASSUME NEW t \in Nat, NEW r, Sound(t, r), r.pc = "expired"
  PROVE  Sound(t, [r EXCEPT !.pc = "exited", !.shell = FALSE, !.kid = @ /\ r.detached])
<1> DEFINE s == [r EXCEPT !.pc = "exited", !.shell = FALSE, !.kid = @ /\ r.detached]
<1>1. r \in Call
  BY DEF Sound
<1>2. "exited" \in Pc /\ (r.kid /\ r.detached) \in BOOLEAN
  BY <1>1, Fields DEF Pc
<1>3. /\ s \in Call /\ s.pc = "exited" /\ s.shell = FALSE /\ s.kid = (r.kid /\ r.detached)
      /\ s.caller = r.caller /\ s.ask = r.ask /\ s.client = r.client
      /\ s.sent = r.sent /\ s.started = r.started /\ s.due = r.due
      /\ s.detached = r.detached /\ s.out = r.out /\ s.offset = r.offset
      /\ s.writes = r.writes /\ s.own = r.own /\ s.size = r.size
      /\ s.outlived = r.outlived /\ s.timedOut = r.timedOut /\ s.text = r.text
  BY <1>1, <1>2, Fields DEF Call
<1> HIDE DEF s
<1>4. Timely(t, s)
  BY <1>1, <1>2, <1>3, Fields DEF Sound, Timely
<1>5. Recorded(s)
  BY <1>1, <1>2, <1>3, Fields DEF Sound, Recorded, Untouched, Alone, Complete
<1>6. QED BY <1>1, <1>3, <1>4, <1>5, Fields DEF Sound, Timely, s

LEMMA MeasureSound ==
  ASSUME NEW t \in Nat, NEW r, Sound(t, r), r.pc = "exited"
  PROVE  Sound(t, [r EXCEPT !.pc = "measured", !.size = Len(r.out), !.offset = 0,
                            !.outlived = r.kid])
<1> DEFINE s == [r EXCEPT !.pc = "measured", !.size = Len(r.out), !.offset = 0,
                            !.outlived = r.kid]
<1>1. r \in Call
  BY DEF Sound
<1>2. "measured" \in Pc /\ Len(r.out) \in Nat
  BY <1>1 DEF Call, Files, Pc
<1>3. /\ s \in Call /\ s.pc = "measured" /\ s.size = Len(r.out) /\ s.offset = 0 /\ s.outlived = r.kid
      /\ s.caller = r.caller /\ s.ask = r.ask /\ s.client = r.client
      /\ s.sent = r.sent /\ s.started = r.started /\ s.due = r.due
      /\ s.shell = r.shell /\ s.kid = r.kid /\ s.detached = r.detached
      /\ s.out = r.out /\ s.writes = r.writes /\ s.own = r.own
      /\ s.timedOut = r.timedOut /\ s.text = r.text
  BY <1>1, <1>2, Fields DEF Call
<1> HIDE DEF s
<1>4. Timely(t, s)
  BY <1>1, <1>2, <1>3, Fields DEF Sound, Timely
<1>5. Recorded(s)
  BY <1>1, <1>2, <1>3, Fields, CountFacts DEF Sound, Timely, Recorded, Untouched, Alone
<1>6. QED BY <1>1, <1>3, <1>4, <1>5, Fields DEF Sound, Timely, s

LEMMA ReadOutSound ==
  ASSUME NEW t \in Nat, NEW r, Sound(t, r), NEW end \in Nat, r.pc = "measured",
         end = Least(Len(r.out), r.offset + MaxOutput)
  PROVE  Sound(t, [r EXCEPT !.pc = "read", !.offset = end,
                            !.text = SubSeq(r.out, r.offset + 1, end)])
<1> DEFINE s == [r EXCEPT !.pc = "read", !.offset = end,
                            !.text = SubSeq(r.out, r.offset + 1, end)]
<1>1. r \in Call
  BY DEF Sound
<1>2. SubSeq(r.out, r.offset + 1, end) \in Seq(Nat)
  <2>1. r.out \in Seq(Nat) /\ r.offset \in Nat
    BY <1>1, Fields DEF Call, Files
  <2>2. Len(r.out) \in Nat /\ end <= Len(r.out)
    BY <2>1, SandboxAssumption DEF Least
  <2>3. QED BY <2>1, <2>2
<1>3. "read" \in Pc /\ SubSeq(r.out, r.offset + 1, end) \in Files
  BY <1>2 DEF Files, Pc
<1>4. ASSUME ~r.outlived
      PROVE  SubSeq(r.out, r.offset + 1, end) = Count(Least(r.writes, MaxOutput))
  <2>1. r.offset = 0 /\ r.out = Count(r.writes) /\ r.writes \in Nat
    BY <1>1, <1>4, Fields DEF Sound, Recorded
  <2>2. Len(r.out) = r.writes
    BY <2>1, CountFacts
  <2>3. end = Least(r.writes, MaxOutput) /\ end <= r.writes
    BY <2>1, <2>2, SandboxAssumption DEF Least
  <2>4. SubSeq(Count(r.writes), 1, end) = Count(end)
    BY <2>1, <2>3, CountFacts
  <2>5. QED BY <2>1, <2>3, <2>4
<1>5. /\ s \in Call /\ s.pc = "read" /\ s.offset = end /\ s.text = SubSeq(r.out, r.offset + 1, end)
      /\ s.caller = r.caller /\ s.ask = r.ask /\ s.client = r.client
      /\ s.sent = r.sent /\ s.started = r.started /\ s.due = r.due
      /\ s.shell = r.shell /\ s.kid = r.kid /\ s.detached = r.detached
      /\ s.out = r.out /\ s.writes = r.writes /\ s.own = r.own
      /\ s.size = r.size /\ s.outlived = r.outlived /\ s.timedOut = r.timedOut
  BY <1>1, <1>3, Fields DEF Call
<1> HIDE DEF s
<1>6. Timely(t, s)
  BY <1>1, <1>3, <1>5, Fields DEF Sound, Timely
<1>7. Recorded(s)
  BY <1>1, <1>3, <1>5, <1>4, Fields DEF Sound, Recorded, Alone, Complete
<1>8. QED BY <1>1, <1>5, <1>6, <1>7, Fields DEF Sound, Timely, s

LEMMA ReplySound ==
  ASSUME NEW t \in Nat, NEW r, Sound(t, r), r.pc = "read"
  PROVE  Sound(t, [r EXCEPT !.pc = "over",
                            !.client = IF r.client = "waiting" THEN "answered" ELSE r.client])
<1> DEFINE s == [r EXCEPT !.pc = "over",
                            !.client = IF r.client = "waiting" THEN "answered" ELSE r.client]
<1>1. r \in Call
  BY DEF Sound
<1>2. /\ "over" \in Pc
      /\ (IF r.client = "waiting" THEN "answered" ELSE r.client) \in {"waiting"} \cup Ends
  BY <1>1, Fields DEF Pc, Ends
<1>3. /\ s \in Call /\ s.pc = "over" /\ s.client = (IF r.client = "waiting" THEN "answered" ELSE r.client)
      /\ s.caller = r.caller /\ s.ask = r.ask /\ s.sent = r.sent
      /\ s.started = r.started /\ s.due = r.due /\ s.shell = r.shell
      /\ s.kid = r.kid /\ s.detached = r.detached /\ s.out = r.out
      /\ s.offset = r.offset /\ s.writes = r.writes /\ s.own = r.own
      /\ s.size = r.size /\ s.outlived = r.outlived /\ s.timedOut = r.timedOut
      /\ s.text = r.text
  BY <1>1, <1>2, Fields DEF Call
<1> HIDE DEF s
<1>4. Timely(t, s)
  BY <1>1, <1>2, <1>3, Fields DEF Sound, Timely
<1>5. Recorded(s)
  BY <1>1, <1>2, <1>3, Fields DEF Sound, Recorded, Untouched, Alone, Complete
<1>6. QED BY <1>1, <1>3, <1>4, <1>5, Fields DEF Sound, Timely, s

LEMMA GiveUpSound ==
  ASSUME NEW t \in Nat, NEW r, Sound(t, r), r.pc # "idle", r.client = "waiting",
         t >= r.sent + Patience(r.caller, r.ask)
  PROVE  Sound(t, [r EXCEPT !.client = "gaveup"])
<1> DEFINE s == [r EXCEPT !.client = "gaveup"]
<1>1. r \in Call
  BY DEF Sound
<1>2. "gaveup" \in {"waiting"} \cup Ends
  BY DEF Ends
<1>3. r.caller # "backend"
  <2>1. SUFFICES ASSUME r.caller = "backend" PROVE FALSE
    OBVIOUS
  <2>2. Limit(r.ask) + 3 * Lag < Patience("backend", r.ask) /\ Patience("backend", r.ask) \in Nat
    BY <1>1, Fields, LimitFacts
  <2>3. t <= r.sent + Limit(r.ask) + 3 * Lag
    <3>1. r.pc \in {"sent", "runs", "expired", "exited", "measured", "read"}
      BY <1>1, Fields DEF Sound, Timely, Pc
    <3>2. t <= r.due /\ r.due <= r.sent + Limit(r.ask) + 3 * Lag
      BY <1>1, <3>1, Fields DEF Sound, Timely
    <3>3. QED BY <1>1, <3>2, Fields
  <2>4. QED BY <1>1, <2>1, <2>2, <2>3, Fields
<1>4. /\ s \in Call /\ s.client = "gaveup"
      /\ s.pc = r.pc /\ s.caller = r.caller /\ s.ask = r.ask /\ s.sent = r.sent
      /\ s.started = r.started /\ s.due = r.due /\ s.shell = r.shell
      /\ s.kid = r.kid /\ s.detached = r.detached /\ s.out = r.out
      /\ s.offset = r.offset /\ s.writes = r.writes /\ s.own = r.own
      /\ s.size = r.size /\ s.outlived = r.outlived /\ s.timedOut = r.timedOut
      /\ s.text = r.text
  BY <1>1, <1>2, Fields DEF Call
<1> HIDE DEF s
<1>5. Timely(t, s)
  BY <1>1, <1>2, <1>4, Fields DEF Sound, Timely
<1>6. Recorded(s)
  BY <1>1, <1>2, <1>4, Fields DEF Sound, Recorded, Untouched, Alone, Complete
<1>7. QED BY <1>1, <1>4, <1>5, <1>6, <1>3, Fields DEF Sound, Timely, s

LEMMA CancelSound ==
  ASSUME NEW t \in Nat, NEW r, Sound(t, r), r.pc # "idle", r.client = "waiting"
  PROVE  Sound(t, [r EXCEPT !.client = "cancelled"])
<1> DEFINE s == [r EXCEPT !.client = "cancelled"]
<1>1. r \in Call
  BY DEF Sound
<1>2. "cancelled" \in {"waiting"} \cup Ends
  BY DEF Ends
<1>3. /\ s \in Call /\ s.client = "cancelled"
      /\ s.pc = r.pc /\ s.caller = r.caller /\ s.ask = r.ask /\ s.sent = r.sent
      /\ s.started = r.started /\ s.due = r.due /\ s.shell = r.shell
      /\ s.kid = r.kid /\ s.detached = r.detached /\ s.out = r.out
      /\ s.offset = r.offset /\ s.writes = r.writes /\ s.own = r.own
      /\ s.size = r.size /\ s.outlived = r.outlived /\ s.timedOut = r.timedOut
      /\ s.text = r.text
  BY <1>1, <1>2, Fields DEF Call
<1> HIDE DEF s
<1>4. Timely(t, s)
  BY <1>1, <1>2, <1>3, Fields DEF Sound, Timely
<1>5. Recorded(s)
  BY <1>1, <1>2, <1>3, Fields DEF Sound, Recorded, Untouched, Alone, Complete
<1>6. QED BY <1>1, <1>3, <1>4, <1>5, Fields DEF Sound, Timely, s

LEMMA CrashSound ==
  ASSUME NEW t \in Nat, NEW r, Sound(t, r), r.pc \notin {"idle", "over"}
  PROVE  Sound(t, [r EXCEPT !.pc = "over", !.shell = FALSE, !.kid = FALSE,
                            !.client = IF r.client = "waiting" THEN "error" ELSE r.client])
<1> DEFINE s == [r EXCEPT !.pc = "over", !.shell = FALSE, !.kid = FALSE,
                            !.client = IF r.client = "waiting" THEN "error" ELSE r.client]
<1>1. r \in Call
  BY DEF Sound
<1>2. /\ "over" \in Pc
      /\ (IF r.client = "waiting" THEN "error" ELSE r.client) \in {"waiting"} \cup Ends
  BY <1>1, Fields DEF Pc, Ends
<1>3. /\ s \in Call /\ s.pc = "over" /\ s.shell = FALSE /\ s.kid = FALSE /\ s.client = (IF r.client = "waiting" THEN "error" ELSE r.client)
      /\ s.caller = r.caller /\ s.ask = r.ask /\ s.sent = r.sent
      /\ s.started = r.started /\ s.due = r.due /\ s.detached = r.detached
      /\ s.out = r.out /\ s.offset = r.offset /\ s.writes = r.writes
      /\ s.own = r.own /\ s.size = r.size /\ s.outlived = r.outlived
      /\ s.timedOut = r.timedOut /\ s.text = r.text
  BY <1>1, <1>2, Fields DEF Call
<1> HIDE DEF s
<1>4. Timely(t, s)
  BY <1>1, <1>2, <1>3, Fields DEF Sound, Timely
<1>5. Recorded(s)
  BY <1>1, <1>2, <1>3, Fields DEF Sound, Recorded, Untouched, Alone, Complete
<1>6. QED BY <1>1, <1>3, <1>4, <1>5, Fields DEF Sound, Timely, s

LEMMA WriteSound ==
  ASSUME NEW t \in Nat, NEW r, Sound(t, r), NEW byShell \in BOOLEAN,
         r.writes < MaxWrites, r.shell \/ r.kid
  PROVE  Sound(t, WriteAt(r, byShell))
<1> DEFINE n == r.writes + 1
           own == IF byShell THEN r.own \cup {n} ELSE r.own
           out == IF r.offset < Len(r.out) THEN [r.out EXCEPT ![r.offset + 1] = n]
                                           ELSE Append(r.out, n)
           s == [r EXCEPT !.writes = n, !.offset = r.offset + 1, !.own = own, !.out = out]
<1>1. r \in Call
  BY DEF Sound
<1>2. n \in Written /\ own \in SUBSET Written
  <2>1. n \in Written
    BY <1>1, Fields, SandboxAssumption DEF Written
  <2>2. QED BY <1>1, <2>1 DEF Call
<1>3. out \in Files
  <2>1. r.out \in Seq(Nat) /\ n \in Nat /\ r.offset \in Nat
    BY <1>1, Fields DEF Call, Files
  <2>2. QED BY <2>1 DEF Files
<1>4. r.offset + 1 \in Nat
  BY <1>1, Fields
<1>5. WriteAt(r, byShell) = s
  BY DEF WriteAt
<1>6. Untouched(r) => n = r.offset + 1 /\ out = Count(n)
  <2>1. SUFFICES ASSUME Untouched(r) PROVE n = r.offset + 1 /\ out = Count(n)
    OBVIOUS
  <2>2. r.writes \in Nat /\ r.offset = r.writes /\ r.out = Count(r.writes)
    BY <1>1, <2>1, Fields DEF Untouched
  <2>3. ~(r.offset < Len(r.out))
    <3>1. Len(Count(r.writes)) = r.writes
      BY <2>2, CountFacts
    <3>2. QED BY <2>2, <3>1
  <2>4. out = Append(r.out, n)
    BY <2>3
  <2>5. Append(Count(r.writes), r.writes + 1) = Count(r.writes + 1)
    BY <2>2, CountFacts
  <2>6. QED BY <2>2, <2>4, <2>5
<1> HIDE DEF n, own, out
<1>7. /\ s \in Call /\ s.writes = n /\ s.offset = r.offset + 1 /\ s.out = out
      /\ s.pc = r.pc /\ s.caller = r.caller /\ s.ask = r.ask
      /\ s.client = r.client /\ s.sent = r.sent /\ s.started = r.started
      /\ s.due = r.due /\ s.shell = r.shell /\ s.kid = r.kid
      /\ s.detached = r.detached /\ s.size = r.size /\ s.outlived = r.outlived
      /\ s.timedOut = r.timedOut /\ s.text = r.text
  BY <1>1, <1>2, <1>3, <1>4 DEF Call
<1> HIDE DEF s
<1>8. Timely(t, s)
  BY <1>1, <1>7, Fields DEF Sound, Timely
<1>9. Recorded(s)
  BY <1>1, <1>6, <1>7, Fields DEF Sound, Recorded, Untouched, Alone
<1>10. QED BY <1>1, <1>5, <1>7, <1>8, <1>9, Fields DEF Sound

-----------------------------------------------------------------------------
\* From one request to all of them.

LEMMA StepKeeps ==
  ASSUME SInv, NEW c \in Calls, NEW r, Sound(clock, r),
         calls' = [calls EXCEPT ![c] = r], UNCHANGED <<clock, crashes>>
  PROVE  SInv'
<1>1. calls' \in [Calls -> Call] /\ \A d \in Calls : calls'[d] = IF d = c THEN r ELSE calls[d]
  BY DEF SInv, TypeOK, Sound
<1>2. TypeOK'
  BY <1>1 DEF SInv, TypeOK
<1>3. \A d \in Calls : Sound(clock, calls'[d])
  BY <1>1 DEF SInv
<1>4. QED BY <1>2, <1>3 DEF SInv

LEMMA HandleKeeps ==
  ASSUME SInv, NEW c \in Calls, Handle(c)
  PROVE  SInv'
<1> DEFINE t == clock
           r == calls[c]
<1>1. t \in Nat /\ Sound(t, r)
  BY DEF SInv, TypeOK
<1>2. CASE Start(c)
  BY <1>1, <1>2, StartSound, StepKeeps DEF Start, Step
<1>3. CASE Refuse(c)
  BY <1>1, <1>3, RefuseSound, StepKeeps DEF Refuse, Step, Told
<1>4. CASE WaitReturns(c)
  BY <1>1, <1>4, WaitReturnsSound, StepKeeps DEF WaitReturns, Step
<1>5. CASE Expire(c)
  BY <1>1, <1>5, ExpireSound, StepKeeps DEF Expire, Step
<1>6. CASE KillGroup(c)
  BY <1>1, <1>6, KillGroupSound, StepKeeps DEF KillGroup, Step
<1>7. CASE Measure(c)
  BY <1>1, <1>7, MeasureSound, StepKeeps DEF Measure, Step
<1>8. CASE ReadOut(c)
  <2> DEFINE end == Least(Len(r.out), r.offset + MaxOutput)
  <2>1. end \in Nat
    BY <1>1, Fields, SandboxAssumption DEF Sound, Call, Files, Least
  <2>2. Sound(t, [r EXCEPT !.pc = "read", !.offset = end,
                           !.text = SubSeq(r.out, r.offset + 1, end)])
    BY <1>1, <1>8, <2>1, ReadOutSound DEF ReadOut, Step
  <2>3. QED BY <1>8, <2>2, StepKeeps DEF ReadOut, Step
<1>9. CASE Reply(c)
  BY <1>1, <1>9, ReplySound, StepKeeps DEF Reply, Step, Told
<1>10. QED BY <1>2, <1>3, <1>4, <1>5, <1>6, <1>7, <1>8, <1>9 DEF Handle

LEMMA CommandKeeps ==
  ASSUME SInv, NEW c \in Calls, Command(c)
  PROVE  SInv'
<1> DEFINE t == clock
           r == calls[c]
<1>1. t \in Nat /\ Sound(t, r)
  BY DEF SInv, TypeOK
<1>2. CASE ShellWrites(c)
  BY <1>1, <1>2, WriteSound, StepKeeps DEF ShellWrites, Step
<1>3. CASE KidWrites(c)
  BY <1>1, <1>3, WriteSound, StepKeeps DEF KidWrites, Step
<1>4. CASE KidEnds(c)
  BY <1>1, <1>4, KidEndsSound, StepKeeps DEF KidEnds, Step
<1>5. CASE ShellEnds(c)
  <2>1. t <= r.due
    BY <1>1, <1>5, Fields DEF Sound, Timely, ShellEnds
  <2>2. QED BY <1>1, <1>5, <2>1, ShellEndsSound, StepKeeps DEF ShellEnds, Step
<1>6. CASE \E d \in BOOLEAN : Background(c, d)
  BY <1>1, <1>6, BackgroundSound, StepKeeps DEF Background, Step
<1>7. QED BY <1>2, <1>3, <1>4, <1>5, <1>6 DEF Command

LEMMA ClientKeeps ==
  ASSUME SInv, NEW c \in Calls, Client(c)
  PROVE  SInv'
<1> DEFINE t == clock
           r == calls[c]
<1>1. t \in Nat /\ Sound(t, r)
  BY DEF SInv, TypeOK
<1>2. CASE GiveUp(c)
  BY <1>1, <1>2, GiveUpSound, StepKeeps DEF GiveUp, Step
<1>3. CASE Cancel(c)
  BY <1>1, <1>3, CancelSound, StepKeeps DEF Cancel, Step
<1>4. CASE \E caller \in Callers, ask \in Asks : Send(c, caller, ask)
  BY <1>1, <1>4, SendSound, StepKeeps DEF Send, Step
<1>5. QED BY <1>2, <1>3, <1>4 DEF Client

LEMMA CrashKeeps ==
  ASSUME SInv, Crash
  PROVE  SInv'
<1>1. crashes' \in 0..MaxCrashes /\ clock' = clock
  <2>1. crashes < MaxCrashes /\ crashes' = crashes + 1 /\ clock' = clock
    BY Zenon DEF Crash
  <2>2. QED BY <2>1, SandboxAssumption DEF SInv, TypeOK
<1>2. ASSUME NEW c \in Calls
      PROVE  Sound(clock, calls'[c])
  <2>1. clock \in Nat /\ Sound(clock, calls[c])
    BY <1>2 DEF SInv, TypeOK
  <2>2. CASE c \in Active
    <3>1. Sound(clock, [calls[c] EXCEPT !.pc = "over", !.shell = FALSE, !.kid = FALSE,
                 !.client = IF calls[c].client = "waiting" THEN "error" ELSE calls[c].client])
      BY <2>1, <2>2, CrashSound DEF Active
    <3>2. QED BY <1>2, <2>2, <3>1 DEF Crash, Told
  <2>3. CASE c \notin Active
    BY <1>2, <2>1, <2>3, KidEndsSound DEF Crash
  <2>4. QED BY <2>2, <2>3
<1>3. calls' \in [Calls -> Call]
  BY <1>2 DEF Crash, Sound
<1>4. QED BY <1>1, <1>2, <1>3 DEF SInv, TypeOK

LEMMA TickKeeps ==
  ASSUME SInv, Tick
  PROVE  SInv'
<1>1. clock' \in Nat /\ clock' = clock + 1 /\ calls' = calls /\ crashes' = crashes
  BY DEF SInv, TypeOK, Tick
<1>2. ASSUME NEW c \in Calls
      PROVE  Sound(clock', calls[c])
  <2>1. Sound(clock, calls[c]) /\ clock \in Nat
    BY <1>2 DEF SInv, TypeOK
  <2>2. calls[c].pc \notin {"idle", "over"} => clock + 1 <= calls[c].due
    BY <1>2, <2>1, Fields DEF Tick, Active, Sound
  <2>3. Timely(clock', calls[c])
    BY <1>1, <2>1, <2>2 DEF Sound, Timely
  <2>4. QED BY <2>1, <2>3 DEF Sound
<1>3. QED BY <1>1, <1>2 DEF SInv, TypeOK

LEMMA InitSound == Init => SInv
<1>1. NoCall \in Call
  <2>1. /\ "idle" \in Pc /\ "backend" \in Callers /\ 0 \in Asks /\ << >> \in Files
        /\ 0 \in Written /\ {} \in SUBSET Written
    BY SandboxAssumption DEF Pc, Callers, Files, Written
  <2>2. QED BY <2>1 DEF NoCall, Call
<1>2. Sound(0, NoCall)
  BY <1>1 DEF Sound, NoCall, Timely, Recorded
<1>3. QED BY <1>1, <1>2, SandboxAssumption DEF Init, SInv, TypeOK

-----------------------------------------------------------------------------
(***************************************************************************)
(* Every request is Sound at all times: the handler acts in time, and the  *)
(* file and what was read of it are what the command wrote.                *)
(***************************************************************************)
THEOREM SandboxInvariance == Spec => []SInv
<1>1. Init => SInv
  BY InitSound
<1>2. SInv /\ [Next]_vars => SInv'
  <2>1. SUFFICES ASSUME SInv, [Next]_vars PROVE SInv'
    OBVIOUS
  <2>2. CASE \E c \in Calls : Handle(c) \/ Command(c) \/ Client(c)
    BY <2>1, <2>2, HandleKeeps, CommandKeeps, ClientKeeps
  <2>3. CASE Crash
    BY <2>1, <2>3, CrashKeeps
  <2>4. CASE Tick
    BY <2>1, <2>4, TickKeeps
  <2>5. CASE Rest \/ UNCHANGED vars
    BY <2>1, <2>5 DEF Rest, vars, SInv, TypeOK
  <2>6. QED BY <2>1, <2>2, <2>3, <2>4, <2>5 DEF Next
<1>3. QED BY <1>1, <1>2, PTL DEF Spec

\* The variables keep their types.
THEOREM SandboxTypes == Spec => []TypeOK
<1>1. SInv => TypeOK
  BY DEF SInv
<1>2. QED BY <1>1, SandboxInvariance, PTL

\* The server's limit always wins the race against a backend client's.
THEOREM CleanTimeoutCorrect == Spec => []CleanTimeout
<1>1. SInv => CleanTimeout
  BY DEF SInv, Sound, CleanTimeout
<1>2. QED BY <1>1, SandboxInvariance, PTL

\* No shell outruns MAX_TIMEOUT by more than the time it takes to kill it.
THEOREM CeilingCorrect == Spec => []Ceiling
<1>1. SInv => Ceiling
  <2>1. SUFFICES ASSUME SInv, NEW c \in Calls, calls[c].shell
                 PROVE  clock <= calls[c].started + MaxTimeout + 2 * Lag
    BY DEF Ceiling
  <2>2. PICK r \in Call : r = calls[c]
    BY <2>1 DEF SInv, TypeOK
  <2>3. clock \in Nat /\ Sound(clock, r) /\ r.shell
    BY <2>1, <2>2 DEF SInv, TypeOK
  <2>4. clock <= r.due /\ r.due <= r.started + Limit(r.ask) + 2 * Lag
    BY <2>3, Fields DEF Sound, Timely
  <2>5. Limit(r.ask) <= MaxTimeout /\ MaxTimeout \in Nat
    BY Fields, LimitFacts, SandboxAssumption
  <2>6. QED BY <2>2, <2>3, <2>4, <2>5, Fields
<1>2. QED BY <1>1, SandboxInvariance, PTL

\* An answer nobody was left to disturb is all the command wrote.
THEOREM AnswerFaithfulCorrect == Spec => []AnswerFaithful
<1>1. SInv => AnswerFaithful
  BY DEF SInv, Sound, Recorded, AnswerFaithful
<1>2. QED BY <1>1, SandboxInvariance, PTL

\* A timed-out command leaves nothing of its process group behind.
THEOREM KilledAllCorrect == Spec => []KilledAll
<1>1. SInv => KilledAll
  BY DEF SInv, Sound, KilledAll
<1>2. QED BY <1>1, SandboxInvariance, PTL

-----------------------------------------------------------------------------

(***************************************************************************)
(* Files.  All of it holds "unless somebody interfered", where             *)
(* interference is what the history variables record and no client sees.   *)
(***************************************************************************)

-----------------------------------------------------------------------------
\* Sizes.

(***************************************************************************)
(* SafeBytes (44,415) is the largest file whose download is not clipped:   *)
(* up to it nothing of the base64 text is missing, and over it something   *)
(* is.                                                                     *)
(***************************************************************************)
THEOREM SafeBytesIsTheLimit == \A n \in Nat : Missing(n) > 0 <=> n > SafeBytes
<1> SUFFICES ASSUME NEW n \in Nat PROVE Missing(n) > 0 <=> n > 44415 BY DEF SafeBytes
<1> DEFINE q == (n + 2) \div 3
           l == (4 * q + 75) \div 76
<1>1. q \in Nat /\ 3 * q <= n + 2 /\ n + 2 < 3 * q + 3 OBVIOUS
<1>2. l \in Nat /\ 76 * l <= 4 * q + 75 /\ 4 * q + 75 < 76 * l + 76 BY <1>1
<1>3. Missing(n) = 4 * q + l - 60000 BY DEF Missing, Encoded, Base64, Clip
<1> HIDE DEF q, l
<1>4. n <= 44415 => q <= 14805 BY <1>1
<1>5. q <= 14805 => l <= 780 BY <1>1, <1>2
<1>6. n > 44415 => q >= 14806 BY <1>1
<1>7. q >= 14806 => l >= 780 BY <1>1, <1>2
<1>8. QED BY <1>1, <1>2, <1>3, <1>4, <1>5, <1>6, <1>7

LEMMA SilentIsLarge ==
  ASSUME NEW n \in Nat, Silent(n)
  PROVE  n > SafeBytes
  BY SafeBytesIsTheLimit DEF Silent

LEMMA OverwriteType ==
  ASSUME NEW s \in Seq(Labels), NEW i \in Nat \ {0}, NEW label \in Labels
  PROVE  Overwrite(s, i, label) \in Seq(Labels)
<1> DEFINE n == IF i > Len(s) THEN i ELSE Len(s)
           t == Overwrite(s, i, label)
<1>1. Len(s) \in Nat /\ n \in Nat /\ Hole \in Labels
  BY FilesAssumption DEF Hole, Labels
<1>2. \A j \in 1..Len(s) : s[j] \in Labels OBVIOUS
<1>3. t = [j \in 1..n |-> IF j = i THEN label ELSE IF j <= Len(s) THEN s[j] ELSE Hole]
  BY DEF Overwrite
<1>4. \A j \in 1..n : t[j] \in Labels BY <1>1, <1>2, <1>3
<1>5. QED BY <1>1, <1>3, <1>4

LEMMA OverwriteAtTheEnd ==
  ASSUME NEW s \in Seq(Labels), NEW label \in Labels
  PROVE  Overwrite(s, Len(s) + 1, label) = Append(s, label)
<1>1. Len(s) \in Nat /\ Len(s) + 1 > Len(s) OBVIOUS
<1>2. Overwrite(s, Len(s) + 1, label) =
        [j \in 1..(Len(s) + 1) |-> IF j = Len(s) + 1 THEN label ELSE s[j]]
  BY <1>1 DEF Overwrite
<1>3. QED BY <1>1, <1>2

-----------------------------------------------------------------------------
\* A step of one transfer.

Kept(m, r) ==
  r.kind = m.kind /\ r.length = m.length /\ r.met = m.met /\ r.source = m.source

LEMMA MoveFields ==
  ASSUME NEW m \in Move
  PROVE  /\ m.pc \in {"open", "exited", "over"} /\ m.kind \in Kinds /\ m.length \in Nat
         /\ m.at \in Nat /\ m.got \in Seq(Labels) /\ m.code \in {0, 1}
         /\ m.told \in {"waiting", "ok", "error"} /\ m.garbled \in BOOLEAN /\ m.met \in BOOLEAN
         /\ m.source \in Labels
  BY DEF Move

LEMMA MoveOnFacts ==
  ASSUME FilesTypeOK, NEW x \in DOMAIN moves, NEW r \in Move, NEW from, MoveOn(x, from, r)
  PROVE  /\ moves' \in Seq(Move) /\ Len(moves') = Len(moves) /\ DOMAIN moves' = DOMAIN moves
         /\ moves[x].pc = from /\ moves'[x] = r
         /\ \A y \in DOMAIN moves : y # x => moves'[y] = moves[y]
         /\ exists' = exists /\ newest' = newest
  BY DEF MoveOn, FilesTypeOK

(***************************************************************************)
(* Every step of a transfer but the writing of a piece leaves the file as  *)
(* it is.  It reads a piece, ends a transfer that is through (or breaks it *)
(* off), or reports about one that has ended.                              *)
(***************************************************************************)
LEMMA FileStays ==
  ASSUME FilesInv, NEW x \in DOMAIN moves, NEW r \in Move, NEW from,
         MoveOn(x, from, r), file' = file, Kept(moves[x], r),
         from = "open" \/ (r.pc # "open" /\ r.code = moves[x].code /\ r.got = moves[x].got),
         Writes(x) /\ from = "open" =>
           r.pc # "open" /\ (r.code = 0 => moves[x].at = moves[x].length),
         ~Writes(x) /\ r.pc = "open" =>
           Len(moves[x].got) < Len(file)
           /\ r.got = Append(moves[x].got, file[Len(moves[x].got) + 1]),
         ~Writes(x) /\ from = "open" /\ r.pc # "open" =>
           r.got = moves[x].got /\ (r.code = 0 => Len(moves[x].got) >= Len(file)),
         r.told = "ok" => r.pc = "over" /\ r.code = 0,
         r.garbled => r.pc = "over" /\ Len(r.got) * PieceBytes > SafeBytes
  PROVE  FilesInv'
<1>1. /\ FilesTypeOK /\ Opened /\ LoneWriter /\ Content /\ Undisturbed /\ Sources /\ Reports
      /\ file \in Seq(Labels) /\ Len(file) \in Nat
  BY DEF FilesInv, FilesTypeOK
<1>2. /\ moves' \in Seq(Move) /\ Len(moves') = Len(moves) /\ DOMAIN moves' = DOMAIN moves
      /\ moves[x].pc = from /\ moves'[x] = r
      /\ \A y \in DOMAIN moves : y # x => moves'[y] = moves[y]
      /\ exists' = exists /\ newest' = newest
  BY <1>1, MoveOnFacts
<1>3. \A y \in DOMAIN moves :
        /\ moves'[y].kind = moves[y].kind /\ moves'[y].length = moves[y].length
        /\ moves'[y].met = moves[y].met /\ moves'[y].source = moves[y].source
        /\ moves'[y].pc = "open" => moves[y].pc = "open"
        /\ moves[y].pc # "open" =>
             moves'[y].code = moves[y].code /\ moves'[y].got = moves[y].got
  BY <1>2 DEF Kept
<1>4. FilesTypeOK' BY <1>1, <1>2 DEF FilesTypeOK
<1>5. Opened' BY <1>1, <1>2, <1>3 DEF Opened, Writes, IsOpen
<1>6. LoneWriter' BY <1>1, <1>2, <1>3 DEF Opened, LoneWriter, Writes, IsOpen
<1>7. Content'
  <2> SUFFICES ASSUME newest # Hole, ~moves[newest].met
               PROVE  /\ \A i \in 1..Len(file) : file[i] = newest
                      /\ moves'[newest].pc = "open" => Len(file) = moves'[newest].at
                      /\ moves'[newest].pc # "open" /\ moves'[newest].code = 0 =>
                           Len(file) = moves'[newest].length
    BY <1>1, <1>2, <1>3 DEF Content, IsOpen, Opened
  <2>1. newest \in DOMAIN moves /\ Writes(newest) BY <1>1 DEF Opened
  <2>2. CASE newest # x BY <1>1, <1>2, <2>1, <2>2 DEF Content, IsOpen
  <2>3. CASE newest = x BY <1>1, <1>2, <2>1, <2>3 DEF Content, IsOpen, Kept
  <2>4. QED BY <2>2, <2>3
<1>8. Undisturbed'
  <2> SUFFICES ASSUME NEW y \in DOMAIN moves, moves[y].kind = "download",
                      moves'[y].pc = "open", ~moves[y].met
               PROVE  /\ newest = moves[y].source
                      /\ \A z \in DOMAIN moves : moves'[z].pc = "open" => ~Writes(z)
                      /\ Len(moves'[y].got) <= Len(file)
                      /\ \A i \in 1..Len(moves'[y].got) : moves'[y].got[i] = file[i]
    BY <1>2, <1>3 DEF Undisturbed, IsOpen, Reads, Writes
  <2>1. /\ newest = moves[y].source
        /\ \A z \in DOMAIN moves : moves[z].pc = "open" => ~Writes(z)
        /\ Len(moves[y].got) <= Len(file)
        /\ \A i \in 1..Len(moves[y].got) : moves[y].got[i] = file[i]
    BY <1>1, <1>3 DEF Undisturbed, IsOpen, Reads
  <2>2. CASE y # x BY <1>2, <1>3, <2>1, <2>2
  <2>3. CASE y = x
    <3>1. moves[x].got \in Seq(Labels) BY <1>1, MoveFields DEF FilesTypeOK
    <3>2. ~Writes(x) BY <2>3 DEF Writes
    <3>3. /\ Len(moves[x].got) < Len(file)
          /\ r.got = Append(moves[x].got, file[Len(moves[x].got) + 1])
      BY <1>2, <2>3, <3>2
    <3>4. /\ Len(r.got) = Len(moves[x].got) + 1 /\ Len(moves[x].got) \in Nat
          /\ r.got[Len(moves[x].got) + 1] = file[Len(moves[x].got) + 1]
          /\ \A i \in 1..Len(moves[x].got) : r.got[i] = moves[x].got[i]
      <4>1. file[Len(moves[x].got) + 1] \in Labels BY <1>1, <3>1, <3>3
      <4>2. QED BY <3>1, <3>3, <4>1
    <3>5. Len(r.got) <= Len(file) BY <1>1, <3>3, <3>4
    <3>6. ASSUME NEW i \in 1..Len(r.got) PROVE r.got[i] = file[i]
      BY <2>1, <2>3, <3>4, <3>6
    <3>7. \A z \in DOMAIN moves : moves'[z].pc = "open" => ~Writes(z) BY <1>3, <2>1
    <3>8. QED BY <1>2, <2>1, <2>3, <3>5, <3>6, <3>7
  <2>4. QED BY <2>2, <2>3
<1>9. Sources'
  <2> SUFFICES ASSUME NEW y \in DOMAIN moves, moves[y].kind = "download",
                      NEW w, w = moves[y].source, w # Hole
               PROVE  /\ w \in DOMAIN moves
                      /\ ~moves[y].met => moves'[w].pc # "open"
                      /\ (moves'[y].pc # "open" /\ ~moves[y].met /\ moves'[y].code = 0
                          /\ moves'[w].code = 0 /\ ~moves'[w].met) =>
                            moves'[y].got = [i \in 1..moves'[w].length |-> w]
    BY <1>2, <1>3 DEF Sources, Reads, IsOpen, Good, Whole
  <2>1. /\ w \in DOMAIN moves /\ (~moves[y].met => moves[w].pc # "open")
        /\ (moves[y].pc # "open" /\ ~moves[y].met /\ moves[y].code = 0
            /\ moves[w].code = 0 /\ ~moves[w].met) =>
              moves[y].got = [i \in 1..moves[w].length |-> w]
    BY <1>1 DEF Sources, Reads, IsOpen, Good, Whole
  <2>2. ASSUME moves'[y].pc # "open", ~moves[y].met, moves'[y].code = 0,
               moves'[w].code = 0, ~moves[w].met
        PROVE  moves'[y].got = [i \in 1..moves[w].length |-> w]
    <3>1. moves[w].pc # "open" /\ moves[w].code = 0 BY <1>3, <2>1, <2>2
    <3>2. CASE moves[y].pc # "open" BY <1>3, <2>1, <2>2, <3>1, <3>2
    <3>3. CASE moves[y].pc = "open"
      <4>1. /\ newest = w /\ Len(moves[y].got) <= Len(file)
            /\ \A i \in 1..Len(moves[y].got) : moves[y].got[i] = file[i]
        BY <1>1, <2>2, <3>3 DEF Undisturbed, IsOpen, Reads
      <4>2. Len(file) = moves[w].length /\ \A i \in 1..Len(file) : file[i] = w
        BY <1>1, <2>2, <3>1, <4>1 DEF Content, IsOpen
      <4>3. y = x BY <1>2, <2>2, <3>3
      <4>4. ~Writes(x) BY <4>3 DEF Writes
      <4>5. r.got = moves[x].got /\ Len(moves[x].got) >= Len(file)
        BY <1>2, <2>2, <3>3, <4>3, <4>4
      <4>6. moves[x].got \in Seq(Labels) BY <1>1, MoveFields DEF FilesTypeOK
      <4>7. Len(moves[x].got) = Len(file) BY <1>1, <4>1, <4>3, <4>5, <4>6
      <4>8. moves[x].got = [i \in 1..moves[w].length |-> w]
        BY <4>1, <4>2, <4>3, <4>6, <4>7
      <4>9. QED BY <1>2, <4>3, <4>5, <4>8
    <3>4. QED BY <3>2, <3>3
  <2>3. QED BY <1>3, <2>1, <2>2
<1>10. Reports' BY <1>1, <1>2 DEF Reports
<1>11. QED BY <1>4, <1>5, <1>6, <1>7, <1>8, <1>9, <1>10 DEF FilesInv

LEMMA WritePieceKeeps ==
  ASSUME FilesInv, NEW x \in DOMAIN moves, WritePiece(x)
  PROVE  FilesInv'
<1> DEFINE r == [moves[x] EXCEPT !.at = moves[x].at + 1]
<1>1. /\ FilesTypeOK /\ Opened /\ LoneWriter /\ Content /\ Undisturbed /\ Sources /\ Reports
      /\ file \in Seq(Labels) /\ Len(file) \in Nat /\ moves[x] \in Move /\ x \in Labels
  BY FilesAssumption DEF FilesInv, FilesTypeOK, Labels
<1>2. moves[x].at \in Nat /\ Writes(x) /\ moves[x].pc = "open"
  BY <1>1, MoveFields DEF WritePiece, MoveOn
<1>3. /\ r \in Move /\ Kept(moves[x], r) /\ r.pc = "open" /\ r.at = moves[x].at + 1
      /\ r.got = moves[x].got /\ r.code = moves[x].code /\ r.told = moves[x].told
      /\ r.garbled = moves[x].garbled
  BY <1>1, <1>2 DEF Move, Kept
<1>4. MoveOn(x, "open", r) /\ file' = Overwrite(file, moves[x].at + 1, x) BY DEF WritePiece
<1> HIDE DEF r
<1>5. /\ moves' \in Seq(Move) /\ Len(moves') = Len(moves) /\ DOMAIN moves' = DOMAIN moves
      /\ moves'[x] = r /\ \A y \in DOMAIN moves : y # x => moves'[y] = moves[y]
      /\ exists' = exists /\ newest' = newest
  BY <1>1, <1>3, <1>4, MoveOnFacts
<1>6. \A y \in DOMAIN moves :
        /\ moves'[y].kind = moves[y].kind /\ moves'[y].length = moves[y].length
        /\ moves'[y].met = moves[y].met /\ moves'[y].source = moves[y].source
        /\ moves'[y].pc = moves[y].pc /\ moves'[y].code = moves[y].code
        /\ moves'[y].got = moves[y].got /\ moves'[y].told = moves[y].told
        /\ moves'[y].garbled = moves[y].garbled
  BY <1>2, <1>3, <1>5 DEF Kept
<1>7. /\ file' \in Seq(Labels)
      /\ moves[x].at = Len(file) => /\ Len(file') = moves[x].at + 1 /\ file'[Len(file) + 1] = x
                                    /\ \A j \in 1..Len(file) : file'[j] = file[j]
  <2>1. moves[x].at + 1 \in Nat \ {0} BY <1>2
  <2>2. file' \in Seq(Labels) BY <1>1, <1>4, <2>1, OverwriteType
  <2>3. moves[x].at = Len(file) => file' = Append(file, x) BY <1>1, <1>4, OverwriteAtTheEnd
  <2>4. QED BY <1>1, <2>2, <2>3
<1>8. FilesTypeOK' BY <1>1, <1>5, <1>7 DEF FilesTypeOK
<1>9. newest # Hole BY <1>1, <1>2 DEF Opened, IsOpen
<1>10. Opened' BY <1>1, <1>5, <1>6, <1>9 DEF Opened, Writes, IsOpen
<1>11. LoneWriter' BY <1>1, <1>5, <1>6 DEF Opened, LoneWriter, Writes, IsOpen
<1>12. Content'
  <2>1. CASE moves[newest].met BY <1>1, <1>5, <1>6, <2>1, <1>9 DEF Content, Opened
  <2>2. CASE ~moves[newest].met
    <3>1. x = newest BY <1>1, <1>2, <1>9, <2>2 DEF LoneWriter, IsOpen
    <3>2. Len(file) = moves[x].at /\ \A i \in 1..Len(file) : file[i] = x
      BY <1>1, <1>2, <1>9, <2>2, <3>1 DEF Content, IsOpen
    <3>3. Len(file') = r.at /\ \A i \in 1..Len(file') : file'[i] = x
      BY <1>1, <1>2, <1>3, <1>7, <3>2
    <3>4. QED BY <1>3, <1>5, <3>1, <3>3 DEF Content, IsOpen
  <2>3. QED BY <2>1, <2>2
<1>13. Undisturbed'
  <2> SUFFICES ASSUME NEW y \in DOMAIN moves, moves[y].kind = "download",
                      moves[y].pc = "open", ~moves[y].met
               PROVE  FALSE
    BY <1>5, <1>6 DEF Undisturbed, IsOpen, Reads
  <2>1. QED BY <1>1, <1>2 DEF Undisturbed, IsOpen, Reads
<1>14. Sources'
  <2> SUFFICES ASSUME NEW y \in DOMAIN moves, moves[y].kind = "download",
                      NEW w, w = moves[y].source, w # Hole
               PROVE  /\ w \in DOMAIN moves
                      /\ ~moves[y].met => moves'[w].pc # "open"
                      /\ (moves[y].pc # "open" /\ ~moves[y].met /\ moves[y].code = 0
                          /\ moves'[w].code = 0 /\ ~moves'[w].met) =>
                            moves[y].got = [i \in 1..moves'[w].length |-> w]
    BY <1>5, <1>6 DEF Sources, Reads, IsOpen, Good, Whole
  <2>1. /\ w \in DOMAIN moves /\ (~moves[y].met => moves[w].pc # "open")
        /\ (moves[y].pc # "open" /\ ~moves[y].met /\ moves[y].code = 0
            /\ moves[w].code = 0 /\ ~moves[w].met) =>
              moves[y].got = [i \in 1..moves[w].length |-> w]
    BY <1>1 DEF Sources, Reads, IsOpen, Good, Whole
  <2>2. QED BY <1>6, <2>1
<1>15. Reports' BY <1>1, <1>5, <1>6 DEF Reports
<1>16. QED BY <1>8, <1>10, <1>11, <1>12, <1>13, <1>14, <1>15 DEF FilesInv

LEMMA ReadPieceKeeps ==
  ASSUME FilesInv, NEW x \in DOMAIN moves, ReadPiece(x)
  PROVE  FilesInv'
<1> DEFINE n == Len(moves[x].got)
           r == [moves[x] EXCEPT !.got = Append(moves[x].got, file[n + 1])]
<1>1. /\ moves[x] \in Move /\ file \in Seq(Labels) /\ Reports BY DEF FilesInv, FilesTypeOK
<1>2. moves[x].got \in Seq(Labels) /\ moves[x].pc = "open" /\ ~Writes(x) /\ n < Len(file)
  BY <1>1, MoveFields DEF ReadPiece, MoveOn
<1>3. Append(moves[x].got, file[n + 1]) \in Seq(Labels)
  <2>1. file[n + 1] \in Labels BY <1>1, <1>2
  <2>2. QED BY <1>2, <2>1
<1>4. /\ r \in Move /\ Kept(moves[x], r) /\ r.pc = "open" /\ r.told = moves[x].told
      /\ r.got = Append(moves[x].got, file[n + 1]) /\ r.garbled = moves[x].garbled
  BY <1>1, <1>2, <1>3 DEF Move, Kept
<1>5. MoveOn(x, "open", r) /\ file' = file BY DEF ReadPiece
<1>6. moves[x].told # "ok" /\ ~moves[x].garbled BY <1>1, <1>2 DEF Reports
<1> HIDE DEF r
<1>7. QED BY <1>2, <1>4, <1>5, <1>6, FileStays

LEMMA ExitKeeps ==
  ASSUME FilesInv, NEW x \in DOMAIN moves, NEW code \in {0, 1}, Exit(x, code),
         code = 0 => Through(x)
  PROVE  FilesInv'
<1> DEFINE r == [moves[x] EXCEPT !.pc = "exited", !.code = code, !.at = 0]
<1>1. moves[x] \in Move /\ Reports /\ moves[x].pc = "open"
  BY DEF FilesInv, FilesTypeOK, Exit, MoveOn
<1>2. /\ r \in Move /\ Kept(moves[x], r) /\ r.pc = "exited" /\ r.code = code
      /\ r.got = moves[x].got /\ r.told = moves[x].told /\ r.garbled = moves[x].garbled
  BY <1>1 DEF Move, Kept
<1>3. MoveOn(x, "open", r) /\ file' = file BY DEF Exit
<1>4. moves[x].told # "ok" /\ ~moves[x].garbled BY <1>1 DEF Reports
<1>5. /\ Writes(x) /\ code = 0 => moves[x].at = moves[x].length
      /\ ~Writes(x) /\ code = 0 => Len(moves[x].got) >= Len(file)
  BY DEF Through
<1> HIDE DEF r
<1>6. QED BY <1>2, <1>3, <1>4, <1>5, FileStays

LEMMA AnswerKeeps ==
  ASSUME FilesInv, NEW x \in DOMAIN moves, Answer(x) \/ LoseAnswer(x)
  PROVE  FilesInv'
<1> DEFINE n == Len(moves[x].got) * PieceBytes
<1>1. moves[x] \in Move /\ Reports /\ moves[x].pc = "exited"
  BY DEF FilesInv, FilesTypeOK, Answer, LoseAnswer, MoveOn
<1>2. moves[x].got \in Seq(Labels) /\ moves[x].told # "ok" /\ ~moves[x].garbled
  BY <1>1, MoveFields DEF Reports
<1>3. n \in Nat
  <2>1. Len(moves[x].got) \in Nat /\ PieceBytes \in Nat BY <1>2, FilesAssumption
  <2>2. QED BY <2>1
<1>4. CASE Answer(x)
  <2> DEFINE ok == moves[x].code = 0 /\ (Missing(n) > 0 => Silent(n))
             g == ok /\ Silent(n)
             t == IF ok THEN "ok" ELSE "error"
             r == [moves[x] EXCEPT !.pc = "over", !.garbled = g, !.told = t]
  <2>1. MoveOn(x, "exited", r) /\ file' = file BY <1>4 DEF Answer
  <2>2. t \in {"waiting", "ok", "error"} /\ g \in BOOLEAN /\ (t = "ok" => moves[x].code = 0)
    OBVIOUS
  <2>3. g => n > SafeBytes BY <1>3, SilentIsLarge
  <2> HIDE DEF t, g
  <2>4. /\ r \in Move /\ Kept(moves[x], r) /\ r.pc = "over" /\ r.code = moves[x].code
        /\ r.got = moves[x].got /\ r.told = t /\ r.garbled = g
    BY <1>1, <2>2 DEF Move, Kept
  <2> HIDE DEF r
  <2>5. QED BY <1>1, <2>1, <2>2, <2>3, <2>4, FileStays
<1>5. CASE LoseAnswer(x)
  <2> DEFINE r == [moves[x] EXCEPT !.pc = "over", !.told = "error"]
  <2>1. MoveOn(x, "exited", r) /\ file' = file BY <1>5 DEF LoseAnswer
  <2>2. /\ r \in Move /\ Kept(moves[x], r) /\ r.pc = "over" /\ r.code = moves[x].code
        /\ r.got = moves[x].got /\ r.told = "error" /\ r.garbled = moves[x].garbled
    BY <1>1 DEF Move, Kept
  <2> HIDE DEF r
  <2>3. QED BY <1>1, <1>2, <2>1, <2>2, FileStays
<1>6. QED BY <1>4, <1>5

-----------------------------------------------------------------------------
\* A new transfer.

Fresh == Len(moves) + 1

LEMMA BeginFacts ==
  ASSUME FilesTypeOK, NEW kind \in Kinds, NEW length \in Nat, NEW pc \in {"open", "exited"},
         NEW code \in {0, 1}, Begin(kind, length, pc, code)
  PROVE  /\ Fresh \in Nat /\ Fresh \in Labels /\ Fresh # Hole /\ Fresh \notin DOMAIN moves
         /\ moves' \in Seq(Move) /\ Len(moves') = Fresh /\ Fresh <= MaxMoves
         /\ DOMAIN moves' = DOMAIN moves \cup {Fresh}
         /\ moves'[Fresh].pc = pc /\ moves'[Fresh].kind = kind /\ moves'[Fresh].length = length
         /\ moves'[Fresh].at = 0 /\ moves'[Fresh].got = << >> /\ moves'[Fresh].code = code
         /\ moves'[Fresh].told = "waiting" /\ ~moves'[Fresh].garbled
         /\ moves'[Fresh].met <=> \E y \in DOMAIN moves : moves[y].pc = "open" /\ Writes(y)
         /\ kind = "download" => moves'[Fresh].source = newest
         /\ kind # "download" => moves'[Fresh].source = Hole
         /\ \A y \in DOMAIN moves :
              /\ moves'[y].pc = moves[y].pc /\ moves'[y].kind = moves[y].kind
              /\ moves'[y].length = moves[y].length /\ moves'[y].at = moves[y].at
              /\ moves'[y].got = moves[y].got /\ moves'[y].code = moves[y].code
              /\ moves'[y].told = moves[y].told /\ moves'[y].garbled = moves[y].garbled
              /\ moves'[y].source = moves[y].source
              /\ moves'[y].met <=>
                   (moves[y].met \/ (pc = "open" /\ kind # "download" /\ moves[y].pc = "open"))
<1> DEFINE writes == kind # "download"
           met0 == \E y \in DOMAIN moves : moves[y].pc = "open" /\ Writes(y)
           source == IF writes THEN Hole ELSE newest
           new == [pc |-> pc, kind |-> kind, length |-> length, at |-> 0, got |-> << >>,
                   code |-> code, told |-> "waiting", garbled |-> FALSE, met |-> met0,
                   source |-> source]
           met(y) == moves[y].met \/ (pc = "open" /\ writes /\ moves[y].pc = "open")
           old == [y \in DOMAIN moves |-> [moves[y] EXCEPT !.met = met(y)]]
<1>1. /\ moves \in Seq(Move) /\ Len(moves) \in Nat /\ Len(moves) < MaxMoves
      /\ moves' = Append(old, new)
  BY DEF FilesTypeOK, Begin
<1>2. /\ Fresh \in Nat /\ Fresh \in Labels /\ Fresh # Hole /\ Fresh \notin DOMAIN moves
      /\ Fresh <= MaxMoves
      /\ DOMAIN moves = 1..Len(moves)
  BY <1>1, FilesAssumption DEF Fresh, Labels, Hole
<1>3. source \in Labels /\ met0 \in BOOLEAN
  BY <1>2, FilesAssumption DEF FilesTypeOK, Labels, Hole
<1>4. new \in Move
  <2> HIDE DEF met0, source
  <2>1. << >> \in Seq(Labels) OBVIOUS
  <2>2. QED BY <1>3, <2>1 DEF Move
<1>5. ASSUME NEW y \in DOMAIN moves
      PROVE  LET m == [moves[y] EXCEPT !.met = met(y)]
             IN  /\ m \in Move /\ m.pc = moves[y].pc /\ m.kind = moves[y].kind
                 /\ m.length = moves[y].length /\ m.at = moves[y].at
                 /\ m.got = moves[y].got /\ m.code = moves[y].code
                 /\ m.told = moves[y].told /\ m.garbled = moves[y].garbled
                 /\ m.source = moves[y].source /\ m.met = met(y)
  <2>1. moves[y] \in Move BY <1>1
  <2>2. met(y) \in BOOLEAN BY <2>1, MoveFields
  <2> HIDE DEF met
  <2>3. QED BY <2>1, <2>2 DEF Move
<1>6. old \in Seq(Move) /\ Len(old) = Len(moves) BY <1>1, <1>2, <1>5
<1>7. /\ new.pc = pc /\ new.kind = kind /\ new.length = length /\ new.at = 0 /\ new.got = << >>
      /\ new.code = code /\ new.told = "waiting" /\ ~new.garbled /\ new.met = met0
      /\ new.source = source
  OBVIOUS
<1>8. \A y \in DOMAIN moves : old[y] = [moves[y] EXCEPT !.met = met(y)] OBVIOUS
<1> HIDE DEF new, old
<1>9. /\ moves' \in Seq(Move) /\ Len(moves') = Fresh /\ moves'[Fresh] = new
      /\ \A y \in DOMAIN moves : moves'[y] = old[y]
      /\ DOMAIN moves' = DOMAIN moves \cup {Fresh}
  BY <1>1, <1>2, <1>4, <1>6 DEF Fresh
<1>10. ASSUME NEW y \in DOMAIN moves
       PROVE  /\ moves'[y].pc = moves[y].pc /\ moves'[y].kind = moves[y].kind
              /\ moves'[y].length = moves[y].length /\ moves'[y].at = moves[y].at
              /\ moves'[y].got = moves[y].got /\ moves'[y].code = moves[y].code
              /\ moves'[y].told = moves[y].told /\ moves'[y].garbled = moves[y].garbled
              /\ moves'[y].source = moves[y].source /\ moves'[y].met = met(y)
  <2>1. moves'[y] = [moves[y] EXCEPT !.met = met(y)] BY <1>8, <1>9
  <2> HIDE DEF met
  <2>2. QED BY <1>5, <2>1
<1>11. QED BY <1>2, <1>7, <1>9, <1>10

\* A transfer that only appears, and one that opens the file to read.
LEMMA ReaderBegins ==
  ASSUME FilesInv, NEW kind \in Kinds,
         \/ FailToOpen(kind)
         \/ OpenToRead /\ kind = "download"
  PROVE  FilesInv'
<1>1. /\ FilesTypeOK /\ Opened /\ LoneWriter /\ Content /\ Undisturbed /\ Sources /\ Reports
      /\ exists \in BOOLEAN /\ file \in Seq(Labels) /\ newest \in Labels /\ moves \in Seq(Move)
  BY DEF FilesInv, FilesTypeOK
<1>2. PICK length \in Nat, pc \in {"open", "exited"}, code \in {0, 1} :
        /\ Begin(kind, length, pc, code) /\ file' = file /\ newest' = newest /\ exists' = exists
        /\ pc = "open" => kind = "download"
        /\ pc = "exited" => code = 1
  BY DEF FailToOpen, OpenToRead
<1>3. /\ Fresh \in Nat /\ Fresh # Hole /\ Fresh \notin DOMAIN moves
      /\ moves' \in Seq(Move) /\ Len(moves') = Fresh
      /\ Fresh <= MaxMoves /\ DOMAIN moves' = DOMAIN moves \cup {Fresh}
      /\ moves'[Fresh].pc = pc /\ moves'[Fresh].kind = kind /\ moves'[Fresh].code = code
      /\ moves'[Fresh].got = << >> /\ moves'[Fresh].told = "waiting" /\ ~moves'[Fresh].garbled
      /\ moves'[Fresh].met <=> \E y \in DOMAIN moves : moves[y].pc = "open" /\ Writes(y)
      /\ kind = "download" => moves'[Fresh].source = newest
  <2>1. Begin(kind, length, pc, code) BY <1>2
  <2>2. /\ Fresh \in Nat /\ Fresh # Hole /\ Fresh \notin DOMAIN moves
        /\ moves' \in Seq(Move) /\ Len(moves') = Fresh
        /\ Fresh <= MaxMoves /\ DOMAIN moves' = DOMAIN moves \cup {Fresh}
    BY <1>1, <2>1, BeginFacts
  <2>3. /\ moves'[Fresh].pc = pc /\ moves'[Fresh].kind = kind /\ moves'[Fresh].code = code
        /\ moves'[Fresh].got = << >> /\ moves'[Fresh].told = "waiting" /\ ~moves'[Fresh].garbled
    BY <1>1, <2>1, BeginFacts
  <2>4. /\ moves'[Fresh].met <=> \E y \in DOMAIN moves : moves[y].pc = "open" /\ Writes(y)
        /\ kind = "download" => moves'[Fresh].source = newest
    BY <1>1, <2>1, BeginFacts
  <2>5. QED BY <2>2, <2>3, <2>4
<1>4. \A y \in DOMAIN moves :
        /\ moves'[y].pc = moves[y].pc /\ moves'[y].kind = moves[y].kind
        /\ moves'[y].length = moves[y].length /\ moves'[y].at = moves[y].at
        /\ moves'[y].got = moves[y].got /\ moves'[y].code = moves[y].code
        /\ moves'[y].told = moves[y].told /\ moves'[y].garbled = moves[y].garbled
        /\ moves'[y].source = moves[y].source
        /\ moves'[y].met <=> (moves[y].met \/ (pc = "open" /\ kind # "download" /\ moves[y].pc = "open"))
  BY <1>1, <1>2, BeginFacts
<1>5. \A y \in DOMAIN moves : moves'[y].met <=> moves[y].met
  <2>1. ASSUME NEW y \in DOMAIN moves PROVE moves[y].met \in BOOLEAN BY <1>1, MoveFields
  <2>2. QED BY <1>2, <1>4, <2>1
<1>6. pc = "open" => kind = "download" BY <1>2
<1>7. FilesTypeOK' BY <1>1, <1>2, <1>3 DEF FilesTypeOK
<1>8. Opened' BY <1>1, <1>2, <1>3, <1>4, <1>6 DEF Opened, Writes, IsOpen
<1>9. LoneWriter' BY <1>1, <1>2, <1>3, <1>4, <1>5, <1>6 DEF Opened, LoneWriter, Writes, IsOpen
<1>10. Content' BY <1>1, <1>2, <1>4, <1>5 DEF Content, IsOpen, Opened
<1>11. Undisturbed'
  <2> SUFFICES ASSUME NEW y \in DOMAIN moves', moves'[y].kind = "download",
                      moves'[y].pc = "open", ~moves'[y].met
               PROVE  /\ newest = moves'[y].source
                      /\ \A z \in DOMAIN moves' :
                           moves'[z].pc = "open" => moves'[z].kind \notin {"upload", "command"}
                      /\ Len(moves'[y].got) <= Len(file)
                      /\ \A i \in 1..Len(moves'[y].got) : moves'[y].got[i] = file[i]
    BY <1>2 DEF Undisturbed, IsOpen, Reads, Writes
  <2>1. \A z \in DOMAIN moves : moves[z].pc = "open" => ~Writes(z)
    <3>1. CASE y = Fresh BY <1>3, <3>1
    <3>2. CASE y # Fresh BY <1>1, <1>3, <1>4, <1>5, <3>2 DEF Undisturbed, IsOpen, Reads
    <3>3. QED BY <3>1, <3>2
  <2>2. \A z \in DOMAIN moves' :
          moves'[z].pc = "open" => moves'[z].kind \notin {"upload", "command"}
    BY <1>3, <1>4, <1>6, <2>1 DEF Writes
  <2>3. CASE y = Fresh
    <3>1. Len(<< >>) = 0 /\ Len(file) \in Nat /\ 1..0 = {} BY <1>1
    <3>2. QED BY <1>3, <2>2, <2>3, <3>1
  <2>4. CASE y # Fresh
    BY <1>1, <1>3, <1>4, <1>5, <2>2, <2>4 DEF Undisturbed, IsOpen, Reads
  <2>5. QED BY <2>3, <2>4
<1>12. Sources'
  <2> SUFFICES ASSUME NEW y \in DOMAIN moves', moves'[y].kind = "download",
                      NEW w, w = moves'[y].source, w # Hole
               PROVE  /\ w \in DOMAIN moves'
                      /\ ~moves'[y].met => moves'[w].pc # "open"
                      /\ (moves'[y].pc # "open" /\ ~moves'[y].met /\ moves'[y].code = 0
                          /\ moves'[w].code = 0 /\ ~moves'[w].met) =>
                            moves'[y].got = [i \in 1..moves'[w].length |-> w]
    BY DEF Sources, Reads, IsOpen, Good, Whole
  <2>1. CASE y = Fresh
    <3>1. w = newest BY <1>3, <2>1
    <3>2. w \in DOMAIN moves /\ Writes(w) BY <1>1, <3>1 DEF Opened
    <3>3. ~moves'[y].met => moves[w].pc # "open" BY <1>3, <2>1, <3>2
    <3>4. moves'[y].pc # "open" => moves'[y].code # 0 BY <1>2, <1>3, <2>1
    <3>5. QED BY <1>3, <1>4, <3>2, <3>3, <3>4
  <2>2. CASE y # Fresh
    <3>1. y \in DOMAIN moves /\ w = moves[y].source BY <1>3, <1>4, <2>2
    <3>2. /\ w \in DOMAIN moves /\ (~moves[y].met => moves[w].pc # "open")
          /\ (moves[y].pc # "open" /\ ~moves[y].met /\ moves[y].code = 0
              /\ moves[w].code = 0 /\ ~moves[w].met) =>
                moves[y].got = [i \in 1..moves[w].length |-> w]
      BY <1>1, <1>4, <3>1 DEF Sources, Reads, IsOpen, Good, Whole
    <3>3. QED BY <1>3, <1>4, <1>5, <3>1, <3>2
  <2>3. QED BY <2>1, <2>2
<1>13. Reports' BY <1>1, <1>3, <1>4 DEF Reports
<1>14. QED BY <1>7, <1>8, <1>9, <1>10, <1>11, <1>12, <1>13 DEF FilesInv

LEMMA WriterBegins ==
  ASSUME FilesInv, NEW kind \in Kinds, NEW length \in Lengths, OpenToWrite(kind, length)
  PROVE  FilesInv'
<1>1. /\ FilesTypeOK /\ Opened /\ LoneWriter /\ Content /\ Undisturbed /\ Sources /\ Reports
      /\ moves \in Seq(Move) /\ length \in Nat
  BY FilesAssumption DEF FilesInv, FilesTypeOK
<1>2. /\ Begin(kind, length, "open", 0) /\ kind # "download" /\ exists' = TRUE
      /\ file' = << >> /\ newest' = Fresh
  BY DEF OpenToWrite, Fresh
<1>3. /\ Fresh \in Nat /\ Fresh \in Labels /\ Fresh # Hole /\ Fresh \notin DOMAIN moves
      /\ moves' \in Seq(Move) /\ Len(moves') = Fresh /\ Fresh <= MaxMoves
      /\ DOMAIN moves' = DOMAIN moves \cup {Fresh}
      /\ moves'[Fresh].pc = "open" /\ moves'[Fresh].kind = kind /\ moves'[Fresh].at = 0
      /\ moves'[Fresh].told = "waiting" /\ ~moves'[Fresh].garbled
      /\ moves'[Fresh].met <=> \E y \in DOMAIN moves : moves[y].pc = "open" /\ Writes(y)
  BY <1>1, <1>2, BeginFacts
<1>4. \A y \in DOMAIN moves :
        /\ moves'[y].pc = moves[y].pc /\ moves'[y].kind = moves[y].kind
        /\ moves'[y].length = moves[y].length /\ moves'[y].at = moves[y].at
        /\ moves'[y].got = moves[y].got /\ moves'[y].code = moves[y].code
        /\ moves'[y].told = moves[y].told /\ moves'[y].garbled = moves[y].garbled
        /\ moves'[y].source = moves[y].source
        /\ moves'[y].met <=> (moves[y].met \/ moves[y].pc = "open")
  BY <1>1, <1>2, BeginFacts
<1>5. kind \in {"upload", "command"} BY <1>2 DEF Kinds
<1>6. FilesTypeOK'
  <2>1. << >> \in Seq(Labels) OBVIOUS
  <2>2. QED BY <1>2, <1>3, <2>1 DEF FilesTypeOK
<1>7. Opened' BY <1>2, <1>3, <1>5 DEF Opened, Writes
<1>8. LoneWriter' BY <1>2, <1>3, <1>4 DEF LoneWriter, Writes, IsOpen
<1>9. Content'
  <2>1. Len(<< >>) = 0 /\ 1..0 = {} OBVIOUS
  <2>2. QED BY <1>2, <1>3, <2>1 DEF Content, IsOpen
<1>10. Undisturbed' BY <1>3, <1>4, <1>5 DEF Undisturbed, Reads, IsOpen
<1>11. Sources'
  <2> SUFFICES ASSUME NEW y \in DOMAIN moves', moves'[y].kind = "download",
                      NEW w, w = moves'[y].source, w # Hole
               PROVE  /\ w \in DOMAIN moves'
                      /\ ~moves'[y].met => moves'[w].pc # "open"
                      /\ (moves'[y].pc # "open" /\ ~moves'[y].met /\ moves'[y].code = 0
                          /\ moves'[w].code = 0 /\ ~moves'[w].met) =>
                            moves'[y].got = [i \in 1..moves'[w].length |-> w]
    BY DEF Sources, Reads, IsOpen, Good, Whole
  <2>1. y \in DOMAIN moves /\ w = moves[y].source BY <1>2, <1>3, <1>4
  <2>2. /\ w \in DOMAIN moves /\ (~moves[y].met => moves[w].pc # "open")
        /\ (moves[y].pc # "open" /\ ~moves[y].met /\ moves[y].code = 0
            /\ moves[w].code = 0 /\ ~moves[w].met) =>
              moves[y].got = [i \in 1..moves[w].length |-> w]
    BY <1>1, <1>4, <2>1 DEF Sources, Reads, IsOpen, Good, Whole
  <2>3. QED BY <1>3, <1>4, <2>1, <2>2
<1>12. Reports' BY <1>1, <1>3, <1>4 DEF Reports
<1>13. QED BY <1>6, <1>7, <1>8, <1>9, <1>10, <1>11, <1>12 DEF FilesInv

-----------------------------------------------------------------------------
\* The theorems.

(***************************************************************************)
(* The inductive invariant: what the file holds, as long as the writer     *)
(* that truncated it last met no other.                                    *)
(***************************************************************************)
THEOREM FilesInvariance == FilesSpec => []FilesInv
<1>1. FilesInit => FilesInv
  <2> SUFFICES ASSUME FilesInit PROVE FilesInv OBVIOUS
  <2>1. Hole \in Labels /\ << >> \in Seq(Labels) /\ << >> \in Seq(Move) /\ Len(<< >>) = 0
    BY FilesAssumption DEF Hole, Labels
  <2>2. Len(moves) <= MaxMoves BY <2>1, FilesAssumption DEF FilesInit
  <2>3. FilesTypeOK BY <2>1, <2>2 DEF FilesInit, FilesTypeOK
  <2>4. DOMAIN moves = {} BY DEF FilesInit
  <2>5. QED BY <2>3, <2>4 DEF FilesInit, FilesInv, Opened, LoneWriter, Content, Undisturbed, Sources, Reports
<1>2. FilesInv /\ [FilesNext]_filesVars => FilesInv'
  <2> SUFFICES ASSUME FilesInv, [FilesNext]_filesVars PROVE FilesInv' OBVIOUS
  <2>1. CASE \E kind \in Kinds : FailToOpen(kind) BY <2>1, ReaderBegins
  <2>2. CASE \E kind \in Kinds : \E n \in Lengths : OpenToWrite(kind, n) BY <2>2, WriterBegins
  <2>3. CASE OpenToRead
    <3>1. "download" \in Kinds BY DEF Kinds
    <3>2. QED BY <2>3, <3>1, ReaderBegins
  <2>4. CASE \E x \in DOMAIN moves : MoveStep(x)
    <3>1. PICK x \in DOMAIN moves : MoveStep(x) BY <2>4
    <3>2. CASE Finish(x) BY <3>2, ExitKeeps DEF Finish
    <3>3. CASE BreakOff(x) BY <3>3, ExitKeeps DEF BreakOff
    <3>4. QED BY <3>1, <3>2, <3>3, WritePieceKeeps, ReadPieceKeeps, AnswerKeeps DEF MoveStep
  <2>5. CASE UNCHANGED filesVars
    BY <2>5 DEF filesVars, FilesInv, FilesTypeOK, Opened, LoneWriter, Content, Undisturbed, Sources,
                Reports, Writes, Reads, IsOpen, Good, Whole
  <2>6. QED BY <2>1, <2>2, <2>3, <2>4, <2>5 DEF FilesNext, FilesRest
<1>3. QED BY <1>1, <1>2, PTL DEF FilesSpec

(***************************************************************************)
(* An upload reported as done is there (UploadedIsThere), for any files,   *)
(* transfers and cut-off clients.                                          *)
(***************************************************************************)
THEOREM UploadedIsThereCorrect == FilesSpec => []UploadedIsThere
<1>1. FilesInv => UploadedIsThere
  <2> SUFFICES ASSUME FilesInv, NEW x \in DOMAIN moves, moves[x].told = "ok",
                      ~moves[x].met, newest = x
               PROVE  file = Whole(x)
    BY DEF UploadedIsThere
  <2>1. newest # Hole /\ ~IsOpen(x) /\ moves[x].code = 0
    BY DEF FilesInv, Reports, IsOpen, FilesTypeOK, Hole
  <2>2. Len(file) = moves[x].length /\ \A i \in 1..Len(file) : file[i] = x
    BY <2>1 DEF FilesInv, Content
  <2>3. file \in Seq(Labels) BY DEF FilesInv, FilesTypeOK
  <2>4. QED BY <2>2, <2>3 DEF Whole
<1>2. QED BY <1>1, FilesInvariance, PTL

(***************************************************************************)
(* A download that reports content got what the last writer wrote, and     *)
(* decodes the server's notice for data only over 44,415 bytes (RoundTrip).*)
(***************************************************************************)
THEOREM RoundTripCorrect == FilesSpec => []RoundTrip
<1>1. FilesInv => RoundTrip
  <2> SUFFICES ASSUME FilesInv, NEW x \in DOMAIN moves, moves[x].kind = "download",
                      moves[x].told = "ok", NEW w, w = moves[x].source
               PROVE  /\ (w # Hole /\ moves[w].pc \in {"exited", "over"} /\ moves[w].code = 0
                          /\ ~moves[x].met /\ ~moves[w].met) => moves[x].got = Whole(w)
                      /\ moves[x].garbled => Len(moves[x].got) * PieceBytes > SafeBytes
    BY DEF RoundTrip
  <2>1. moves[x].pc = "over" /\ moves[x].code = 0 BY DEF FilesInv, Reports
  <2>2. QED BY <2>1 DEF FilesInv, Sources, Reports, Reads, IsOpen, Good
<1>2. QED BY <1>1, FilesInvariance, PTL

(***************************************************************************)
(* A file is of one writer, unless two had it open at the same time        *)
(* (TornNeedsOverlap).                                                     *)
(***************************************************************************)
THEOREM TornNeedsOverlapCorrect == FilesSpec => []TornNeedsOverlap
<1>1. FilesInv => TornNeedsOverlap
  BY DEF FilesInv, Opened, Content, TornNeedsOverlap
<1>2. QED BY <1>1, FilesInvariance, PTL

-----------------------------------------------------------------------------

(***************************************************************************)
(* Skills.  An install is a record too.  What it has done with a folder    *)
(* only grows, so that what stands behind a playbook when it is stored     *)
(* stands for ever.                                                        *)
(***************************************************************************)

-----------------------------------------------------------------------------
\* Paths and their order.

BeforeIn == {pair \in Paths \X Paths : Before(pair[1], pair[2])}

LEMMA PathFacts ==
  ASSUME NEW p \in Paths
  PROVE  p \in Seq(Names) /\ Len(p) \in Nat /\ \A n \in 1..Len(p) : p[n] \in Names /\ p[n] \in Nat
<1>1. Names \subseteq Nat BY TreesAssumption
<1>2. p \in Seq(Names) BY DEF Paths
<1>3. Len(p) \in Nat /\ \A n \in 1..Len(p) : p[n] \in Names BY <1>2
<1>4. QED BY <1>1, <1>2, <1>3

LEMMA BeforeIrreflexive ==
  ASSUME NEW p \in Paths
  PROVE  ~Before(p, p)
  BY PathFacts DEF Before

LEMMA BeforeTransitive ==
  ASSUME NEW p \in Paths, NEW q \in Paths, NEW r \in Paths, Before(p, q), Before(q, r)
  PROVE  Before(p, r)
<1>1. PICK m \in 0..Len(p) : /\ m < Len(q) /\ \A k \in 1..m : p[k] = q[k]
                             /\ m = Len(p) \/ p[m + 1] < q[m + 1]
  BY DEF Before
<1>2. PICK n \in 0..Len(q) : /\ n < Len(r) /\ \A k \in 1..n : q[k] = r[k]
                             /\ n = Len(q) \/ q[n + 1] < r[n + 1]
  BY DEF Before
<1>3. /\ Len(p) \in Nat /\ Len(q) \in Nat /\ Len(r) \in Nat /\ m \in Nat /\ n \in Nat
      /\ \A k \in 1..Len(p) : p[k] \in Nat
      /\ \A k \in 1..Len(q) : q[k] \in Nat
      /\ \A k \in 1..Len(r) : r[k] \in Nat
  BY PathFacts
<1>4. CASE m < n
  <2>1. m < Len(r) /\ q[m + 1] = r[m + 1] /\ \A k \in 1..m : p[k] = r[k] BY <1>1, <1>2, <1>3, <1>4
  <2>2. QED BY <1>1, <2>1 DEF Before
<1>5. CASE n < m
  <2>1. p[n + 1] = q[n + 1] /\ \A k \in 1..n : p[k] = r[k] BY <1>1, <1>2, <1>3, <1>5
  <2>2. n \in 0..Len(p) /\ q[n + 1] < r[n + 1] BY <1>1, <1>2, <1>3, <1>5
  <2>3. QED BY <1>2, <2>1, <2>2 DEF Before
<1>6. CASE n = m
  <2>1. \A k \in 1..m : p[k] = r[k] BY <1>1, <1>2, <1>3, <1>6
  <2>2. q[m + 1] < r[m + 1] BY <1>1, <1>2, <1>3, <1>6
  <2>3. m = Len(p) \/ p[m + 1] < r[m + 1]
    <3>1. CASE m = Len(p) BY <3>1
    <3>2. CASE m # Len(p)
      <4>1. m + 1 \in 1..Len(p) /\ m + 1 \in 1..Len(q) /\ m + 1 \in 1..Len(r)
        BY <1>1, <1>2, <1>3, <1>6, <3>2
      <4>2. QED BY <1>1, <1>3, <2>2, <3>2, <4>1
    <3>3. QED BY <3>1, <3>2
  <2>4. QED BY <1>2, <1>6, <2>1, <2>3 DEF Before
<1>7. QED BY <1>3, <1>4, <1>5, <1>6

LEMMA BeforeTotal ==
  ASSUME NEW p \in Paths, NEW q \in Paths
  PROVE  p = q \/ Before(p, q) \/ Before(q, p)
<1>1. /\ Len(p) \in Nat /\ Len(q) \in Nat
      /\ \A k \in 1..Len(p) : p[k] \in Nat
      /\ \A k \in 1..Len(q) : q[k] \in Nat
      /\ p \in Seq(Names) /\ q \in Seq(Names)
  BY PathFacts
<1> DEFINE D == {n \in Nat : n < Len(p) /\ n < Len(q) /\ p[n + 1] # q[n + 1]}
<1>2. CASE D = {}
  <2>1. \A k \in 1..Len(p) : k <= Len(q) => p[k] = q[k]
    <3> SUFFICES ASSUME NEW k \in 1..Len(p), k <= Len(q) PROVE p[k] = q[k] OBVIOUS
    <3>1. k - 1 \in Nat /\ k - 1 < Len(p) /\ k - 1 < Len(q) BY <1>1
    <3>2. k - 1 \notin D BY <1>2
    <3>3. (k - 1) + 1 = k BY <1>1
    <3>4. QED BY <3>1, <3>2, <3>3
  <2>2. CASE Len(p) = Len(q) BY <1>1, <2>1, <2>2
  <2>3. CASE Len(p) < Len(q)
    <3>1. Len(p) \in 0..Len(p) /\ \A k \in 1..Len(p) : p[k] = q[k] BY <1>1, <2>1, <2>3
    <3>2. QED BY <2>3, <3>1 DEF Before
  <2>4. CASE Len(q) < Len(p)
    <3>1. Len(q) \in 0..Len(q) /\ \A k \in 1..Len(q) : p[k] = q[k] BY <1>1, <2>1, <2>4
    <3>2. QED BY <2>4, <3>1 DEF Before
  <2>5. QED BY <1>1, <2>2, <2>3, <2>4
<1>3. CASE D # {}
  <2>1. PICK n \in D : \A m \in D : n <= m
    <3>1. D \in SUBSET Nat OBVIOUS
    <3> HIDE DEF D
    <3>2. QED BY <1>3, <3>1, LeastNumber
  <2>2. ASSUME NEW k \in 1..n PROVE p[k] = q[k]
    <3>1. k - 1 \in Nat /\ k - 1 < n /\ k - 1 < Len(p) /\ k - 1 < Len(q) BY <1>1, <2>1
    <3>2. k - 1 \notin D BY <2>1, <3>1
    <3>3. (k - 1) + 1 = k OBVIOUS
    <3>4. QED BY <3>1, <3>2, <3>3
  <2>3. n \in 0..Len(p) /\ n \in 0..Len(q) /\ n < Len(p) /\ n < Len(q) BY <1>1, <2>1
  <2>4. p[n + 1] \in Nat /\ q[n + 1] \in Nat /\ p[n + 1] # q[n + 1] BY <1>1, <2>1, <2>3
  <2>5. CASE p[n + 1] < q[n + 1] BY <2>2, <2>3, <2>5 DEF Before
  <2>6. CASE q[n + 1] < p[n + 1] BY <2>2, <2>3, <2>6 DEF Before
  <2>7. QED BY <2>4, <2>5, <2>6
<1>4. QED BY <1>2, <1>3

LEMMA BeforeOrders ==
  ASSUME NEW S \in SUBSET Paths
  PROVE  Orders(BeforeIn, S)
<1>1. \A x, y \in S : <<x, y>> \in BeforeIn <=> Before(x, y) BY DEF BeforeIn
<1>2. \A x, y, z \in S : Before(x, y) /\ Before(y, z) => Before(x, z) BY BeforeTransitive
<1>3. \A x, y \in S : x = y \/ Before(x, y) \/ Before(y, x) BY BeforeTotal
<1>4. \A x \in S : ~Before(x, x) BY BeforeIrreflexive
<1>5. QED BY <1>1, <1>2, <1>3, <1>4 DEF Orders

(***************************************************************************)
(* InOrder is the sequence of a set's members, each once, in their order.  *)
(***************************************************************************)
LEMMA InOrderFacts ==
  ASSUME NEW S \in SUBSET Paths, IsFiniteSet(S)
  PROVE  /\ InOrder(S) \in Seq(S) /\ Len(InOrder(S)) = Cardinality(S)
         /\ \A p \in S : \E n \in 1..Len(InOrder(S)) : InOrder(S)[n] = p
         /\ \A m, n \in 1..Len(InOrder(S)) : m < n => Before(InOrder(S)[m], InOrder(S)[n])
<1> DEFINE N == Cardinality(S)
           s == InOrder(S)
           R(p) == Cardinality({q \in S : Before(q, p)})
<1>1. Orders(BeforeIn, S) BY BeforeOrders
<1>2. N \in Nat BY FS_CardinalityType
<1>3. \A p \in S : RankIn(BeforeIn, S, p) = R(p)
  <2>1. \A p \in S : {q \in S : <<q, p>> \in BeforeIn} = {q \in S : Before(q, p)} BY DEF BeforeIn
  <2>2. QED BY <2>1 DEF RankIn
<1>4. /\ \A p \in S : R(p) \in 0..(N - 1)
      /\ \A p, q \in S : Before(p, q) <=> R(p) < R(q)
      /\ \A m \in 0..(N - 1) : \E p \in S : R(p) = m
  <2>1. \A p, q \in S : <<p, q>> \in BeforeIn <=> Before(p, q) BY DEF BeforeIn
  <2>2. /\ \A p \in S : RankIn(BeforeIn, S, p) \in 0..(N - 1)
        /\ \A p, q \in S : <<p, q>> \in BeforeIn <=> RankIn(BeforeIn, S, p) < RankIn(BeforeIn, S, q)
        /\ \A m \in 0..(N - 1) : \E p \in S : RankIn(BeforeIn, S, p) = m
    BY <1>1, Ranks
  <2> HIDE DEF R, N
  <2>3. QED BY <1>3, <2>1, <2>2
<1>5. s = [n \in 1..N |-> CHOOSE p \in S : R(p) = n - 1] BY DEF InOrder
<1> HIDE DEF s, R
<1>6. ASSUME NEW n \in 1..N PROVE s[n] \in S /\ R(s[n]) = n - 1
  <2>1. n - 1 \in 0..(N - 1) BY <1>2
  <2>2. \E p \in S : R(p) = n - 1 BY <1>4, <2>1
  <2>3. QED BY <1>5, <2>2
<1>7. s \in Seq(S) /\ Len(s) = N
  <2>1. s = [n \in 1..N |-> s[n]] BY <1>5
  <2>2. QED BY <1>2, <1>5, <1>6, <2>1
<1>8. ASSUME NEW p \in S PROVE \E n \in 1..N : s[n] = p
  <2>1. R(p) + 1 \in 1..N BY <1>2, <1>4
  <2>2. PICK n \in 1..N : n = R(p) + 1 BY <2>1
  <2>3. R(p) \in Nat BY <1>4
  <2>4. s[n] \in S /\ R(s[n]) = R(p) BY <1>6, <2>2, <2>3
  <2>5. ~Before(s[n], p) /\ ~Before(p, s[n]) BY <1>4, <2>3, <2>4
  <2>6. s[n] = p BY <2>4, <2>5, BeforeTotal
  <2>7. QED BY <2>6
<1>9. ASSUME NEW m \in 1..N, NEW n \in 1..N, m < n PROVE Before(s[m], s[n])
  BY <1>2, <1>4, <1>6, <1>9
<1>10. QED BY <1>7, <1>8, <1>9 DEF s

-----------------------------------------------------------------------------
\* What an install finds.

LEMMA FirstFacts ==
  ASSUME NEW X, NEW s \in Seq(X), NEW n \in Nat
  PROVE  /\ First(n, s) \in Seq(X) /\ Len(First(n, s)) <= n /\ Len(First(n, s)) <= Len(s)
         /\ \A i \in 1..Len(First(n, s)) : First(n, s)[i] = s[i]
<1> DEFINE m == IF n < Len(s) THEN n ELSE Len(s)
<1>1. m \in 0..Len(s) /\ m <= n OBVIOUS
<1>2. First(n, s) = SubSeq(s, 1, m) BY DEF First
<1> HIDE DEF m
<1>3. QED BY <1>1, <1>2

LEMMA FrontLast ==
  ASSUME NEW p \in Paths, p # <<>>
  PROVE  /\ Front(p) \in Paths /\ Last(p) \in Names /\ p = Append(Front(p), Last(p))
<1>1. p \in Seq(Names) /\ Len(p) \in Nat \ {0} BY DEF Paths
<1>2. Front(p) \in Seq(Names) /\ Len(Front(p)) = Len(p) - 1
      /\ \A i \in 1..(Len(p) - 1) : Front(p)[i] = p[i]
  <2>1. Front(p) = SubSeq(p, 1, Len(p) - 1) BY DEF Front
  <2>2. PICK n \in Nat : n = Len(p) - 1 BY <1>1
  <2>3. \A i \in 1..n : p[i] \in Names BY <1>1, <2>2
  <2>4. /\ SubSeq(p, 1, n) \in Seq(Names) /\ Len(SubSeq(p, 1, n)) = n
        /\ \A i \in 1..n : SubSeq(p, 1, n)[i] = p[i]
    BY <1>1, <2>2, <2>3
  <2>5. QED BY <2>1, <2>2, <2>4
<1>3. Last(p) \in Names /\ Last(p) = p[Len(p)] BY <1>1 DEF Last
<1>4. p = Append(Front(p), Last(p))
  <2> DEFINE q == Append(Front(p), Last(p))
  <2>1. q \in Seq(Names) /\ Len(q) = Len(p) /\ \A i \in 1..Len(p) : q[i] = p[i]
    BY <1>1, <1>2, <1>3
  <2> HIDE DEF q
  <2>2. q = p BY <1>1, <2>1, SeqEqual
  <2>3. QED BY <2>2 DEF q
<1>5. QED BY <1>2, <1>3, <1>4 DEF Paths

\* The files of a folder, by their paths in it.
Under(tree, d) == {SubSeq(p, Len(d) + 1, Len(p)) : p \in {q \in tree : IsStrictPrefix(d, q)}}

LEMMA UnderFacts ==
  ASSUME NEW tree, tree \subseteq Paths \ {<<>>}, IsFiniteSet(tree), NEW d \in Paths
  PROVE  /\ Under(tree, d) \in SUBSET Paths /\ IsFiniteSet(Under(tree, d))
         /\ \A u \in Under(tree, d) : u # <<>> /\ d \o u \in tree
         /\ Append(d, SkillMd) \in tree => <<SkillMd>> \in Under(tree, d)
<1> DEFINE T == {q \in tree : IsStrictPrefix(d, q)}
           f == [p \in T |-> SubSeq(p, Len(d) + 1, Len(p))]
<1>1. d \in Seq(Names) /\ Len(d) \in Nat BY PathFacts
<1>2. ASSUME NEW p \in T
      PROVE  /\ SubSeq(p, Len(d) + 1, Len(p)) \in Seq(Names)
             /\ SubSeq(p, Len(d) + 1, Len(p)) # <<>>
             /\ d \o SubSeq(p, Len(d) + 1, Len(p)) = p
  <2>1. p \in Seq(Names) /\ Len(p) \in Nat /\ p \in tree BY PathFacts
  <2>2. /\ Len(d) <= Len(p) /\ d # p
        /\ SubSeq(d, 1, Len(d)) = SubSeq(p, 1, Len(d))
    BY DEF IsStrictPrefix, IsPrefix
  <2>3. \A i \in 1..Len(d) : p[i] = d[i]
    <3> SUFFICES ASSUME NEW i \in 1..Len(d) PROVE p[i] = d[i] OBVIOUS
    <3>1. SubSeq(d, 1, Len(d))[i] = d[i] BY <1>1
    <3>2. SubSeq(p, 1, Len(d))[i] = p[i] BY <1>1, <2>1, <2>2
    <3>3. QED BY <2>2, <3>1, <3>2
  <2>4. Len(d) < Len(p) BY <1>1, <2>1, <2>2, <2>3
  <2> DEFINE u == SubSeq(p, Len(d) + 1, Len(p))
  <2>5. /\ u \in Seq(Names) /\ Len(u) = Len(p) - Len(d)
        /\ \A i \in 1..Len(u) : u[i] = p[Len(d) + i]
    BY <1>1, <2>1, <2>4
  <2> HIDE DEF u
  <2>6. u # <<>> BY <1>1, <2>1, <2>4, <2>5
  <2>7. /\ d \o u \in Seq(Names) /\ Len(d \o u) = Len(p)
        /\ \A i \in 1..Len(p) : (d \o u)[i] = p[i]
    BY <1>1, <2>1, <2>3, <2>4, <2>5
  <2>8. d \o u = p BY <2>1, <2>7, SeqEqual
  <2>9. QED BY <2>5, <2>6, <2>8 DEF u
<1>3. Under(tree, d) = {f[p] : p \in T} BY DEF Under
<1>4. IsFiniteSet(Under(tree, d))
  <2>1. IsFiniteSet(T) BY FS_Subset
  <2> HIDE DEF f, T
  <2>2. QED BY <1>3, <2>1, FiniteImage
<1>5. ASSUME Append(d, SkillMd) \in tree PROVE <<SkillMd>> \in Under(tree, d)
  <2> DEFINE p == Append(d, SkillMd)
  <2>1. SkillMd \in Names BY SkillsAssumption
  <2>2. p \in Seq(Names) /\ Len(p) = Len(d) + 1 /\ p[Len(d) + 1] = SkillMd
        /\ \A i \in 1..Len(d) : p[i] = d[i]
    BY <1>1, <2>1
  <2> HIDE DEF p
  <2>3. IsStrictPrefix(d, p)
    <3>1. SubSeq(d, 1, Len(d)) = d BY <1>1
    <3>2. SubSeq(p, 1, Len(d)) = d BY <1>1, <2>2
    <3>3. QED BY <1>1, <2>2, <3>1, <3>2 DEF IsStrictPrefix, IsPrefix
  <2>4. SubSeq(p, Len(d) + 1, Len(p)) = <<SkillMd>>
    <3> DEFINE u == SubSeq(p, Len(d) + 1, Len(p))
    <3>1. u \in Seq(Names) /\ Len(u) = 1 /\ u[1] = SkillMd BY <1>1, <2>1, <2>2
    <3>2. <<SkillMd>> \in Seq(Names) /\ Len(<<SkillMd>>) = 1 /\ <<SkillMd>>[1] = SkillMd
      BY <2>1
    <3> HIDE DEF u
    <3>3. u = <<SkillMd>> BY <3>1, <3>2, SeqEqual
    <3>4. QED BY <3>3 DEF u
  <2>5. QED BY <1>5, <2>3, <2>4 DEF p, Under
<1>6. \A u \in Under(tree, d) : u \in Paths /\ u # <<>> /\ d \o u \in tree
  <2> SUFFICES ASSUME NEW p \in T, NEW u, u = SubSeq(p, Len(d) + 1, Len(p))
               PROVE  u \in Paths /\ u # <<>> /\ d \o u \in tree
    BY DEF Under
  <2>1. QED BY <1>2 DEF Paths
<1>7. QED BY <1>4, <1>5, <1>6

(***************************************************************************)
(* The playbook of a skill's folder is its own, or that of a folder in it  *)
(* that sorts before.                                                      *)
(***************************************************************************)
LEMMA FolderItemFacts ==
  ASSUME NEW repo \in DOMAIN Trees, NEW d \in Paths, Append(d, SkillMd) \in Trees[repo]
  PROVE  LET item == FolderItem(Trees[repo], d, repo)
         IN  /\ item \in ItemType /\ OwnOrNested(item, Trees[repo])
             /\ Rels(repo, item.dir) = ToSet(item.files)
<1> DEFINE tree == Trees[repo]
           item == FolderItem(tree, d, repo)
           rels == FilesUnder(tree, d)
           D == {n \in DOMAIN rels : Last(rels[n]) = SkillMd}
           U == Under(tree, d)
<1>1. tree \subseteq Paths \ {<<>>} /\ IsFiniteSet(tree) /\ repo \in Names BY TreesAssumption
<1>2. d \in Seq(Names) /\ Len(d) \in Nat /\ SkillMd \in Names /\ SkillMd \in Nat
  BY PathFacts, SkillsAssumption, TreesAssumption
<1>3. /\ U \in SUBSET Paths /\ IsFiniteSet(U) /\ <<SkillMd>> \in U
      /\ \A u \in U : u # <<>> /\ d \o u \in tree
  BY <1>1, UnderFacts
<1>4. rels = InOrder(U) BY DEF FilesUnder, Under
<1>5. /\ rels \in Seq(U) /\ \A p \in U : \E n \in 1..Len(rels) : rels[n] = p
      /\ \A m, n \in 1..Len(rels) : m < n => Before(rels[m], rels[n])
  <2> HIDE DEF rels, U
  <2>1. QED BY <1>3, <1>4, InOrderFacts
<1> HIDE DEF rels
<1>6. PICK k \in 1..Len(rels) : rels[k] = <<SkillMd>> BY <1>3, <1>5
<1>7. DOMAIN rels = 1..Len(rels) /\ Len(rels) \in Nat BY <1>5
<1>8. D \in SUBSET Nat /\ k \in D
  <2>1. Last(<<SkillMd>>) = SkillMd BY DEF Last
  <2>2. QED BY <1>6, <1>7, <2>1
<1> DEFINE n == Min(D)
<1>9. n \in D /\ n <= k
  <2>1. \E m \in D : \A x \in D : m <= x BY <1>8, LeastNumber
  <2> HIDE DEF D
  <2>2. n \in D /\ \A x \in D : n <= x BY <2>1 DEF Min
  <2>3. QED BY <1>8, <2>2
<1> DEFINE u == rels[n]
<1>10. PlaybookRel(rels) = u BY DEF PlaybookRel
<1>11. u \in U /\ Last(u) = SkillMd BY <1>5, <1>7, <1>9
<1> HIDE DEF n, D
<1>12. /\ u \in Seq(Names) /\ u # <<>> /\ d \o u \in tree /\ Len(u) \in Nat \ {0}
  BY <1>3, <1>11 DEF Paths
<1>13. DirName(d, repo) \in Names
  <2>1. d # <<>> => Last(d) \in Names BY <1>2 DEF Last
  <2>2. QED BY <1>1, <2>1, TreesAssumption DEF DirName
<1> DEFINE files == First(FilesPerSkill, rels)
<1>14. item = [key |-> DirName(d, repo), folder |-> TRUE, dir |-> d, path |-> d \o u, files |-> files]
  BY <1>10 DEF FolderItem, rels
<1>15. item.dir = d /\ item.path = d \o u /\ item.files = files BY <1>14
<1>16. files \in Seq(Paths)
  <2>1. rels \in Seq(Paths) BY <1>3, <1>5
  <2>2. QED BY <2>1, FirstFacts, SkillsAssumption
<1>17. item \in ItemType BY <1>1, <1>12, <1>13, <1>14, <1>16 DEF ItemType
<1>18. OwnOrNested(item, tree)
  <2>1. CASE u = <<SkillMd>>
    <3>1. d \o <<SkillMd>> = Append(d, SkillMd) BY <1>2
    <3>2. QED BY <1>15, <2>1, <3>1 DEF OwnOrNested, IsOwn
  <2>2. CASE u # <<SkillMd>>
    <3>1. n < k BY <1>6, <1>7, <1>9, <2>2 DEF D
    <3>2. n \in 1..Len(rels) BY <1>7, <1>9 DEF D
    <3>3. Before(u, <<SkillMd>>) BY <1>5, <1>6, <3>1, <3>2
    <3>4. u[1] < SkillMd BY <1>12, <3>3 DEF Before
    <3> DEFINE p == d \o u
    <3>5. /\ p \in Seq(Names) /\ Len(p) = Len(d) + Len(u) /\ p[Len(d) + 1] = u[1]
          /\ p[Len(p)] = u[Len(u)] /\ \A i \in 1..Len(d) : p[i] = d[i]
      BY <1>2, <1>12
    <3>6. p \in tree BY <1>12
    <3> HIDE DEF p
    <3>7. Last(p) = SkillMd BY <1>11, <3>5 DEF Last
    <3>8. IsStrictPrefix(d, p)
      <4>1. SubSeq(d, 1, Len(d)) = d BY <1>2
      <4>2. SubSeq(p, 1, Len(d)) = d BY <1>2, <1>12, <3>5
      <4>3. QED BY <1>2, <1>12, <3>5, <4>1, <4>2 DEF IsStrictPrefix, IsPrefix
    <3>9. QED BY <1>15, <3>4, <3>5, <3>6, <3>7, <3>8 DEF OwnOrNested, IsOwn
  <2>3. QED BY <2>1, <2>2
<1>19. Rels(repo, item.dir) = ToSet(item.files) BY <1>15 DEF Rels, rels
<1>20. QED BY <1>17, <1>18, <1>19

LEMMA DirNameIsName ==
  ASSUME NEW d \in Paths, NEW repo \in Names
  PROVE  DirName(d, repo) \in Names
<1>1. d # <<>> => Last(d) \in Names BY FrontLast
<1>2. QED BY <1>1, TreesAssumption DEF DirName

LEMMA LooseItemFacts ==
  ASSUME NEW path \in Paths, path # <<>>, NEW repo \in Names
  PROVE  LooseItem(path, repo) \in ItemType /\ ~LooseItem(path, repo).folder
<1>1. Front(path) \in Paths /\ Last(path) \in Names BY FrontLast
<1>2. SkillKey(path, repo) \in Names BY <1>1, DirNameIsName, TreesAssumption DEF SkillKey
<1>3. <<>> \in Seq(Paths) /\ <<>> \in Paths BY DEF Paths
<1>4. QED BY <1>2, <1>3 DEF LooseItem, ItemType

\* The folders of skills.
Skilled(tree) == {d \in Paths : Append(d, SkillMd) \in tree}

LEMMA SkillDirsFacts ==
  ASSUME NEW repo \in DOMAIN Trees, NEW sub
  PROVE  SkillDirs(Trees[repo], sub, repo) \in Seq(Skilled(Trees[repo]))
<1> DEFINE tree == Trees[repo]
           Q == {q \in tree : Last(q) = SkillMd}
           dirs == {Front(p) : p \in Q}
           E == {e \in dirs : IsPrefix(sub, e)}
           NS == {<<DirName(d, repo)>> \o d : d \in E}
           f == [p \in Q |-> Front(p)]
           g == [d \in E |-> <<DirName(d, repo)>> \o d]
           named == InOrder(NS)
<1>1. tree \subseteq Paths \ {<<>>} /\ IsFiniteSet(tree) /\ repo \in Names BY TreesAssumption
<1>2. dirs \subseteq Skilled(tree) BY <1>1, FrontLast DEF Skilled
<1>3. IsFiniteSet(E)
  <2>1. IsFiniteSet(Q) BY <1>1, FS_Subset
  <2>2. dirs = {f[p] : p \in Q} OBVIOUS
  <2>3. IsFiniteSet(dirs)
    <3> HIDE DEF f, Q, dirs
    <3>1. QED BY <2>1, <2>2, FiniteImage
  <2> HIDE DEF dirs
  <2>4. QED BY <2>3, FS_Subset
<1>4. \A d \in E : /\ d \in Skilled(tree) /\ d \in Paths /\ <<DirName(d, repo)>> \o d \in Paths
                   /\ <<DirName(d, repo)>> \o d # <<>> /\ Tail(<<DirName(d, repo)>> \o d) = d
  <2> SUFFICES ASSUME NEW d \in E
               PROVE  /\ d \in Skilled(tree) /\ d \in Paths /\ <<DirName(d, repo)>> \o d \in Paths
                      /\ <<DirName(d, repo)>> \o d # <<>> /\ Tail(<<DirName(d, repo)>> \o d) = d
    OBVIOUS
  <2>1. d \in Skilled(tree) /\ d \in Paths BY <1>2 DEF Skilled
  <2>2. PICK x \in Names : x = DirName(d, repo) BY <1>1, <2>1, DirNameIsName
  <2>3. d \in Seq(Names) BY <2>1 DEF Paths
  <2>4. /\ <<x>> \o d \in Seq(Names) /\ Len(<<x>> \o d) = Len(d) + 1
        /\ \A i \in 1..Len(d) : (<<x>> \o d)[i + 1] = d[i]
    BY <2>3
  <2> DEFINE w == <<x>> \o d
  <2> HIDE DEF w
  <2>5. w \in Seq(Names) /\ Len(w) = Len(d) + 1 /\ \A i \in 1..Len(d) : w[i + 1] = d[i] BY <2>4 DEF w
  <2>6. w # <<>> BY <2>3, <2>5
  <2>7. Tail(w) \in Seq(Names) /\ Len(Tail(w)) = Len(d) /\ \A i \in 1..Len(d) : Tail(w)[i] = d[i]
    BY <2>3, <2>5, <2>6
  <2>8. Tail(w) = d BY <2>3, <2>7, SeqEqual
  <2>9. QED BY <2>1, <2>2, <2>5, <2>6, <2>8 DEF w, Paths
<1>5. NS = {g[d] : d \in E} OBVIOUS
<1>6. IsFiniteSet(NS)
  <2> HIDE DEF g, E, NS
  <2>1. QED BY <1>3, <1>5, FiniteImage
<1>7. NS \in SUBSET Paths BY <1>4
<1>8. \A x \in NS : Tail(x) \in Skilled(tree) BY <1>4
<1>9. named \in Seq(NS)
  <2> HIDE DEF NS
  <2>1. QED BY <1>6, <1>7, InOrderFacts
<1>10. SkillDirs(tree, sub, repo) = [i \in DOMAIN named |-> Tail(named[i])] BY DEF SkillDirs
<1> HIDE DEF named, NS, tree
<1>11. DOMAIN named = 1..Len(named) /\ Len(named) \in Nat /\ \A i \in 1..Len(named) : named[i] \in NS
  BY <1>9
<1>12. QED BY <1>8, <1>10, <1>11 DEF tree

LEMMA SelectFacts ==
  ASSUME NEW repo \in DOMAIN Trees, NEW sub
  PROVE  SelectSkillPaths(Trees[repo], sub) \in Seq(Trees[repo])
<1> DEFINE tree == Trees[repo]
           scoped == {p \in tree : IsPrefix(sub, p)}
           skills == {p \in scoped : Last(p) = SkillMd}
           S == IF skills # {} THEN skills ELSE {p \in scoped : Last(p) \in Markdown}
<1>1. tree \subseteq Paths \ {<<>>} /\ IsFiniteSet(tree) BY TreesAssumption
<1>2. S \in SUBSET tree OBVIOUS
<1>3. SelectSkillPaths(tree, sub) = InOrder(S) BY DEF SelectSkillPaths
<1> HIDE DEF S
<1>4. IsFiniteSet(S) /\ S \in SUBSET Paths BY <1>1, <1>2, FS_Subset
<1>5. InOrder(S) \in Seq(S) BY <1>4, InOrderFacts
<1>6. QED BY <1>2, <1>3, <1>5

(***************************************************************************)
(* What the listing of a tree finds: folders with their own playbooks and  *)
(* all of their files to come, or loose playbooks.                         *)
(***************************************************************************)
LEMMA ItemsFacts ==
  ASSUME NEW repo \in DOMAIN Trees, NEW sub
  PROVE  LET items == Items(Trees[repo], sub, repo)
         IN  /\ items \in Seq(ItemType) /\ Len(items) <= Cap
             /\ \A n \in DOMAIN items : items[n].folder =>
                  OwnOrNested(items[n], Trees[repo]) /\ Rels(repo, items[n].dir) = ToSet(items[n].files)
<1> DEFINE tree == Trees[repo]
           dirs == First(Cap, SkillDirs(tree, sub, repo))
           loose == First(Cap, SelectSkillPaths(tree, sub))
           items == Items(tree, sub, repo)
<1>1. tree \subseteq Paths \ {<<>>} /\ repo \in Names /\ Cap \in Nat
  BY TreesAssumption, SkillsAssumption
<1>2. dirs \in Seq(Skilled(tree)) /\ Len(dirs) <= Cap BY <1>1, SkillDirsFacts, FirstFacts
<1>3. loose \in Seq(tree) /\ Len(loose) <= Cap BY <1>1, SelectFacts, FirstFacts
<1>4. items = IF dirs # <<>> THEN [i \in DOMAIN dirs |-> FolderItem(tree, dirs[i], repo)]
                             ELSE [i \in DOMAIN loose |-> LooseItem(loose[i], repo)]
  BY DEF Items
<1> HIDE DEF dirs, loose, items
<1>5. CASE dirs # <<>>
  <2>1. DOMAIN dirs = 1..Len(dirs) /\ Len(dirs) \in Nat BY <1>2
  <2>2. ASSUME NEW i \in DOMAIN dirs
        PROVE  LET item == FolderItem(tree, dirs[i], repo)
               IN  /\ item \in ItemType /\ OwnOrNested(item, tree)
                   /\ Rels(repo, item.dir) = ToSet(item.files)
    <3>1. dirs[i] \in Paths /\ Append(dirs[i], SkillMd) \in tree BY <1>2, <2>1 DEF Skilled
    <3>2. QED BY <3>1, FolderItemFacts
  <2>3. DOMAIN items = 1..Len(dirs) /\ \A i \in 1..Len(dirs) : items[i] = FolderItem(tree, dirs[i], repo)
    BY <1>4, <1>5, <2>1
  <2>4. items \in Seq(ItemType) /\ Len(items) = Len(dirs)
    <3>1. items = [i \in 1..Len(dirs) |-> items[i]] BY <1>4, <1>5, <2>1
    <3>2. \A i \in 1..Len(dirs) : items[i] \in ItemType BY <2>1, <2>2, <2>3
    <3>3. QED BY <2>1, <3>1, <3>2
  <2>5. QED BY <1>2, <2>1, <2>2, <2>3, <2>4 DEF items
<1>6. CASE dirs = <<>>
  <2>1. DOMAIN loose = 1..Len(loose) /\ Len(loose) \in Nat BY <1>3
  <2>2. \A i \in 1..Len(loose) : loose[i] \in Paths /\ loose[i] # <<>> BY <1>1, <1>3
  <2>3. DOMAIN items = 1..Len(loose) /\ \A i \in 1..Len(loose) : items[i] = LooseItem(loose[i], repo)
    BY <1>4, <1>6, <2>1
  <2>4. \A i \in 1..Len(loose) : items[i] \in ItemType /\ ~items[i].folder
    BY <1>1, <2>2, <2>3, LooseItemFacts
  <2>5. items \in Seq(ItemType) /\ Len(items) = Len(loose)
    <3>1. items = [i \in 1..Len(loose) |-> items[i]] BY <1>4, <1>6, <2>1
    <3>2. QED BY <2>1, <2>4, <3>1
  <2>6. QED BY <1>3, <2>3, <2>4, <2>5 DEF items
<1>7. QED BY <1>5, <1>6

-----------------------------------------------------------------------------
\* Steps.

LEMMA InstallFields ==
  ASSUME SkillsTypeOK, NEW i \in DOMAIN installs
  PROVE  /\ installs[i] \in InstallType /\ installs[i].repo \in DOMAIN Trees
         /\ installs[i].repo \in Names /\ installs[i].sub \in Paths
         /\ installs[i].failed \subseteq Paths /\ installs[i].found \in BOOLEAN
         /\ installs[i].user \in Users /\ installs[i].pc \in Pcs
         /\ installs[i].items \in Seq(ItemType) /\ Len(installs[i].items) <= Cap
<1>1. installs[i] \in InstallType BY DEF SkillsTypeOK
<1>2. QED BY <1>1, TreesAssumption DEF InstallType, SkillsTypeOK

\* What no step takes away.
Grown ==
  /\ DOMAIN installs \subseteq DOMAIN installs'
  /\ \A j \in DOMAIN installs :
       /\ installs'[j].repo = installs[j].repo
       /\ installs[j].pc = "error" => installs'[j].pc = "error"
  /\ \A at, e : e \in ToSet(Log(at)) => e \in ToSet(Log(at)')

Stands(i, item, key, failed) ==
  item.folder =>
    /\ OwnOrNested(item, Trees[installs[i].repo])
    /\ \A rel \in Rels(installs[i].repo, item.dir) : Treated(i, item.dir, key, rel, failed)

LEMMA AllStand ==
  SkillDefectsBounded <=>
    \A k \in DOMAIN playbooks :
      Stands(playbooks[k].by, playbooks[k].item, k[2], playbooks[k].failed)
  BY DEF SkillDefectsBounded, PlaybookOwnOrNested, CodeBeforePlaybook, Folders, Stands

LEMMA TreatedStays ==
  ASSUME Grown, NEW i \in DOMAIN installs, NEW dir, NEW key, NEW rel, NEW failed,
         Treated(i, dir, key, rel, failed)
  PROVE  Treated(i, dir, key, rel, failed)'
  BY DEF Grown, Treated, OnDisk

LEMMA StandsStays ==
  ASSUME Grown, NEW i \in DOMAIN installs, NEW item, NEW key, NEW failed,
         Stands(i, item, key, failed)
  PROVE  Stands(i, item, key, failed)'
<1>1. installs'[i].repo = installs[i].repo BY DEF Grown
<1>2. \A rel : Treated(i, item.dir, key, rel, failed) => Treated(i, item.dir, key, rel, failed)'
  BY TreatedStays
<1>3. OwnOrNested(item, Trees[installs[i].repo])' <=> OwnOrNested(item, Trees[installs[i].repo])
  BY <1>1 DEF OwnOrNested, IsOwn
<1>4. Rels(installs[i].repo, item.dir)' = Rels(installs[i].repo, item.dir) BY <1>1 DEF Rels
<1>5. QED BY <1>2, <1>3, <1>4 DEF Stands

LEMMA FollowedStays ==
  ASSUME Grown, NEW i \in DOMAIN installs, NEW r, Followed(i, r)
  PROVE  Followed(i, r)'
<1>1. \A dir, key, rel, failed :
        Treated(i, dir, key, rel, failed) => Treated(i, dir, key, rel, failed)'
  BY TreatedStays
<1>2. QED BY <1>1 DEF Followed

\* An entry in a log.
LEMMA LogAppended ==
  ASSUME SkillsTypeOK, NEW at, NEW e \in EntryType, disk' = With(disk, at, Append(Log(at), e))
  PROVE  /\ disk' \in [DOMAIN disk' -> Seq(EntryType)]
         /\ e \in ToSet(Log(at)')
         /\ \A b, d : d \in ToSet(Log(b)) => d \in ToSet(Log(b)')
<1>1. disk \in [DOMAIN disk -> Seq(EntryType)] BY DEF SkillsTypeOK
<1>2. Log(at) \in Seq(EntryType) BY <1>1 DEF Log
<1>3. /\ DOMAIN disk' = DOMAIN disk \cup {at} /\ disk'[at] = Append(Log(at), e)
      /\ \A b \in DOMAIN disk : b # at => disk'[b] = disk[b]
      /\ disk' = [b \in DOMAIN disk' |-> disk'[b]]
  BY DEF With
<1>4. /\ Append(Log(at), e) \in Seq(EntryType)
      /\ ToSet(Append(Log(at), e)) = ToSet(Log(at)) \cup {e}
  <2> DEFINE s == Log(at)
             t == Append(s, e)
  <2>1. s \in Seq(EntryType) BY <1>2
  <2> HIDE DEF s
  <2>2. /\ t \in Seq(EntryType) /\ Len(t) = Len(s) + 1 /\ t[Len(s) + 1] = e
        /\ \A n \in 1..Len(s) : t[n] = s[n]
    BY <2>1
  <2>3. DOMAIN t = 1..(Len(s) + 1) /\ DOMAIN s = 1..Len(s) /\ Len(s) \in Nat BY <2>1, <2>2
  <2> HIDE DEF t
  <2>4. ToSet(t) = ToSet(s) \cup {e} BY <2>2, <2>3 DEF ToSet
  <2>5. QED BY <2>2, <2>4 DEF s, t
<1>5. Log(at)' = Append(Log(at), e) BY <1>3 DEF Log
<1>6. ASSUME NEW b, b # at PROVE Log(b)' = Log(b) BY <1>3, <1>6 DEF Log
<1>7. disk' \in [DOMAIN disk' -> Seq(EntryType)] BY <1>1, <1>3, <1>4
<1>8. QED BY <1>4, <1>5, <1>6, <1>7

LEMMA ChangeFacts ==
  ASSUME SkillsTypeOK, NEW i \in DOMAIN installs, NEW from, NEW r \in InstallType,
         Change(i, from, r), Len(r.items) <= Cap
  PROVE  /\ installs' \in Seq(InstallType) /\ Len(installs') = Len(installs)
         /\ DOMAIN installs' = DOMAIN installs /\ installs[i].pc = from
         /\ installs'[i] = r /\ \A j \in DOMAIN installs : j # i => installs'[j] = installs[j]
         /\ EntryType' = EntryType
         /\ \A j \in DOMAIN installs' : Len(installs'[j].items) <= Cap
<1>1. installs \in Seq(InstallType) /\ \A j \in DOMAIN installs : Len(installs[j].items) <= Cap
  BY DEF SkillsTypeOK
<1>2. installs' = [installs EXCEPT ![i] = r] /\ installs[i].pc = from BY DEF Change
<1>3. /\ installs' \in Seq(InstallType) /\ Len(installs') = Len(installs)
      /\ DOMAIN installs' = DOMAIN installs
      /\ installs'[i] = r /\ \A j \in DOMAIN installs : j # i => installs'[j] = installs[j]
  BY <1>1, <1>2
<1>4. EntryType' = EntryType BY <1>3 DEF EntryType
<1>5. QED BY <1>1, <1>2, <1>3, <1>4

(***************************************************************************)
(* An install that goes on leaves the others alone.  What is to be seen to *)
(* is its own: that its items are followed, that a write it loses is one   *)
(* of an install that failed, and that what it stores stands.              *)
(***************************************************************************)
LEMMA InstallKeeps ==
  ASSUME SkillsInv, NEW i \in DOMAIN installs, NEW from, from # "error", NEW r \in InstallType,
         Change(i, from, r), Len(r.items) <= Cap, r.repo = installs[i].repo,
         disk' \in [DOMAIN disk' -> Seq(EntryType)],
         \A at, e : e \in ToSet(Log(at)) => e \in ToSet(Log(at)'),
         late' \subseteq [by : DOMAIN installs, dir : Paths, at : PlaceType],
         \A w \in late' : w \in late \/ (w.by = i /\ r.pc = "error"),
         playbooks' \in
           [DOMAIN playbooks' -> [by : DOMAIN installs, item : ItemType, failed : SUBSET Paths]],
         \A k \in DOMAIN playbooks' :
           \/ k \in DOMAIN playbooks /\ playbooks'[k] = playbooks[k]
           \/ Stands(playbooks[k].by, playbooks[k].item, k[2], playbooks[k].failed)',
         Followed(i, r)'
  PROVE  SkillsInv'
<1>1. SkillsTypeOK /\ SkillDefectsBounded /\ QuietAfterReport /\ ItemsFollowed BY DEF SkillsInv
<1>2. /\ installs' \in Seq(InstallType) /\ Len(installs') = Len(installs)
      /\ DOMAIN installs' = DOMAIN installs /\ installs[i].pc = from
      /\ installs'[i] = r /\ \A j \in DOMAIN installs : j # i => installs'[j] = installs[j]
      /\ EntryType' = EntryType
      /\ \A j \in DOMAIN installs' : Len(installs'[j].items) <= Cap
  BY <1>1, ChangeFacts
<1>3. Grown BY <1>2 DEF Grown
<1>4. SkillsTypeOK' BY <1>1, <1>2 DEF SkillsTypeOK
<1>5. SkillDefectsBounded'
  <2>1. ASSUME NEW k \in DOMAIN playbooks'
        PROVE  Stands(playbooks[k].by, playbooks[k].item, k[2], playbooks[k].failed)'
    <3>1. CASE k \in DOMAIN playbooks /\ playbooks'[k] = playbooks[k]
      <4> DEFINE b == playbooks[k].by
                 item == playbooks[k].item
                 failed == playbooks[k].failed
      <4>1. b \in DOMAIN installs BY <1>1, <3>1 DEF SkillsTypeOK
      <4>2. Stands(b, item, k[2], failed) BY <1>1, <3>1, AllStand
      <4>3. playbooks'[k].by = b /\ playbooks'[k].item = item /\ playbooks'[k].failed = failed
        BY <3>1
      <4> PICK c, it, fl : c = b /\ it = item /\ fl = failed OBVIOUS
      <4>4. Stands(c, it, k[2], fl)' BY <1>3, <4>1, <4>2, StandsStays
      <4>5. QED BY <4>3, <4>4
    <3>2. QED BY <3>1
  <2>2. (\A k \in DOMAIN playbooks :
          Stands(playbooks[k].by, playbooks[k].item, k[2], playbooks[k].failed))'
    BY <2>1
  <2>3. QED BY <2>2, AllStand, PTL
<1>6. QuietAfterReport'
  <2> SUFFICES ASSUME NEW w \in late' PROVE installs'[w.by].pc = "error" BY DEF QuietAfterReport
  <2>1. CASE w \in late
    <3>1. w.by \in DOMAIN installs /\ installs[w.by].pc = "error"
      BY <1>1, <2>1 DEF QuietAfterReport, SkillsTypeOK
    <3>2. QED BY <1>3, <3>1 DEF Grown
  <2>2. QED BY <1>2, <2>1
<1>7. ItemsFollowed'
  <2> SUFFICES ASSUME NEW j \in DOMAIN installs PROVE Followed(j, installs[j])'
    BY <1>2 DEF ItemsFollowed
  <2>1. CASE j = i BY <1>2, <2>1 DEF Followed
  <2>2. CASE j # i
    <3>1. PICK s : s = installs[j] OBVIOUS
    <3>2. Followed(j, s) BY <1>1, <3>1 DEF ItemsFollowed
    <3>3. Followed(j, s)' BY <1>3, <3>2, FollowedStays
    <3>4. QED BY <1>2, <2>2, <3>1, <3>3 DEF Followed
  <2>3. QED BY <2>1, <2>2
<1>8. QED BY <1>4, <1>5, <1>6, <1>7 DEF SkillsInv

\* The state of an install but its phase stays the same.
LEMMA PcChanges ==
  ASSUME SkillsTypeOK, NEW i \in DOMAIN installs, NEW how \in Pcs
  PROVE  LET r == [installs[i] EXCEPT !.pc = how]
         IN  /\ r \in InstallType /\ r.pc = how /\ r.repo = installs[i].repo
             /\ r.items = installs[i].items /\ r.failed = installs[i].failed
             /\ Len(r.items) <= Cap
<1>1. installs[i] \in InstallType /\ Len(installs[i].items) <= Cap BY InstallFields
<1>2. QED BY <1>1 DEF InstallType

LEMMA StopKeeps ==
  ASSUME SkillsInv, NEW i \in DOMAIN installs, NEW from \in {"asked", "working"}, NEW how \in Pcs,
         Stop(i, from, how), disk' = disk, playbooks' = playbooks,
         late' \subseteq [by : DOMAIN installs, dir : Paths, at : PlaceType],
         \A w \in late' : w \in late \/ (w.by = i /\ how = "error")
  PROVE  SkillsInv'
<1>1. SkillsTypeOK /\ ItemsFollowed BY DEF SkillsInv
<1>2. PICK r : r = [installs[i] EXCEPT !.pc = how] OBVIOUS
<1>3. /\ r \in InstallType /\ r.pc = how /\ r.repo = installs[i].repo
      /\ r.items = installs[i].items /\ r.failed = installs[i].failed /\ Len(r.items) <= Cap
  BY <1>1, <1>2, PcChanges
<1>4. Change(i, from, r) BY <1>2 DEF Stop
<1>5. /\ DOMAIN installs' = DOMAIN installs /\ installs[i].pc = from
      /\ installs'[i] = r /\ \A j \in DOMAIN installs : j # i => installs'[j] = installs[j]
  BY <1>1, <1>3, <1>4, ChangeFacts
<1>6. \A at : Log(at)' = Log(at) BY DEF Log
<1>7. Grown BY <1>3, <1>5, <1>6 DEF Grown
<1>8. Followed(i, r)'
  <2>1. Followed(i, r) BY <1>1, <1>3 DEF ItemsFollowed, Followed
  <2>2. QED BY <1>7, <2>1, FollowedStays
<1>9. /\ disk' \in [DOMAIN disk' -> Seq(EntryType)]
      /\ playbooks' \in
           [DOMAIN playbooks' -> [by : DOMAIN installs, item : ItemType, failed : SUBSET Paths]]
  BY <1>1 DEF SkillsTypeOK
<1>10. from # "error" OBVIOUS
<1>11. QED BY <1>3, <1>4, <1>6, <1>8, <1>9, <1>10, InstallKeeps

\* The file an install is at.
LEMMA FileFacts ==
  ASSUME SkillsTypeOK, NEW i \in DOMAIN installs, HasFile(i)
  PROVE  /\ 1 \in DOMAIN installs[i].items /\ Item(i) = installs[i].items[1]
         /\ Item(i) \in ItemType /\ Item(i).dir \in Paths /\ Item(i).key \in Names
         /\ Item(i).files \in Seq(Paths)
         /\ Rel(i) \in Paths /\ Tail(Item(i).files) \in Seq(Paths)
         /\ ToSet(Item(i).files) = {Rel(i)} \cup ToSet(Tail(Item(i).files))
         /\ Place(i) \in PlaceType /\ Entry(i) \in EntryType
<1>1. installs[i].items \in Seq(ItemType) /\ installs[i].items # <<>> BY InstallFields DEF HasFile
<1>2. Item(i) = installs[i].items[1] /\ Item(i) \in ItemType /\ 1 \in DOMAIN installs[i].items
  BY <1>1 DEF Item
<1>3. Item(i).files \in Seq(Paths) /\ Item(i).dir \in Paths /\ Item(i).key \in Names
  BY <1>2 DEF ItemType
<1>4. PICK s : s = Item(i).files OBVIOUS
<1>5. s \in Seq(Paths) /\ s # <<>> BY <1>3, <1>4 DEF HasFile
<1>6. /\ Head(s) \in Paths /\ Tail(s) \in Seq(Paths) /\ Len(s) \in Nat \ {0}
      /\ Head(s) = s[1] /\ Len(Tail(s)) = Len(s) - 1
      /\ \A n \in 1..(Len(s) - 1) : Tail(s)[n] = s[n + 1]
  BY <1>5
<1>7. DOMAIN s = 1..Len(s) /\ DOMAIN Tail(s) = 1..(Len(s) - 1) BY <1>5, <1>6
<1>8. ToSet(s) = {Head(s)} \cup ToSet(Tail(s))
  <2>1. \A n \in 1..Len(s) : n = 1 \/ n - 1 \in 1..(Len(s) - 1) BY <1>6
  <2>2. ASSUME NEW n \in 1..Len(s), n # 1 PROVE s[n] \in ToSet(Tail(s))
    <3>1. n - 1 \in 1..(Len(s) - 1) /\ (n - 1) + 1 = n BY <2>1, <2>2
    <3>2. s[n] = Tail(s)[n - 1] BY <1>6, <3>1
    <3>3. QED BY <1>7, <3>1, <3>2 DEF ToSet
  <2>3. \A n \in 1..(Len(s) - 1) : Tail(s)[n] \in ToSet(s) BY <1>6, <1>7 DEF ToSet
  <2>4. Head(s) \in ToSet(s) BY <1>6, <1>7 DEF ToSet
  <2>5. QED BY <1>6, <1>7, <2>2, <2>3, <2>4 DEF ToSet
<1>9. Place(i) \in PlaceType /\ Entry(i) \in EntryType
  BY <1>3, <1>4, <1>6 DEF Place, PlaceType, Rel, Entry, EntryType
<1>10. QED BY <1>2, <1>3, <1>4, <1>6, <1>8, <1>9 DEF Rel

LEMMA AdvancedFacts ==
  ASSUME SkillsTypeOK, NEW i \in DOMAIN installs, HasFile(i)
  PROVE  LET r == Advanced(i)
         IN  /\ r \in InstallType /\ r.repo = installs[i].repo /\ r.failed = installs[i].failed
             /\ r.pc = installs[i].pc /\ Len(r.items) = Len(installs[i].items)
             /\ r.items \in Seq(ItemType)
             /\ r.items[1].key = Item(i).key /\ r.items[1].dir = Item(i).dir
             /\ r.items[1].folder = Item(i).folder /\ r.items[1].path = Item(i).path
             /\ r.items[1].files = Tail(Item(i).files)
             /\ \A n \in DOMAIN r.items : n # 1 => r.items[n] = installs[i].items[n]
<1>1. /\ installs[i] \in InstallType /\ installs[i].items \in Seq(ItemType)
      /\ 1 \in DOMAIN installs[i].items /\ Item(i) = installs[i].items[1]
      /\ Item(i) \in ItemType /\ Tail(Item(i).files) \in Seq(Paths)
  BY InstallFields, FileFacts
<1>2. PICK item : item = [Item(i) EXCEPT !.files = Tail(Item(i).files)] OBVIOUS
<1>3. /\ item \in ItemType /\ item.files = Tail(Item(i).files) /\ item.key = Item(i).key
      /\ item.dir = Item(i).dir /\ item.folder = Item(i).folder /\ item.path = Item(i).path
  BY <1>1, <1>2 DEF ItemType
<1>4. PICK items : items = [installs[i].items EXCEPT ![1] = item] OBVIOUS
<1>5. /\ items \in Seq(ItemType) /\ Len(items) = Len(installs[i].items) /\ items[1] = item
      /\ DOMAIN items = DOMAIN installs[i].items
      /\ \A n \in DOMAIN items : n # 1 => items[n] = installs[i].items[n]
  BY <1>1, <1>3, <1>4
<1>6. Advanced(i) = [installs[i] EXCEPT !.items = items]
  BY <1>1, <1>2, <1>4 DEF Advanced, InstallType
<1>7. PICK r : r = Advanced(i) OBVIOUS
<1>8. /\ r \in InstallType /\ r.items = items /\ r.repo = installs[i].repo
      /\ r.failed = installs[i].failed /\ r.pc = installs[i].pc
  BY <1>1, <1>5, <1>6, <1>7 DEF InstallType
<1>9. QED BY <1>3, <1>5, <1>7, <1>8

(***************************************************************************)
(* An install goes on to the next file, once the one it was at is treated. *)
(***************************************************************************)
LEMMA FileKeeps ==
  ASSUME SkillsInv, NEW i \in DOMAIN installs, HasFile(i), NEW r \in InstallType,
         Change(i, "working", r), r.items = Advanced(i).items, r.repo = installs[i].repo,
         installs[i].failed \subseteq r.failed,
         NEW item, item = Item(i), NEW rel, rel = Rel(i),
         Treated(i, item.dir, item.key, rel, r.failed)',
         disk' \in [DOMAIN disk' -> Seq(EntryType)],
         \A at, e : e \in ToSet(Log(at)) => e \in ToSet(Log(at)'),
         late' = late, playbooks' = playbooks
  PROVE  SkillsInv'
<1>1. SkillsTypeOK /\ ItemsFollowed BY DEF SkillsInv
<1>2. /\ 1 \in DOMAIN installs[i].items /\ item = installs[i].items[1]
      /\ ToSet(item.files) = {rel} \cup ToSet(Tail(item.files))
      /\ installs[i].items \in Seq(ItemType) /\ Len(installs[i].items) <= Cap
  BY <1>1, FileFacts, InstallFields
<1>3. /\ r.items \in Seq(ItemType) /\ Len(r.items) = Len(installs[i].items)
      /\ r.items[1].key = item.key /\ r.items[1].dir = item.dir
      /\ r.items[1].folder = item.folder /\ r.items[1].path = item.path
      /\ r.items[1].files = Tail(item.files)
      /\ \A n \in DOMAIN r.items : n # 1 => r.items[n] = installs[i].items[n]
  BY <1>1, AdvancedFacts
<1>4. /\ DOMAIN installs' = DOMAIN installs /\ installs[i].pc = "working" /\ installs'[i] = r
      /\ \A j \in DOMAIN installs : j # i => installs'[j] = installs[j]
  BY <1>1, <1>2, <1>3, ChangeFacts
<1>5. Grown BY <1>4 DEF Grown
<1>6. PICK old : old = installs[i] OBVIOUS
<1>7. Followed(i, old)'
  <2>1. Followed(i, old) BY <1>1, <1>6 DEF ItemsFollowed
  <2>2. QED BY <1>5, <2>1, FollowedStays
<1>8. \A dir, key, f : Treated(i, dir, key, f, old.failed)' => Treated(i, dir, key, f, r.failed)'
  BY <1>6 DEF Treated, OnDisk
<1>9. ASSUME NEW n \in DOMAIN r.items, r.items[n].folder
      PROVE  /\ OwnOrNested(r.items[n], Trees[r.repo])'
             /\ \A f \in Rels(r.repo, r.items[n].dir)' :
                  \/ f \in ToSet(r.items[n].files)
                  \/ n = 1 /\ Treated(i, r.items[n].dir, r.items[n].key, f, r.failed)'
  <2>1. n \in DOMAIN old.items /\ old.repo = r.repo BY <1>2, <1>3, <1>6
  <2>2. /\ old.items[n].folder => OwnOrNested(old.items[n], Trees[r.repo])'
        /\ \A f \in Rels(r.repo, old.items[n].dir)' : old.items[n].folder =>
             \/ f \in ToSet(old.items[n].files)
             \/ n = 1 /\ Treated(i, old.items[n].dir, old.items[n].key, f, old.failed)'
    BY <1>7, <2>1 DEF Followed
  <2>3. CASE n # 1 BY <1>3, <1>6, <1>9, <2>1, <2>2, <2>3
  <2>4. CASE n = 1
    <3>1. old.items[1] = item BY <1>2, <1>6
    <3>2. OwnOrNested(r.items[1], Trees[r.repo])' BY <1>3, <1>9, <2>2, <2>4, <3>1 DEF OwnOrNested, IsOwn
    <3>3. ASSUME NEW f \in Rels(r.repo, item.dir)'
          PROVE  f \in ToSet(r.items[1].files) \/ Treated(i, item.dir, item.key, f, r.failed)'
      <4>1. f \in ToSet(item.files) \/ Treated(i, item.dir, item.key, f, old.failed)'
        BY <1>3, <1>9, <2>2, <2>4, <3>1, <3>3
      <4>2. QED BY <1>2, <1>3, <1>8, <4>1
    <3>4. QED BY <1>3, <2>4, <3>2, <3>3
  <2>5. QED BY <2>3, <2>4
<1>10. Followed(i, r)' BY <1>9 DEF Followed
<1>11. /\ late' \subseteq [by : DOMAIN installs, dir : Paths, at : PlaceType]
       /\ playbooks' \in
            [DOMAIN playbooks' -> [by : DOMAIN installs, item : ItemType, failed : SUBSET Paths]]
       /\ Len(r.items) <= Cap
  BY <1>1, <1>2, <1>3 DEF SkillsTypeOK
<1>12. "working" # "error" OBVIOUS
<1>13. QED BY <1>10, <1>11, <1>12, InstallKeeps

LEMMA LogsSame ==
  ASSUME disk' = disk
  PROVE  \A at, e : e \in ToSet(Log(at)) => e \in ToSet(Log(at)')
  BY DEF Log

LEMMA SkipBigKeeps ==
  ASSUME SkillsInv, NEW i \in DOMAIN installs, SkipBig(i)
  PROVE  SkillsInv'
<1>1. SkillsTypeOK BY DEF SkillsInv
<1>2. PICK r, item, rel : r = Advanced(i) /\ item = Item(i) /\ rel = Rel(i) OBVIOUS
<1>3. /\ r \in InstallType /\ r.repo = installs[i].repo /\ r.failed = installs[i].failed
      /\ r.items = Advanced(i).items /\ HasFile(i) /\ Change(i, "working", r)
      /\ Len(r.items) <= Cap
  BY <1>1, <1>2, AdvancedFacts, InstallFields DEF SkipBig
<1>4. installs'[i].repo = installs[i].repo BY <1>1, <1>3, ChangeFacts
<1>5. <<installs[i].repo, item.dir \o rel>> \in Big BY <1>2 DEF SkipBig, IsBig
<1>6. Treated(i, item.dir, item.key, rel, r.failed)' BY <1>4, <1>5 DEF Treated, OnDisk
<1>7. disk' = disk /\ late' = late /\ playbooks' = playbooks BY DEF SkipBig
<1>8. disk' \in [DOMAIN disk' -> Seq(EntryType)] BY <1>1, <1>7 DEF SkillsTypeOK
<1>9. \A at, e : e \in ToSet(Log(at)) => e \in ToSet(Log(at)') BY <1>7, LogsSame
<1>10. QED BY <1>2, <1>3, <1>6, <1>7, <1>8, <1>9, FileKeeps

LEMMA WriteFileKeeps ==
  ASSUME SkillsInv, NEW i \in DOMAIN installs, WriteFile(i)
  PROVE  SkillsInv'
<1>1. SkillsTypeOK BY DEF SkillsInv
<1>2. PICK r, item, rel : r = Advanced(i) /\ item = Item(i) /\ rel = Rel(i) OBVIOUS
<1>3. /\ r \in InstallType /\ r.repo = installs[i].repo /\ r.failed = installs[i].failed
      /\ r.items = Advanced(i).items /\ HasFile(i) /\ Change(i, "working", r)
  BY <1>1, <1>2, AdvancedFacts DEF WriteFile
<1>4. PICK at, e : at = Place(i) /\ e = Entry(i) OBVIOUS
<1>5. /\ e \in EntryType /\ e = [by |-> i, dir |-> item.dir] /\ at = <<item.key, rel>>
  BY <1>1, <1>2, <1>3, <1>4, FileFacts DEF Entry, Place
<1>6. disk' = With(disk, at, Append(Log(at), e)) BY <1>4 DEF WriteFile
<1>7. /\ disk' \in [DOMAIN disk' -> Seq(EntryType)] /\ e \in ToSet(Log(at)')
      /\ \A b, d : d \in ToSet(Log(b)) => d \in ToSet(Log(b)')
  BY <1>1, <1>5, <1>6, LogAppended
<1>8. Treated(i, item.dir, item.key, rel, r.failed)' BY <1>5, <1>7 DEF Treated, OnDisk
<1>9. late' = late /\ playbooks' = playbooks BY DEF WriteFile
<1>10. QED BY <1>2, <1>3, <1>7, <1>8, <1>9, FileKeeps

LEMMA FailQuietlyKeeps ==
  ASSUME SkillsInv, NEW i \in DOMAIN installs, FailQuietly(i)
  PROVE  SkillsInv'
<1>1. SkillsTypeOK BY DEF SkillsInv
<1>2. PICK a, item, rel : a = Advanced(i) /\ item = Item(i) /\ rel = Rel(i) OBVIOUS
<1>3. /\ a \in InstallType /\ a.repo = installs[i].repo /\ a.failed = installs[i].failed
      /\ a.items = Advanced(i).items /\ HasFile(i) /\ rel \in Paths
  BY <1>1, <1>2, AdvancedFacts, FileFacts DEF FailQuietly
<1>4. PICK r : r = [a EXCEPT !.failed = a.failed \cup {rel}] OBVIOUS
<1>5. /\ r \in InstallType /\ r.repo = a.repo /\ r.failed = a.failed \cup {rel} /\ r.items = a.items
  BY <1>3, <1>4 DEF InstallType
<1>6. Change(i, "working", r) BY <1>2, <1>4 DEF FailQuietly
<1>7. Treated(i, item.dir, item.key, rel, r.failed)' BY <1>5 DEF Treated, OnDisk
<1>8. disk' = disk /\ late' = late /\ playbooks' = playbooks BY DEF FailQuietly
<1>9. disk' \in [DOMAIN disk' -> Seq(EntryType)] BY <1>1, <1>8 DEF SkillsTypeOK
<1>10. \A at, e : e \in ToSet(Log(at)) => e \in ToSet(Log(at)') BY <1>8, LogsSame
<1>11. QED BY <1>2, <1>3, <1>5, <1>6, <1>7, <1>8, <1>9, <1>10, FileKeeps

LEMMA LoseWriteKeeps ==
  ASSUME SkillsInv, NEW i \in DOMAIN installs, LoseWrite(i)
  PROVE  SkillsInv'
<1>1. SkillsTypeOK BY DEF SkillsInv
<1> DEFINE w == [by |-> i, dir |-> Item(i).dir, at |-> Place(i)]
<1>3. Item(i).dir \in Paths /\ Place(i) \in PlaceType BY <1>1, FileFacts DEF LoseWrite
<1>4. late' = late \cup {w} BY DEF LoseWrite
<1>5. late' \subseteq [by : DOMAIN installs, dir : Paths, at : PlaceType]
  BY <1>1, <1>3, <1>4 DEF SkillsTypeOK
<1>6. "error" \in Pcs BY DEF Pcs
<1>7. QED BY <1>4, <1>5, <1>6, StopKeeps DEF LoseWrite

LEMMA ReportKeeps ==
  ASSUME SkillsInv, NEW i \in DOMAIN installs, Report(i) \/ Fail(i)
  PROVE  SkillsInv'
<1>1. SkillsTypeOK BY DEF SkillsInv
<1>2. /\ disk' = disk /\ playbooks' = playbooks /\ late' = late
      /\ \E from \in {"asked", "working"}, how \in Pcs : Stop(i, from, how)
  BY DEF Report, Fail, Pcs
<1>3. late' \subseteq [by : DOMAIN installs, dir : Paths, at : PlaceType]
  BY <1>1, <1>2 DEF SkillsTypeOK
<1>4. QED BY <1>2, <1>3, StopKeeps

LEMMA ListTreeKeeps ==
  ASSUME SkillsInv, NEW i \in DOMAIN installs, ListTree(i)
  PROVE  SkillsInv'
<1>1. SkillsTypeOK BY DEF SkillsInv
<1>2. PICK o, items : o = installs[i] /\ items = Items(Trees[o.repo], o.sub, o.repo) OBVIOUS
<1>3. /\ o \in InstallType /\ o.repo \in DOMAIN Trees /\ items \in Seq(ItemType) /\ Len(items) <= Cap
      /\ \A n \in DOMAIN items : items[n].folder =>
           OwnOrNested(items[n], Trees[o.repo]) /\ Rels(o.repo, items[n].dir) = ToSet(items[n].files)
  BY <1>1, <1>2, InstallFields, ItemsFacts
<1>4. PICK r : r = [o EXCEPT !.pc = "working", !.items = items, !.sub = <<>>] OBVIOUS
<1>5. r \in InstallType /\ r.repo = o.repo /\ r.items = items
  <2>1. "working" \in Pcs /\ <<>> \in Paths BY DEF Pcs, Paths
  <2>2. QED BY <1>3, <1>4, <2>1 DEF InstallType
<1>6. Change(i, "asked", r) BY <1>2, <1>4 DEF ListTree
<1>7. Followed(i, r)
  <2>1. \A n \in DOMAIN r.items : r.items[n].folder =>
          OwnOrNested(r.items[n], Trees[r.repo])
            /\ \A f \in Rels(r.repo, r.items[n].dir) : f \in ToSet(r.items[n].files)
    BY <1>3, <1>5
  <2>2. QED BY <2>1 DEF Followed
<1>8. disk' = disk /\ late' = late /\ playbooks' = playbooks BY DEF ListTree
<1>9. Followed(i, r)'
  <2>1. Grown BY <1>1, <1>2, <1>3, <1>5, <1>6, <1>8, ChangeFacts, LogsSame DEF Grown
  <2>2. QED BY <1>7, <2>1, FollowedStays
<1>10. /\ disk' \in [DOMAIN disk' -> Seq(EntryType)]
       /\ late' \subseteq [by : DOMAIN installs, dir : Paths, at : PlaceType]
       /\ playbooks' \in
            [DOMAIN playbooks' -> [by : DOMAIN installs, item : ItemType, failed : SUBSET Paths]]
  BY <1>1, <1>8 DEF SkillsTypeOK
<1>11. "asked" # "error" OBVIOUS
<1>12. QED BY <1>2, <1>3, <1>5, <1>6, <1>8, <1>9, <1>10, <1>11, LogsSame, InstallKeeps

(***************************************************************************)
(* A playbook is stored once nothing of its folder is left to treat.       *)
(***************************************************************************)
LEMMA StoreKeeps ==
  ASSUME SkillsInv, NEW i \in DOMAIN installs, StorePlaybook(i)
  PROVE  SkillsInv'
<1>1. SkillsTypeOK /\ ItemsFollowed BY DEF SkillsInv
<1>2. PICK o, item : o = installs[i] /\ item = Item(i) OBVIOUS
<1>3. /\ o \in InstallType /\ o.items \in Seq(ItemType) /\ o.items # <<>> /\ Len(o.items) <= Cap
      /\ o.failed \subseteq Paths /\ item = o.items[1] /\ item.files = <<>> /\ item \in ItemType
  BY <1>1, <1>2, InstallFields DEF StorePlaybook, Item
<1>4. PICK r : r = [o EXCEPT !.items = Tail(o.items), !.failed = {}, !.found = TRUE] OBVIOUS
<1>5. /\ Tail(o.items) \in Seq(ItemType) /\ Len(Tail(o.items)) = Len(o.items) - 1
      /\ Len(o.items) \in Nat \ {0}
      /\ \A n \in 1..(Len(o.items) - 1) : Tail(o.items)[n] = o.items[n + 1]
  BY <1>3
<1>6. /\ r \in InstallType /\ r.repo = o.repo /\ r.items = Tail(o.items)
  BY <1>3, <1>4, <1>5 DEF InstallType
<1>7. Cap \in Nat /\ Len(r.items) <= Cap BY <1>3, <1>5, <1>6, SkillsAssumption
<1>8. Change(i, "working", r) BY <1>2, <1>4 DEF StorePlaybook, Stored
<1>9. /\ DOMAIN installs' = DOMAIN installs /\ installs'[i] = r /\ installs[i].pc = "working"
      /\ \A j \in DOMAIN installs : j # i => installs'[j] = installs[j]
  BY <1>1, <1>6, <1>7, <1>8, ChangeFacts
<1>10. disk' = disk /\ late' = late BY DEF StorePlaybook, Stored
<1>11. Grown BY <1>2, <1>6, <1>9, <1>10, LogsSame DEF Grown
<1>12. Followed(i, o) BY <1>1, <1>2 DEF ItemsFollowed
<1>13. Followed(i, r)
  <2> SUFFICES ASSUME NEW n \in DOMAIN r.items, r.items[n].folder
               PROVE  /\ OwnOrNested(r.items[n], Trees[r.repo])
                      /\ \A f \in Rels(r.repo, r.items[n].dir) : f \in ToSet(r.items[n].files)
    BY DEF Followed
  <2>1. n + 1 \in DOMAIN o.items /\ r.items[n] = o.items[n + 1] /\ n + 1 # 1
    BY <1>3, <1>5, <1>6
  <2>2. QED BY <1>6, <1>12, <2>1 DEF Followed
<1>14. Stands(i, item, item.key, o.failed)
  <2>1. 1 \in DOMAIN o.items BY <1>3
  <2>2. ToSet(item.files) = {} BY <1>3 DEF ToSet
  <2>3. QED BY <1>2, <1>3, <1>12, <2>1, <2>2 DEF Followed, Stands
<1>15. Followed(i, r)' /\ Stands(i, item, item.key, o.failed)'
  BY <1>11, <1>13, <1>14, FollowedStays, StandsStays
<1>16. PICK at, b : at = <<o.user, item.key>> /\ b = [by |-> i, item |-> item, failed |-> o.failed]
  OBVIOUS
<1>17. playbooks' = With(playbooks, at, b)
  BY <1>2, <1>16 DEF StorePlaybook, Stored
<1>18. /\ DOMAIN playbooks' = DOMAIN playbooks \cup {at} /\ playbooks'[at] = b
       /\ \A k \in DOMAIN playbooks : k # at => playbooks'[k] = playbooks[k]
       /\ playbooks' = [k \in DOMAIN playbooks' |-> playbooks'[k]]
  BY <1>17 DEF With
<1>19. playbooks' \in
         [DOMAIN playbooks' -> [by : DOMAIN installs, item : ItemType, failed : SUBSET Paths]]
  <2> DEFINE B == [by : DOMAIN installs, item : ItemType, failed : SUBSET Paths]
  <2>1. b \in B BY <1>3, <1>16
  <2>2. \A k \in DOMAIN playbooks : playbooks[k] \in B BY <1>1 DEF SkillsTypeOK
  <2> HIDE DEF B
  <2>3. \A k \in DOMAIN playbooks' : playbooks'[k] \in B BY <1>18, <2>1, <2>2
  <2>4. playbooks' \in [DOMAIN playbooks' -> B] BY <1>18, <2>3
  <2>5. QED BY <2>4 DEF B
<1>20. ASSUME NEW k \in DOMAIN playbooks'
       PROVE  \/ k \in DOMAIN playbooks /\ playbooks'[k] = playbooks[k]
              \/ Stands(playbooks[k].by, playbooks[k].item, k[2], playbooks[k].failed)'
  <2>1. CASE k = at
    <3>1. /\ playbooks'[k].by = i /\ playbooks'[k].item = item /\ playbooks'[k].failed = o.failed
          /\ k[2] = item.key
      BY <1>16, <1>18, <2>1
    <3>2. QED BY <1>15, <3>1
  <2>2. QED BY <1>18, <2>1
<1>21. /\ disk' \in [DOMAIN disk' -> Seq(EntryType)]
       /\ late' \subseteq [by : DOMAIN installs, dir : Paths, at : PlaceType]
  BY <1>1, <1>10 DEF SkillsTypeOK
<1>22. "working" # "error" OBVIOUS
<1>23. QED BY <1>2, <1>6, <1>7, <1>8, <1>10, <1>15, <1>19, <1>20, <1>21, <1>22, LogsSame, InstallKeeps

(***************************************************************************)
(* Installs go on as they were, with more of them or more on the disk.     *)
(***************************************************************************)
LEMMA OthersKeep ==
  ASSUME SkillsInv, installs' \in Seq(InstallType), Len(installs') <= MaxInstalls,
         DOMAIN installs \subseteq DOMAIN installs',
         \A j \in DOMAIN installs : installs'[j] = installs[j],
         \A j \in DOMAIN installs' \ DOMAIN installs :
           /\ Len(installs'[j].items) <= Cap
           /\ \A n \in DOMAIN installs'[j].items : ~installs'[j].items[n].folder,
         disk' \in [DOMAIN disk' -> Seq(EntryType)],
         \A at, e : e \in ToSet(Log(at)) => e \in ToSet(Log(at)'),
         late' \subseteq late, playbooks' = playbooks
  PROVE  SkillsInv'
<1>1. SkillsTypeOK /\ SkillDefectsBounded /\ QuietAfterReport /\ ItemsFollowed BY DEF SkillsInv
<1>2. Grown BY DEF Grown
<1>3. SkillsTypeOK'
  <2>1. Seq(EntryType) \subseteq Seq(EntryType')
    <3>1. EntryType \subseteq EntryType' BY DEF EntryType
    <3>2. QED BY <3>1, SeqMonotonic
  <2>2. disk' \in [DOMAIN disk' -> Seq(EntryType')] BY <2>1
  <2>3. QED BY <1>1, <2>2 DEF SkillsTypeOK
<1>4. SkillDefectsBounded'
  <2>1. ASSUME NEW k \in DOMAIN playbooks
        PROVE  Stands(playbooks[k].by, playbooks[k].item, k[2], playbooks[k].failed)'
    <3>1. PICK b, item, failed : b = playbooks[k].by /\ item = playbooks[k].item
                                   /\ failed = playbooks[k].failed
      OBVIOUS
    <3>2. b \in DOMAIN installs BY <1>1, <3>1 DEF SkillsTypeOK
    <3>3. Stands(b, item, k[2], failed) BY <1>1, <3>1, AllStand
    <3>4. Stands(b, item, k[2], failed)' BY <1>2, <3>2, <3>3, StandsStays
    <3>5. QED BY <3>1, <3>4
  <2>2. (\A k \in DOMAIN playbooks :
          Stands(playbooks[k].by, playbooks[k].item, k[2], playbooks[k].failed))'
    BY <2>1
  <2>3. QED BY <2>2, AllStand, PTL
<1>5. QuietAfterReport' BY <1>1 DEF QuietAfterReport, SkillsTypeOK
<1>6. ItemsFollowed'
  <2> SUFFICES ASSUME NEW j \in DOMAIN installs' PROVE Followed(j, installs[j])'
    BY DEF ItemsFollowed
  <2>1. CASE j \in DOMAIN installs
    <3>1. PICK s : s = installs[j] OBVIOUS
    <3>2. Followed(j, s) BY <1>1, <2>1, <3>1 DEF ItemsFollowed
    <3>3. Followed(j, s)' BY <1>2, <2>1, <3>2, FollowedStays
    <3>4. QED BY <2>1, <3>1, <3>3 DEF Followed
  <2>2. CASE j \notin DOMAIN installs BY <2>2 DEF Followed
  <2>3. QED BY <2>1, <2>2
<1>7. QED BY <1>3, <1>4, <1>5, <1>6 DEF SkillsInv

LEMMA LandKeeps ==
  ASSUME SkillsInv, NEW w \in late, Land(w)
  PROVE  SkillsInv'
<1>1. SkillsTypeOK BY DEF SkillsInv
<1>2. PICK at, e : at = w.at /\ e = [by |-> w.by, dir |-> w.dir] OBVIOUS
<1>3. e \in EntryType BY <1>1, <1>2 DEF SkillsTypeOK, EntryType
<1>4. disk' = With(disk, at, Append(Log(at), e)) BY <1>2 DEF Land
<1>5. /\ disk' \in [DOMAIN disk' -> Seq(EntryType)]
      /\ \A b, d : d \in ToSet(Log(b)) => d \in ToSet(Log(b)')
  BY <1>1, <1>3, <1>4, LogAppended
<1>6. installs' = installs /\ playbooks' = playbooks /\ late' \subseteq late BY DEF Land
<1>7. QED BY <1>1, <1>5, <1>6, OthersKeep DEF SkillsTypeOK

LEMMA AskKeeps ==
  ASSUME SkillsInv, NEW user \in Users, NEW form \in Forms, NEW repo \in DOMAIN Trees,
         NEW sub \in Subpaths, Ask(user, form, repo, sub)
  PROVE  SkillsInv'
<1>1. SkillsTypeOK BY DEF SkillsInv
<1> DEFINE kind == ParseSource(form)
           one == LooseItem(Append(sub, SkillMd), repo)
           items == IF kind = "raw" THEN <<one>> ELSE <<>>
           first == CASE kind = "raw" -> "working" [] kind = "junk" -> "bad_source"
                      [] OTHER -> "asked"
<1>2. sub \in Paths /\ repo \in Names /\ SkillMd \in Names /\ Cap \in Nat \ {0}
  BY TreesAssumption, SkillsAssumption
<1>3. one \in ItemType /\ ~one.folder
  <2>1. sub \in Seq(Names) BY <1>2 DEF Paths
  <2>2. Append(sub, SkillMd) \in Seq(Names) /\ Append(sub, SkillMd) # <<>> BY <1>2, <2>1
  <2>3. QED BY <1>2, <2>2, LooseItemFacts DEF Paths
<1> HIDE DEF one
<1>4. items \in Seq(ItemType) /\ Len(items) <= Cap /\ \A n \in DOMAIN items : ~items[n].folder
  BY <1>2, <1>3
<1>5. first \in Pcs BY DEF Pcs
<1> HIDE DEF items, first, kind
<1>6. PICK r : r = [user |-> user, repo |-> repo, sub |-> sub, failed |-> {}, found |-> FALSE,
                    pc |-> first, items |-> items]
  OBVIOUS
<1>7. r \in InstallType /\ r.items = items BY <1>2, <1>4, <1>5, <1>6 DEF InstallType
<1>8. installs' = Append(installs, r) /\ Len(installs) < MaxInstalls
  BY <1>6 DEF Ask, one, items, first, kind
<1>9. installs \in Seq(InstallType) BY <1>1 DEF SkillsTypeOK
<1>10. /\ installs' \in Seq(InstallType) /\ Len(installs') = Len(installs) + 1
       /\ DOMAIN installs' = 1..(Len(installs) + 1) /\ DOMAIN installs = 1..Len(installs)
       /\ \A j \in DOMAIN installs : installs'[j] = installs[j]
       /\ installs'[Len(installs) + 1] = r
  BY <1>7, <1>8, <1>9
<1>11. Len(installs') <= MaxInstalls BY <1>8, <1>9, <1>10, SkillsAssumption
<1>12. \A j \in DOMAIN installs' \ DOMAIN installs : j = Len(installs) + 1 BY <1>9, <1>10
<1>13. disk' = disk /\ playbooks' = playbooks /\ late' = late BY DEF Ask
<1>14. disk' \in [DOMAIN disk' -> Seq(EntryType)] BY <1>1, <1>13 DEF SkillsTypeOK
<1>15. \A j \in DOMAIN installs' \ DOMAIN installs :
         /\ Len(installs'[j].items) <= Cap
         /\ \A n \in DOMAIN installs'[j].items : ~installs'[j].items[n].folder
  BY <1>4, <1>7, <1>10, <1>12
<1>16. DOMAIN installs \subseteq DOMAIN installs' BY <1>9, <1>10
<1>17. QED BY <1>10, <1>11, <1>13, <1>14, <1>15, <1>16, LogsSame, OthersKeep

LEMMA SkillsInitInv ==
  ASSUME SkillsInit
  PROVE  SkillsInv
<1>1. installs = <<>> /\ DOMAIN installs = {} /\ disk = <<>> /\ DOMAIN disk = {}
      /\ playbooks = <<>> /\ DOMAIN playbooks = {} /\ late = {}
  BY DEF SkillsInit
<1>2. <<>> \in Seq(InstallType) /\ Len(<<>>) = 0 /\ MaxInstalls \in Nat BY SkillsAssumption
<1>3. SkillsTypeOK BY <1>1, <1>2 DEF SkillsTypeOK
<1>4. QED BY <1>1, <1>3
          DEF SkillsInv, SkillDefectsBounded, PlaybookOwnOrNested, CodeBeforePlaybook, Folders,
              QuietAfterReport, ItemsFollowed

LEMMA SkillsNextInv ==
  ASSUME SkillsInv, [SkillsNext]_skillsVars
  PROVE  SkillsInv'
<1>1. CASE UNCHANGED skillsVars
  <2>1. SkillsTypeOK BY DEF SkillsInv
  <2>2. installs' = installs /\ disk' = disk /\ playbooks' = playbooks /\ late' = late
    BY <1>1 DEF skillsVars
  <2>3. QED BY <2>1, <2>2, LogsSame, OthersKeep DEF SkillsTypeOK
<1>2. ASSUME NEW i \in DOMAIN installs, InstallStep(i) PROVE SkillsInv'
  BY <1>2, ListTreeKeeps, SkipBigKeeps, WriteFileKeeps, FailQuietlyKeeps, LoseWriteKeeps,
     StoreKeeps, ReportKeeps DEF InstallStep
<1>3. ASSUME NEW w \in late, Land(w) PROVE SkillsInv' BY <1>3, LandKeeps
<1>4. ASSUME NEW user \in Users, NEW form \in Forms, NEW repo \in DOMAIN Trees,
             NEW sub \in Subpaths, Ask(user, form, repo, sub)
      PROVE  SkillsInv'
  BY <1>4, AskKeeps
<1>5. QED BY <1>1, <1>2, <1>3, <1>4 DEF SkillsNext, SkillsRest

(***************************************************************************)
(* The inductive invariant of the installer: every file of the folder an   *)
(* install is at has been treated or is still to come.                     *)
(***************************************************************************)
THEOREM SkillsInvariance == SkillsSpec => []SkillsInv
<1>1. SkillsInit => SkillsInv BY SkillsInitInv
<1>2. SkillsInv /\ [SkillsNext]_skillsVars => SkillsInv' BY SkillsNextInv
<1>3. QED BY <1>1, <1>2, PTL DEF SkillsSpec

(***************************************************************************)
(* What is wrong with a stored playbook of a folder is bounded             *)
(* (SkillDefectsBounded), for any repositories, users and installs at      *)
(* once: another's is stored only if one further down sorts first, and of  *)
(* its code only what a command failed to write is missing.                *)
(***************************************************************************)
THEOREM SkillDefectsBoundedCorrect == SkillsSpec => []SkillDefectsBounded
<1>1. SkillsInv => SkillDefectsBounded BY DEF SkillsInv
<1>2. QED BY <1>1, SkillsInvariance, PTL

(***************************************************************************)
(* An install that reported writes nothing afterwards (QuietAfterReport).  *)
(***************************************************************************)
THEOREM QuietAfterReportCorrect == SkillsSpec => []QuietAfterReport
<1>1. SkillsInv => QuietAfterReport BY DEF SkillsInv
<1>2. QED BY <1>1, SkillsInvariance, PTL

-----------------------------------------------------------------------------
(***************************************************************************)
(* The sandbox of MCSandbox behaves as each of its parts does, whatever    *)
(* the others do.                                                          *)
(***************************************************************************)
THEOREM SandboxParts == MCSpec => Spec /\ FilesSpec /\ SkillsSpec
<1>1. MCInit => Init /\ FilesInit /\ SkillsInit
  BY DEF MCInit
<1>2. [MCNext]_sandboxVars => [Next]_vars /\ [FilesNext]_filesVars /\ [SkillsNext]_skillsVars
  BY DEF MCNext, Exec, sandboxVars
<1> QED BY <1>1, <1>2, PTL DEF MCSpec, Spec, FilesSpec, SkillsSpec

(***************************************************************************)
(* So it keeps the inductive invariants of the server, the files and the   *)
(* installs, for any calls, limits, files, repositories and crashes.       *)
(***************************************************************************)
THEOREM SandboxPartsInvariance == MCSpec => []PartsInv
<1>1. SInv /\ FilesInv /\ SkillsInv => PartsInv
  BY DEF PartsInv
<1> QED BY <1>1, SandboxParts, SandboxInvariance, FilesInvariance, SkillsInvariance, PTL

=============================================================================
