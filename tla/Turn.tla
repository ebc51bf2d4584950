-------------------------------- MODULE Turn --------------------------------
(***************************************************************************)
(* What happens in a turn (dispatch.py, handle_turn): the model requests   *)
(* of the agent and its subagents, which a small model, the decider, may   *)
(* precede (agent.py, _ToolSelector); the callbacks that add them up       *)
(* (metrics.py, TurnMetrics); and the images drawn on the way                *)
(* (tools/image.py).  Turns of several chats run at once.                  *)
(***************************************************************************)
EXTENDS Integers, Sequences, FiniteSets
LOCAL INSTANCE FiniteSetsExt

CONSTANTS MaxTurns, MaxRequests, MaxDrawings, MaxTime    \* bounds

ASSUME TurnAssumption == {MaxTurns, MaxRequests, MaxDrawings, MaxTime} \subseteq Nat

VARIABLES turns, requests, drawings,    \* each in the order they began
          time, rows                  \* metrics_llm
turnVars == <<turns, requests, drawings, time, rows>>

Request == [turn : 1..MaxTurns, pc : {"deciding", "main", "ended", "failed", "cancelled"},
            mains : Nat,      \* calls of the main model
            start : Nat, took : Nat]
Image == [turn : 1..MaxTurns, pc : {"drawing", "generated", "error", "cancelled"}]
Row == [turn : 1..MaxTurns, calls : Nat, seconds : Nat]

\* TurnMetrics (starts, skipped, calls, seconds) and the images for the reply.
Starts == UNION {[rs -> 0..MaxTime] : rs \in SUBSET (1..MaxRequests)}
TurnState == [pc : {"running", "replied", "failed"}, starts : Starts,
              skipped : SUBSET (1..MaxRequests), calls : Nat, seconds : Nat,
              box : SUBSET (1..MaxDrawings)]

TurnTypeOK ==
  /\ turns \in Seq(TurnState) /\ Len(turns) <= MaxTurns
  /\ requests \in Seq(Request) /\ Len(requests) <= MaxRequests
  /\ drawings \in Seq(Image) /\ Len(drawings) <= MaxDrawings
  /\ time \in 0..MaxTime /\ rows \subseteq Row

TurnInit == turns = <<>> /\ requests = <<>> /\ drawings = <<>> /\ time = 0 /\ rows = {}

Running == {t \in DOMAIN turns : turns[t].pc = "running"}

BeginTurn ==
  /\ Len(turns) < MaxTurns
  /\ turns' = Append(turns, [pc |-> "running", starts |-> [r \in {} |-> 0], skipped |-> {}, calls |-> 0,
                             seconds |-> 0, box |-> {}])
  /\ UNCHANGED <<requests, drawings, time, rows>>

-----------------------------------------------------------------------------
\* Requests.

Started(t, r) == [q \in DOMAIN turns[t].starts \cup {r} |->
                    IF q = r THEN time ELSE turns[t].starts[q]]
Popped(t, r) == [q \in DOMAIN turns[t].starts \ {r} |-> turns[t].starts[q]]

\* A request with a decision to make, or one without: no decider is configured,
\* or there is nothing to choose from.
BeginRequest(t, pc) ==
  LET r == Len(requests) + 1
  IN  /\ r <= MaxRequests
      /\ requests' = Append(requests, [turn |-> t, pc |-> pc, start |-> time, took |-> 0,
                                       mains |-> IF pc = "main" THEN 1 ELSE 0])
      /\ turns' = [turns EXCEPT ![t].starts = IF pc = "main" THEN Started(t, r) ELSE @,
                                ![t].skipped = IF pc = "main" THEN @ ELSE @ \cup {r}]
      /\ UNCHANGED <<drawings, time, rows>>

\* Mutant of CallMain: the decider's call is counted, too.
CallMainCounting(r, skipped) ==
  LET t == requests[r].turn
  IN  /\ requests' = [requests EXCEPT ![r].pc = "main", ![r].mains = @ + 1, ![r].start = time]
      /\ turns' = [turns EXCEPT ![t].starts = Started(t, r), ![t].calls = @ + 1]
      /\ UNCHANGED <<drawings, time, rows>>

CallMain(r, skipped) ==
  LET t == requests[r].turn
  IN  /\ requests' = [requests EXCEPT ![r].pc = "main", ![r].mains = @ + 1, ![r].start = time]
      /\ turns' = [turns EXCEPT ![t].starts = Started(t, r), ![t].skipped = skipped]
      /\ UNCHANGED <<drawings, time, rows>>

\* The decider answers, with tools that exist or not; in the second case the
\* middleware raises, and the main model gets every tool.
DeciderAnswers(r) ==
  requests[r].pc = "deciding" /\ CallMain(r, turns[requests[r].turn].skipped \ {r})

\* The decider fails: no callback, and every tool.
DeciderFails(r) == requests[r].pc = "deciding" /\ CallMain(r, turns[requests[r].turn].skipped)

\* Mutant of Elapsed: one start for all calls of the turn.
ElapsedShared(t, r) == time - Max({turns[t].starts[q] : q \in DOMAIN turns[t].starts})

\* Each call has a start of its own.
Elapsed(t, r) == time - turns[t].starts[r]

\* on_llm_end
MainAnswers(r) ==
  LET t == requests[r].turn
  IN  /\ requests[r].pc = "main"
      /\ requests' = [requests EXCEPT ![r].pc = "ended", ![r].took = time - requests[r].start]
      /\ turns' = [turns EXCEPT ![t].starts = Popped(t, r), ![t].calls = @ + 1,
                                ![t].seconds = @ + Elapsed(t, r)]
      /\ UNCHANGED <<drawings, time, rows>>

\* Mutant of MainFails: any error makes the main model start over with every tool.
MainStartsOver(r) ==
  requests[r].pc = "main" /\ CallMain(r, turns[requests[r].turn].skipped)

\* The error goes through, and no callback tells the metrics.
MainFails(r) ==
  /\ requests[r].pc = "main" /\ requests' = [requests EXCEPT ![r].pc = "failed"]
  /\ UNCHANGED <<turns, drawings, time, rows>>

-----------------------------------------------------------------------------
\* Images.

Draw(t) ==
  /\ Len(drawings) < MaxDrawings
  /\ drawings' = Append(drawings, [turn |-> t, pc |-> "drawing"])
  /\ UNCHANGED <<turns, requests, time, rows>>

\* Mutant of Outbox: a variable of the module instead of the context.
OutboxShared(t) == Max(Running)

\* Tools and subagents inherit the context of their turn.
Outbox(t) == t

ImageArrives(i) ==
  /\ drawings[i].pc = "drawing" /\ drawings' = [drawings EXCEPT ![i].pc = "generated"]
  /\ turns' = [turns EXCEPT ![Outbox(drawings[i].turn)].box = @ \cup {i}]
  /\ UNCHANGED <<requests, time, rows>>

ImageFails(i) ==
  /\ drawings[i].pc = "drawing" /\ drawings' = [drawings EXCEPT ![i].pc = "error"]
  /\ UNCHANGED <<turns, requests, time, rows>>

-----------------------------------------------------------------------------
\* The end of a turn.

Busy(t) == \/ \E r \in DOMAIN requests : requests[r].turn = t /\ requests[r].pc \in {"deciding", "main"}
           \/ \E i \in DOMAIN drawings : drawings[i].turn = t /\ drawings[i].pc = "drawing"

\* The agent is through; its row may fail to be written, the reply does not.
Answered(t) ==
  /\ ~Busy(t) /\ turns' = [turns EXCEPT ![t].pc = "replied"]
  /\ \/ UNCHANGED rows
     \/ rows' = rows \cup {[turn |-> t, calls |-> turns[t].calls, seconds |-> turns[t].seconds]}
  /\ UNCHANGED <<requests, drawings, time>>

\* An error, the ceiling or a cancellation: what still runs is cancelled.
TurnFails(t) ==
  /\ turns' = [turns EXCEPT ![t].pc = "failed"]
  /\ requests' = [r \in DOMAIN requests |->
       IF requests[r].turn = t /\ requests[r].pc \in {"deciding", "main"}
       THEN [requests[r] EXCEPT !.pc = "cancelled"] ELSE requests[r]]
  /\ drawings' = [i \in DOMAIN drawings |->
       IF drawings[i].turn = t /\ drawings[i].pc = "drawing"
       THEN [drawings[i] EXCEPT !.pc = "cancelled"] ELSE drawings[i]]
  /\ UNCHANGED <<time, rows>>

TimePasses ==
  /\ time < MaxTime /\ time' = time + 1 /\ UNCHANGED <<turns, requests, drawings, rows>>

TurnsRest == Len(turns) = MaxTurns /\ Running = {} /\ UNCHANGED turnVars

TurnNext ==
  \/ BeginTurn \/ TimePasses \/ TurnsRest
  \/ \E t \in Running : \/ Draw(t) \/ Answered(t) \/ TurnFails(t)
                        \/ \E pc \in {"deciding", "main"} : BeginRequest(t, pc)
  \/ \E r \in DOMAIN requests :
       DeciderAnswers(r) \/ DeciderFails(r) \/ MainAnswers(r) \/ MainFails(r)
  \/ \E i \in DOMAIN drawings : ImageArrives(i) \/ ImageFails(i)

TurnSpec == TurnInit /\ [][TurnNext]_turnVars

-----------------------------------------------------------------------------
\* Properties.

(***************************************************************************)
(* The main model is called once for a request at most, and a request only *)
(* fails by its main call failing: a decider never costs a reply, and a    *)
(* long generation is never started over (agent.py:66-67, 79-81).          *)
(***************************************************************************)
OneMainCall ==
  \A r \in DOMAIN requests :
    /\ requests[r].mains <= 1
    /\ requests[r].pc \in {"ended", "failed"} => requests[r].mains = 1

(***************************************************************************)
(* The row of a turn counts the main calls of that turn that came to an    *)
(* end, and their own durations, however calls of it and of other turns    *)
(* overlapped, and whichever failed on the way.                            *)
(***************************************************************************)
HasEnded(t) == {r \in DOMAIN requests : requests[r].turn = t /\ requests[r].pc = "ended"}

\* What each request adds to the turn's seconds, and the sum of a sequence.
Durations(t) == [r \in DOMAIN requests |-> IF r \in HasEnded(t) THEN requests[r].took ELSE 0]
Total(s) ==
  LET upTo[n \in 0..Len(s)] == IF n = 0 THEN 0 ELSE upTo[n - 1] + s[n] IN upTo[Len(s)]

RowIsTurn ==
  \A row \in rows :
    /\ row.calls = Cardinality(HasEnded(row.turn))
    /\ row.seconds = Total(Durations(row.turn))

(***************************************************************************)
(* The images attached to a reply are those its own turn was told of, all  *)
(* of them, whatever turns ran beside it.                                  *)
(***************************************************************************)
ImagesOwn ==
  \A t \in DOMAIN turns :
    turns[t].box = {i \in DOMAIN drawings : drawings[i].turn = t /\ drawings[i].pc = "generated"}

\* Both: what is told of a turn is what happened in it.
TurnsApart == RowIsTurn /\ ImagesOwn

-----------------------------------------------------------------------------
(***************************************************************************)
(* The inductive invariant.  A request counts once, when it ends, with the *)
(* start that the metrics kept for it; a turn that is over has nothing     *)
(* under way, so what was recorded of it stays so.                         *)
(***************************************************************************)
CallsCounted ==
  \A r \in DOMAIN requests :
    LET q == requests[r]
    IN  /\ q.turn \in DOMAIN turns
        /\ q.pc = "deciding" => q.mains = 0
        /\ q.pc = "main" => /\ q.mains = 1
                            /\ r \in DOMAIN turns[q.turn].starts
                            /\ turns[q.turn].starts[r] = q.start /\ q.start <= time

MetricsOwn ==
  \A t \in DOMAIN turns :
    /\ turns[t].calls = Cardinality(HasEnded(t))
    /\ turns[t].seconds = Total(Durations(t))

OverIsOver ==
  /\ \A t \in DOMAIN turns \ Running : ~Busy(t)
  /\ \A row \in rows :
       /\ row.turn \in DOMAIN turns \ Running
       /\ row.calls = turns[row.turn].calls /\ row.seconds = turns[row.turn].seconds
  /\ \A i \in DOMAIN drawings : drawings[i].turn \in DOMAIN turns

\* All of it: what every step of a turn keeps.
TurnInv ==
  TurnTypeOK /\ OneMainCall /\ ImagesOwn /\ CallsCounted /\ MetricsOwn /\ OverIsOver
=============================================================================
