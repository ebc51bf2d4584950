------------------------------ MODULE SandboxExec ------------------------------
(***************************************************************************)
(* The sandbox server, exec_server.py, and the clients that wait for it:   *)
(* SandboxBackend.aexecute and the skill installer's _default_run_cmd.     *)
(*                                                                         *)
(* Each request has a handler thread, which runs the command as a shell in *)
(* a process group of its own, kills the group at a limit and returns what *)
(* was written to a temporary file.  The shell may leave a process behind  *)
(* that goes on writing to that file: all writers and the handler share    *)
(* one file offset.  The file is a sequence of the numbers of the writes   *)
(* it holds; stderr has a file like it and is left out.                    *)
(*                                                                         *)
(* Time is an integer.  Lag bounds how late a thread gets to act.          *)
(***************************************************************************)
EXTENDS Integers, Sequences

CONSTANTS Calls,
          Asks,        \* timeouts a caller may request; 0 is None
          Timeout,     \* SANDBOX_TIMEOUT, the same value on both sides
          MaxTimeout,  \* SANDBOX_MAX_TIMEOUT
          Slack,       \* the client's 15 seconds on top
          InstallerPatience,  \* the installer's 60 seconds
          Lag,
          MaxOutput,
          MaxWrites,   \* bound on writes of one command
          MaxSend,     \* bound: the last instant a request is sent
          MaxCrashes   \* bound on restarts of the container

ASSUME SandboxAssumption ==
  /\ Asks \subseteq Nat /\ 0 \in Asks
  /\ Timeout \in Nat \ {0} /\ MaxTimeout \in Nat \ {0}
  /\ Slack \in Nat /\ InstallerPatience \in Nat /\ Lag \in Nat
  /\ 3 * Lag < Slack
  /\ MaxOutput \in Nat
  /\ MaxWrites \in Nat /\ MaxSend \in Nat /\ MaxCrashes \in Nat

VARIABLES clock, calls, crashes
vars == <<clock, calls, crashes>>

(***************************************************************************)
(* pc: sent - on its way to a handler; runs - the handler waits for the    *)
(* shell; expired - the limit is reached; exited - the shell is gone;      *)
(* measured - the size is known and the offset is back at the start;       *)
(* read - the reply is on its way.                                         *)
(***************************************************************************)
Pc == {"idle", "sent", "runs", "expired", "exited", "measured", "read", "over"}
Callers == {"backend", "installer"}
Files == Seq(Nat)     \* the writes a file holds
Written == 0..MaxWrites
Ends == {"answered", "error", "gaveup", "cancelled"}

Call == [pc : Pc,
         caller : Callers,
         ask : Asks,
         client : {"waiting"} \cup Ends,
         sent : Nat,                  \* when the client sent it
         started : Nat,               \* when the shell started
         due : Nat,                   \* when the handler acts, at the latest
         shell : BOOLEAN,             \* the shell runs
         kid : BOOLEAN,               \* the process it put in the background runs
         detached : BOOLEAN,          \* ... in a session of its own
         out : Files,                 \* the file
         offset : Nat,
         writes : Written,            \* writes so far
         own : SUBSET Written,        \* those of the shell itself
         size : Nat,
         outlived : BOOLEAN,          \* the kid ran when the file was measured
         timedOut : BOOLEAN,
         text : Files]                \* what the handler read

TypeOK ==
  /\ clock \in Nat /\ calls \in [Calls -> Call] /\ crashes \in 0..MaxCrashes

NoCall == [pc |-> "idle", caller |-> "backend", ask |-> 0, client |-> "waiting",
           sent |-> 0, started |-> 0, due |-> 0, shell |-> FALSE, kid |-> FALSE,
           detached |-> FALSE, out |-> <<>>, offset |-> 0, writes |-> 0, own |-> {},
           size |-> 0, outlived |-> FALSE, timedOut |-> FALSE, text |-> <<>>]

Init == clock = 0 /\ calls = [c \in Calls |-> NoCall] /\ crashes = 0

-----------------------------------------------------------------------------
Least(a, b) == IF a <= b THEN a ELSE b

\* `or`: a caller that asks for nothing gets the default.
OrDefault(ask) == IF ask = 0 THEN Timeout ELSE ask

\* Mutant of Limit: requests are ignored.
LimitDefault(ask) == Least(Timeout, MaxTimeout)

Limit(ask) == Least(OrDefault(ask), MaxTimeout)

\* Mutant of Patience: the client waits as long as the command may run.
PatienceTight(caller, ask) == IF caller = "backend" THEN OrDefault(ask) ELSE InstallerPatience

\* How long a client waits for the first byte of an answer.
Patience(caller, ask) == IF caller = "backend" THEN OrDefault(ask) + Slack
                                               ELSE InstallerPatience

Active == {c \in Calls : calls[c].pc \notin {"idle", "over"}}

\* Every step but Tick and Crash is a step of one request.
Step(c, from, changes) ==
  /\ calls[c].pc \in from
  /\ calls' = [calls EXCEPT ![c] = changes]
  /\ UNCHANGED <<clock, crashes>>

Told(c, how) == IF calls[c].client = "waiting" THEN how ELSE calls[c].client

\* A client posts a command; only the backend passes a timeout on.
Send(c, caller, ask) ==
  /\ clock <= MaxSend
  /\ caller = "installer" => ask = 0
  /\ Step(c, {"idle"}, [NoCall EXCEPT !.pc = "sent", !.caller = caller, !.ask = ask,
                                      !.sent = clock, !.due = clock + Lag])

\* _run up to Popen.
Start(c) ==
  Step(c, {"sent"}, [calls[c] EXCEPT !.pc = "runs", !.shell = TRUE, !.started = clock,
                                     !.due = clock + Limit(calls[c].ask) + Lag])

\* No thread or shell can be started, which the processes that other commands
\* left behind (pids_limit) may bring about any time: the connection closes.
Refuse(c) ==
  Step(c, {"sent"}, [calls[c] EXCEPT !.pc = "over", !.client = Told(c, "error")])

-----------------------------------------------------------------------------
\* The command.

WriteAt(r, byShell) ==
  LET n == r.writes + 1
  IN  [r EXCEPT !.writes = n, !.offset = @ + 1,
                !.own = IF byShell THEN @ \cup {n} ELSE @,
                !.out = IF r.offset < Len(@) THEN [@ EXCEPT ![r.offset + 1] = n]
                                             ELSE Append(@, n)]

ShellWrites(c) == /\ calls[c].shell /\ calls[c].writes < MaxWrites
                  /\ Step(c, Pc, WriteAt(calls[c], TRUE))

KidWrites(c) == /\ calls[c].kid /\ calls[c].writes < MaxWrites
                /\ Step(c, Pc, WriteAt(calls[c], FALSE))

\* `command &`, or the same with setsid.
Background(c, detached) ==
  /\ calls[c].shell /\ ~calls[c].kid
  /\ Step(c, Pc, [calls[c] EXCEPT !.kid = TRUE, !.detached = detached])

KidEnds(c) == calls[c].kid /\ Step(c, Pc, [calls[c] EXCEPT !.kid = FALSE])

ShellEnds(c) ==
  /\ calls[c].shell
  /\ Step(c, Pc, [calls[c] EXCEPT !.shell = FALSE, !.due = Least(@, clock + Lag)])

-----------------------------------------------------------------------------
\* The handler.

\* Mutant of WaitReturns: the output is a pipe, read until every writer is gone.
WaitForPipe(c) ==
  /\ ~calls[c].shell /\ ~calls[c].kid
  /\ Step(c, {"runs"}, [calls[c] EXCEPT !.pc = "exited"])

\* proc.wait returns.
WaitReturns(c) == ~calls[c].shell /\ Step(c, {"runs"}, [calls[c] EXCEPT !.pc = "exited"])

\* proc.wait raises TimeoutExpired.
Expire(c) ==
  /\ calls[c].shell /\ clock >= calls[c].started + Limit(calls[c].ask)
  /\ Step(c, {"runs"}, [calls[c] EXCEPT !.pc = "expired", !.timedOut = TRUE,
                                        !.due = clock + Lag])

\* Mutant of KillGroup: proc.kill, which reaches the shell alone.
KillShell(c) ==
  Step(c, {"expired"}, [calls[c] EXCEPT !.pc = "exited", !.shell = FALSE])

\* killpg, and the wait for the shell, which has no choice.
KillGroup(c) ==
  Step(c, {"expired"}, [calls[c] EXCEPT !.pc = "exited", !.shell = FALSE,
                                        !.kid = @ /\ calls[c].detached])

\* Mutant of Measure: the handler does not go back to the start.
MeasureOnly(c) ==
  Step(c, {"exited"}, [calls[c] EXCEPT !.pc = "measured", !.size = Len(calls[c].out),
                                       !.outlived = calls[c].kid])

\* _read_clipped: the size, and back to the start of the file.
Measure(c) ==
  Step(c, {"exited"}, [calls[c] EXCEPT !.pc = "measured", !.size = Len(calls[c].out),
                                       !.offset = 0, !.outlived = calls[c].kid])

\* ... and the read, from wherever the offset is by now.
ReadOut(c) ==
  LET r == calls[c]
      end == Least(Len(r.out), r.offset + MaxOutput)
  IN  Step(c, {"measured"}, [r EXCEPT !.pc = "read", !.offset = end,
                                      !.text = SubSeq(r.out, r.offset + 1, end)])

Reply(c) ==
  Step(c, {"read"}, [calls[c] EXCEPT !.pc = "over", !.client = Told(c, "answered")])

-----------------------------------------------------------------------------
\* The client's read timeout; the turn's own ceiling cancels the request.
GiveUp(c) ==
  /\ calls[c].client = "waiting" /\ clock >= calls[c].sent + Patience(calls[c].caller, calls[c].ask)
  /\ Step(c, Pc \ {"idle"}, [calls[c] EXCEPT !.client = "gaveup"])

Cancel(c) ==
  /\ calls[c].client = "waiting"
  /\ Step(c, Pc \ {"idle"}, [calls[c] EXCEPT !.client = "cancelled"])

\* The container is restarted: every process in it dies, connections break.
Crash ==
  /\ crashes < MaxCrashes /\ crashes' = crashes + 1
  /\ calls' = [c \in Calls |-> IF c \in Active
                 THEN [calls[c] EXCEPT !.pc = "over", !.client = Told(c, "error"),
                                       !.shell = FALSE, !.kid = FALSE]
                 ELSE [calls[c] EXCEPT !.kid = FALSE]]
  /\ UNCHANGED clock

Tick ==
  /\ Active # {} \/ clock < MaxSend
  /\ \A c \in Active : clock < calls[c].due
  /\ clock' = clock + 1
  /\ UNCHANGED <<calls, crashes>>

\* Nothing is asked any more.
Rest == Active = {} /\ clock >= MaxSend /\ UNCHANGED vars

Handle(c) == \/ Start(c) \/ Refuse(c) \/ WaitReturns(c) \/ Expire(c) \/ KillGroup(c)
             \/ Measure(c) \/ ReadOut(c) \/ Reply(c)

Command(c) == \/ ShellWrites(c) \/ KidWrites(c) \/ KidEnds(c) \/ ShellEnds(c)
              \/ \E d \in BOOLEAN : Background(c, d)

Client(c) == \/ GiveUp(c) \/ Cancel(c)
             \/ \E caller \in Callers, ask \in Asks : Send(c, caller, ask)

Next == \/ \E c \in Calls : Handle(c) \/ Command(c) \/ Client(c)
        \/ Crash \/ Tick \/ Rest

Spec == Init /\ [][Next]_vars

\* Threads are scheduled and time passes; commands need not do anything.
FairSpec == Spec /\ WF_vars(Tick) /\ \A c \in Calls : WF_vars(Handle(c))

-----------------------------------------------------------------------------
\* Properties.

(***************************************************************************)
(* The server's own limit wins the race against the client's: a backend    *)
(* client gives up on no command, whatever timeout was asked for           *)
(* (backend_sandbox.py:68-69).                                             *)
(***************************************************************************)
CleanTimeout ==
  \A c \in Calls : calls[c].caller = "backend" => calls[c].client # "gaveup"

(***************************************************************************)
(* Whatever a caller asks for, no shell runs longer than MAX_TIMEOUT, but  *)
(* for the time a thread takes to kill it.                                 *)
(***************************************************************************)
Ceiling ==
  \A c \in Calls :
    calls[c].shell => clock <= calls[c].started + MaxTimeout + 2 * Lag

(***************************************************************************)
(* Unless a process the command left behind was still running, an answer   *)
(* is everything the command wrote, in order, up to MAX_OUTPUT, and the    *)
(* notice about the rest counts what is missing.                           *)
(***************************************************************************)
Count(n) == [i \in 1..n |-> i]
Complete(r) == r.text = Count(Least(r.writes, MaxOutput)) /\ r.size = r.writes
AnswerFaithful ==
  \A c \in Calls :
    calls[c].client = "answered" /\ ~calls[c].outlived => Complete(calls[c])

(***************************************************************************)
(* A command that was timed out leaves nothing of its group behind: what   *)
(* outlives it is in a session of its own.                                 *)
(***************************************************************************)
KilledAll ==
  \A c \in Calls :
    calls[c].timedOut /\ calls[c].kid /\ calls[c].pc # "expired" => calls[c].detached

(***************************************************************************)
(* Every request comes to an end, however the command behaves and whatever *)
(* it leaves behind.                                                       *)
(***************************************************************************)
EveryCallEnds == \A c \in Calls : (calls[c].pc = "sent") ~> (calls[c].pc = "over")

(***************************************************************************)
(* An answer holds what the shell itself wrote, also when a process it put *)
(* in the background goes on (test_exec_server.py:22-26).                  *)
(***************************************************************************)
StartReturned ==
  \A c \in Calls : calls[c].client = "answered" =>
    \A i \in calls[c].own : i <= MaxOutput =>
      i \in DOMAIN calls[c].text /\ calls[c].text[i] = i

-----------------------------------------------------------------------------
\* The inductive invariant, request by request.

\* The handler is never late by more than Lag at each of three points.
Timely(t, r) ==
  /\ r.pc \notin {"idle", "over"} => t <= r.due
  /\ r.pc = "idle" => r.client = "waiting"
  /\ r.pc = "over" => r.client # "waiting"
  /\ r.pc = "sent" => r.due <= r.sent + Lag
  /\ r.pc \in {"runs", "expired"} => r.started <= r.sent + Lag
  /\ r.pc = "runs" => r.due <= r.started + Limit(r.ask) + Lag
  /\ r.pc = "expired" => r.due <= r.started + Limit(r.ask) + 2 * Lag
  /\ r.pc \in {"exited", "measured", "read"} => r.due <= r.sent + Limit(r.ask) + 3 * Lag
  /\ r.shell => r.pc \in {"runs", "expired"}
  /\ r.pc = "expired" => r.timedOut
  /\ r.pc \in {"idle", "sent"} => ~r.kid /\ ~r.timedOut
  /\ r.timedOut => r.pc # "runs"

\* The file is what was written while nobody has moved the offset; once it was
\* moved, that holds as long as nobody is left to write.
Untouched(r) == r.offset = r.writes /\ r.out = Count(r.writes)
Alone(r) == ~r.kid /\ ~r.shell /\ r.size = r.writes
Recorded(r) ==
  /\ r.pc \in {"sent", "runs", "expired", "exited"} => Untouched(r)
  /\ r.pc = "measured" /\ ~r.outlived => Alone(r) /\ r.offset = 0 /\ r.out = Count(r.writes)
  /\ r.pc = "read" /\ ~r.outlived => Alone(r) /\ Complete(r)
  /\ r.client = "answered" => r.pc = "over"
  /\ r.client = "answered" /\ ~r.outlived => Alone(r) /\ Complete(r)

Sound(t, r) ==
  /\ r \in Call /\ Timely(t, r) /\ Recorded(r)
  /\ r.timedOut /\ r.kid /\ r.pc # "expired" => r.detached
  /\ r.caller = "backend" => r.client # "gaveup"

SInv == TypeOK /\ \A c \in Calls : Sound(clock, calls[c])
=============================================================================
