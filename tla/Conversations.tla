---------------------------- MODULE Conversations ----------------------------
(***************************************************************************)
(* A chat's conversation: threads.py, dispatch.handle_turn and the order   *)
(* in which the adapters and the scheduler run turns.                      *)
(*                                                                         *)
(* A chat has an epoch in table chat_threads; /reset increments it.  A     *)
(* turn reads the epoch, which names the checkpointer's thread, loads the  *)
(* newest checkpoint of that thread and runs the agent, which saves a      *)
(* checkpoint of its input and of every step it takes: each extends what   *)
(* the turn loaded.  Telegram hands one update at a time to its            *)
(* handlers, for all chats of the bot; discord.py starts a task per        *)
(* message; a scheduled job is a task of its own on either platform.       *)
(*                                                                         *)
(* Events are numbered in the order they arrive.                           *)
(***************************************************************************)
EXTENDS Integers, Sequences, FiniteSets

CONSTANTS Chats,
          Serial,      \* the Telegram chats
          JobChats,    \* chats that have scheduled jobs
          MaxEvents,   \* bound on messages, resets and jobs together
          MaxCrashes   \* bound on restarts of the process

ASSUME ConversationsAssumption ==
  /\ Serial \subseteq Chats /\ JobChats \subseteq Chats
  /\ MaxEvents \in Nat /\ MaxCrashes \in Nat

VARIABLES epoch,    \* table chat_threads, NoRow where a chat has no row
          saved,    \* the newest checkpoint of each thread
          log,      \* the events and how far each has come
          crashes

vars == <<epoch, saved, log, crashes>>

NoRow == -1
Epochs == 0..MaxEvents

\* A conversation is a set of messages: what an event asked, with the steps the
\* agent has taken on it, and the answer.
Part    == {"asked", "answer"}
History == SUBSET ((1..MaxEvents) \X Part)

(***************************************************************************)
(* queued  - in the bot's update queue                                     *)
(* called  - its handler runs (Discord: the typing request is under way)   *)
(* keyed   - the turn has its thread id                                    *)
(* loaded  - the agent has the checkpoint it starts from                   *)
(* working - it has saved a checkpoint of its own                          *)
(* ended   - the handler has something to send                             *)
(* replied, unsent, lost - how an event ends                               *)
(***************************************************************************)
Waiting  == {"queued", "called", "keyed"}
UnderWay == {"loaded", "working"}
Over     == {"replied", "unsent", "lost"}
Stage    == Waiting \cup UnderWay \cup {"ended"} \cup Over

Event == [chat : Chats, kind : {"message", "reset", "job"}, pc : Stage,
          thread : Epochs \cup {NoRow},     \* the epoch the turn read
          saw : History,                    \* the checkpoint it loaded
          beside : SUBSET (1..MaxEvents),   \* turns under way in its thread then
          ok : BOOLEAN,                     \* the agent answered, the reset is stored
          after : SUBSET (1..MaxEvents),    \* events replied to when it arrived
          cut : SUBSET (1..MaxEvents)]      \* a reset's: turns keyed before it

TypeOK ==
  /\ epoch \in [Chats -> Epochs \cup {NoRow}]
  /\ saved \in [Chats \X Epochs -> History]
  /\ log \in Seq(Event) /\ Len(log) <= MaxEvents
  /\ crashes \in 0..MaxCrashes

Init ==
  /\ epoch = [c \in Chats |-> NoRow]
  /\ saved = [t \in Chats \X Epochs |-> {}]
  /\ log = <<>>
  /\ crashes = 0

-----------------------------------------------------------------------------
Events == 1..Len(log)
IsTurn(e) == log[e].kind # "reset"
OfChat(c) == {e \in Events : log[e].chat = c}
Serialized(e) == log[e].chat \in Serial /\ log[e].kind # "job"

\* The bot fetched a message or a /reset.
Arrive(c, kind) ==
  /\ Len(log) < MaxEvents
  /\ log' = Append(log, [chat |-> c, kind |-> kind,
                         pc |-> IF c \in Serial /\ kind # "job" THEN "queued" ELSE "called",
                         thread |-> NoRow, saw |-> {}, beside |-> {}, ok |-> FALSE,
                         after |-> {e \in OfChat(c) : log[e].pc = "replied"},
                         cut |-> {}])
  /\ UNCHANGED <<epoch, saved, crashes>>

\* The scheduler starts a job's task (Scheduler!StartTurn).
FireJob(c) == c \in JobChats /\ Arrive(c, "job")

\* Mutants of Take: updates handled concurrently, and an update that waits for
\* the reply to every earlier one.
TakeAnytime(e) ==
  /\ log[e].pc = "queued"
  /\ log' = [log EXCEPT ![e].pc = "called"]
  /\ UNCHANGED <<epoch, saved, crashes>>

TakeAfterReplies(e) ==
  /\ log[e].pc = "queued"
  /\ \A f \in 1..(e - 1) : Serialized(f) => log[f].pc = "replied"
  /\ log' = [log EXCEPT ![e].pc = "called"]
  /\ UNCHANGED <<epoch, saved, crashes>>

\* Telegram: the next update is taken when the handler of the last returned.
Take(e) ==
  /\ log[e].pc = "queued"
  /\ \A f \in Events : f # e /\ Serialized(f) =>
       log[f].pc \in Over \/ (f > e /\ log[f].pc = "queued")
  /\ log' = [log EXCEPT ![e].pc = "called"]
  /\ UNCHANGED <<epoch, saved, crashes>>

Keyed(c) == {e \in OfChat(c) : IsTurn(e) /\ log[e].thread # NoRow}

\* Mutant of Reset: the row is deleted, to be inserted anew by the next turn.
ResetDeletes(e) ==
  /\ log[e].kind = "reset" /\ log[e].pc = "called"
  /\ epoch' = [epoch EXCEPT ![log[e].chat] = NoRow]
  /\ log' = [log EXCEPT ![e].pc = "ended", ![e].ok = TRUE, ![e].cut = Keyed(log[e].chat)]
  /\ UNCHANGED <<saved, crashes>>

\* threads.reset: one upsert, the first of a chat inserting epoch 1.
Reset(e) ==
  /\ log[e].kind = "reset" /\ log[e].pc = "called"
  /\ LET c == log[e].chat
     IN  /\ epoch' = [epoch EXCEPT ![c] = IF @ = NoRow THEN 1 ELSE @ + 1]
         /\ log' = [log EXCEPT ![e].pc = "ended", ![e].ok = TRUE, ![e].cut = Keyed(c)]
  /\ UNCHANGED <<saved, crashes>>

(***************************************************************************)
(* threads.thread_id.  Its INSERT ... ON CONFLICT DO NOTHING changes only  *)
(* a missing row, so nothing can tell it from one step with the SELECT.    *)
(***************************************************************************)
ThreadId(e) ==
  /\ IsTurn(e) /\ log[e].pc = "called"
  /\ LET c == log[e].chat
         stored == IF epoch[c] = NoRow THEN 0 ELSE epoch[c]
     IN  /\ epoch' = [epoch EXCEPT ![c] = stored]
         /\ log' = [log EXCEPT ![e].pc = "keyed", ![e].thread = stored]
  /\ UNCHANGED <<saved, crashes>>

Thread(e) == <<log[e].chat, log[e].thread>>

Running(t) == {f \in Events : log[f].pc \in UnderWay /\ Thread(f) = t}

\* ainvoke loads the newest checkpoint of the thread.
LoadThread(e) ==
  /\ log[e].pc = "keyed"
  /\ log' = [log EXCEPT ![e].pc = "loaded", ![e].saw = saved[Thread(e)],
                        ![e].beside = Running(Thread(e))]
  /\ UNCHANGED <<epoch, saved, crashes>>

Save(e, history) == saved' = [saved EXCEPT ![Thread(e)] = history]

\* It saves a checkpoint of the input, and one more with every step of the agent:
\* what the turn loaded and its own, not what the thread holds by now.
Checkpoint(e) ==
  /\ log[e].pc \in UnderWay
  /\ log' = [log EXCEPT ![e].pc = "working"]
  /\ Save(e, log[e].saw \cup {<<e, "asked">>})
  /\ UNCHANGED <<epoch, crashes>>

Concludes(e) ==
  /\ log[e].pc = "working"
  /\ log' = [log EXCEPT ![e].pc = "ended", ![e].ok = TRUE]
  /\ UNCHANGED <<epoch, crashes>>

\* Mutants of Answer: the thread keeps the last exchange only, and the answer is
\* saved in the thread the chat has by now.
AnswerAlone(e) == Concludes(e) /\ Save(e, {e} \X Part)

AnswerInNewest(e) ==
  /\ Concludes(e)
  /\ saved' = [saved EXCEPT ![<<log[e].chat, epoch[log[e].chat]>>] =
                  log[e].saw \cup ({e} \X Part)]

\* The last checkpoint of the turn has the answer.
Answer(e) == Concludes(e) /\ Save(e, log[e].saw \cup ({e} \X Part))

\* handle_turn raises (database, model, hard timeout): an error text is sent.
\* A failed reset is only logged.
Fail(e) ==
  /\ log[e].pc \in {"called", "keyed"} \cup UnderWay
  /\ log' = [log EXCEPT ![e].pc = IF IsTurn(e) THEN "ended" ELSE "unsent"]
  /\ UNCHANGED <<epoch, saved, crashes>>

\* The reply goes out, or sending raises and the handler ends without it.
Reply(e) ==
  /\ log[e].pc = "ended"
  /\ \E pc \in {"replied", "unsent"} : log' = [log EXCEPT ![e].pc = pc]
  /\ UNCHANGED <<epoch, saved, crashes>>

\* Updates fetched and tasks begun go with the process; tables stay.
Crash ==
  /\ crashes < MaxCrashes
  /\ crashes' = crashes + 1
  /\ log' = [e \in Events |->
               IF log[e].pc \in Over THEN log[e] ELSE [log[e] EXCEPT !.pc = "lost"]]
  /\ UNCHANGED <<epoch, saved>>

Handle(e) ==
  \/ Take(e) \/ Reset(e) \/ ThreadId(e) \/ LoadThread(e) \/ Checkpoint(e) \/ Answer(e)
  \/ Fail(e) \/ Reply(e)

\* Nobody writes for now.
Quiet == (\A e \in Events : log[e].pc \in Over) /\ UNCHANGED vars

Next ==
  \/ \E c \in Chats : Arrive(c, "message") \/ Arrive(c, "reset") \/ FireJob(c)
  \/ \E e \in Events : Handle(e)
  \/ Crash
  \/ Quiet

Spec == Init /\ [][Next]_vars

(***************************************************************************)
(* asyncio runs every ready task; a turn ends by LLM_HARD_TIMEOUT (3600 s  *)
(* unless configured), whatever steps it takes until then, statements and  *)
(* sends by their own timeouts.                                            *)
(***************************************************************************)
Fairness == \A e \in 1..MaxEvents : WF_vars(e \in Events /\ Handle(e) /\ log' # log)
FairSpec == Spec /\ Fairness

-----------------------------------------------------------------------------
(***************************************************************************)
(* A reset cuts the conversation for good: a turn that read its thread id  *)
(* after the reset never sees anything of a turn that had read it before,  *)
(* however late that one answers.                                          *)
(***************************************************************************)
ResetIsolates ==
  \A r, e \in Events :
    (log[r].kind = "reset" /\ log[r].chat = log[e].chat /\ e \notin log[r].cut) =>
      \A f \in log[r].cut : \A part \in Part : <<f, part>> \notin log[e].saw

(***************************************************************************)
(* "/reset - start a fresh conversation (clears short-term context)"       *)
(* (README.md): a message written after the user was told of the reset is  *)
(* not answered in view of messages sent before the reset.                 *)
(***************************************************************************)
ClearedIn(c) ==
  \A e \in OfChat(c) : \A r \in log[e].after :
    log[r].kind = "reset" =>
      \A f \in 1..(r - 1), part \in Part :
        <<f, part>> \in log[e].saw => log[f].kind = "job"

ResetClears == \A c \in Chats : ClearedIn(c)

(***************************************************************************)
(* "Follow-ups continue the same thread" (README.md): a message is         *)
(* answered in view of every exchange of its conversation that the user    *)
(* had the answer to when writing it.  One conversation is one thread, or  *)
(* a chat that has had no reset.                                           *)
(***************************************************************************)
SameConversation(f, e) ==
  \/ log[f].thread = log[e].thread
  \/ \A r \in OfChat(log[e].chat) : IsTurn(r)

ContinuesIn(c) ==
  \A e \in OfChat(c) : \A f \in log[e].after :
    (/\ log[e].kind = "message" /\ log[f].kind = "message"
     /\ log[e].ok /\ log[f].ok /\ SameConversation(f, e))
      => {f} \X Part \subseteq log[e].saw

FollowUpsContinue == \A c \in Chats : ContinuesIn(c)

(***************************************************************************)
(* In chats of any kind: a turn's answer stays in its thread for good,     *)
(* through resets, failures and crashes, unless another turn ran in the    *)
(* thread at the same time, one that had loaded it without that answer -   *)
(* whatever became of that turn: its checkpoints do the damage.            *)
(***************************************************************************)
Overlap(f, g) ==
  /\ g \in log[f].beside \/ f \in log[g].beside
  /\ <<f, "answer">> \notin log[g].saw

LostOnlyToOverlap ==
  \A f \in Events :
    IsTurn(f) /\ log[f].ok /\ <<f, "answer">> \notin saved[Thread(f)] =>
      \E g \in Events : Overlap(f, g)

(***************************************************************************)
(* Every update is dealt with, although one turn holds up all of Telegram. *)
(***************************************************************************)
EveryEventEnds ==
  \A e \in 1..MaxEvents :
    (e \in Events /\ log[e].pc = "queued") ~> (e \in Events /\ log[e].pc \in Over)

-----------------------------------------------------------------------------
\* The inductive invariant.

\* An epoch grows by resets that are through.
ResetsOver(c) == {r \in OfChat(c) : ~IsTurn(r) /\ log[r].pc \notin {"queued", "called"}}
Bounded == \A c \in Chats : epoch[c] <= Cardinality(ResetsOver(c))

\* A turn has a thread from ThreadId on, of an epoch the chat has reached.
Threaded ==
  \A e \in Events :
    /\ log[e].pc \in {"queued", "called"} => log[e].thread = NoRow
    /\ log[e].pc \in {"keyed"} \cup UnderWay => log[e].thread # NoRow
    /\ log[e].thread # NoRow => IsTurn(e) /\ log[e].thread <= epoch[log[e].chat]

\* A thread holds what turns of that thread saved, and that is all they see.
Apart ==
  /\ \A t \in Chats \X Epochs : \A m \in saved[t] : m[1] \in Events /\ Thread(m[1]) = t
  /\ \A e \in Events : \A m \in log[e].saw :
       m[1] \in Events /\ log[e].thread # NoRow /\ Thread(m[1]) = Thread(e)

\* The turns a reset cut off are in older threads than any turn since.
CutOff ==
  \A r \in Events : \A f \in log[r].cut :
    /\ f \in Events /\ log[f].chat = log[r].chat /\ log[f].thread # NoRow
    /\ log[f].thread < epoch[log[r].chat]
    /\ \A e \in OfChat(log[r].chat) \ log[r].cut :
         log[e].thread # NoRow => log[f].thread < log[e].thread

CInv == TypeOK /\ Bounded /\ Threaded /\ Apart /\ CutOff

-----------------------------------------------------------------------------
\* What is in a thread, or was seen there, has been said by its turn.
Said(m) == /\ log[m[1]].pc \notin Waiting \cup {"loaded"}
           /\ m[2] = "answer" => log[m[1]].ok

Spoken ==
  /\ \A t \in Chats \X Epochs : \A m \in saved[t] : Said(m)
  /\ \A e \in Events : \A m \in log[e].saw : Said(m)

\* Turns that run in one thread know of each other, and an answer one of them did
\* not load is one of a turn that ran beside it.
Beside ==
  /\ \A e \in Events : \A g \in log[e].beside :
       g \in Events /\ log[e].pc \notin Waiting /\ log[g].pc \notin Waiting
  /\ \A f, g \in Events :
       f # g /\ Thread(f) = Thread(g) /\ log[g].pc \in UnderWay =>
         /\ log[f].pc \in UnderWay => g \in log[f].beside \/ f \in log[g].beside
         /\ IsTurn(f) /\ log[f].ok /\ <<f, "answer">> \notin log[g].saw =>
              \E h \in Events : Overlap(f, h)

\* What succeeded is through, and a turn that did has its thread.
Concluded ==
  \A e \in Events : log[e].ok =>
    log[e].pc \in {"ended"} \cup Over /\ (IsTurn(e) => log[e].thread # NoRow)

(***************************************************************************)
(* What the order of Telegram's updates adds, chat by chat.                *)
(***************************************************************************)
Taken == {"called", "keyed", "loaded", "working", "ended", "replied", "unsent"}
Begun(e) == log[e].pc \in Taken \/ log[e].thread # NoRow \/ log[e].ok

\* An update is taken when those before it are over.
TakenInOrder ==
  \A e \in Events : Serialized(e) /\ Begun(e) =>
    \A f \in 1..(e - 1) : Serialized(f) => log[f].pc \in Over

\* So a reset cuts off every turn of an earlier message.
ResetsCut ==
  \A r \in Events : log[r].kind = "reset" /\ Serialized(r) /\ log[r].pc \in {"ended", "replied"} =>
    \A f \in 1..(r - 1) :
      f \in OfChat(log[r].chat) /\ Serialized(f) /\ log[f].thread # NoRow => f \in log[r].cut

\* What was replied to before an event arrived was over, and cut nothing later.
RepliedBefore ==
  \A e \in Events : \A f \in log[e].after :
    /\ f \in OfChat(log[e].chat) /\ f < e /\ log[f].pc = "replied" /\ e \notin log[f].cut

JobsOfChats == \A e \in Events : log[e].kind = "job" => log[e].chat \in JobChats

(***************************************************************************)
(* In a Telegram chat without jobs a turn works on the newest thread, and  *)
(* a thread is extended, never overwritten.                                *)
(***************************************************************************)
Orderly == Serial \ JobChats

OnNewest(c) ==
  \A e \in OfChat(c) : log[e].pc \in {"keyed"} \cup UnderWay => log[e].thread = epoch[c]

InOneThread(c) ==
  \A e \in OfChat(c) :
    /\ IsTurn(e) /\ log[e].ok => {e} \X Part \subseteq saved[Thread(e)]
    /\ log[e].pc = "loaded" => saved[Thread(e)] = log[e].saw
    /\ log[e].pc = "working" => saved[Thread(e)] = log[e].saw \cup {<<e, "asked">>}
    /\ IsTurn(e) /\ (log[e].ok \/ log[e].pc \in UnderWay) =>
         \A f \in log[e].after :
           IsTurn(f) /\ log[f].ok /\ log[f].thread = log[e].thread => {f} \X Part \subseteq log[e].saw

\* All of it: what every step of an event keeps.
OrderInv ==
  /\ CInv /\ Spoken /\ Concluded /\ Beside /\ LostOnlyToOverlap
  /\ TakenInOrder /\ ResetsCut /\ RepliedBefore /\ JobsOfChats
  /\ \A c \in Orderly : OnNewest(c) /\ InOneThread(c)

-----------------------------------------------------------------------------
(***************************************************************************)
(* A Telegram chat without jobs is one conversation, in the order its      *)
(* messages and resets were written: they take effect when a turn saves    *)
(* its first checkpoint and when a reset is stored.                        *)
(***************************************************************************)
Current(c) == <<c, IF epoch[c] = NoRow THEN 0 ELSE epoch[c]>>

InEffect(e) ==
  IF IsTurn(e) THEN log[e].thread # NoRow /\ <<e, "asked">> \in saved[Thread(e)] ELSE log[e].ok
Done(c) == {e \in OfChat(c) : InEffect(e)}
Seen(c) == {<<e, log[e].saw>> : e \in {d \in Done(c) : IsTurn(d)}}

Sequential == INSTANCE Dialogue WITH
  Chats <- Orderly,
  done  <- [c \in Orderly |-> Done(c)],
  conv  <- [c \in Orderly |-> saved[Current(c)]],
  seen  <- [c \in Orderly |-> Seen(c)]

KeepsDialogue == Sequential!Spec
=============================================================================
