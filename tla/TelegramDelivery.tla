-------------------------- MODULE TelegramDelivery --------------------------
(***************************************************************************)
(* How a Telegram reply reaches the chat: _run_turn, _keep_typing,         *)
(* _deliver, _reply_markdown and _send of telegram_adapter.py, and its     *)
(* send(), through which the scheduler delivers.  One reply is followed    *)
(* from its turn to the end of its handler.                                *)
(*                                                                         *)
(* The Bot API takes a message, refuses it for flood control (RetryAfter), *)
(* rejects it (BadRequest, which python-telegram-bot makes a NetworkError),*)
(* fails on the way (NetworkError, TimedOut: the message may have arrived  *)
(* all the same) or fails otherwise (Forbidden and the like).              *)
(***************************************************************************)
EXTENDS Integers

CONSTANTS MaxChunks,  \* bound on the chunks of a reply's text
          MaxImages   \* bound on its images

ASSUME DeliveryAssumption == MaxChunks \in Nat \ {0} /\ MaxImages \in Nat

Attempts == 3         \* range(3) in _send
Parts    == 1..(MaxChunks + MaxImages)

VARIABLES pc,       \* where the handler stands
          failed,   \* the turn raised: a plain error text is sent
          chunks,   \* messages to send
          images,   \* photos to send after them
          part,     \* the message or photo being sent
          mode,     \* with entities, or the plain fallback
          attempt,
          stop,     \* the event that ends the typing loop
          typing,   \* where that loop stands
          \* history
          copies,   \* times each part arrived in the chat
          timeouts, \* attempts at each part that failed on the way
          answer    \* what Telegram last said to each part

reply    == <<failed, chunks, images>>
indicator == <<stop, typing>>
history  == <<copies, timeouts, answer>>
vars     == <<pc, reply, part, mode, attempt, indicator, history>>

Answers == {"none", "taken", "flood", "rejected", "network", "other"}

TypeOK ==
  /\ pc \in {"turn", "stopping", "sending", "returned", "raised"}
  /\ failed \in BOOLEAN
  /\ chunks \in 0..MaxChunks /\ images \in 0..MaxImages
  /\ part \in 1..(MaxChunks + MaxImages + 1)
  /\ mode \in {"markdown", "plain"}
  /\ attempt \in 1..Attempts
  /\ stop \in BOOLEAN
  /\ typing \in {"calling", "waiting", "off"}
  /\ copies \in [Parts -> Nat] /\ timeouts \in [Parts -> Nat]
  /\ answer \in [Parts -> Answers]

(***************************************************************************)
(* _deliver: the text in chunks, "(empty response)" for an empty one, but  *)
(* no text at all if there are only images; then the images.               *)
(***************************************************************************)
Messages(text, photos) == IF text = 0 /\ photos = 0 THEN 1 ELSE text

\* A handler with its turn to run, or a scheduled task's reply to deliver.
Init ==
  /\ failed = FALSE
  /\ part = 1 /\ mode = "markdown" /\ attempt = 1
  /\ copies = [p \in Parts |-> 0] /\ timeouts = [p \in Parts |-> 0]
  /\ answer = [p \in Parts |-> "none"]
  /\ \/ /\ pc = "turn" /\ chunks = 0 /\ images = 0
        /\ stop = FALSE /\ typing = "calling"
     \/ /\ pc = "sending"
        /\ \E text \in 0..MaxChunks, photos \in 0..MaxImages :
             chunks = Messages(text, photos) /\ images = photos
        /\ stop = TRUE /\ typing = "off"

-----------------------------------------------------------------------------
\* _run_turn.

TurnReturns ==
  /\ pc = "turn"
  /\ \E text \in 0..MaxChunks, photos \in 0..MaxImages :
       chunks' = Messages(text, photos) /\ images' = photos
  /\ pc' = "stopping" /\ stop' = TRUE
  /\ UNCHANGED <<failed, part, mode, attempt, typing, history>>

\* The error text goes out before the finally clause stops the indicator.
TurnRaises ==
  /\ pc = "turn"
  /\ failed' = TRUE /\ chunks' = 1 /\ mode' = "plain"
  /\ pc' = "sending"
  /\ UNCHANGED <<images, part, attempt, indicator, history>>

Sent == part > chunks + images

\* Mutant of TypingAwaited: the typing task is told to stop, and not awaited.
TypingNotAwaited ==
  /\ pc = "stopping"
  /\ pc' = CASE ~failed              -> "sending"
             [] failed /\ Sent       -> "returned"
             [] failed /\ ~Sent      -> "raised"
  /\ UNCHANGED <<reply, part, mode, attempt, indicator, history>>

\* await typing: the reply is delivered, or the error text was.
TypingAwaited ==
  /\ pc = "stopping" /\ typing = "off"
  /\ pc' = CASE ~failed              -> "sending"
             [] failed /\ Sent       -> "returned"
             [] failed /\ ~Sent      -> "raised"
  /\ UNCHANGED <<reply, part, mode, attempt, indicator, history>>

-----------------------------------------------------------------------------
\* _keep_typing.

\* send_chat_action returns or raises, to the same effect.
ActionSent ==
  /\ typing = "calling"
  /\ typing' = "waiting"
  /\ UNCHANGED <<pc, reply, part, mode, attempt, stop, history>>

\* Mutant of Woken: the loop does not look at the event.
WokenAlways ==
  /\ typing = "waiting"
  /\ typing' = "calling"
  /\ UNCHANGED <<pc, reply, part, mode, attempt, stop, history>>

\* wait_for(stop.wait(), 4 s): the event, or time for another action.
Woken ==
  /\ typing = "waiting"
  /\ typing' = IF stop THEN "off" ELSE "calling"
  /\ UNCHANGED <<pc, reply, part, mode, attempt, stop, history>>

-----------------------------------------------------------------------------
\* _send, _reply_markdown and the photos.

\* The handler is through: with an error reply it has the indicator to stop.
Finish(end) ==
  IF failed THEN pc' = "stopping" /\ stop' = TRUE ELSE pc' = end /\ UNCHANGED stop

NextPart ==
  /\ part' = part + 1
  /\ mode' = "markdown" /\ attempt' = 1
  /\ IF part = chunks + images THEN Finish("returned") ELSE UNCHANGED <<pc, stop>>

TryAgain == attempt' = attempt + 1 /\ UNCHANGED <<pc, part, mode, stop>>
Raise    == Finish("raised") /\ UNCHANGED <<part, mode, attempt>>
FallBack == mode' = "plain" /\ attempt' = 1 /\ UNCHANGED <<pc, part, stop>>

IsPhoto == part > chunks
Last    == attempt = Attempts

Heard(what, arrived) ==
  /\ pc = "sending" /\ ~Sent
  /\ answer' = [answer EXCEPT ![part] = what]
  /\ copies' = [copies EXCEPT ![part] = IF arrived THEN @ + 1 ELSE @]
  /\ timeouts' = [timeouts EXCEPT ![part] = IF what = "network" THEN @ + 1 ELSE @]
  /\ UNCHANGED <<reply, typing>>

\* Mutant of Taken: _send goes on after a success.
TakenUnnoticed == Heard("taken", TRUE) /\ IF Last THEN NextPart ELSE TryAgain

Taken == Heard("taken", TRUE) /\ NextPart

\* Mutant of Flood: RetryAfter does not use up an attempt's place in the range.
FloodForever == Heard("flood", FALSE) /\ IF IsPhoto THEN Raise ELSE TryAgain

\* After a third RetryAfter the loop of _send runs out, and _send returns.
Flood ==
  /\ Heard("flood", FALSE)
  /\ CASE IsPhoto         -> Raise
       [] ~IsPhoto /\ Last  -> NextPart
       [] ~IsPhoto /\ ~Last -> TryAgain

\* Mutant of Network: the third failure is swallowed.
NetworkSwallowed ==
  /\ \E arrived \in BOOLEAN : Heard("network", arrived)
  /\ IF IsPhoto THEN Raise ELSE IF Last THEN NextPart ELSE TryAgain

Network ==
  /\ \E arrived \in BOOLEAN : Heard("network", arrived)
  /\ IF IsPhoto \/ Last THEN Raise ELSE TryAgain

Rejected ==
  /\ Heard("rejected", FALSE)
  /\ CASE IsPhoto                             -> Raise
       [] ~IsPhoto /\ ~Last                     -> TryAgain
       [] ~IsPhoto /\ Last /\ mode = "markdown" -> FallBack
       [] ~IsPhoto /\ Last /\ mode = "plain"    -> Raise

Other == Heard("other", FALSE) /\ Raise

Send == Taken \/ Flood \/ Network \/ Rejected \/ Other

Over == pc \in {"returned", "raised"} /\ UNCHANGED vars

Next == TurnReturns \/ TurnRaises \/ TypingAwaited \/ ActionSent \/ Woken \/ Send \/ Over

Spec == Init /\ [][Next]_vars

(***************************************************************************)
(* A turn ends by LLM_HARD_TIMEOUT, a request by the 30 s HTTP timeouts of *)
(* _build, and asyncio runs both tasks.                                    *)
(***************************************************************************)
Fairness ==
  /\ WF_vars(TurnReturns \/ TurnRaises)
  /\ WF_vars(TypingAwaited) /\ WF_vars(Send)
  /\ WF_vars(ActionSent) /\ WF_vars(Woken)

FairSpec == Spec /\ Fairness

-----------------------------------------------------------------------------
ToSend == 1..(chunks + images)

(***************************************************************************)
(* _send: "Send one message, retrying transient Telegram network hiccups": *)
(* a delivery that returns normally has put every part of the reply in the *)
(* chat.                                                                   *)
(***************************************************************************)
ReturnedMeansSent == pc = "returned" => \A p \in ToSend : copies[p] > 0

(***************************************************************************)
(* What holds instead: of a delivery that returns, each part was taken by  *)
(* Telegram or its last attempt was put off by flood control.              *)
(***************************************************************************)
LostOnlyToFlood ==
  pc = "returned" => \A p \in ToSend : answer[p] \in {"taken", "flood"}

(***************************************************************************)
(* Retries put a part in the chat a second time only if an earlier attempt *)
(* failed without telling whether it had arrived; and no user reads a part *)
(* more than five times, an error text more than three times or a photo    *)
(* more than once, whatever the network does.                              *)
(***************************************************************************)
CopiesNeedTimeouts ==
  \A p \in Parts : copies[p] <= timeouts[p] + (IF answer[p] = "taken" THEN 1 ELSE 0)

\* Three attempts without entities may follow two that timed out with them.
MostCopies(p) == CASE p > chunks             -> 1
                   [] p <= chunks /\ failed  -> Attempts
                   [] p <= chunks /\ ~failed -> 2 * Attempts - 1

CopiesBounded == \A p \in Parts : copies[p] <= MostCopies(p)

FewCopies == CopiesNeedTimeouts /\ CopiesBounded

(***************************************************************************)
(* No typing action is sent behind the reply: the indicator's task has     *)
(* ended before the first part goes out.                                   *)
(***************************************************************************)
QuietWhileReplying == pc = "sending" /\ ~failed => typing = "off"

(***************************************************************************)
(* Whatever the API does, the handler ends and its typing indicator with   *)
(* it.                                                                     *)
(***************************************************************************)
HandlerEnds == <>(pc \in {"returned", "raised"} /\ typing = "off")

-----------------------------------------------------------------------------
(***************************************************************************)
(* The inductive invariant.  Parts are passed in order, each taken or put  *)
(* off, and none is tried again once it was taken; the indicator's task    *)
(* ends before the reply begins.                                           *)
(***************************************************************************)
\* Parts are sent in order, and no part is left behind but a taken or a put off one.
InOrder ==
  /\ part <= chunks + images + 1
  /\ \A p \in Parts : p < part => answer[p] \in {"taken", "flood"}
  /\ \A p \in Parts : p > part => answer[p] = "none" /\ copies[p] = 0 /\ timeouts[p] = 0
  /\ pc \in {"turn", "stopping"} /\ ~failed => part = 1

\* A reply without an error text is over when every part was passed.
AllPassed == pc = "returned" => part = chunks + images + 1

\* While a part is being tried it has not been taken.
NotYetTaken == \A p \in Parts : p >= part => answer[p] # "taken"

\* The indicator's task ends before a reply that is no error text.
IndicatorFirst ==
  /\ pc \in {"sending", "returned", "raised"} /\ ~failed => typing = "off"
  /\ pc = "turn" => ~failed

\* The attempts at the part being sent bound what has timed out of it.
FewTries ==
  /\ failed => chunks = 1 /\ images = 0 /\ (pc = "sending" => mode = "plain")
  /\ pc = "turn" => images = 0
  /\ pc \in {"turn", "stopping"} /\ ~failed => attempt = 1 /\ mode = "markdown"
  /\ pc = "sending" /\ IsPhoto => attempt = 1 /\ mode = "markdown"
  /\ part \in Parts /\ (pc = "sending" \/ (pc \in {"turn", "stopping"} /\ ~failed)) =>
       timeouts[part] <= attempt - 1 + (IF mode = "plain" /\ ~failed THEN Attempts - 1 ELSE 0)

\* All of it: what every step of a delivery keeps.
DInv ==
  /\ TypeOK /\ InOrder /\ AllPassed /\ NotYetTaken /\ IndicatorFirst
  /\ FewCopies /\ FewTries
=============================================================================
