------------------------------- MODULE Dialogue -------------------------------
(***************************************************************************)
(* What a chat promises its user, without threads, epochs, queues or       *)
(* restarts: it is one conversation.  Messages and resets take effect one  *)
(* at a time and in the order they were written, or never.  A message is   *)
(* put to the assistant in view of the conversation so far, which it then  *)
(* is part of; an answer is given to the last message only, and once; a    *)
(* reset leaves an empty conversation.                                     *)
(***************************************************************************)
EXTENDS Integers

CONSTANT Chats

VARIABLES done,   \* the messages and resets of each chat that took effect
          conv,   \* its conversation: messages and answers
          seen    \* what each message was put to the assistant in view of
vars == <<done, conv, seen>>

Init ==
  /\ done = [c \in Chats |-> {}]
  /\ conv = [c \in Chats |-> {}]
  /\ seen = [c \in Chats |-> {}]

\* m is the next to take effect.
TakesEffect(c, m) ==
  /\ \A d \in done[c] : d < m
  /\ done' = [done EXCEPT ![c] = @ \cup {m}]

Ask(c, m) ==
  /\ TakesEffect(c, m)
  /\ conv' = [conv EXCEPT ![c] = @ \cup {<<m, "asked">>}]
  /\ seen' = [seen EXCEPT ![c] = @ \cup {<<m, conv[c]>>}]

Answer(c, m) ==
  /\ \A d \in done[c] : d <= m
  /\ <<m, "asked">> \in conv[c] /\ <<m, "answer">> \notin conv[c]
  /\ conv' = [conv EXCEPT ![c] = @ \cup {<<m, "answer">>}]
  /\ UNCHANGED <<done, seen>>

Forget(c, m) ==
  /\ TakesEffect(c, m)
  /\ conv' = [conv EXCEPT ![c] = {}]
  /\ UNCHANGED seen

Next == \E c \in Chats : \E m \in done'[c] : Ask(c, m) \/ Answer(c, m) \/ Forget(c, m)

Spec == Init /\ [][Next]_vars
=============================================================================
