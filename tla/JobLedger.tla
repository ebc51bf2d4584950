------------------------------ MODULE JobLedger ------------------------------
(***************************************************************************)
(* What the scheduler promises, without polls, rows, locks or processes.   *)
(*                                                                         *)
(* A job is offered once and may be withdrawn.  While it is open its       *)
(* occurrences are handed out, one at a time and each after the last one   *)
(* was handed out, so that those missed in between are skipped and none    *)
(* comes twice.  An occurrence that was handed out is run at most once;    *)
(* it may be lost on the way, and then it stays lost.                      *)
(***************************************************************************)
EXTENDS Integers

VARIABLES known,    \* the jobs ever offered
          open,     \* the jobs that may still produce occurrences
          handed,   \* the occurrences handed out, [job, due, at] records
          waiting,  \* those of them whose turn has not begun
          running   \* those whose turn has begun and is not settled

vars == <<known, open, handed, waiting, running>>

Init == known = {} /\ open = {} /\ handed = {} /\ waiting = {} /\ running = {}

Offer(j) ==
  /\ j \notin known
  /\ known' = known \cup {j}
  /\ open' = open \cup {j}
  /\ UNCHANGED <<handed, waiting, running>>

Withdraw(j) ==
  /\ open' = open \ {j}
  /\ UNCHANGED <<known, handed, waiting, running>>

(***************************************************************************)
(* Some occurrences are handed out, at most one of each job; a job may     *)
(* close with its last; those in waiting' reached somebody who runs them.  *)
(***************************************************************************)
HandOut ==
  LET new == handed' \ handed
  IN  /\ handed \subseteq handed'
      /\ \A o \in new : /\ o.job \in open
                        /\ o.due <= o.at
                        /\ \A h \in handed : h.job = o.job => h.at < o.due
                        /\ \A p \in new : p.job = o.job => p = o
      /\ open' \subseteq open
      /\ open \ open' \subseteq {o.job : o \in new}
      /\ waiting \subseteq waiting'
      /\ waiting' \ waiting \subseteq new
      /\ UNCHANGED <<known, running>>

Begin(o) ==
  /\ o \in waiting
  /\ waiting' = waiting \ {o}
  /\ running' = running \cup {o}
  /\ UNCHANGED <<known, open, handed>>

\* Occurrences are settled, dropped or lost.
End ==
  /\ waiting' \subseteq waiting
  /\ running' \subseteq running
  /\ UNCHANGED <<known, open, handed>>

Next ==
  \/ \E j \in known' : Offer(j)
  \/ \E j \in open : Withdraw(j)
  \/ HandOut
  \/ \E o \in waiting : Begin(o)
  \/ End

Spec == Init /\ [][Next]_vars
=============================================================================
