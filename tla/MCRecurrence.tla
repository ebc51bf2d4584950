---------------------------- MODULE MCRecurrence ----------------------------
(***************************************************************************)
(* One unit is an hour and a day has six of them.  The clocks go forward   *)
(* at 14 (reading 14 becomes 15: reading 2 of the third day is skipped)    *)
(* and back at 26 (reading 26 comes twice, at 25 and at 26).               *)
(***************************************************************************)
EXTENDS Recurrence

Day == 6

MCZone == { [at |-> 14, before |-> 0, after |-> 1],
            [at |-> 26, before |-> 1, after |-> 0] }

\* Requests that no repetition by 3, 6 or 12 takes to the skipped reading; the
\* last names the second 02:00 of the day the clocks go back.
MCClearRequests ==
  [kind : {"in_minutes"}, value : {0, 1, 3, 6}]
    \cup [kind : {"naive"}, value : {4, 6, 7, 25, 26}]
    \cup [kind : {"aware"}, value : {0, 3, 26}]
    \cup [kind : {"malformed"}, value : {0}]

\* The same and a time of day that one day skips.
MCRequests == MCClearRequests \cup [kind : {"naive"}, value : {2, 8, 14}]

\* The zone is one that the theorems about Recurrence speak of.
ASSUME MCZoneIsOrderly == OrderlyZone

MCIntervals == {Day, 2 * Day, Day \div 2}
=============================================================================
