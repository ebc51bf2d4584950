------------------------------ MODULE Lifecycle ------------------------------
(***************************************************************************)
(* One life of the agent process (main.py, amain): the configuration is    *)
(* checked, the database pool opened, the adapters and the scheduler are   *)
(* started; a signal stops them one after the other, and the pool is       *)
(* closed while Discord's turns and the scheduler's jobs may still run.    *)
(***************************************************************************)
EXTENDS Integers, Sequences, FiniteSets

CONSTANTS MaxWork    \* bound on turns and jobs

ASSUME LifecycleAssumption == MaxWork \in Nat

Platforms == {"telegram", "discord"}
Names == Platforms \cup {"unknown"}    \* what MESSAGING_PLATFORMS may name

VARIABLES main,        \* where amain stands
          config,
          pool, telegram, discord, scheduler,
          work         \* turns and jobs, in the order they arrived
lifeVars == <<main, config, pool, telegram, discord, scheduler, work>>

Config == [explicit : SUBSET Names, tokens : SUBSET Platforms, allowed : SUBSET Platforms,
           others : BOOLEAN]    \* database, sandbox token and memory backend are right

\* enabled_platforms: an explicit list wins over the tokens.
Enabled(c) == IF c.explicit # {} THEN c.explicit ELSE c.tokens

\* validate.  An unknown name passes.
Valid(c) == /\ c.others /\ Enabled(c) # {}
            /\ Enabled(c) \cap Platforms \subseteq c.tokens \cap c.allowed

\* waiting - an update in Telegram's queue; unsent - the platform was up and did not
\* take it; undelivered - its adapter was not up; cut - cancelled when the loop ended.
Work == [kind : {"turn", "job"}, platform : Platforms,
         pc : {"waiting", "running", "delivered", "unsent", "undelivered", "cut"},
         early : BOOLEAN,           \* Discord was not online yet when it ended
         poolClosed : BOOLEAN]      \* it found the pool closed

Mains == {"launched", "building", "starting_telegram", "starting_discord",
          "starting_scheduler", "running", "stopping_telegram", "stopping_discord",
          "closing", "leaving", "exited"}

LifecycleTypeOK ==
  /\ main \in Mains /\ config \in Config
  /\ pool \in {"none", "open", "closed"}
  /\ telegram \in {"off", "polling", "draining", "stopped", "abandoned"}
  /\ discord \in {"off", "connecting", "online", "failed", "closed"}
  /\ scheduler \in {"off", "running", "cancelled"}
  /\ work \in Seq(Work) /\ Len(work) <= MaxWork
  /\ scheduler = "running" => main \in {"running", "exited"} /\ pool = "open"

NoConfig == [explicit |-> {}, tokens |-> {}, allowed |-> {}, others |-> FALSE]
LifecycleInit ==
  /\ main = "launched" /\ config = NoConfig /\ pool = "none" /\ work = <<>>
  /\ telegram = "off" /\ discord = "off" /\ scheduler = "off"

Uses(p) == p \in Enabled(config)

-----------------------------------------------------------------------------
\* The start.

Configure(c) ==
  /\ main = "launched" /\ config' = c /\ main' = IF Valid(c) THEN "building" ELSE "exited"
  /\ UNCHANGED <<pool, telegram, discord, scheduler, work>>

\* build_app_context: the pool, tables, store, seeds, agent.
Build ==
  /\ main = "building" /\ main' = "starting_telegram" /\ pool' = "open"
  /\ UNCHANGED <<config, telegram, discord, scheduler, work>>

StartTelegram ==
  /\ main = "starting_telegram" /\ main' = "starting_discord"
  /\ telegram' = IF Uses("telegram") THEN "polling" ELSE telegram
  /\ UNCHANGED <<config, pool, discord, scheduler, work>>

\* A task logs in; nobody waits for it or looks at it again.
StartDiscord ==
  /\ main = "starting_discord" /\ main' = "starting_scheduler"
  /\ discord' = IF Uses("discord") THEN "connecting" ELSE discord
  /\ UNCHANGED <<config, pool, telegram, scheduler, work>>

LogIn(outcome) ==
  /\ discord = "connecting" /\ main # "exited" /\ discord' = outcome
  /\ UNCHANGED <<main, config, pool, telegram, scheduler, work>>

\* Mutant of StartScheduler: before the adapters.
StartSchedulerFirst ==
  /\ scheduler = "off" /\ pool = "open" /\ scheduler' = "running"
  /\ main' = IF main = "starting_scheduler" THEN "running" ELSE main
  /\ UNCHANGED <<config, pool, telegram, discord, work>>

StartScheduler ==
  /\ main = "starting_scheduler" /\ main' = "running" /\ scheduler' = "running"
  /\ UNCHANGED <<config, pool, telegram, discord, work>>

-----------------------------------------------------------------------------
\* Turns and jobs.

NewWork(kind, platform, pc) ==
  /\ Len(work) < MaxWork
  /\ work' = Append(work, [kind |-> kind, platform |-> platform, pc |-> pc, early |-> FALSE,
                           poolClosed |-> FALSE])
  /\ UNCHANGED <<main, config, pool, telegram, discord, scheduler>>

TelegramUpdate == telegram = "polling" /\ NewWork("turn", "telegram", "waiting")
DiscordMessage == discord = "online" /\ NewWork("turn", "discord", "running")
FireJob(p) == scheduler = "running" /\ NewWork("job", p, "running")

WorkStep(i, from, r) ==
  /\ main # "exited" /\ work[i].pc = from /\ work' = [work EXCEPT ![i] = r]
  /\ UNCHANGED <<main, config, pool, telegram, discord, scheduler>>

\* Mutant of TakeUpdate: what is queued when the polling stops stays there.
TakeWhilePolling(i) ==
  /\ telegram = "polling"
  /\ \A j \in DOMAIN work : work[j].pc = "waiting" => i <= j
  /\ WorkStep(i, "waiting", [work[i] EXCEPT !.pc = "running"])

\* Telegram's handlers run one after the other, the queue is emptied before the end.
TakeUpdate(i) ==
  /\ telegram \in {"polling", "draining", "abandoned"}
  /\ \A j \in DOMAIN work : work[j].pc = "waiting" => i <= j
  /\ \A j \in DOMAIN work : ~(work[j].pc = "running" /\ work[j].kind = "turn"
                              /\ work[j].platform = "telegram")
  /\ WorkStep(i, "waiting", [work[i] EXCEPT !.pc = "running"])

\* Its thread, checkpoints, memory or metrics are asked for.
FindPoolClosed(i) ==
  /\ pool = "closed" /\ ~work[i].poolClosed
  /\ WorkStep(i, "running", [work[i] EXCEPT !.poolClosed = TRUE])

Reachable(p) == IF p = "telegram" THEN telegram \in {"polling", "draining", "abandoned"}
                                  ELSE discord = "online"

\* A platform that is up may still not take it: Telegram puts it off or fails to the
\* last attempt, Discord and the send of a job raise.
Outcomes(p) == IF Reachable(p) THEN {"delivered", "unsent"} ELSE {"undelivered"}

EndWork(i) ==
  \E outcome \in Outcomes(work[i].platform) :
    WorkStep(i, "running",
      [work[i] EXCEPT !.pc = outcome, !.early = discord \in {"off", "connecting", "failed"}])

-----------------------------------------------------------------------------
\* The end.

\* The sampler and the scheduler are cancelled.
Signal ==
  /\ main = "running" /\ main' = "stopping_telegram" /\ scheduler' = "cancelled"
  /\ UNCHANGED <<config, pool, telegram, discord, work>>

TelegramIdle == \A i \in DOMAIN work : work[i].kind = "turn" /\ work[i].platform = "telegram"
                                         => work[i].pc \notin {"waiting", "running"}

StopPolling ==
  /\ main = "stopping_telegram" /\ telegram = "polling" /\ telegram' = "draining"
  /\ UNCHANGED <<main, config, pool, discord, scheduler, work>>

\* Mutant of StopTelegram: Application.stop is not waited for.
StopTelegramAtOnce ==
  /\ main = "stopping_telegram" /\ telegram \in {"off", "draining"}
  /\ main' = "stopping_discord" /\ telegram' = IF telegram = "off" THEN "off" ELSE "stopped"
  /\ UNCHANGED <<config, pool, discord, scheduler, work>>

\* Application.stop waits for the queue and the handler.
StopTelegram ==
  /\ main = "stopping_telegram"
  /\ \/ telegram = "off" /\ UNCHANGED telegram
     \/ telegram = "draining" /\ TelegramIdle /\ telegram' = "stopped"
  /\ main' = "stopping_discord"
  /\ UNCHANGED <<config, pool, discord, scheduler, work>>

\* Stopping the updater raises: the rest is skipped.
FailToStopTelegram ==
  /\ main = "stopping_telegram" /\ telegram = "polling" /\ telegram' = "abandoned"
  /\ main' = "stopping_discord"
  /\ UNCHANGED <<config, pool, discord, scheduler, work>>

StopDiscord ==
  /\ main = "stopping_discord" /\ main' = "closing"
  /\ discord' = IF discord = "off" THEN discord ELSE "closed"
  /\ UNCHANGED <<config, pool, telegram, scheduler, work>>

Close ==
  /\ main = "closing" /\ main' = "leaving" /\ pool' = "closed"
  /\ UNCHANGED <<config, telegram, discord, scheduler, work>>

CutOff == [i \in DOMAIN work |-> IF work[i].pc \in {"waiting", "running"}
                                 THEN [work[i] EXCEPT !.pc = "cut"] ELSE work[i]]

\* asyncio.run cancels what is left.
Leave ==
  /\ main = "leaving" /\ main' = "exited" /\ work' = CutOff
  /\ UNCHANGED <<config, pool, telegram, discord, scheduler>>

\* The start fails, or the process is killed.
Killed ==
  /\ main \notin {"launched", "exited"} /\ main' = "exited" /\ work' = CutOff
  /\ UNCHANGED <<config, pool, telegram, discord, scheduler>>

LifecycleRest == main = "exited" /\ UNCHANGED lifeVars

WorkNext(i) == TakeUpdate(i) \/ FindPoolClosed(i) \/ EndWork(i)
Stopping == StopPolling \/ StopTelegram \/ StopDiscord \/ Close \/ Leave

LifecycleNext ==
  \/ \E c \in Config : Configure(c)
  \/ Build \/ StartTelegram \/ StartDiscord \/ StartScheduler \/ Signal \/ Stopping
  \/ FailToStopTelegram \/ Killed \/ LifecycleRest
  \/ \E outcome \in {"online", "failed"} : LogIn(outcome)
  \/ TelegramUpdate \/ DiscordMessage \/ \E p \in Platforms \cap Enabled(config) : FireJob(p)
  \/ \E i \in DOMAIN work : WorkNext(i)

\* The event loop goes on, and every turn ends, by LLM_HARD_TIMEOUT at the latest.
LifecycleSpec ==
  /\ LifecycleInit /\ [][LifecycleNext]_lifeVars /\ WF_lifeVars(Stopping)
  /\ \A i \in 1..MaxWork : WF_lifeVars(i \in DOMAIN work /\ (TakeUpdate(i) \/ EndWork(i)))

-----------------------------------------------------------------------------
\* Properties.

(***************************************************************************)
(* A Telegram turn never finds the pool closed, unless stopping the        *)
(* updater raised: the adapter is drained first.  Turns of Discord and     *)
(* jobs may.                                                               *)
(***************************************************************************)
PoolOutlivesTelegram ==
  telegram # "abandoned" =>
    \A i \in DOMAIN work :
      work[i].poolClosed => work[i].kind = "job" \/ work[i].platform = "discord"

(***************************************************************************)
(* From the start to the signal, a turn or job that comes to its end finds *)
(* the adapter it is for up, unless that is Discord before its login is    *)
(* through or after it failed, and none is cut off: the scheduler fires    *)
(* nothing that Telegram cannot be asked to deliver yet.  Asked is not     *)
(* delivered: what a platform that is up does not take (unsent) is lost    *)
(* at any time.                                                            *)
(***************************************************************************)
AdapterUpAtEnd ==
  \A i \in DOMAIN work :
    work[i].pc \in {"undelivered", "cut"} =>
      \/ main \notin {"building", "starting_telegram", "starting_discord",
                      "starting_scheduler", "running"}
      \/ work[i].platform = "discord" /\ work[i].early

(***************************************************************************)
(* A signal ends the process: Telegram is drained, and the rest does not   *)
(* wait for anything.                                                      *)
(***************************************************************************)
StopEnds == main = "stopping_telegram" ~> main = "exited"

-----------------------------------------------------------------------------
(***************************************************************************)
(* The inductive invariant.  The pool is open from its start to the close, *)
(* and nothing of Telegram or the scheduler comes before or after it.      *)
(***************************************************************************)
Early == {"building", "starting_telegram", "starting_discord", "starting_scheduler", "running"}

PoolOpen ==
  /\ main \in {"starting_telegram", "starting_discord", "starting_scheduler", "running",
               "stopping_telegram", "stopping_discord", "closing"} => pool = "open"
  /\ pool = "closed" => main \in {"leaving", "exited"}
  /\ main = "launched" => work = <<>> /\ discord = "off"

\* Telegram polls while the rest starts, and is through before Discord is stopped;
\* while it does neither, none of its turns is under way.
TelegramFirst ==
  /\ main \in {"launched", "building", "starting_telegram"} => telegram = "off"
  /\ main \in {"starting_discord", "starting_scheduler", "running"} =>
       telegram = IF Uses("telegram") THEN "polling" ELSE "off"
  /\ main \in {"stopping_discord", "closing", "leaving"} =>
       telegram \in {"off", "stopped", "abandoned"}
  /\ telegram \in {"off", "stopped"} => TelegramIdle
  /\ discord = "closed" => main \in {"closing", "leaving", "exited"}

\* A job comes after everything it may need.
JobsLast ==
  \A i \in DOMAIN work : work[i].kind = "job" =>
    work[i].platform \in Enabled(config) /\ main \notin Early \ {"running"}

\* All of it: what every step of the process and of its work keeps.
LifeInv ==
  /\ LifecycleTypeOK /\ PoolOpen /\ TelegramFirst /\ JobsLast
  /\ PoolOutlivesTelegram /\ AdapterUpAtEnd
=============================================================================
