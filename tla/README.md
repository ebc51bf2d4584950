# A TLA+ verification project for deepagent-telegram

The program is a chat agent: Telegram and Discord front-ends hand each message
to a LangGraph agent, whose conversation state lives in Postgres, whose
long-term memory lives in a store, whose commands run in a separate sandbox
container, and which can schedule work for itself. This directory models its
core logic in TLA+, checks small instances with TLC and proves the most
important safety properties for all instances with TLAPS.

Run everything from this directory: `tlc -config X.cfg M` for a run,
`tlapm M.tla` for the proofs. `PROJECT.json` lists the runs, the mutants that
show each property can fail, the source lines behind each definition, the
hazards and the findings.

## 1. Inventory

| Part | Source (under `src/agent/app/` unless said) | State it keeps | Operations |
|---|---|---|---|
| Scheduled tasks | `scheduler.py`, `tools/schedule.py` | table `scheduled_jobs`; per process: the loop, its transaction, the running `_fire` tasks | `schedule_task`, `list_scheduled_tasks`, `cancel_scheduled_task`, `_claim_due`, `_fire` |
| Conversations | `threads.py`, `messaging/dispatch.py` | table `chat_threads` (epoch per chat); the checkpointer's threads (external) | `thread_id`, `reset`, `handle_turn` |
| Telegram adapter | `messaging/telegram_adapter.py` | update queue, typing task, a reply in delivery | `_on_message`, `_on_photo`, `_reset`, `_run_turn`, `_send`, `_reply_markdown`, `_deliver`, `send` |
| Discord adapter | `messaging/discord_adapter.py` | one task per message | `on_message`, `_deliver`, `send` |
| Process | `main.py`, `core.py`, `persistence.py`, `config.py` | adapters started, background tasks, settings | start, shutdown |
| Sandbox client | `backend_sandbox.py`, `sandbox_fs.py` | none (files in the sandbox) | execute, upload, download |
| Sandbox server | `src/sandbox/exec_server.py` | running process groups | `POST /execute` |
| Skills | `skills_install.py`, `tools/skills.py` | skill files in the sandbox, playbooks in the store | `install_skills` |
| Memory store | `memory/`, `seed.py` | points of a Qdrant collection (or LangGraph's own stores) | get, put, delete, search, list, seed |
| Agent | `agent.py`, `prompt.py` | middleware stack; `called` flag of the tool selector | build, `awrap_model_call` |
| Metrics | `metrics.py`, `src/dashboard/app.py` | counters of a turn, table `metrics_net` | callbacks, `write_turn`, `network_sampler`, rates |
| Tools | `tools/*.py`, `embeddings.py` | image outbox (context variable) | HTTP calls |

How they interact. An adapter checks the sender and calls `handle_turn`, which
reads the chat's epoch, runs the agent on the thread that epoch names and
returns a `Reply`; the adapter delivers it. The agent's tools write
`scheduled_jobs`; the scheduler's loop takes due rows from it and calls
`handle_turn` in tasks of its own, then an adapter's `send`. All of it shares
one event loop and one Postgres pool; Postgres is the only thing that outlives
a crash. Telegram updates are handled one at a time (the `Application` is built
without concurrent updates), Discord messages and jobs concurrently.

What is hard: claims by several processes and across crashes; a commit whose
acknowledgement is lost; cancellation racing a poll; wall-clock recurrence over
DST; turns that share a thread; a reset that races a turn; retries of a send
whose outcome is unknown; the typing indicator's own task; partial failure of
transfers and installations. `PROJECT.json` has each hazard with its line.

What makes each part correct:

- *Scheduled tasks*: an occurrence runs at most once; missed ones are skipped;
  a cancelled job stays cancelled; a job is never lost; due jobs are claimed.
- *Recurrence*: a job stays at the wall-clock readings it was asked for.
- *Conversations*: a reset separates; follow-ups continue; every update ends.
- *Delivery*: all parts arrive, once, in spite of a flaky API; the indicator
  stops.
- *Sandbox server*: a command ends by its ceiling, the client outwaits it, and
  the answer is what the command wrote.
- *Sandbox transfer*: an upload or download that reports success moved the
  whole file, unless somebody else wrote it meanwhile.
- *Skills*: a stored playbook is the skill's own and its code is in the sandbox,
  as the docstrings say - which is false in two ways (findings 6 and 7), so what
  is claimed is that it is false in no third; nothing is written behind a report.
- *Memory*: what was replaced stays replaced, a listing has what was there all
  along (up to its limit), seeding leaves users' edits alone.
- *Turn*: the main model is called once per request, and a turn's metrics and
  images are its own. *Sampler*: no rate is shown that was not there.
- *Process*: Telegram is drained before the pool is closed; between the start
  and the stop, work that ends finds the adapter it is for up.

## 2. Modules

| Model | Checked by | Proved about in |
|---|---|---|
| `WallClock` (time arithmetic) | through the next two | `WallClockProofs` |
| `Recurrence` (EXTENDS `WallClock`) | `MCRecurrence` | `RecurrenceProofs` |
| `Scheduler` (EXTENDS `WallClock`, implements `JobLedger`) | `MCScheduler` | `SchedulerProofs` |
| `Conversations` (implements `Dialogue`) | `MCConversations` | `ConversationsProofs` |
| `SandboxExec`, `SandboxFiles`, `SkillsInstall` | `MCSandbox` | `SandboxProofs` |
| `MemoryStore` | `MCAgent` | `MemoryStoreProofs` |
| `TelegramDelivery`, `Turn`, `Sampler`, `Lifecycle` | `MCAgent` | `AgentProofs` |

`OrderLemmas` holds what several proofs need about numbers, finite orders and
ranks.

`MCAgent` and `MCSandbox` put modules that share no variable side by side: one
constant choice of the initial state (`scope`, `part`) says which of them moves,
the others stand still, so that a run explores each by itself. Fairness is
stated for the module it belongs to. That such a composition behaves as each of
its parts does is a theorem (`AgentParts`, `SandboxParts`), so what is proved of a
part holds of the composition.

**WallClock** is the time arithmetic: a zone as a set of transitions, the two
conversions Python makes for `fold = 0`, `first_run` and `next_run`. The code's
`while True` search becomes the least `k` whose slot lies after now; an interval
of candidates bounds it, and `SearchEnds` proves the interval long enough.
Instants are integers; a unit is whatever the run says.

**Recurrence** follows one recurring row: created, then claimed by polls that
may be arbitrarily late. It asks only where `next_run` puts the row.

**Scheduler** is the table and the processes. `jobs` is the table, `loop`,
`clock` and `rows` are one process's poll (`rows` is what its open transaction
selected and locks), `tasks` its `_fire` tasks. Actions, in the order of the
code: `Schedule` and `Cancel` (the tools), `PollBegin` (the clock is read
*before* the connection is awaited), `SelectDue` (`FOR UPDATE SKIP LOCKED`),
`Claim` (the updates, the commit and the tasks created from the returned rows),
`ClaimUnacknowledged` (the commit took effect, the poll raised), `PollFails`,
`DropDisabled`/`StartTurn`/`EndTurn`/`Send` (`_fire`), `Crash`, `Restart` (with
another allowlist) and `Tick`. A `Schedule` may insert a time computed from a
clock up to `MaxLag` old. Commit and task creation are one step because no
other actor can see the difference; a crash between them is a crash right after
`Claim`, which loses the same tasks. `claimed`, `ran` and `cancelled` are
history.

**JobLedger** is what the scheduler promises, without polls, rows, locks or
processes: jobs are offered and withdrawn, occurrences handed out one by one,
each run at most once or lost. `KeepsLedger` is the refinement:

| JobLedger | Scheduler |
|---|---|
| `known` | `1..lastId` |
| `open` | the ids in `jobs` |
| `handed` | `claimed` |
| `waiting`, `running` | the runs of tasks before, and from, the start of their turn |

**Conversations** is the epochs, the checkpointer's threads and the turns that
use them. `log` holds every message, reset and job in order of arrival with the
stage it has reached; `saved` is the newest checkpoint of each thread, as a set
of (event, asked/answer) parts, the steps an agent takes on a question counting as
part of it. A turn loads a checkpoint (`LoadThread`) and saves one or more of its
own: of its input and after every step (`Checkpoint`, any number of times), the
last with the answer (`Answer`). Each extends what the turn *loaded*, and replaces
what the thread holds by then; a turn may fail or die after any of them. `beside`
remembers which turns were under way in the thread when a turn loaded it. Telegram
chats are in `Serial`.
LangGraph's checkpointer and the platforms' libraries are not under `src/`;
they are modelled as `handle_turn` and the adapters use them.

**Dialogue** is what a Telegram chat without jobs promises, without threads,
epochs, queues or restarts: one conversation, in which messages and resets take
effect one at a time and in the order they were written, or never. `KeepsDialogue`
is the refinement:

| Dialogue | Conversations |
|---|---|
| `done` | `Done(c)`: the turns whose question is in their thread, the resets stored |
| `conv` | `saved[Current(c)]`, the thread the chat's epoch names |
| `seen` | `Seen(c)`: what each of those turns loaded |
| `Ask`, `Answer`, `Forget` | a turn's first `Checkpoint`, `Answer`, `Reset` |

Every other step stutters: `LoadThread`, the further checkpoints of a turn, crashes
and all steps of other chats. Chats
of Discord, and chats with jobs, do not promise this (findings 2 and 3); for them
there is `LostOnlyToOverlap`.

**TelegramDelivery** follows one reply through `_run_turn`, `_keep_typing`,
`_deliver`, `_reply_markdown` and `_send` against a Bot API that may take,
refuse, reject or lose each message.

**SandboxExec** follows each `POST /execute` through its handler thread: the
shell in a process group of its own, the wait with its limit, `killpg`, and
`_read_clipped` in its two steps. The output file is the sequence of the writes
it holds together with one offset, which the shell, a process it left in the
background (in its group, or with `setsid` outside it) and the handler share.
stderr is a second such file and left out. The clients are
`SandboxBackend.aexecute` (15 s more patience than the timeout it asks for) and
the skill installer (60 s, asking for nothing); both may also be cancelled with
their turn. Requests share nothing but the container, whose processes may run
out at any time (`Refuse`) and which may restart (`Crash`).

**SandboxFiles** is a file of the sandbox and the transfers of it. Uploads and
downloads are shell commands (`sandbox_fs.py`); any other command may write the
file, too. A writer truncates the file and then writes at an offset of its own,
piece by piece, and goes on when its client is gone, so two may have it open.
The sizes are bytes: `Missing` is what the server's clipping at 60,000 characters
cuts off the base64 text, `Taken` how many characters a decoder that skips
foreign ones still accepts, `Silent` the sizes at which it then raises no error,
`TooLong` what the kernel refuses as one argument. `met`, `source` and `newest`
are history. `WritePiece`, `ReadPiece`, `Finish` and `BreakOff` are the steps of
the command, `Answer` and `LoseAnswer` of the client.

**SkillsInstall** is `install_skills` from the tool call to its report: what kind
of source it is, which folders, files and playbooks are chosen (`SkillDirs`,
`FilesUnder`, `SelectSkillPaths`, `PlaybookRel`), then one command per file, whose
exit code nobody looks at (`FailQuietly`) and which may outlive its client
(`LoseWrite`, `Land`), then the playbook. `InstalledAsDocumented` is what the
docstrings say of the result, which is false; `SkillDefectsBounded` is what is left
of it: a wrong playbook needs a nested skill that sorts first, a missing file a
command that failed. A path is a sequence of names, a name a
number, ordered as the names are. Folders in the sandbox belong to all users,
playbooks to one.

**MemoryStore** is `QdrantStore` with the process around it. A put embeds the
text, retrieves the point for its `created_at` and upserts; a request that was
sent may be carried out after the process died (`orphan`). Each write is named
by its number; `prior` and `saw` remember what it found when it began, `life`,
`first`, `raced` and `last` belong to the point. Seeding comes at every start,
before anybody is served. A listing is a search in one namespace, of which a caller
asks for page after page by offset (`_do_search`), or one of the namespaces, which
scrolls through all points by cursor and returns the first of the sorted namespaces,
as many as were asked for (`_do_list_namespaces`, `Returned`; the operation's offset
is ignored there). A namespace is a number, ordered as the tuples are.

**Turn** is what happens inside `handle_turn`: requests of the agent and its
subagents with the decider before them (`_ToolSelector`), the callbacks that add
them up (`TurnMetrics`), the images drawn. Turns overlap, calls fail, and a turn
may be cancelled with all that still runs in it.

**Sampler** is the stored byte counter with its pruning, restarts of the
container, and the rates the dashboard computes from neighbouring rows.

**Lifecycle** is `amain`: validation, the pool, the start of the adapters and the
scheduler in order, the signal, and the stop of one after the other while turns
and jobs still run. A turn or job ends `delivered`, `unsent` (its platform was up
and did not take the message: a send raised, or was put off to the last attempt, at
any time), `undelivered` (its adapter was not up) or `cut` off with the loop. `Killed`
stands for a start that fails, too.

## 3. Runs

| Run | Instance | Shows |
|---|---|---|
| `recurrence` | days of 6 units, clocks forward at 14 and back at 26, horizon 40, 12 first runs by 3 intervals | `KeepsWallTime`, `NothingSkippedAhead` for readings no transition skips, and the inductive invariant `RecurrenceInv` |
| `recurrence_gap` | the same with readings that are skipped | **violated** `KeepsWallTime`, finding 1 |
| `scheduler` | 2 processes, 1 job, clock to 3 and forward by one at 2, a crash and a restart with any allowlist, a failed poll, late inserts | `NoBacklog`, `AtMostOnce`, `CancelIsFinal`, `NothingLost`, the inductive invariant `IInv`, `KeepsLedger` and `DueIsClaimed` |
| `telegram` | 2 Telegram chats, 3 events, a crash | `ResetClears`, `FollowUpsContinue`, `EveryEventEnds`, `KeepsDialogue` and the inductive invariant `OrderInv` (with `CInv`) |
| `isolation` | a Telegram chat with jobs and a Discord chat, 3 events, a crash | `ResetIsolates`, `LostOnlyToOverlap` under full concurrency |
| `lost_exchange` | a Telegram chat with a job | **violated** `FollowUpsContinue`, finding 2 |
| `discord_reset` | a Discord chat | **violated** `ResetClears`, finding 3 |
| `delivery` | *delivery*: up to 2 chunks and 1 image. *turn*: 2 turns, 2 requests, 1 image, time to 2. *memory*: 3 keys in 2 namespaces, one of them a seed, scrolls of 1 point, limits 1 and 2, 3 writes, 2 starts. *sampler*: 3 samples, 2 lives. *lifecycle*: any configuration, 2 turns or jobs | `LostOnlyToFlood`, `FewCopies`, `QuietWhileReplying`; `OneMainCall`, `TurnsApart`; `NoStaleReturn`, `CreatedKept`, `ListingComplete`, `SeedKeepsEdits`; `RatesNeverOverstate`; `PoolOutlivesTelegram`, `AdapterUpAtEnd`; `AgentEnds`, that a handler ends and that a process told to stop does; `AgentInv`, the inductive invariants of all |
| `delivery_flood` | the same | **violated** `ReturnedMeansSent`, finding 4 |
| `sandbox` | *exec*: 1 request, timeouts 0, 1, 4 asked of a limit of 2 and a ceiling of 3, 3 writes of which 2 fit, a crash. *files*: 3 transfers of 1 or 3 pieces of 44,000 bytes. *skills*: 2 users, 2 installs of 2 repositories, 2 folders and 2 files a folder at most | `CleanTimeout`, `AnswerFaithful`, `EveryCallEnds`; `UploadedIsThere`, `RoundTrip`, `TornNeedsOverlap`; `SkillDefectsBounded`, `QuietAfterReport`; `PartsInv`, the inductive invariants of all three (`KilledAll` among them) |
| `sandbox_leftover` | the same | **violated** `StartReturned`, finding 5 |
| `skills_documented` | the same | **violated** `InstalledAsDocumented`, findings 6 and 7 |

Why the bounds are enough. Two processes are the most that one row lets interfere:
a third would meet the same locks. One job suffices for what is said of one job,
since rows do not refer to each other; that claims of several rows at once change
nothing is left to the proofs. A clock of 3 in a zone that skips one reading lets an
interval-1 job fall due three times with polls late by one or two, across the
transition. Three events are the shortest counterexamples of all three conversation
properties (an exchange, the event that disturbs it, the event that notices); a job of a Discord chat would behave as its messages do, and
two chats are one beside which another moves. How often a turn saves is not bounded.
Two chunks distinguish a first part from a later one; three attempts are the code's.
Requests to the sandbox touch no state of each other, so one is enough; its
timeouts lie below, at and above the limits, a `Lag` of 1 against a `Slack` of 4
is the least slack for which the code's comment holds, and three writes overrun an
output of two. Three transfers are a writer, a second writer that meets or follows
it, and the download that sees what came of both; a file of one piece fits into an
answer and one of three is clipped and cannot be uploaded. The two repositories
hold folders within folders that sort before `SKILL.md` and behind it, two skills
whose folders have the same name, a skill at the root, a file over the limit and more
files and folders than are taken. Three writes to the store are the shortest for
everything said of it (what is replaced, what replaces it, what comes back); the
three keys leave one before and one behind the page border, and the namespaces sort
against the order of the points, so a limit of 1 cuts off what was met first. Two
lives of the sampler are one restart between two samples; two turns or jobs are one
that runs while another waits. `recurrence` covers both transitions with several repeats on
either side. `CHECK_DEADLOCK` is never turned off: a bounded model has an explicit
idle step where the program waits.

Fairness. `FairSpec` of Scheduler grants weak fairness to the poll's steps (the
loop sleeps 30 s and a statement ends or raises) and to the restart
(docker-compose, `unless-stopped`), and nothing to the tasks the loop has started: a
due job is claimed though every turn hangs, which also holds with
`LLM_HARD_TIMEOUT=0`, and a loop that awaited its turns would fail
(`PollBeginIdle`). Crashes and database failures are bounded, which is the
assumption that they stop for long enough. Conversations grants weak fairness to
each event's handler (asyncio runs every ready task; a turn ends by
`LLM_HARD_TIMEOUT`, 3600 s, whatever steps it takes until then, so the assumption
fails where it is configured to 0; a send by its HTTP timeouts), TelegramDelivery to
the handler and to the typing task, SandboxExec to the handler thread and to time.
No command need ever end or write. `LifecycleSpec` grants it
to the shutdown sequence and to each turn (which ends by `LLM_HARD_TIMEOUT`),
because `StopEnds` (in `AgentEnds`) rests on Telegram's `Application.stop` waiting
for the handlers. The other modules promise nothing to happen and need no
fairness. Nothing is assumed of users, of the clock or of which outcome an API
call has.

## 4. Proofs

Every safety property and action property that a passing run checks is proved
for all values of the constants. The assumptions are the constants' types
(`...Assumption` in each module, evaluated by TLC in the runs), that offsets are
bounded (`ZoneAssumption`), `3 * Lag < Slack` for the sandbox's clients, and, for
`SkillsInstall`, finite trees of paths whose names are numbers in the order of
the names and are cleaned to names (`TreesAssumption`). Four theorems have a
hypothesis of their own, below. The refinements `KeepsLedger` and
`KeepsDialogue` are proved, too. Each proof has the same shape: the property is not inductive, so
an invariant that implies it is; there is a lemma for each action, and the theorem
combines them.

| Specification | Inductive invariant | Theorems about it |
|---|---|---|
| Scheduler | `IInv` | `Invariance`, `TypeCorrect`, `NoBacklogCorrect`, `AtMostOnceCorrect`, `CancelIsFinalCorrect`, `NothingLostCorrect`, `ImplementsLedger` |
| Recurrence | `RecurrenceInv` | `RecurrenceInvariance`, `KeepsWallTimeCorrect`, `NothingSkippedAheadCorrect` |
| Conversations | `CInv` | `ConversationInvariance`, `ConversationTypes`, `ResetIsolatesCorrect` |
| | `OrderInv` | `OrderInvariance`, `ClearedInTelegram`, `ResetClearsCorrect`, `ContinuesInTelegram`, `FollowUpsContinueCorrect`, `LostOnlyToOverlapCorrect`, `ImplementsDialogue` |
| SandboxExec | `SInv` | `SandboxInvariance`, `SandboxTypes`, `CleanTimeoutCorrect`, `CeilingCorrect`, `AnswerFaithfulCorrect`, `KilledAllCorrect` |
| SandboxFiles | `FilesInv` | `FilesInvariance`, `UploadedIsThereCorrect`, `RoundTripCorrect`, `TornNeedsOverlapCorrect`, `SafeBytesIsTheLimit` |
| SkillsInstall | `SkillsInv` | `SkillsInvariance`, `SkillDefectsBoundedCorrect`, `QuietAfterReportCorrect` |
| MemoryStore | `MemoryInv` | `MemoryInvariance`, `NoStaleReturnCorrect`, `CreatedKeptCorrect`, `SeedKeepsEditsCorrect` |
| | `ListInv` | `ListingInvariance`, `ListingCompleteCorrect` |
| TelegramDelivery | `DInv` | `DeliveryInvariance`, `LostOnlyToFloodCorrect`, `FewCopiesCorrect`, `QuietWhileReplyingCorrect` |
| Turn | `TurnInv` | `TurnInvariance`, `OneMainCallCorrect`, `TurnsApartCorrect` |
| Sampler | `SamplerInv` | `SamplerInvariance`, `RatesNeverOverstateCorrect` |
| Lifecycle | `LifeInv` | `LifecycleInvariance`, `PoolOutlivesTelegramCorrect`, `AdapterUpAtEndCorrect` |
| WallClock | | `NextRunIsFirst` |
| MCAgent | `AgentInv` | `AgentParts`, `AgentInvariance` |
| MCSandbox | `PartsInv` | `SandboxParts`, `SandboxPartsInvariance` |

TLC checks every one of these invariants too: `IInv`, `RecurrenceInv` and
`OrderInv` (which contains `CInv`) by name, the others in `AgentInv` and
`PartsInv`. `AgentParts` and `SandboxParts` say that the compositions the runs
explore behave as each of their parts does; hence the invariants of the parts,
all together, are theorems about the compositions, and so is everything that
follows from them.

*Scheduler.* That an occurrence has no second turn rests on its having one task
(`OneTask`), which at a claim rests on its never having been claimed; that rests
on the row standing after every poll that claimed it (`MovedOn`), which at a claim
rests on the row being due and unchanged since it was selected (`Locked`, and
`Keyed` to identify it), and on `next_run` returning an instant after the poll's
clock. The last comes from `NextRunIsFirst`: the candidates contain a slot after
now (`SearchEnds`), hence a least one, and the code's loop ends there. `TypeOK`
itself needs it: without a slot ahead, the next run would be no number. In
`ImplementsLedger`, under the mapping of section 2, a claim by poll is `Hand` of a
set of ids, a turn is `Run`, its end `Settle`, a crash `Lose`, and every other step
stutters. The steps that are not stutters need `IInv`: `Hand` may only hand out
open jobs at a new occurrence, which is `Locked` and `MovedOn`, and a run must be
in one of `waiting` and `running` only, which is `OneTask`.

*Recurrence.* Both theorems are for rows whose asked-for readings no transition
skips (`Unskipped`); without that the code does not have the property, which is
what run `recurrence_gap` shows. `NothingSkippedAheadCorrect` assumes moreover that
the zone's transitions do not crowd within twice the largest offset and that each
leads on from the offset the last one led to (`OrderlyZone`, which the zone of the
runs satisfies). `OnSchedule` says the row stands at the `m`-th reading and the
readings before it are over. That a step of `every` minutes in local time, turned
back into UTC, is the next reading again is `Unskipped`; that readings are in the
order of their instants, up to the repeated hour, is what the zone is needed for.

*Conversations.* `ResetIsolates` speaks of what a turn after a reset may see, but
the checkpointer is what must be controlled: a turn cut off by a reset may still
save, arbitrarily late. `CInv` says where it saves. A chat's epoch is bounded by
its resets (`Bounded`), each turn's thread was its chat's epoch when it was read
(`Threaded`), a thread holds parts of only those turns that loaded it (`Apart`), and
a turn that loaded before a finished reset has an older thread than the chat has
now (`CutOff`, with `ResetsOver` for the reset's end). `OrderInv` adds what
Telegram's queue gives: an update is taken when those before it are over
(`TakenInOrder`), so a reset cuts off every turn of an earlier message
(`ResetsCut`), and in a chat without jobs each checkpoint extends the last
(`InOneThread`), for which the running turn must be on the newest thread
(`OnNewest`). `ClearedInTelegram` and `ContinuesInTelegram` say it chat by chat,
with any other chats beside it; the properties of the run follow where every chat
is on Telegram (`Serial = Chats`), and for `FollowUpsContinue` where none has jobs
(`JobChats = {}`). Without those hypotheses findings 2 and 3 violate them.

`LostOnlyToOverlapCorrect` has no hypothesis: it holds of Discord and of jobs. An
answer leaves its thread only for a turn that ran there at the same time, that is,
one of the two was under way when the other loaded, and that had not loaded the
answer. What became of that turn does not matter: the checkpoint of its question is
enough, so a turn that fails, times out or dies takes another's answer away as well
as one that succeeds. `Beside` is what a step needs: of two turns under way in a
thread, the one that loaded later knows of the other; and an answer which a running
turn did not load is one of a turn that overlapped with some turn. `BesideKept` and
`LostKept` keep the two, for any step whatever (`Steps`); what a step of a turn on
its thread does is `ThreadStep`, for the loading, the saving and the answer at once.

In `ImplementsDialogue` the steps that are not stutters need `OrderInv`. The first
checkpoint of a turn is the question, the others save what is there (`InOneThread`,
which has a case for a turn that has loaded and one for a turn that has saved). A
question extends *the* conversation, and not an older thread, by `OnNewest`; it is
the last of the chat by `TakenInOrder`. An answer extends the conversation, instead of
replacing it by what its turn knew, by `InOneThread`; that it is the first answer to
its question is `Spoken`. A reset leaves an empty conversation because no turn can
have saved in a thread of an epoch to come (`Apart`, `Threaded`). What was seen stays
as it was, for a thread id is read once.

*SandboxExec.* A thread may be late at three points (getting the request, noticing
the limit, finishing the answer); `Timely` adds the three up against the client's
slack. `AnswerFaithful` rests on `Recorded`: while the offset has only been moved by
writes, the file is exactly what was written; when the handler moves it, nobody is
left who could write, or the answer is not claimed to be complete. Since a step
replaces one request's record, every action has a lemma about records, and
`StepKeeps` carries it over to all requests.

*SandboxFiles.* The invariant says what the file holds while the writer that
truncated it last met no other (`LoneWriter`, `Content`), that a download that met no
writer reads a standing file (`Undisturbed`), and hence what it has got (`Sources`).
`FileStays` covers every step of a transfer but the writing of a piece.
`SafeBytesIsTheLimit`: 44,415 bytes is the largest file whose download is not
clipped.

*SkillsInstall.* What is chosen must be known before it can be said what is
installed: `Before` orders paths strictly and linearly, so sorting by rank
enumerates a finite set in order (`InOrderFacts`); the files of an item are those
of its folder up to the limit, and its playbook is the folder's own `SKILL.md`
unless a nested one sorts before it (`FolderItemFacts`). `ItemsFollowed` then says
that every file of the folder an install is at has been treated or is still to
come; what was treated stays treated (`Grown`), through other users' writes to the
same folder too.

*MemoryStore.* `NoStaleReturn` rests on `PriorsAcked`: what a write found
acknowledged stays so and never lands again, since only writes in state `sent` or
`orphan` land. `CreatedKept` rests on `LivesSettled`: a write brings its key to life
once, so one that still sees the life it began in has looked up that life's
`created_at` (`CreatedAgrees`). `SeedKeepsEdits` rests on `Phases` and `SeedsFirst`:
while a seed file is on its way only requests of dead processes land, and those are
not acknowledged. Steps that only move an operation on are `Frame`s, which keep the
invariant by one lemma. `ListInv` says that the pages of a listing have got all of
what stayed and lies behind; by offset, behind means a rank below the offset, so the
proof is about ranks: a page that is not full has nothing behind it (`FullPage`), and
a point that appears only moves others back. What a listing of namespaces returns is
then a prefix of a finite set in order: if it leaves one out it has as many as its
limit, all smaller (`ReturnedFirst`, from `RankSlice` of `OrderLemmas`).

*TelegramDelivery.* A returned delivery has passed every part (`AllPassed`), and a
part is passed only when taken or put off (`InOrder`). That copies are bounded by
timeouts is inductive once it is known that a part that was taken is not tried
again (`NotYetTaken`). How many copies there are at most, whatever times out:
`FewTries` bounds the timeouts of the part being sent by the attempts made, of
which there are three without entities, and before them two with entities, since
the fallback to plain text takes the third to be refused; hence five copies of a
chunk, three of an error text, which has no entities, and one of a photo, which is
not retried (`CopiesBounded`). The run reaches five and three. All five answers of
Telegram go through one lemma, `HeardKeeps`. That no typing action goes out behind a
reply (`QuietWhileReplying`) rests on the typing task being awaited before the first
part is sent.

*Turn.* A row's seconds are a sum over the requests of its turn. `Total` is a
recursive function, so the proof first shows that the sum exists and is unique
(`SumExists`, `SumUnique`) and how it moves when one request ends. `MetricsOwn` then
keeps count and sum equal to what ended, because `CallsCounted` has the start of
every call under way in its own turn's metrics; `OverIsOver` keeps them so once the
turn is over.

*Sampler.* Counters start again, so a rate cannot be compared with the counters; the
invariant (`SamplesGrow`) compares rows with all traffic so far, and with that of
earlier lives of the container, neither of which ever shrinks.

*Lifecycle.* `PoolOpen` and `TelegramFirst` say how far the pool and Telegram are at
each place of `amain`, `JobsLast` that jobs come when everything is up. The invariant
does not say that nobody uses the pool after its close: turns of Discord and jobs may.

Only model-checked: liveness (`DueIsClaimed`, `EveryEventEnds`, `EveryCallEnds`,
`AgentEnds`), which is out of the prover's reach. The
library's induction theorems take an operator as a parameter, which the installed
provers cannot instantiate; where a fact needs induction (sums, ranks, the first
slot), the proof takes the least number at which it would fail, which exists because
`<` on the naturals is well-founded (`LeastNumber`).

## 5. Findings

1. *DST drift* (`scheduler.py:64`). `next_run` steps from the instant of the
   last run. When a zone skips the reading, that instant is an hour late, and
   every later run inherits it: "every day at 02:30" is 03:30 from then on.
2. *Lost exchange* (`dispatch.py:78`). Turns on one thread are not serialised
   between jobs and messages (or between Discord messages). Every checkpoint of
   one, also of one that fails in the end, is saved without what the other said
   meanwhile.
3. *Reset overtaken* (`discord_adapter.py:75`). A Discord message awaits the
   typing request before its epoch is read, so a later `!reset` can go first
   and the old message is answered inside the fresh conversation.
4. *Silent loss* (`telegram_adapter.py:95`). `RetryAfter` on the third attempt
   ends the loop of `_send` normally: nothing was sent and nothing is raised.
5. *Answer without its start* (`exec_server.py:36`). A process the command left
   behind shares the offset of the output file with the handler. If it writes
   between the handler's `seek(0)` and `read`, it overwrites what the shell
   wrote first, and the answer starts behind it.
6. *Playbook without its code* (`skills_install.py:290`). The exit code of the
   command that writes a file is not looked at: the playbook of a folder is stored,
   and the file counted and reported, though it was never written.
7. *Another skill's playbook* (`skills_install.py:273`). The first `SKILL.md` in the
   order of the paths may be one in a folder further down; its text is then stored
   under the name of the skill above. The trace of the run is finding 6; with only
   `IsOwn` in its place TLC shows this one.

Not findings, but worth knowing when reading the models: a claim that commits
and is then lost (crash, lost acknowledgement) loses that occurrence, a one-time
job for good, which the code accepts to never run one twice; a cancellation
after the claim does not stop the claimed occurrence; a job whose turn outlasts
its interval runs concurrently with itself; a failed `send` in `_fire` is
reported to nobody.
A download of 44,416 bytes or more is clipped with exit code 0; for some sizes
the notice decodes as if it were data, and the caller gets other content without
an error (`RoundTrip` bounds it by size). A seed request that a dead process sent
may land on a user's later edit (`SeedKeepsEdits` says so). Turns of Discord and
jobs may find the pool closed at a stop, and a job for Discord fired before the
login, or after a failed one, is lost (`AdapterUpAtEnd` says that this is the only
way in which an adapter is not there); and a send that raises or is put off loses a
result at any time. A delete acknowledged between a put's read and its upsert is
undone, and `created_at` is then of the point's former life (`CreatedKept` confines
it to such points). A listing of namespaces ignores the operation's offset and its
filters. Two users' skills of the
same name share a folder, which is never cleaned of files an earlier version had.
The count of samples until the next pruning starts again with the process, so one
that crashes early every time never prunes; an interval of 0 divides by zero. A
misspelled platform name beside a right one passes validation.

## 6. Not modelled

Each for its reason, none of it left for later:

- *Prompt texts, model construction, search and memory tools, embeddings*:
  stateless calls and settings passed to third-party constructors; nothing
  interleaves. Of `agent.py` only the tool selector decides anything.
- *The pgvector and in-memory stores* are library classes the code only
  constructs. *Ranked search* returns what the server ranks.
- *The dashboard* apart from its rates: read-only SQL aggregates and a page.
- *Discord's reply chunks* are sent once each, with nothing to retry; *static
  command texts* of both adapters and the choice of a photo's size.
- *Parsing of environment variables*; what is validated is in Lifecycle.
- *`_safe_rel`* of the skill installer: the names in a model's tree are safe.
  The fetch of a raw file reads the branch anew, so a push between the listing
  and the fetch mixes two versions; the model's trees do not change.
- *The request's authorisation, `/healthz` and malformed requests* of the
  sandbox server change no state.
- *The smoke script, SearXNG and container configuration.* The restart policy is
  an assumption of Scheduler's fairness.
