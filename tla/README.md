# TLA+ models of antigravity-telegram-agent

The program is a Telegram gateway to the `agy` command line agent. Administrators
send messages to one or several bots; each message is a prompt for an `agy` child
process that runs under one of several Google accounts. This directory holds
models of the parts in which order, concurrency and failure decide whether that
works, TLC runs that check them on small instances, and TLAPS proofs about them.
All paths below are relative to the repository root.

## 1. The system

| Component | State | Operations | Shared with |
|---|---|---|---|
| Account pool, `account_pool.go` | `accounts`, `pinnedChat`, `activeChat`, the file `accounts.json`, all under `p.mu` | acquire, release, mark and clear cooldown, freeze, unfreeze, delete, pin, unpin, switch, login (`IngestCurrentAccount`), quota probe, reaper, `LoadState`/`SaveState` | called by sessions (`start`, recoveries, `finalizeTurn`, `Kill`) and by the account buttons |
| Agent sessions, `session.go` | `globalSessions` under `sessionMu`; the fields of `AgySession` under `s.mu`; `startMu` | `acquireSession`, `start`, `Kill`, `Restart`, `readStdout` with stream recovery, quota failover and safe parking, `finalizeTurn`, the waiter, `checkTurnInactivity`, `CleanIdleSessions`, `GracefulShutdown`, the throttler | handler goroutines, one reader, waiter, watchdog and throttler per process, the GC |
| Chat commands, `handlers.go` | `chatQueues` under `chatQueuesMu` | `dispatchUpdate` and its workers, `handleMessagePayload`, `/stop`, `/clear`, callbacks | sessions, storage, pool |
| Account commands, `account_handlers.go` | none of its own | freeze, delete, login buttons, `ResetAccountSessions` | pool and sessions |
| Polling, `webhook_guard.go`, `rich_message.go` | offset, failure count, alert cooldown | `getUpdatesWithRecovery`, conflict recovery, jitter backoff | Telegram, the bot loop |
| Entry and shutdown, `main.go` | list of bots, stop channels | `startBotPolling`, the shutdown sequence | all |
| Subprocess watchdog, `subprocess_watchdog.go` | `stoppedProcSince` | scan `/proc`, SIGCONT and SIGKILL after a grace period | the process groups of sessions |
| Storage, `storage.go` | SQLite tables of users and sessions | ownership, history, orphaning | handlers, the init event of the reader |
| Parser, formatters, rich messages | a bounded cache of rich messages | chunking, Markdown to HTML, sends with fallbacks | handlers, throttler |
| TTS, model list, environment, metrics | engine choice, a cached model list, counters | synthesis with failover, parsing of a list | handlers |
| Harvester, `pkg/harvester`, `cmd/agy-harvester` | files on disk, the transcripts agents write | scan, classify, pack, exhume, audit, last response of a transcript | `/export`, `finalizeTurn`, the command line |

A message travels: Telegram -> poller (offset) -> channel of the bot -> access check ->
queue of the chat -> worker -> `handleMessagePayload` -> `acquireSession` -> `start`
(which binds an account of the pool) -> placeholder message -> prompt into the pipe.
The agent's answer travels: reader -> `finalizeTurn` -> answer in Telegram,
`ReleaseAccount`; or reader -> error -> recovery (`Kill`, arm the turn again, sleep,
`start`, prompt), on the same account, on another one, or parking.

What is hard here:

* a recovery is a sequence of lock sections with sleeps and Telegram requests between
  them, and messages, `/stop`, the GC, the watchdog and a freeze act on the same session
  in the gaps;
* the goroutines of a killed process are still alive when its successor starts;
* `start` lets go of the session's lock between making the context of a process and
  having the process, so a `Kill` may reach the one and not the other;
* an answer is put together from what was streamed and from a file of the whole
  conversation that the agent writes at its own pace;
* the pool's counts are kept by callers who do not pair acquire with release;
* two registries (memory and file) must tell the same story after a crash;
* the result of a quota probe is applied long after the account was looked at;
* a chat's worker retires while an update is being enqueued; bounded queues overflow;
* drafts and the several ends of a turn write to Telegram without the lock, each with the
  message and text it copied before;
* which conversation a user is in is kept in the database, in the session and in the
  agent, and written by commands and by readers that come late;
* `/proc` is read entry by entry while processes come, go and take over identifiers.

What makes each component correct:

* pool: no chat is assigned a frozen or deleted account; a frozen account stays
  frozen and a resting one rests; state, count and deadline of an account agree; a
  crash forgets no decision; every rest ends;
* intake: no update of an administrator is dropped, stranded, handled twice in one
  life of the process or overtaken by a later one of its bot while it waits;
* sessions: every running process can be killed through its session; every spinner in
  the chat is ended by somebody; a chat has one agent; a stop is final; the GC takes
  idle sessions only; the account of a turn in flight counts it;
* output: one end of a turn takes its message; an answer is whole or says that it is
  not; the text that ends a turn holds what was shown of it;
* watchdog of subprocesses: only a process of a session dies, only after having been
  found stopped for the whole grace period, and a stuck one does die;
* storage: a conversation belongs to one user, is listed once an agent has reported it,
  and is hidden exactly if an agent did not continue it; the row follows the agent;
* chunking: chunks fit the limit and together are the text.

## 2. The plan

Order of the modules, the most important behaviour first:

1. `AccountPool` - the pool with file, crashes and probes; `AdminHold` - what it
   promises an administrator; `AccountPool_proofs`. *Done.*
2. `AgySession` - registry, sessions, processes, recoveries. *Done.*
3. `UpdateIntake` - polling, webhooks, channels, queues and workers. *Done.*
4. `TurnOutput` - deltas, throttler, `finalizeTurn` and the other ends of a turn, the
   graceful shutdown among them. *Done.*
5. `Conversations` - ownership, history and the init event. *Done.*
6. `SubprocessWatchdog` - grace period, PID reuse, the walk to the root. *Done.*
7. `AgySession` composed with `AccountPool` (two chats on one account): the
   pairing of acquire and release, over-release by a failed rotation
   (`session.go:1650`), turns a `/stop` leaves on an account.
8. The pipe and the locks (`handlers.go:1569`): nobody waits for ever for an agent that
   does not read.
9. Chunking, TTS failover and the packer's partial failures, as operators compared
   with reference definitions.

Theorems: the type invariant of every module; every safety invariant and every safety
action property that a run checks, the refinement of `AdminHold` included, but for
`NothingTakenBack`, which comes next (section 7). *Done.* Of modules 7 to 9: that
no account is released more often than acquired, if the code keeps it, and what chunks keep
of a text.

## 3. Modules and how they correspond to the code

### AccountPool (`account_pool.go`)

`accounts`, `pinnedChat`, `activeChat` are the maps of the same names, `disk` is
`accounts.json`, `probing` the accounts whose `agy` usage command is running. Every
method holds `p.mu` to its end and is one action, its `SaveState` included;
`FetchAccountQuotas` is `ProbeBegin` and `ProbeEnd`, because the command runs between
two lock sections. The error returns of `AcquireAccount` keep the cooldown sweep in
memory and do not save it; `IngestFails` is the error return that leaves a new account
in the registry unsaved. `Restart` is a crash at any point followed by `LoadState`.
`Init` is a file of an earlier version, with bindings under keys without a bot name.

Abstractions: a time stamp is the number of ticks until it is reached, so time itself
needs no bound; the share of quota is none, up to 5 %, or more; `LastUsed` is a rank;
a rest of one hour is `MaxRest`; the profile directory, tokens and the e-mail look-up
are left out (a login of a known owner is `IngestCurrentAccount` on a registered
identifier); the Claude windows of a report are only displayed. `sort.Slice` is not
stable and walks a map: any account no other precedes may be chosen.

`AdminHold` is the abstract specification: accounts known, held and assigned to
clients. `KeepsPromise` instantiates it with *held = frozen* and *client = chat key*.

### UpdateIntake (`webhook_guard.go`, `main.go`, `handlers.go`)

`Poll`, `PollFails` and `Push` are `getUpdatesWithRecovery`; `Dispatch` is the loop of
`startBotPolling` with the access check and `dispatchUpdate` under `chatQueuesMu`;
`WorkerTakes`, `WorkerDone`, `TimerFires` and `Retire` are the goroutine of a queue.
`TimerFires` is an action of its own because the select may choose the timer, with the
lock taken only afterwards. An update without a chat, or one that finds its queue full,
is handled by a goroutine of its own (`RunLoose`): it then runs beside, and possibly
before, the updates queued earlier, which the code does on purpose
(`handlers.go:1664`), so the order property speaks of what waits. Telegram is external:
it keeps an update until a request for a later offset, and while it has a webhook for a
bot (`hook`) it refuses that bot's polls and sends the updates there. `Unhook` is
`recoverFromWebhookConflict`, `Crash` restarts with offset 0 and `clearWebhookOnStartup`,
which may fail. `lost` records what a crash took after Telegram had forgotten it, and what
a webhook received. The reply to a poll is the oldest `BatchSize` updates from the offset on
that Telegram keeps, in order (`Reply`). Left out: the alert about a webhook with its cooldown,
and the time slept after a failure, which `calculateJitterBackoff` bounds.

### AgySession (`session.go` with callers in `handlers.go`, `account_handlers.go`)

One user in one chat. `registry` is the entry in `globalSessions`; `sess[s]` has `cmd`
(the process, NoSlot when not alive), `ctx` (the context `start` makes, `new` until the
process is there, `live` while its reader, throttler and watchdog run under it, `none`
when it was cancelled), `msg` (`ActiveMessageID`), `turn`
(`ActiveTurnStart`), the two retry counters and `AccountID`; `starting` is `startMu`;
`proc[p]` is a child with its reader goroutine, whose `pc` and locals are the reader's
position in a recovery; `handler` is the goroutine that handles the chat's updates. An
action is one section under `s.mu` or `sessionMu` and the calls made in it, so the gaps
named above are where the code has them: between `Cut` (Kill), `Rearm`, `Restart`
(entering `start`) and `Respawn` (leaving it); between `Check`, `Look`, `Arm` and
`Write` of a message; between `Judge` and `Watchdog`; between removal from the registry
and `KillDoomed`; between `Freeze` and `ResetAccountSessions`. A `Kill` that falls between
the two halves of a `start` (`HandlerStart` and `HandlerSpawn`, `Restart` and `Respawn`) finds
no process and cancels the context; `Started` sets `cmd` all the same, as the code does
(`session.go:859`), and the process has then neither reader (`Child`) nor watchdog (`Judge`
needs a live context): only its waiter is left. `/stop` and `/clear` may find no
session (`registry = NoSession`): they then kill nothing. `lost`, a history variable, has the
sessions that left the registry while the handler was at work on them.

Abstractions: `/stop`, the watchdog, the give-up path and `/clear` clear fields and call
`Kill` in two sections of one goroutine that are one action here, with the *effect* of
the order kept (a turn cleared first is not released). The pool is reduced to the count
of each account and the set that rests; `ReadQuota` and `Failover` contain their pool
calls. The chat is not pinned. Text is left out; where it decides (an error reported
only if there is text) both branches are possible. `Evict` happens only while no
goroutine is in the middle of something with the session: eviction needs hours (or, under
memory pressure, 20 minutes) without activity. A session object nobody refers to is used
again, and a process slot too.

### TurnOutput (`session.go`, `handlers.go`, `rich_message.go`)

One chat. `chat` is the list of messages in it that show a turn; `session[s]` has `active`
(`ActiveMessageID`), `armed` (`ActiveTurnStart`), `buffer` and `truncated`; `reader[r]` and
`throttle[r]` are the two goroutines of a process, with what they copied; `taker` holds
`/stop`, the inactivity watchdog and the shutdown. Every one of them is cut where the code
lets go of the lock: `Result`, `SendAnswer`, `Clean` are `finalizeTurn`; `Error`, `Fail`,
`SendError` the error branch of `readStdout`; `Tick`, `Draft` the throttler; `Stalled`,
`Take`, `KillTaken`, `SendTaken` the two looks of `checkTurnInactivity` and what follows
(`/stop` begins with `Take`, the shutdown sends before it kills). `Begin`, `Look`, `Post`,
`Arm`, `Write` are a message from `acquireSession` to the pipe. A text is a sequence of
pieces `<<turn, number>>`, so a hole, a foreign piece or a missing tail can be seen. A
line that was read before its process was killed may be handled afterwards. Edits may be
refused (a new message is sent) or find the message gone.

`Result` may take the answer from the transcript. `given` has the prompts that agents of the
conversation got; the file's last response (`LastResponses`) may be the one to any of them,
because agents write on their own, and of a turn with several responses it is a later part.
It is taken (`Recovers`) if it is longer than the buffer and begins with it; whose it is, is not asked. A
buffer is empty for a turn without text (`Silent`) and when its deltas did not fit. `guessed`, a
history variable, has the turns whose answer was taken so without a beginning of their text in
the buffer.

Abstractions: one bound `LongAt` stands for the 4000 characters of a chunk and the 32768
of a rich message; notices are left out; stream and quota recoveries, which restore the
message they hold, are in `AgySession` only, and so are starts that a `Kill` falls into; the program's other goroutines end with it.

### Conversations (`storage.go`, `session.go`, `handlers.go`, `account_handlers.go`)

`row`, `listed` and `hidden` are `users.session_id` (with the setup: model or workspace),
`session_history` and its `is_orphaned`; `agent[n]` is a session object with the reader of
its process; `registry` is `globalSessions` by seat (a user in a chat); `worker` is the
goroutine of a chat's queue. `HandleUpdate` reads the user, as the code does, before the
command is worked on; `Acquire` is `acquireSession`; `Save`, `Wait`, `Wipe` are what the
commands write afterwards. The init event is three actions: `Told` (session updated),
`Looked` (desync, orphaned) and `Saved`. Agy, external, answers with the conversation it
was asked for, if it ever spoke it, or with a new one. `made` says for whom an id was made
up. A crash may fall between any two of these; the database keeps what was written.

Abstractions: the two statements of `updateUserSession` are one step (one connection, no
other goroutine reads between them what would differ); model and workspace are one setup
of two values; the placeholder, the turns and the kills of a recovery are in the other
modules; `Restart` stands for recoveries after the init event of the process before.

### SubprocessWatchdog (`subprocess_watchdog.go`)

`Collect` (the roots, under `sessionMu`), one `Read` for each entry of `/proc`, and `Reap`
(under `watchdogMu`) are `ReapStoppedSubprocesses`; `since` is `stoppedProcSince`, as ticks
since the time noted. `Found` is `findStoppedDescendants`: `LeadTo` is the least set that
contains the roots and every process whose parent it contains, which is what the walks along
the parents find together. Between these steps processes fork, stop, go on, exit and lose their
parents.
Identifiers are handed out in turn, so one that is freed comes back between two scans, not
within one; a root's identifier is not reused before the supervisor has waited for it.
`quiet`, a history variable, counts the ticks since a look at `/proc` did not find the PID
stopped below a session, or killed it.

## 4. Runs

| Run | Instance | States | Question |
|---|---|---|---|
| `pool_chats` | 2 accounts, 1 bot, 1 chat with legacy key | 69 thousand | bindings, fields, durability, freezes and the promise of `AdminHold`, under every operation and a crash anywhere |
| `pool_rests` | 2 accounts, 5 usage reports, probes in flight | 144 thousand | late verdicts against freezes, rests and fields; every rest ends |
| `pool_lost_freeze` | 1 account, saves may fail | 200 | *violated*: "strictly suspended until ... UnfreezeAccount" |
| `intake_crash` | 2 bots, a chat they share, 4 updates, one of a stranger, 1 crash or webhook, 1 webhook from before | 229 thousand | nothing dropped, stranded, repeated, overtaken; everything handled in the end |
| `session_admin` | 2 messages, stops, clears or replacements, eviction, freeze; 2 sessions, 2 processes, spawns that fail | 1.5 million | no process out of reach, no spinner left alone, when the registry changes before the kill; a stop and a clear are final |
| `session_turn_ends` | 1 message; streams, quotas and spawns fail, agents hang; 2 processes, 2 accounts, one of which is frozen | 459 thousand | no process out of reach, no spinner left alone, and every turn ends, through retries, failover and parking |
| `turn_output` | 2 prompts of 2 pieces, 2 processes, 1 fault, 1 stop, stall or shutdown | 3.0 million | one end takes the message; answers are whole or marked; the text that ends a turn holds what was shown |
| `turn_transcript` | 2 prompts, the second without a text | 126 | *violated*: "the full 100% response from disk is restored" |
| `conversations` | 2 users, 2 chats, 2 commands, 3 sessions, 4 ids, 2 faults | 1.9 million | privacy, history, orphans and the row, against late init events |
| `watchdog` | 2 process identifiers, 2 sessions, a grace period of 2 ticks | 52 thousand | only own processes, only after the grace period, and those in the end |
| `session_duplicate` | 2 messages, stream errors | 10 thousand | *violated*: one process per chat |
| `session_stop` | 1 message whose first spawn fails, 1 stop | 600 | *violated*: "No active tasks to interrupt" |

The instances are chosen by what the properties need. In the pool, two accounts are the
least with a choice and a neighbour, and one chat with one bot has both keys of the
look-up; a deadline of one tick distinguishes ahead, now and passed, and two ticks let a
later verdict shorten an earlier one. `pool_rests` has no chats, so none of its accounts is in
use: what `FieldsAgree` and `RestIsServed` say of those is left to `pool_chats` (the former) and
to the theorems. `pool_lost_freeze` leaves logins out, so that only a failed save can explain
what it finds. In the intake, a queue and a channel of one element
are full as soon as they are used, two bots meet in one queue, and one crash separates a
first from a second life; a webhook is set while the program polls, or is there when it starts.
In the sessions, two objects are a session and its replacement, two
processes are an old one and its successor, or duplicates; `MaxRecoveries` bounds the
recoveries under way at once, `MaxWork` the unanswered prompts of an agent and `MaxTurns`
is where the count of an account stops (it saturates, so the runs say nothing about larger
counts). In `session_turn_ends` one message is followed through every recovery, stream and
quota errors mixed; the freeze, whose kill may fall into any of the starts, is what makes the
exception of its properties happen. A second message beside such a recovery, a third
process or a third message exceed what a run can explore; for those instances there are
the proofs (`NoProcessIsLost` and `NoSpinnerAlone` are about any number of them), and
`session_duplicate` is one of them. In `turn_output`,
two prompts let text of one turn meet the message of the next,
two pieces make a prefix, a hole, a response that is only the last part of a turn and a text
too long for a message, and a second process is
one that replaces a stopped one. In `conversations`, one user alone in a second chat shares
his row between two sessions, and one chat shared with another user has buttons of both; two
commands and the init events they cause meet in every order, and two faults put a crash after
a failed start or an eviction. In `watchdog`, two
identifiers are a root and its child, two roots, or one of them and a stranger, each of which may
take over the other's identifier between scans; a grace period of two ticks tells a time that
was noted anew from one that was kept. A grandchild needs a third identifier, with which the
liveness check does not end in reasonable time; `LeadTo` treats it like a child.
`CHECK_DEADLOCK FALSE` is set for the sessions, the output and the conversations because the
user stops after the bounded number of messages; in the other modules nothing may stop.

The violated properties are what the repository's own text says:

* `OnlyUnfreezeThaws`: a freeze whose save fails is reported as done and gone after a
  restart. Apart from failing saves, a login of the account's owner also thaws it
  (`account_pool.go:1232`); `FreezeHolds` names that exit.
* `OneProcess`: between `Kill` and `start` of a recovery the registered session is dead, so a
  message replaces it; the reader starts the replaced one as well.
* `NoActiveTasks`: `acquireSession` removes a session whose `start` failed from the registry,
  `getSession` drops the error (`session.go:580`), and the handler starts that session again
  (`handlers.go:1473`). If it starts this time the turn runs, and `/stop` finds no session.
  The attempt to prove `StopIsFinal` led to it: the invariant had to say which session a
  running process belongs to, and there was a third kind beside registered and doomed ones.
* `AnswerIsOwn`: the second turn ends without a text, the buffer is empty, and the last
  response in the transcript, that to the first prompt, is posted as the answer to the second
  (`session.go:1922`-`1932`); "No response from agent." (`session.go:1940`) is never reached
  in a conversation that has an answer. A transcript that is written late does the same to a
  turn whose deltas did not reach the buffer.

## 5. What the models show beside the properties

Behaviour of the code that a reader of the models will meet. Where a property has an
exception, it is one of these.

* A recovery arms and starts without looking whether it was stopped meanwhile
  (`session.go:1435`): `StopIsFinal` is checked and proved without stream and quota errors.
* A session may run although no registry knows it: after the failed start of `session_stop`,
  or when a freeze resets it while the handler is about to write to it. Nothing but its own
  end or the inactivity watchdog ends that process: the sessions in `lost`.
* A `Kill` while `start` is under way (a freeze, the second section of an eviction, the
  watchdog, `/stop` and `/clear` against a recovery) cancels the context of the process being
  started and finds nothing to kill; `start` then marks the session alive without a look at
  the context (`session.go:756`-`764`, `859`-`865`). The process runs, but its reader (`1170`),
  throttler (`1793`) and turn watchdog (`902`) return at once. A message armed then has nobody
  to end it, and the GC takes the session for busy (`703`), until the user sends `/stop`, the
  process exits or the session is replaced. `KilledInStart` names these sessions, and
  `SpinnerIsWatched` and `TurnEnds` exempt them and no others; without the exemption both
  fail, with one message and one freeze. Such a process is still within reach of a `Kill`
  (`WithinReach`, without exception).
* `start` acquires once per process, `finalizeTurn` releases once per turn
  (`session.go:1965`): from the second turn of a live session on the pool counts none.
* A turn whose placeholder could not be sent has both fields at zero, and the GC takes its
  session for idle (`session.go:703`).
* An error copies the message before it disarms it (`session.go:1370`, `1728`), so it may
  write into one that `/stop`, the watchdog or the shutdown has taken: the exception in
  `OneTaker` and `NothingTakenBack`.
* A session that is started again by the handler shares its fields with the old process's
  reader until that one ends, which may then add to or clear the new text, or end a turn of
  its own in the new message (`session.go:1174`): the turns in `haunted`. What counts for
  `NothingTakenBack` is the turn for which the message was posted; an instance with three
  prompts shows the difference, two do not.
* A draft copied before the final answer may arrive after it; `DraftsEndAtDisarm` says that
  no later one does.
* The transcript's last response is taken for the turn's answer though it may belong to
  another turn, or be only the last of several of this one, if the buffer does not begin with
  a piece of this turn that tells (`session.go:1922`); the mark of a truncated text is cleared
  with it. These are the turns in `guessed`, the exception in `WholeOrMarked`; with a
  beginning in the buffer the comparison is enough, which is part of what is proved.
* `sendChunk` edits in only the first chunk; the rest of a long text is sent by
  `sendAdaptiveResponseWithWorkspace`, not for stalls, errors and the shutdown
  (`handlers.go:2111`).
* `finalizeTurn` does not reset `TextTruncated` (`session.go:1952`): the answers after a
  truncated one say that they are truncated too.
* One row holds the conversation of all chats of a user: a message in one chat moves to the
  conversation begun in another, and a command or a late init event may save over a newer
  id (`handlers.go:1261`, `1070`; `session.go:1269`). In a resume that agy refuses, the reader
  may save the new id first and the handler the refused one after it. These are the users in
  `stray`; docs/ARCHITECTURE.md:536 describes the row as following the agent.
* `is_orphaned` is never reset, also if a later process continues the conversation.
* An id made up by `getUser` is not in the history; agy cannot know it, so the first message
  of a user is no desync (`session.go:1240`).

## 6. Fairness

* Pool: `WF(Reap)` - the reaper's ticker fires every 30 seconds; `WF(Tick)` - time passes.
  No operation of a user, no probe and no save is fair.
* Intake: weak fairness of the goroutines and of `Poll` (a request that fails is repeated
  for ever, and failing for ever is excluded); strong fairness of `WorkerTakes`, because
  Go's select chooses at random between a task and the timer. Handlers return, because every
  outgoing request has a timeout. The recovery from a webhook is part of the poller: deleting
  it does not fail for ever.
* Watchdog: weak fairness of the worker, a goroutine with a ticker that reads a `/proc` that
  can be read, and of the clock. No process does anything it need not, and none stops for
  good unless it wants to: `StuckIsReaped` says that none stays stopped below a session.
* Output and conversations have no liveness property: how turns end is in the sessions.
* Sessions: weak fairness of the handler, of each reader, waiter and watchdog, and of
  the kills that follow an eviction or a freeze. Neither the user, nor the agent (it may
  hang), nor the end of a cooldown is fair. `Judge` is fair because a turn in which nothing
  happens exceeds the inactivity limit, as long as the context of its process lives: the
  goroutine with the ticker (`session.go:902`) ends with it, and `Judge` with `ctx`.

## 7. Proofs

Every theorem is for any values of the constants that meet the assumption of its module:
any number of accounts, chats, users, sessions, processes, updates and prompts, and any
bounds. `TypeCorrect` (`[]TypeOK`) is proved of every component's module; below, what else, and how.

**Pool** (`AccountPool_proofs`, `AccountPoolPromise_proofs`).
`FieldsSafe` and `BindingsSafe` (`[]FieldsAgree`, `[]NoDanglingBinding`) hold also when saves
fail. If saves succeed (`SaveOutcomes = {TRUE}`), `SavesAreDurable` (`[]Durable`),
`FreezesHold` (`FreezeHolds`), `RestsAreServed` (`RestIsServed`) and `PromiseKept`
(`KeepsPromise`: `AccountPool` implements `AdminHold`). The assumption is needed:
`pool_lost_freeze` shows what happens without.

The invariant is `IInv`: one predicate `PoolInv` (types, consistent fields, valid
bindings) of the registry in memory *and* of the one in the file. Neither half is
inductive alone: a restart turns the file into the memory, a save the memory into the
file. Written as one predicate, each operation is looked at once (`ReleaseInv`,
`FreezeInv`, ...), and `FileKept` says that the file holds the new registry or what it
held. The lemmas about the record helpers (`ReleasedFits`, `RestingFits`,
`RecoveredFits`, `JudgedFits`, ...) carry the content. `Durable` is not inductive
because three steps change memory without saving (the error returns of
`AcquireAccount`, `IngestFails`, `Restart`) and one changes both (`Tick`); what they
change is nothing an administrator decided (`SavedOrUndecided`). For the refinement, a step
either leaves everything `AdminHold` sees as it is (`SameView`), or is one of its steps
(`AssignStep`, `HoldStep`, `LiftStep`, ...); a restart needs `Durable`, because only then the
file tells the same story. A rest survives a restart because it is in the file with its
deadline (`RestsFiled`).

**Intake** (`UpdateIntake_proofs`). `NoStrandedQueue`, `NothingIsDropped`, `OnceInALife` and
`OrderIsKept` (`QueueHasWorker`, `NothingDropped`, `HandledOnce`, `WaitInOrder`), all from one
invariant, `IntakeInv`. It says of each bot that its offset is a frontier: what was sent
before it has left Telegram's care and is found in the channel, a queue, a handler or among
what was handled or lost (`KeepInv`); everything in memory beyond the poller's batch is older
than the offset, and the batch is newer (`OrderInv`); only what has passed it in this life
can have been begun in it (`OnceInv`). No single property is inductive without the others: an
update is handled once because it is queued once, and queued once because the offset has
passed it.

**Sessions** (`AgySession_proofs`). `NoProcessIsLost` and `NoSpinnerAlone` (`WithinReach`,
`SpinnerIsWatched`), with recoveries of all kinds. `SessionInv` adds to them what they rest
on: who is between the test of `isAlive` and the new process holds `startMu`, and the session
is dead meanwhile (`Locks`; without it a waiter or a second `start` would lose a process); the
session being started for the first time is known to nobody else (`Fresh`); and where the
handler and each reader may go next (`Bound`, `Planned`). It speaks of spinners whose process
is alive (`SpinnerHeld`); that an alive process is either watched or was killed in its start,
is an invariant of its own (`Contexts`: a session with a process has no `new` context), and
the two together give `SpinnerIsWatched`. The steps are summarised by what
they do to processes and sessions (`Dies`, `Stays`, `Rearms`, `Moves`), so a lemma is shared
by all that kill, or all that write into a session.
`StopHolds` is `[]StopIsFinal` for `Answers \subseteq {"ok", "other"}`: no stream and quota
errors, because a recovery starts again what was stopped (section 5). `StopInv` says to which
session a running process belongs (`Known`), at which one the handler is (`HandlerAt`) and
that it rests after a stop (`Rests`).

**Output** (`TurnOutput_proofs`, `TurnText_proofs`). `OneTakerHolds`, `DraftsEnd` and
`AnswersAreWhole` (`OneTaker`, `DraftsEndAtDisarm`, `WholeOrMarked`). Each action is first
restated as what it does to one session, one reader and one taker (`ResultMoves`, ...); the
invariants are proved from these in layers. `Held` is about messages: one that a session
shows was taken by nobody (`Untaken`) and is shown by no other session (`Apart`).
`WholeOrMarked` needs to know what is in a buffer: of the registered session it is the prefix
of the answer its reader has read so far, unless the turn is spoilt (`TextInv`); for that, one
process runs at most (`Procs`), the turns of a killed process are cut off (`CutInv`), and
those begun beside a lingering reader are in `haunted` (`LingerInv`); a response from the
transcript that begins with a buffer of this turn's text is this turn's, from its first piece
on (`BegunIsWhole`), and any other one is in `guessed`; `SendInv` takes it to the chat.

**Conversations** (`Conversations_proofs`). `OnlyOwnConversations`, `NoneOutOfSight`,
`HiddenOnlyWhenRefused`, `LostIsHidden` and `RowFollows`, the invariants of the run. An id may
stand in the row, the history, a worker's hand, a session and a process, each written at its
own time. `ConvInv`
says of every place that the id was made for that user (`Mine`) and is in his history unless
agy has never spoken it (`Placed`), with one exception, an id just reported; and of a refused
id that it is hidden or some reader has yet to compare it (`RefusedOK`). It survives because
ids are only made and histories only grow (`Grows`).

**Watchdog** (`SubprocessWatchdog_proofs`). `GraceObserved` (`GraceIsObserved`) rests on
`since[p] <= quiet[p]`: the time noted against a PID was observed. `OnlyOwnDie`
(`OnlyOwnTree`) rests on a set of foreigners fixed for the length of a scan (`Foreigners`):
what is read of one names one as its parent, no root is one, so no walk along the parents
meets one, however old the entries are.

Assumptions: `PoolAssumption`, `IntakeAssumption`, `SessionAssumption`, `OutputAssumption`,
`ConversationsAssumption` and `WatchdogAssumption` only, evaluated by TLC in the runs. They
say that null values are distinct, bounds are numbers (positive where the code's are),
accounts and processes finitely many, and that the initial history of `Conversations` fits
its bound. Every inductive invariant was checked by TLC on the instances above before it was
proved.

Only model-checked: `NothingTakenBack`, whose invariant must follow every text from the buffer
through a draft into each end of its turn; and liveness under fairness (`RestEnds`,
`EventuallyHandled`, `TurnEnds`, `StuckIsReaped`), which the proof system does not handle.

## 8. What is not modelled

Planned (section 2): the pairing of acquire and release across chats, the pipe and the
locks, chunking, TTS failover, the harvester. Formatters, environment builder, metrics, model
list, version and deployment scripts have no state other parts rely on and stay out: string
rewriting and I/O. Within the modelled parts, uploads, document batches, voice input, rename,
export and menus of `handlers.go`, the dashboards of `account_handlers.go`, artifacts and
compaction hints of `session.go`, the alerts of `webhook_guard.go` and the migrations of
`storage.go` are left out for the same reason.

Limits of the models: stops and continues of a process between two reads of `/proc` are
invisible to the code and to `quiet`; descendants whose parents have all died belong to
process 1 and escape the watchdog, as `Below` says; how long Telegram takes is not bounded
anywhere; identifiers of processes and conversations are finitely many.
