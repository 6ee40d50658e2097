---------------------------- MODULE UpdateIntake ----------------------------
(***************************************************************************)
(* The way of a Telegram update into the program: long polling with a      *)
(* moving offset, kept free of webhooks that others set                    *)
(* (webhook_guard.go), the access check of each bot's loop                 *)
(* (main.go) and the per-chat queues with their short-lived workers        *)
(* (handlers.go), up to the end of handleUpdate.                           *)
(*                                                                         *)
(* Telegram keeps an update until a poll asks for a later one; everything  *)
(* the program holds is in memory and is gone when it stops.               *)
(***************************************************************************)
EXTENDS Integers, SequencesExt

CONSTANTS
  Bots,
  Updates,      (* update identifiers, numbers                             *)
  BotOf,        (* the bot an update is sent to                            *)
  ChatOf,       (* the chat it belongs to, or NoChat                       *)
  NoChat,
  Allowed,      (* the updates sent by an administrator                    *)
  Nobody,       (* no update                                               *)
  BatchSize,    (* updates in one reply of Telegram; 100 in reality        *)
  Buffer,       (* capacity of a bot's updates channel; 100 in the code    *)
  QueueCap,     (* capacity of a chat's queue; 100 in the code             *)
  MaxTroubles,  (* bound on the number of times the program stops or       *)
                (* somebody sets a webhook                                 *)
  Left          (* bots with a webhook that the first clearing may leave   *)

ASSUME IntakeAssumption ==
  /\ Updates \subseteq Nat \ {0}
  /\ BotOf \in [Updates -> Bots]
  /\ Allowed \subseteq Updates /\ Left \subseteq Bots
  /\ Nobody \notin Updates
  /\ {BatchSize, Buffer, QueueCap} \subseteq Nat \ {0}
  /\ MaxTroubles \in Nat

VARIABLES
  arrived,   (* updates users have sent                                    *)
  telegram,  (* those Telegram still keeps                                 *)
  hook,      (* the bots Telegram has a webhook for, which refuses polls   *)
  offset,    (* config.Offset of each bot's poller                         *)
  batch,     (* the reply a poller is working through                      *)
  channel,   (* the updates channel of each bot                            *)
  queue,     (* chatQueues, empty when there is no entry                   *)
  worker,    (* the goroutine of a chat's queue                            *)
  serving,   (* the update a worker is handling                            *)
  loose,     (* updates handled by a goroutine of their own                *)
  begun,     (* how often handleUpdate was entered for an update           *)
  handled,   (* updates whose handler returned                             *)
  lost,      (* updates gone for good: in memory when the program died, or *)
             (* sent to somebody's webhook                                 *)
  crashes,
  hooks      (* how often a webhook was set                                *)

telegramVars == <<arrived, telegram, hook, hooks>>
pollVars == <<offset, batch>>
chatVars == <<queue, worker, serving>>
history == <<begun, handled, lost>>
vars == <<telegramVars, pollVars, channel, chatVars, loose, history, crashes>>

Chats == {ChatOf[u] : u \in Updates} \ {NoChat}
Of(b) == {u \in Updates : BotOf[u] = b}

(* The next update of its bot is sent. *)
Arrive(u) ==
  /\ u \notin arrived
  /\ \A o \in Of(BotOf[u]) : o < u => o \in arrived
  /\ arrived' = arrived \cup {u}
  /\ telegram' = telegram \cup {u}
  /\ UNCHANGED <<hook, hooks, pollVars, channel, chatVars, loose, history, crashes>>

-----------------------------------------------------------------------------
(* The poller of a bot. *)

(* A request for offset n makes Telegram forget the updates before n. *)
Kept(b) == telegram \ {u \in Of(b) : u < offset[b]}

(* The members of H stand in s in the order they were sent, each once. *)
Ascending(s, H) == \A i, j \in DOMAIN s : i < j /\ {s[i], s[j]} \subseteq H => s[i] < s[j]

(* The reply: the oldest updates kept for the bot, in order. *)
Reply(b) ==
  LET waiting == Kept(b) \cap Of(b)
  IN  {s \in SeqOf(waiting, BatchSize) :
         /\ Ascending(s, waiting)
         /\ \A u \in waiting \ ToSet(s) : Len(s) = BatchSize /\ \A o \in ToSet(s) : o < u}

Poll(b) ==
  /\ batch[b] = <<>> /\ b \notin hook
  /\ telegram' = Kept(b)
  /\ \E reply \in Reply(b) : batch' = [batch EXCEPT ![b] = reply]
  /\ UNCHANGED <<arrived, hook, hooks, offset, channel, chatVars, loose, history, crashes>>

(* The reply is lost: Telegram acted on the request, the poller retries.   *)
(* A request that is lost changes nothing.                                 *)
PollFails(b) ==
  /\ batch[b] = <<>> /\ b \notin hook
  /\ telegram' = Kept(b)
  /\ UNCHANGED <<arrived, hook, hooks, pollVars, channel, chatVars, loose, history, crashes>>

(* Somebody sets a webhook for the bot, and Telegram sends updates to it. *)
SetHook(b) ==
  /\ crashes + hooks < MaxTroubles
  /\ hooks' = hooks + 1
  /\ hook' = hook \cup {b}
  /\ UNCHANGED <<arrived, telegram, pollVars, channel, chatVars, loose, history, crashes>>

Hijack(u) ==
  /\ u \in telegram /\ BotOf[u] \in hook
  /\ telegram' = telegram \ {u}
  /\ lost' = lost \cup {u}
  /\ UNCHANGED <<arrived, hook, hooks, pollVars, channel, chatVars, loose, begun, handled, crashes>>

(* Mutants of Unhook: what waits is dropped with the webhook; a conflict   *)
(* is met like any other error.                                            *)
UnhookAndDrop(b) ==
  /\ batch[b] = <<>> /\ b \in hook
  /\ hook' = hook \ {b}
  /\ telegram' = telegram \ Of(b)
  /\ UNCHANGED <<arrived, hooks, pollVars, channel, chatVars, loose, history, crashes>>
UnhookNever(b) == FALSE /\ b \in hook /\ UNCHANGED vars

(* A poll is refused with 409 Conflict: recoverFromWebhookConflict has the *)
(* webhook deleted, and keeps what waits.  If that fails it starts over.   *)
Unhook(b) ==
  /\ batch[b] = <<>> /\ b \in hook
  /\ hook' = hook \ {b}
  /\ UNCHANGED <<arrived, telegram, hooks, pollVars, channel, chatVars, loose, history, crashes>>

(* Mutant of Push: the offset stays behind. *)
PushWithoutOffset(b) ==
  /\ batch[b] # <<>>
  /\ Len(channel[b]) < Buffer
  /\ channel' = [channel EXCEPT ![b] = Append(@, Head(batch[b]))]
  /\ batch' = [batch EXCEPT ![b] = Tail(@)]
  /\ UNCHANGED <<telegramVars, offset, chatVars, loose, history, crashes>>

(* The poller hands over the next update of its batch, and waits while the *)
(* channel is full.                                                        *)
Push(b) ==
  /\ batch[b] # <<>>
  /\ Len(channel[b]) < Buffer
  /\ LET u == Head(batch[b])
     IN  IF u >= offset[b]
         THEN /\ offset' = [offset EXCEPT ![b] = u + 1]
              /\ channel' = [channel EXCEPT ![b] = Append(@, u)]
         ELSE UNCHANGED <<offset, channel>>
  /\ batch' = [batch EXCEPT ![b] = Tail(@)]
  /\ UNCHANGED <<telegramVars, chatVars, loose, history, crashes>>

-----------------------------------------------------------------------------
(* The loop of a bot, and dispatchUpdate. *)

RunLoose(u) ==
  /\ loose' = loose \cup {u}
  /\ begun' = [begun EXCEPT ![u] = @ + 1]
  /\ UNCHANGED <<queue, worker>>

(* Mutants of Enqueue: the newest goes first; a full queue drops it. *)
EnqueueInFront(u) ==
  /\ queue' = [queue EXCEPT ![ChatOf[u]] = <<u>> \o @]
  /\ worker' = [worker EXCEPT ![ChatOf[u]] = IF @ = "none" THEN "idle" ELSE @]
  /\ UNCHANGED <<loose, begun>>

EnqueueOrDrop(u) ==
  LET c == ChatOf[u]
  IN  /\ queue' = [queue EXCEPT ![c] = IF Len(@) < QueueCap THEN Append(@, u) ELSE @]
      /\ worker' = [worker EXCEPT ![c] = IF @ = "none" THEN "idle" ELSE @]
      /\ UNCHANGED <<loose, begun>>

(* A chat without an entry gets a fresh queue and a worker; a full queue   *)
(* makes the update run beside it.  chatQueuesMu is held throughout.       *)
Enqueue(u) ==
  LET c == ChatOf[u]
  IN  \/ /\ worker[c] = "none"
         /\ queue' = [queue EXCEPT ![c] = <<u>>]
         /\ worker' = [worker EXCEPT ![c] = "idle"]
         /\ UNCHANGED <<loose, begun>>
      \/ /\ worker[c] # "none" /\ Len(queue[c]) < QueueCap
         /\ queue' = [queue EXCEPT ![c] = Append(@, u)]
         /\ UNCHANGED <<worker, loose, begun>>
      \/ /\ worker[c] # "none" /\ Len(queue[c]) >= QueueCap
         /\ RunLoose(u)

Dispatch(b) ==
  /\ channel[b] # <<>>
  /\ channel' = [channel EXCEPT ![b] = Tail(@)]
  /\ LET u == Head(channel[b])
     IN  \/ u \notin Allowed /\ UNCHANGED <<queue, worker, loose, begun>>
         \/ u \in Allowed /\ ChatOf[u] = NoChat /\ RunLoose(u)
         \/ u \in Allowed /\ ChatOf[u] # NoChat /\ Enqueue(u)
  /\ UNCHANGED <<telegramVars, pollVars, serving, handled, lost, crashes>>

-----------------------------------------------------------------------------
(* The worker of a chat. *)

WorkerTakes(c) ==
  /\ worker[c] = "idle"
  /\ queue[c] # <<>>
  /\ worker' = [worker EXCEPT ![c] = "busy"]
  /\ serving' = [serving EXCEPT ![c] = Head(queue[c])]
  /\ queue' = [queue EXCEPT ![c] = Tail(@)]
  /\ begun' = [begun EXCEPT ![Head(queue[c])] = @ + 1]
  /\ UNCHANGED <<telegramVars, pollVars, channel, loose, handled, lost, crashes>>

(* handleUpdate returns, or panics and is recovered; the timer is reset. *)
WorkerDone(c) ==
  /\ worker[c] = "busy"
  /\ worker' = [worker EXCEPT ![c] = "idle"]
  /\ serving' = [serving EXCEPT ![c] = Nobody]
  /\ handled' = handled \cup {serving[c]}
  /\ UNCHANGED <<telegramVars, pollVars, channel, queue, loose, begun, lost, crashes>>

(* The select may choose the timer although a task is waiting as well. *)
TimerFires(c) ==
  /\ worker[c] = "idle"
  /\ worker' = [worker EXCEPT ![c] = "expired"]
  /\ UNCHANGED <<telegramVars, pollVars, channel, queue, serving, loose, history, crashes>>

(* Mutant of Retire: the queue is not looked at again under the lock. *)
RetireBlindly(c) ==
  /\ worker[c] = "expired"
  /\ worker' = [worker EXCEPT ![c] = "none"]
  /\ UNCHANGED <<telegramVars, pollVars, channel, queue, serving, loose, history, crashes>>

(* Under chatQueuesMu: leave if the queue is still empty, else go on. *)
Retire(c) ==
  /\ worker[c] = "expired"
  /\ worker' = [worker EXCEPT ![c] = IF queue[c] = <<>> THEN "none" ELSE "idle"]
  /\ UNCHANGED <<telegramVars, pollVars, channel, queue, serving, loose, history, crashes>>

LooseDone(u) ==
  /\ u \in loose
  /\ loose' = loose \ {u}
  /\ handled' = handled \cup {u}
  /\ UNCHANGED <<telegramVars, pollVars, channel, chatVars, begun, lost, crashes>>

-----------------------------------------------------------------------------
(* What a bot has in memory for a chat, oldest first, among updates of     *)
(* others: one update may be in several places only if it was received     *)
(* twice.                                                                  *)
Pending(b, c) ==
  (IF serving[c] = Nobody THEN <<>> ELSE <<serving[c]>>) \o queue[c] \o channel[b] \o batch[b]

InMemory ==
  loose \cup (UNION {ToSet(channel[b]) \cup ToSet(batch[b]) : b \in Bots})
        \cup (UNION {ToSet(queue[c]) \cup ({serving[c]} \ {Nobody}) : c \in Chats})

(* clearWebhookOnStartup: a webhook set while the program was down is gone, *)
(* unless the request fails.                                               *)
ClearedAtStart == hook' \in {{}, hook}

(* The process stops at any point; when it is started again it deletes the *)
(* webhooks, and polling begins from offset 0.                             *)
Crash ==
  /\ crashes + hooks < MaxTroubles
  /\ crashes' = crashes + 1
  /\ lost' = lost \cup ((InMemory \cap Allowed) \ telegram)
  /\ offset' = [b \in Bots |-> 0]
  /\ batch' = [b \in Bots |-> <<>>]
  /\ channel' = [b \in Bots |-> <<>>]
  /\ queue' = [c \in Chats |-> <<>>]
  /\ worker' = [c \in Chats |-> "none"]
  /\ serving' = [c \in Chats |-> Nobody]
  /\ loose' = {}
  /\ ClearedAtStart
  /\ UNCHANGED <<arrived, telegram, hooks, begun, handled>>

Init ==
  /\ arrived = {} /\ telegram = {}
  /\ hook \in SUBSET Left /\ hooks = 0
  /\ offset = [b \in Bots |-> 0]
  /\ batch = [b \in Bots |-> <<>>]
  /\ channel = [b \in Bots |-> <<>>]
  /\ queue = [c \in Chats |-> <<>>]
  /\ worker = [c \in Chats |-> "none"]
  /\ serving = [c \in Chats |-> Nobody]
  /\ loose = {}
  /\ begun = [u \in Updates |-> 0]
  /\ handled = {} /\ lost = {}
  /\ crashes = 0

Poller(b) == Poll(b) \/ Unhook(b) \/ Push(b)
Polling == \E b \in Bots : Poller(b) \/ PollFails(b) \/ SetHook(b) \/ Dispatch(b)
Working == \E c \in Chats : WorkerTakes(c) \/ WorkerDone(c) \/ TimerFires(c) \/ Retire(c)

Next ==
  \/ \E u \in Updates : Arrive(u) \/ Hijack(u) \/ LooseDone(u)
  \/ Polling
  \/ Working
  \/ Crash

Spec == Init /\ [][Next]_vars

(* Every goroutine is scheduled, requests to Telegram do not fail for ever *)
(* and handlers return (each outgoing request has a timeout).  A select    *)
(* that finds both a task and the timer chooses between them at random, so *)
(* a task is taken if the choice is repeated: strong fairness.             *)
FairSpec ==
  /\ Spec
  /\ \A b \in Bots : WF_vars(Poller(b)) /\ WF_vars(Dispatch(b))
  /\ \A c \in Chats : SF_vars(WorkerTakes(c)) /\ WF_vars(WorkerDone(c) \/ Retire(c))
  /\ WF_vars(\E u \in Updates : LooseDone(u))

-----------------------------------------------------------------------------
(* Properties. *)

(* Every variable has its type, and no buffer exceeds its capacity. *)
TypeOK ==
  /\ telegram \subseteq arrived /\ arrived \subseteq Updates
  /\ hook \subseteq Bots /\ hooks \in Nat
  /\ offset \in [Bots -> Nat]
  /\ batch \in [Bots -> Seq(Updates)] /\ channel \in [Bots -> Seq(Updates)]
  /\ \A b \in Bots :
       /\ ToSet(batch[b]) \cup ToSet(channel[b]) \subseteq Of(b)
       /\ Len(batch[b]) <= BatchSize /\ Len(channel[b]) <= Buffer
  /\ queue \in [Chats -> Seq(Updates)]
  /\ \A c \in Chats :
       /\ ToSet(queue[c]) \subseteq {u \in Updates : ChatOf[u] = c}
       /\ Len(queue[c]) <= QueueCap
  /\ worker \in [Chats -> {"none", "idle", "busy", "expired"}]
  /\ serving \in [Chats -> Updates \cup {Nobody}]
  /\ loose \subseteq Updates
  /\ begun \in [Updates -> Nat]
  /\ handled \subseteq Updates /\ lost \subseteq Updates
  /\ crashes \in Nat /\ crashes + hooks <= MaxTroubles

(* A full queue, a full channel, a failed poll, a webhook that is cleared  *)
(* away or a retiring worker drops nothing: what an administrator sent is  *)
(* kept by Telegram, in memory, handled, or was in memory when the process *)
(* died or sent to the webhook while it was there.                         *)
NothingDropped ==
  \A u \in (arrived \cap Allowed) \ (telegram \cup handled \cup lost) : u \in InMemory

(* No waiting update is stranded in a queue whose worker has retired.      *)
QueueHasWorker == \A c \in Chats : queue[c] # <<>> => worker[c] # "none"

(* An update is handled at most once in a life of the process, however     *)
(* polls fail and batches are cut; a second time only after a crash.       *)
HandledOnce == \A u \in Updates : begun[u] <= 1 + crashes

(* The updates of a bot in a chat wait in the order they were sent, from   *)
(* the reply of Telegram to the handler, and none waits twice.             *)
WaitInOrder ==
  \A b \in Bots, c \in Chats : Ascending(Pending(b, c), {u \in Of(b) : ChatOf[u] = c})

(* Every update of an administrator is handled in the end, unless the      *)
(* process died with it after Telegram had forgotten it or a webhook       *)
(* received it: a webhook does not keep the program from polling.          *)
(* (Updates are finitely many, and what is handled or lost stays so.)      *)
EventuallyHandled == []<>(arrived \cap Allowed \subseteq handled \cup lost)
=============================================================================
