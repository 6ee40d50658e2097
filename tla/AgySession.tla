----------------------------- MODULE AgySession -----------------------------
(***************************************************************************)
(* The agy sessions of one user in one chat (session.go, with the callers  *)
(* in handlers.go and account_handlers.go): the registry entry, the        *)
(* session objects, the child processes, and the goroutines that act on    *)
(* them at the same time: the chat's handler, the reader, waiter and       *)
(* watchdog of every process, the session GC and an administrator who      *)
(* freezes an account from another chat.                                   *)
(*                                                                         *)
(* An action is one section under s.mu or sessionMu with the calls made in *)
(* it; between two sections of one goroutine any other may act.  The pool  *)
(* is reduced to what sessions see of it: the turns it counts for each     *)
(* account and the accounts it does not hand out.                          *)
(***************************************************************************)
EXTENDS Naturals, FiniteSets

CONSTANTS
  Sessions,      (* session objects; one nobody refers to is used again    *)
  NoSession,
  Slots,         (* child processes alive at once, with their goroutines   *)
  NoSlot,
  Accounts,
  NoAccount,
  Commands,      (* what the user does: message, replace, stop, clear      *)
  Answers,       (* results an agent gives: ok, stream, quota, other       *)
  SpawnOutcomes, (* whether cmd.Start may fail: {TRUE} or BOOLEAN          *)
  Freezes,       (* accounts an administrator may freeze                   *)
  MaxCommands,   (* bound on the user's commands                           *)
  MaxRecoveries, (* bound on the recoveries under way at once              *)
  MaxWork,       (* bound on the unanswered prompts of a process           *)
  MaxTurns       (* the count of an account's turns stops here             *)

ASSUME SessionAssumption ==
  /\ NoSession \notin Sessions /\ NoSlot \notin Slots /\ NoAccount \notin Accounts
  /\ {"handler", "nobody"} \cap Slots = {}
  /\ IsFiniteSet(Accounts)
  /\ Commands \subseteq {"message", "replace", "stop", "clear"}
  /\ Answers \subseteq {"ok", "stream", "quota", "other"}
  /\ SpawnOutcomes \subseteq BOOLEAN /\ Freezes \subseteq Accounts
  /\ {MaxCommands, MaxRecoveries, MaxWork, MaxTurns} \subseteq Nat \ {0}

Handler == "handler"      (* the holder of startMu when it is no process   *)
Nobody == "nobody"
MaxStreamRetries == 2
MaxStreamFailovers == 1

VARIABLES
  registry,  (* the entry of this user and chat in globalSessions          *)
  sess,      (* the fields of every session object                         *)
  starting,  (* who holds startMu of a session                             *)
  proc,      (* the child processes, each with its reader goroutine        *)
  handler,   (* the goroutine that handles this chat's updates             *)
  doomed,    (* sessions taken from the registry and not yet killed        *)
  stalled,   (* sessions a watchdog has judged and not yet killed          *)
  turns,     (* ActiveTurns of each account                                *)
  resting,   (* accounts in cooldown or frozen                             *)
  resets,    (* accounts frozen whose sessions are not yet reset           *)
  asked,     (* how many commands the user has given                       *)
  stopped,   (* the last of them was a stop                                *)
  lost       (* history: sessions that left the registry while the handler *)
             (* was at work on them                                        *)

poolVars == <<turns, resting>>
adminVars == <<resting, resets>>
userVars == <<asked, stopped, lost>>
vars == <<registry, sess, starting, proc, handler, doomed, stalled, turns, resting, resets, userVars>>

(* ctx is the context start() makes: none, or cancelled; new, but nothing  *)
(* runs under it; live, and the reader, throttler and watchdog do.         *)
Session == [cmd : Slots \cup {NoSlot}, ctx : {"none", "new", "live"}, msg : BOOLEAN, turn : BOOLEAN,
            retries : Nat, failovers : Nat, account : Accounts \cup {NoAccount}]
NewSession == [cmd |-> NoSlot, ctx |-> "none", msg |-> FALSE, turn |-> FALSE,
               retries |-> 0, failovers |-> 0, account |-> NoAccount]

(* pc is where the reader is; plan, armed, tries, hops, acc and next are   *)
(* the locals it keeps while it recovers a turn.                           *)
Reader == {"free", "reading", "finalizing", "cut", "rearm", "restart", "spawn",
           "failover", "giveup", "fail", "park", "done"}
Process == [owner : Sessions \cup {NoSession}, run : BOOLEAN, work : 0 .. MaxWork,
            out : {"none", "ok", "stream", "quota", "other"}, pc : Reader,
            plan : {"none", "retry", "failover", "rotate"}, armed : BOOLEAN,
            tries : Nat, hops : Nat,
            acc : Accounts \cup {NoAccount}, next : Accounts \cup {NoAccount}]
NoProcess == [owner |-> NoSession, run |-> FALSE, work |-> 0, out |-> "none", pc |-> "free",
              plan |-> "none", armed |-> FALSE, tries |-> 0, hops |-> 0,
              acc |-> NoAccount, next |-> NoAccount]

(* A process started under a context that was cancelled meanwhile has no   *)
(* reader: readStdout returns at once, and only the waiter is left.        *)
Child(s) == [NoProcess EXCEPT !.owner = s, !.run = TRUE,
                              !.pc = IF sess[s].ctx = "new" THEN "reading" ELSE "done"]

Alive(s) == sess[s].cmd # NoSlot       (* isAlive, and Stdin is open       *)
Free == {p \in Slots : proc[p].pc = "free"}

-----------------------------------------------------------------------------
(* The pool, as sessions see it. *)

(* Mutant of Released: no floor. *)
ReleasedUnguarded(t, a) == IF a = NoAccount THEN t ELSE [t EXCEPT ![a] = @ - 1]

Released(t, a) == IF a = NoAccount \/ t[a] = 0 THEN t ELSE [t EXCEPT ![a] = @ - 1]
Counted(t, a) == [t EXCEPT ![a] = IF @ < MaxTurns THEN @ + 1 ELSE @]
Offered == Accounts \ resting
Healthy == Cardinality(Accounts \ resting)

(* A cooldown ends, or the administrator lifts a freeze. *)
Recover(a) ==
  /\ a \in resting \ resets
  /\ resting' = resting \ {a}
  /\ UNCHANGED <<registry, sess, starting, proc, handler, doomed, stalled, turns, resets, userVars>>

-----------------------------------------------------------------------------
(* Kill: the state is cleared, the context cancelled, a turn in flight is  *)
(* released, the process group dies.  AccountID stays.  While a start() is *)
(* under way there is no process to kill yet, but its context is gone.     *)

(* Mutant of Idle: the placeholder is not forgotten. *)
IdleButShown(ss) == [ss EXCEPT !.turn = FALSE, !.retries = 0, !.failovers = 0]

Idle(ss) == [ss EXCEPT !.msg = FALSE, !.turn = FALSE, !.retries = 0, !.failovers = 0]
Exited(ss) == [Idle(ss) EXCEPT !.cmd = NoSlot]
Dead(ss) == [Exited(ss) EXCEPT !.ctx = "none"]
Silent(pr) == [pr EXCEPT !.run = FALSE, !.work = 0]

KillTurns(s) == IF sess[s].turn THEN Released(turns, sess[s].account) ELSE turns

(* Mutant of KillProc: the handle is dropped and nothing is signalled. *)
KillProcNot(s) == proc

KillProc(s) == IF Alive(s) THEN [proc EXCEPT ![sess[s].cmd] = Silent(@)] ELSE proc

-----------------------------------------------------------------------------
(* start(): startMu is held from the test of isAlive, and the new context  *)
(* made with it, to the new process.  Between the two, s.mu is free.  The  *)
(* account is bound in the step that starts the process.                   *)

(* Mutant of MayStart: no lock. *)
MayStartUnlocked(s) == ~Alive(s)

MayStart(s) == ~Alive(s) /\ starting[s] = Nobody

(* The account the child will run under.  A session without one acquires   *)
(* one; a bound one that rests is exchanged, if another is offered.        *)
Bind(s) ==
  LET a == sess[s].account
      wants == a = NoAccount \/ a \in resting
  IN  IF wants /\ Offered # {}
      THEN {[account |-> b, turns |-> Counted(turns, b)] : b \in Offered}
      ELSE {[account |-> a, turns |-> turns]}

WithContext(s) == [sess EXCEPT ![s].ctx = "new"]

(* cmd.Start returns: the account stays bound to s either way.  isAlive is *)
(* set without a look at the context, but what runs under it does look.    *)
Started(s, p, b) ==
  /\ sess' = [sess EXCEPT ![s].account = b.account, ![s].cmd = p,
                          ![s].ctx = IF @ = "new" THEN "live" ELSE "none"]
  /\ starting' = [starting EXCEPT ![s] = Nobody]
NotStarted(s, b) ==
  /\ sess' = [sess EXCEPT ![s].account = b.account, ![s].cmd = NoSlot]
  /\ starting' = [starting EXCEPT ![s] = Nobody]

-----------------------------------------------------------------------------
(* The handler of the chat. *)

HandlerPC == {"idle", "start", "spawn", "check", "look", "arm", "write", "broken", "apologise"}
HandlerIdle == [pc |-> "idle", s |-> NoSession, then |-> "idle", fresh |-> FALSE, queued |-> FALSE]
At(pc) == handler.pc = pc
Goes(pc) == handler' = IF pc = "idle" THEN HandlerIdle ELSE [handler EXCEPT !.pc = pc]

(* Call start() and go on at then; a fresh session that does not start is  *)
(* taken from the registry again.                                          *)
StartsAndGoes(s, then, fresh) ==
  handler' = [pc |-> "start", s |-> s, then |-> then, fresh |-> fresh, queued |-> FALSE]

Referenced(s) ==
  \/ registry = s \/ handler.s = s \/ s \in doomed \cup stalled
  \/ \E p \in Slots : proc[p].owner = s

(* acquireSession: a live session is used as it is, unless force is set;   *)
(* otherwise the registered one is killed and a new one takes its place.   *)
Acquire(force, then) ==
  LET old == registry
      reuse == old # NoSession /\ Alive(old) /\ ~force
  IN  \/ /\ reuse
         /\ handler' = [HandlerIdle EXCEPT !.pc = then, !.s = old]
         /\ UNCHANGED <<registry, sess, proc, turns, lost>>
      \/ /\ ~reuse
         /\ \E n \in {x \in Sessions : ~Referenced(x)} :
              /\ registry' = n /\ lost' = lost \ {n}
              /\ StartsAndGoes(n, then, TRUE)
              /\ IF old = NoSession
                 THEN sess' = [sess EXCEPT ![n] = NewSession] /\ UNCHANGED <<proc, turns>>
                 ELSE /\ sess' = [sess EXCEPT ![n] = NewSession, ![old] = Dead(@)]
                      /\ proc' = KillProc(old)
                      /\ turns' = KillTurns(old)

Asks(command) ==
  /\ At("idle") /\ command \in Commands /\ asked < MaxCommands
  /\ asked' = asked + 1
  /\ stopped' = (command \in {"stop", "clear"})

Message ==
  /\ Asks("message")
  /\ Acquire(FALSE, "check")
  /\ UNCHANGED <<starting, doomed, stalled, adminVars>>

(* A change of model or workspace, or /resume. *)
Replace ==
  /\ Asks("replace")
  /\ Acquire(TRUE, "idle")
  /\ UNCHANGED <<starting, doomed, stalled, adminVars>>

HandlerStart ==
  LET s == handler.s
  IN  /\ At("start")
      /\ \/ Alive(s) /\ starting[s] = Nobody /\ Goes(handler.then) /\ UNCHANGED <<sess, starting>>
         \/ /\ MayStart(s)
            /\ sess' = WithContext(s)
            /\ starting' = [starting EXCEPT ![s] = Handler]
            /\ Goes("spawn")
      /\ UNCHANGED <<registry, proc, doomed, stalled, turns, adminVars, userVars>>

HandlerSpawn ==
  LET s == handler.s
  IN  /\ At("spawn")
      /\ \E b \in Bind(s) :
           /\ turns' = b.turns
           /\ \/ \E p \in Free :
                   /\ TRUE \in SpawnOutcomes
                   /\ Started(s, p, b)
                   /\ proc' = [proc EXCEPT ![p] = Child(s)]
                   /\ UNCHANGED <<registry, lost>>
              \/ /\ FALSE \in SpawnOutcomes
                 /\ NotStarted(s, b)
                 /\ IF handler.fresh /\ registry = s
                    THEN registry' = NoSession /\ lost' = lost \cup {s}
                    ELSE UNCHANGED <<registry, lost>>
                 /\ UNCHANGED proc
      /\ Goes(handler.then)
      /\ UNCHANGED <<doomed, stalled, adminVars, asked, stopped>>

(* handleMessagePayload finds the session dead and starts it again ... *)
Check ==
  LET s == handler.s
  IN  /\ At("check")
      /\ IF Alive(s)
         THEN Goes("look") /\ UNCHANGED sess
         ELSE /\ sess' = [sess EXCEPT ![s].msg = FALSE]
              /\ StartsAndGoes(s, "look", FALSE)
      /\ UNCHANGED <<registry, starting, proc, doomed, stalled, turns, adminVars, userVars>>

(* ... reads whether a turn is in flight ... *)
Look ==
  /\ At("look")
  /\ handler' = [handler EXCEPT !.pc = "arm", !.queued = sess[handler.s].msg]
  /\ UNCHANGED <<registry, sess, starting, proc, doomed, stalled, turns, adminVars, userVars>>

(* ... sends the placeholder, which may fail, and arms the turn unless the *)
(* message is queued behind another ...                                    *)
Arm ==
  LET s == handler.s
  IN  /\ At("arm")
      /\ \/ ~handler.queued /\ ~sess[s].msg
            /\ sess' = [sess EXCEPT ![s].msg = TRUE, ![s].turn = TRUE]
         \/ UNCHANGED sess
      /\ Goes("write")
      /\ UNCHANGED <<registry, starting, proc, doomed, stalled, turns, adminVars, userVars>>

(* ... and writes the prompt into the pipe. *)
Write ==
  LET c == sess[handler.s].cmd
      open == c # NoSlot /\ proc[c].run
  IN  /\ At("write")
      /\ \/ /\ open /\ proc[c].work < MaxWork
            /\ proc' = [proc EXCEPT ![c].work = @ + 1]
            /\ Goes("idle")
         \/ ~open /\ Goes("broken") /\ UNCHANGED proc
      /\ UNCHANGED <<registry, sess, starting, doomed, stalled, turns, adminVars, userVars>>

(* A broken pipe: Restart, then ask the user to send the message again. *)
Broken ==
  LET s == handler.s
  IN  /\ At("broken")
      /\ sess' = [sess EXCEPT ![s] = Dead(@)]
      /\ proc' = KillProc(s)
      /\ turns' = KillTurns(s)
      /\ StartsAndGoes(s, "apologise", FALSE)
      /\ UNCHANGED <<registry, starting, doomed, stalled, adminVars, userVars>>

Apologise ==
  /\ At("apologise")
  /\ sess' = [sess EXCEPT ![handler.s].msg = FALSE]
  /\ Goes("idle")
  /\ UNCHANGED <<registry, starting, proc, doomed, stalled, turns, adminVars, userVars>>

(* /stop clears the turn before it kills: nothing is released.  Without a  *)
(* registered session there are "no active tasks to interrupt".            *)
Stop ==
  /\ Asks("stop")
  /\ IF registry = NoSession
     THEN UNCHANGED <<sess, proc>>
     ELSE /\ sess' = [sess EXCEPT ![registry] = Dead(@)]
          /\ proc' = KillProc(registry)
  /\ UNCHANGED <<registry, starting, handler, doomed, stalled, turns, adminVars, lost>>

Clear ==
  /\ Asks("clear")
  /\ IF registry = NoSession
     THEN UNCHANGED <<sess, proc, turns>>
     ELSE /\ sess' = [sess EXCEPT ![registry] = Dead(@)]
          /\ proc' = KillProc(registry)
          /\ turns' = KillTurns(registry)
  /\ registry' = NoSession
  /\ UNCHANGED <<starting, handler, doomed, stalled, adminVars, lost>>

-----------------------------------------------------------------------------
(* The agent and the goroutines of its process. *)

Own(p) == proc[p].owner
Reading(p) == proc[p].pc = "reading"
ReaderVars == <<registry, starting, handler, doomed, stalled, adminVars, userVars>>

(* Readers in a recovery, or about to read what starts one. *)
Disturbed ==
  {p \in Slots : \/ Reading(p) /\ proc[p].out \in {"stream", "quota"}
                 \/ proc[p].plan # "none" \/ proc[p].pc = "failover"}

(* The agent answers a prompt: one result line waits in the pipe. *)
Answer(p, out) ==
  /\ proc[p].run /\ proc[p].work > 0 /\ proc[p].out = "none"
  /\ out \in {"stream", "quota"} => Cardinality(Disturbed) < MaxRecoveries
  /\ proc' = [proc EXCEPT ![p].out = out, ![p].work = @ - 1]
  /\ UNCHANGED <<ReaderVars, sess, turns>>

(* The agent dies by itself. *)
Exit(p) ==
  /\ proc[p].run
  /\ proc' = [proc EXCEPT ![p] = Silent(@)]
  /\ UNCHANGED <<ReaderVars, sess, turns>>

(* finalizeTurn: the message is disarmed first, so that the throttler      *)
(* leaves it alone ...                                                     *)
ReadOk(p) ==
  /\ Reading(p) /\ proc[p].out = "ok"
  /\ sess' = [sess EXCEPT ![Own(p)].msg = FALSE]
  /\ proc' = [proc EXCEPT ![p].out = "none", ![p].pc = "finalizing"]
  /\ UNCHANGED <<ReaderVars, turns>>

(* ... then, when the answer has been sent, the turn ends. *)
Finalize(p) ==
  LET s == Own(p)
  IN  /\ proc[p].pc = "finalizing"
      /\ sess' = [sess EXCEPT ![s].turn = FALSE, ![s].retries = 0, ![s].failovers = 0]
      /\ turns' = Released(turns, sess[s].account)
      /\ proc' = [proc EXCEPT ![p].pc = "reading"]
      /\ UNCHANGED ReaderVars

(* An error is not reported when the session is dead or idle and has no    *)
(* text; only a live session or a re-armed one may have some.              *)
Suppressed(s) == ~Alive(s) \/ (~sess[s].msg /\ ~sess[s].turn)
Reported(s) == Alive(s) \/ sess[s].msg \/ sess[s].turn

ReadNothing(p) ==
  /\ Reading(p) /\ proc[p].out \in {"stream", "quota", "other"}
  /\ Suppressed(Own(p))
  /\ proc' = [proc EXCEPT ![p].out = "none"]
  /\ UNCHANGED <<ReaderVars, sess, turns>>

ReadOther(p) ==
  /\ Reading(p) /\ proc[p].out = "other" /\ Reported(Own(p))
  /\ proc' = [proc EXCEPT ![p].out = "none", ![p].pc = "fail"]
  /\ UNCHANGED <<ReaderVars, sess, turns>>

(* The generic error path: Kill, and the session is idle. *)
Fail(p) ==
  LET s == Own(p)
  IN  /\ proc[p].pc = "fail"
      /\ sess' = [sess EXCEPT ![s] = Dead(@)]
      /\ proc' = [KillProc(s) EXCEPT ![p].pc = "reading", ![p].plan = "none"]
      /\ turns' = KillTurns(s)
      /\ UNCHANGED ReaderVars

-----------------------------------------------------------------------------
(* Recovery of an interrupted turn: Kill, arm the turn again, sleep, start *)
(* and ask the agent to continue.  First on the same account, then on      *)
(* another.  The chat is not pinned to an account.                         *)

Remembers(p, s) == [proc[p] EXCEPT !.out = "none", !.armed = sess[s].msg,
                                   !.hops = sess[s].failovers, !.acc = sess[s].account]

ReadStream(p) ==
  LET s == Own(p)
      again == sess[s].retries < MaxStreamRetries
  IN  /\ Reading(p) /\ proc[p].out = "stream" /\ Reported(s)
      /\ \/ /\ again
            /\ sess' = [sess EXCEPT ![s].retries = @ + 1]
            /\ proc' = [proc EXCEPT ![p] =
                 [Remembers(p, s) EXCEPT !.pc = "cut", !.plan = "retry", !.tries = sess[s].retries + 1]]
         \/ /\ ~again
            /\ proc' = [proc EXCEPT ![p] = [Remembers(p, s) EXCEPT !.pc = "failover"]]
            /\ UNCHANGED sess
      /\ UNCHANGED <<ReaderVars, turns>>

(* MarkCooldown for the account that failed, then AcquireAccount; reader p *)
(* goes on with locals pr, or as otherwise says if no account is left.     *)
Rotate(p, pr, plan, tries, otherwise) ==
  LET left == Offered \ {pr.acc}
      cooled == [turns EXCEPT ![pr.acc] = 0]
  IN  /\ resting' = resting \cup {pr.acc}
      /\ \/ \E b \in left :
              /\ turns' = Counted(cooled, b)
              /\ proc' = [proc EXCEPT ![p] = [pr EXCEPT
                   !.pc = "cut", !.plan = plan, !.tries = tries, !.hops = @ + 1, !.next = b]]
         \/ /\ left = {}
            /\ turns' = cooled
            /\ proc' = [proc EXCEPT ![p] = [pr EXCEPT !.pc = otherwise]]

GoesOn(p, pr, otherwise) ==
  proc' = [proc EXCEPT ![p] = [pr EXCEPT !.pc = otherwise]] /\ UNCHANGED <<turns, resting>>

RotatesOr(p, pr, limit, plan, tries, otherwise) ==
  IF pr.hops < limit /\ pr.acc # NoAccount
  THEN Rotate(p, pr, plan, tries, otherwise)
  ELSE GoesOn(p, pr, otherwise)

(* The retries are used up, or the restart failed. *)
Failover(p) ==
  /\ proc[p].pc = "failover"
  /\ RotatesOr(p, proc[p], MaxStreamFailovers, "failover", MaxStreamRetries - 1, "giveup")
  /\ UNCHANGED <<registry, sess, starting, handler, doomed, stalled, resets, userVars>>

QuotaLimit == IF Healthy \in {1, 2} THEN Healthy ELSE 3

ReadQuota(p) ==
  /\ Reading(p) /\ proc[p].out = "quota" /\ Reported(Own(p))
  /\ RotatesOr(p, Remembers(p, Own(p)), QuotaLimit, "rotate", 0, "park")
  /\ UNCHANGED <<registry, sess, starting, handler, doomed, stalled, resets, userVars>>

Cut(p) ==
  LET s == Own(p)
  IN  /\ proc[p].pc = "cut"
      /\ sess' = [sess EXCEPT ![s] = Dead(@)]
      /\ proc' = [KillProc(s) EXCEPT ![p].pc = "rearm"]
      /\ turns' = KillTurns(s)
      /\ UNCHANGED ReaderVars

(* Mutant of Armed: the recoveries made so far are forgotten. *)
ArmedAnew(ss, pr) ==
  [ss EXCEPT !.msg = pr.armed, !.turn = TRUE,
             !.account = IF pr.plan = "retry" THEN @ ELSE pr.next]

(* The fields set after the Kill. *)
Armed(ss, pr) ==
  [ss EXCEPT !.msg = pr.armed, !.turn = TRUE, !.retries = pr.tries, !.failovers = pr.hops,
             !.account = IF pr.plan = "retry" THEN @ ELSE pr.next]

(* A session that changes its account also takes the registry entry, *)
(* whatever is there by now.                                          *)
Rearm(p) ==
  LET s == Own(p)
  IN  /\ proc[p].pc = "rearm"
      /\ sess' = [sess EXCEPT ![s] = Armed(@, proc[p])]
      /\ registry' = IF proc[p].plan = "retry" THEN registry ELSE s
      /\ proc' = [proc EXCEPT ![p].pc = "restart"]
      /\ UNCHANGED <<starting, handler, doomed, stalled, turns, adminVars, userVars>>

Done(pr) == [NoProcess EXCEPT !.owner = pr.owner, !.run = pr.run, !.pc = "done"]
Prompted(pr) == IF pr.run /\ pr.work < MaxWork THEN [pr EXCEPT !.work = @ + 1] ELSE pr

Restart(p) ==
  LET s == Own(p)
  IN  /\ proc[p].pc = "restart"
      /\ \/ /\ Alive(s) /\ starting[s] = Nobody
            /\ proc' = [[proc EXCEPT ![p] = Done(@)] EXCEPT ![sess[s].cmd] = Prompted(@)]
            /\ UNCHANGED <<sess, starting>>
         \/ /\ MayStart(s)
            /\ sess' = WithContext(s)
            /\ starting' = [starting EXCEPT ![s] = p]
            /\ proc' = [proc EXCEPT ![p].pc = "spawn"]
      /\ UNCHANGED <<registry, handler, doomed, stalled, turns, adminVars, userVars>>

(* The new process is told to continue, and the reader of the old one ends *)
(* its work; or the start fails and the next remedy is tried.              *)
Respawn(p) ==
  LET s == Own(p)
  IN  /\ proc[p].pc = "spawn"
      /\ \/ \E q \in Free : \E b \in Bind(s) :
              /\ TRUE \in SpawnOutcomes
              /\ Started(s, q, b)
              /\ proc' = [proc EXCEPT ![p] = Done(@), ![q] = Prompted(Child(s))]
              /\ turns' = b.turns
         \/ \E b \in Bind(s) :
              /\ FALSE \in SpawnOutcomes
              /\ NotStarted(s, b)
              /\ proc' = [proc EXCEPT ![p].pc =
                   CASE proc[p].plan = "retry" -> "failover"
                     [] proc[p].plan = "failover" -> "fail"
                     [] proc[p].plan = "rotate" -> "park"]
              /\ turns' = IF proc[p].plan = "rotate" THEN Released(b.turns, proc[p].next) ELSE b.turns
      /\ UNCHANGED <<registry, handler, doomed, stalled, adminVars, userVars>>

(* No remedy is left for a stream: the turn is cleared before the Kill. *)
GiveUp(p) ==
  LET s == Own(p)
  IN  /\ proc[p].pc = "giveup"
      /\ sess' = [sess EXCEPT ![s] = Dead(@)]
      /\ proc' = [KillProc(s) EXCEPT ![p] = [@ EXCEPT !.pc = "reading", !.plan = "none"]]
      /\ UNCHANGED <<ReaderVars, turns>>

(* Safe parking: the session is exported, killed and unregistered. *)
Park(p) ==
  LET s == Own(p)
  IN  /\ proc[p].pc = "park"
      /\ sess' = [sess EXCEPT ![s] = Dead(@)]
      /\ proc' = [KillProc(s) EXCEPT ![p] = Done(@)]
      /\ turns' = KillTurns(s)
      /\ registry' = NoSession
      /\ UNCHANGED <<starting, handler, doomed, stalled, adminVars, userVars>>

(* The reader returns at the end of the output, or as soon as its context  *)
(* is cancelled; a select that finds a line as well may take the line.     *)
ReaderEnds(p) ==
  /\ Reading(p)
  /\ sess[Own(p)].cmd # p \/ (~proc[p].run /\ proc[p].out = "none")
  /\ proc' = [proc EXCEPT ![p] = Done(@)]
  /\ UNCHANGED <<ReaderVars, sess, turns>>

(* Mutants of Wait: the waiter of an old process clears the session too; *)
(* it only notes that the process is gone.                               *)
WaitWithoutEpoch(p) ==
  LET s == Own(p)
  IN  /\ proc[p].pc = "done" /\ ~proc[p].run
      /\ sess' = [sess EXCEPT ![s] = Exited(@)]
      /\ proc' = [proc EXCEPT ![p] = NoProcess]
      /\ UNCHANGED <<ReaderVars, turns>>

WaitLeavingTurn(p) ==
  LET s == Own(p)
  IN  /\ proc[p].pc = "done" /\ ~proc[p].run
      /\ sess' = IF sess[s].cmd = p THEN [sess EXCEPT ![s].cmd = NoSlot] ELSE sess
      /\ proc' = [proc EXCEPT ![p] = NoProcess]
      /\ UNCHANGED <<ReaderVars, turns>>

(* The waiter: the process is dead and its output read.  It clears the     *)
(* session unless that has moved on to another process.  The context stays *)
(* until the next start() or Kill, and the watchdog with it.               *)
Wait(p) ==
  LET s == Own(p)
  IN  /\ proc[p].pc = "done" /\ ~proc[p].run
      /\ sess' = IF sess[s].cmd = p THEN [sess EXCEPT ![s] = Exited(@)] ELSE sess
      /\ proc' = [proc EXCEPT ![p] = NoProcess]
      /\ UNCHANGED <<ReaderVars, turns>>

(* checkTurnInactivity, run until the context is cancelled: one section    *)
(* under s.mu reads that a turn has been silent or long ...                *)
Judge(s) ==
  /\ sess[s].ctx = "live" /\ sess[s].msg
  /\ stalled' = stalled \cup {s}
  /\ UNCHANGED <<registry, sess, starting, proc, handler, doomed, turns, adminVars, userVars>>

(* ... and another clears the turn, whichever it is by now, before Kill.   *)
Watchdog(s) ==
  /\ s \in stalled
  /\ stalled' = stalled \ {s}
  /\ sess' = [sess EXCEPT ![s] = Dead(@)]
  /\ proc' = KillProc(s)
  /\ UNCHANGED <<registry, starting, handler, doomed, turns, adminVars, userVars>>

-----------------------------------------------------------------------------
(* The session GC and the administrator. *)

(* CleanIdleSessions: nothing happened in the session for hours, so no     *)
(* goroutine is in the middle of something with it: its readers wait for   *)
(* output, but for those that never began.                                 *)
Evict ==
  LET s == registry
  IN  /\ s # NoSession /\ handler.s # s
      /\ ~sess[s].msg /\ ~sess[s].turn
      /\ \A p \in Slots : Own(p) = s => \/ proc[p].pc = "reading" /\ proc[p].out = "none"
                                        \/ proc[p].pc = "done" /\ proc[p].run
      /\ registry' = NoSession
      /\ doomed' = doomed \cup {s}
      /\ UNCHANGED <<sess, starting, proc, handler, stalled, turns, adminVars, userVars>>

(* FreezeAccount; the sessions are reset after p.mu is released. *)
Freeze(a) ==
  /\ a \in Freezes \ resets
  /\ turns' = [turns EXCEPT ![a] = 0]
  /\ resting' = resting \cup {a}
  /\ resets' = resets \cup {a}
  /\ UNCHANGED <<registry, sess, starting, proc, handler, doomed, stalled, userVars>>

ResetAccountSessions(a) ==
  /\ a \in resets
  /\ resets' = resets \ {a}
  /\ IF registry # NoSession /\ sess[registry].account = a
     THEN /\ sess' = [sess EXCEPT ![registry].account = NoAccount]
          /\ doomed' = doomed \cup {registry}
          /\ lost' = IF handler.s = registry THEN lost \cup {registry} ELSE lost
          /\ registry' = NoSession
     ELSE UNCHANGED <<registry, sess, doomed, lost>>
  /\ UNCHANGED <<starting, proc, handler, stalled, poolVars, asked, stopped>>

KillDoomed(s) ==
  /\ s \in doomed
  /\ doomed' = doomed \ {s}
  /\ sess' = [sess EXCEPT ![s] = Dead(@)]
  /\ proc' = KillProc(s)
  /\ turns' = KillTurns(s)
  /\ UNCHANGED <<registry, starting, handler, stalled, adminVars, userVars>>

-----------------------------------------------------------------------------
Init ==
  /\ registry = NoSession
  /\ sess = [s \in Sessions |-> NewSession]
  /\ starting = [s \in Sessions |-> Nobody]
  /\ proc = [p \in Slots |-> NoProcess]
  /\ handler = HandlerIdle
  /\ doomed = {} /\ stalled = {}
  /\ turns = [a \in Accounts |-> 0]
  /\ resting = {} /\ resets = {}
  /\ asked = 0 /\ stopped = FALSE /\ lost = {}

UserStep == Message \/ Replace \/ Stop \/ Clear
HandlerStep ==
  HandlerStart \/ HandlerSpawn \/ Check \/ Look \/ Arm \/ Write \/ Broken \/ Apologise
ReaderStep(p) ==
  \/ ReadOk(p) \/ Finalize(p) \/ ReadNothing(p) \/ ReadOther(p) \/ Fail(p)
  \/ ReadStream(p) \/ Failover(p) \/ ReadQuota(p)
  \/ Cut(p) \/ Rearm(p) \/ Restart(p) \/ Respawn(p) \/ GiveUp(p) \/ Park(p)
  \/ ReaderEnds(p)
AgentStep(p) == Exit(p) \/ \E out \in Answers : Answer(p, out)
AdminStep == Evict \/ \E a \in Accounts : Freeze(a) \/ ResetAccountSessions(a) \/ Recover(a)

Next ==
  \/ UserStep \/ HandlerStep \/ AdminStep
  \/ \E p \in Slots : AgentStep(p) \/ ReaderStep(p) \/ Wait(p)
  \/ \E s \in Sessions : KillDoomed(s) \/ Judge(s) \/ Watchdog(s)

Spec == Init /\ [][Next]_vars

(* The goroutines of the program run; neither the user nor the agent has   *)
(* to do anything.  A turn nothing happens to is at last too long, so the  *)
(* watchdog acts on it, as long as its context lives.                      *)
FairSpec ==
  /\ Spec /\ WF_vars(HandlerStep)
  /\ \A p \in Slots : WF_vars(ReaderStep(p)) /\ WF_vars(Wait(p))
  /\ \A s \in Sessions : WF_vars(KillDoomed(s)) /\ WF_vars(Judge(s)) /\ WF_vars(Watchdog(s))

-----------------------------------------------------------------------------
(* Properties. *)

(* Every variable has its type. *)
TypeOK ==
  /\ registry \in Sessions \cup {NoSession}
  /\ sess \in [Sessions -> Session]
  /\ starting \in [Sessions -> {Nobody, Handler} \cup Slots]
  /\ proc \in [Slots -> Process]
  /\ handler \in [pc : HandlerPC, s : Sessions \cup {NoSession}, then : HandlerPC,
                  fresh : BOOLEAN, queued : BOOLEAN]
  /\ doomed \subseteq Sessions /\ stalled \subseteq Sessions
  /\ turns \in [Accounts -> 0 .. MaxTurns]
  /\ resting \subseteq Accounts /\ resets \subseteq Accounts
  /\ asked \in 0 .. MaxCommands /\ stopped \in BOOLEAN /\ lost \subseteq Sessions

(* A running agy process is always the one its session would kill: no      *)
(* start, recovery or late waiter makes a session lose its process.        *)
WithinReach == \A p \in Slots : proc[p].run => sess[Own(p)].cmd = p

Recovering(s) == \E p \in Slots : Own(p) = s /\ proc[p].pc \notin {"free", "reading", "finalizing", "done"}
HandlerOn(s) == handler.s = s /\ handler.pc \in {"start", "spawn", "look", "arm", "write", "broken", "apologise"}

(* The live process of s is watched; or a Kill cancelled the context while *)
(* start() was under way, and nothing but the waiter looks after it.       *)
Watched(s) == Alive(s) /\ sess[s].ctx = "live"
KilledInStart(s) == Alive(s) /\ sess[s].ctx = "none"

(* A message that shows a running turn always has somebody to end it: a    *)
(* process with its watchdog, a recovery, or the handler.  Only a process  *)
(* whose start() a Kill fell into has none.                                *)
SpinnerIsWatched ==
  \A s \in Sessions : sess[s].msg => Watched(s) \/ KilledInStart(s) \/ Recovering(s) \/ HandlerOn(s)

(* Every turn shown as running ends, even if the agent hangs or every      *)
(* stream of it breaks: automatic recovery does not go on for ever.  The   *)
(* moment in which a recovery has killed and not yet armed is no end.      *)
(* Again only a process whose start() a Kill fell into may show its turn   *)
(* for ever.                                                               *)
TurnEnds == \A s \in Sessions : []<>(~(sess[s].msg \/ Recovering(s)) \/ KilledInStart(s))

(* The prompts of one user in one chat never run two agy processes; one    *)
(* that is on its way to be killed does not count.                         *)
Running == {p \in Slots : proc[p].run /\ Own(p) \notin doomed}
OneProcess == \A p, q \in Running : p = q

(* After /stop or /clear no process of the chat runs until the user wants  *)
(* one (handlers.go:1112), but for those that are on their way to be       *)
(* killed, and for that of a session which left the registry while the     *)
(* handler was at work on it: a freeze reset it, or its first start failed *)
(* and the second did not.  Nobody finds that one any more.  A recovery    *)
(* under way breaks this, so it is checked without any.                    *)
StopIsFinal == stopped => \A p \in Slots : proc[p].run => Own(p) \in doomed \cup lost

(* A /stop that finds "no active tasks to interrupt" (handlers.go:1094)    *)
(* leaves no turn shown as running, but those about to be killed.          *)
NoActiveTasks ==
  [][Stop /\ registry = NoSession => \A s \in Sessions \ doomed : ~sess[s].msg]_vars
=============================================================================
