---------------------------- MODULE Conversations ----------------------------
(***************************************************************************)
(* Which conversation a user's agents work in (storage.go, acquireSession  *)
(* and the init event in session.go, and the commands that choose a        *)
(* conversation in handlers.go).  The id is kept in three places: the      *)
(* users row of the database, one for all chats of a user; the session     *)
(* object of a chat; and the agy process, which decides itself whether it  *)
(* continues what it was asked for.  A chat's updates are handled one      *)
(* after the other; the reader of every process works beside them.         *)
(*                                                                         *)
(* Model and workspace are one value here, the setup of a session.  The    *)
(* turns, the kills and the recoveries of a session are in AgySession.     *)
(***************************************************************************)
EXTENDS Naturals, Sequences, FiniteSets

CONSTANTS
  Users,
  Chats,
  Seats,        (* who writes in which chat: pairs of a user and a chat    *)
  Before,       (* the users with a conversation of an earlier run         *)
  Commands,     (* message, resume, model, workspace, clear                *)
  MaxCommands,  (* bound on the updates handled                            *)
  MaxStarts,    (* bound on the session objects                            *)
  MaxIds,       (* bound on the conversation ids                           *)
  MaxFaults     (* bound on failed starts, evictions, restarts of an agent *)
                (* and crashes of the bot                                  *)

ASSUME ConversationsAssumption ==
  /\ Seats \subseteq Users \X Chats
  /\ Before \in Seq(Users) /\ Len(Before) <= MaxIds
  /\ Commands \subseteq {"message", "resume", "model", "workspace", "clear"}
  /\ {MaxCommands, MaxStarts, MaxIds, MaxFaults} \subseteq Nat

VARIABLES
  row,       (* users: session_id and setup of each user                   *)
  known,     (* the users who have a row                                   *)
  listed,    (* session_history: the conversations of each user            *)
  hidden,    (* those of them with is_orphaned = 1                         *)
  made,      (* the user for whom each id was made up                      *)
  spoken,    (* ids that agy has reported                                  *)
  agent,     (* session objects with the reader of their process           *)
  registry,  (* globalSessions: the object of each seat, 0 for none        *)
  worker,    (* the goroutine that handles a chat's updates                *)
  asked,
  faults,
  refused,   (* history: ids that agy was asked for and did not continue   *)
  stray      (* history: users for whom a save has overtaken another       *)

database == <<row, known, listed, hidden>>
ids == <<made, spoken, refused>>
bounds == <<asked, faults>>
vars == <<database, ids, agent, registry, worker, bounds, stray>>

NoId == 0
Ids == 1 .. MaxIds
NoAgent == 0
Agents == DOMAIN agent
Setups == 0 .. 1

(* reader: waiting for the init event, has taken it, has looked for a lost *)
(* context, is done, or ended before all of it.                            *)
Agent(seat, conv, explicit, setup) ==
  [seat |-> seat, setup |-> setup, conv |-> conv, explicit |-> explicit, alive |-> TRUE,
   reader |-> "waiting", argv |-> conv, got |-> NoId, wanted |-> NoId, init |-> NoId]
Failed(a) == [a EXCEPT !.alive = FALSE, !.reader = "ended"]
Killed(a) == [a EXCEPT !.alive = FALSE]

Idle == [pc |-> "idle", user |-> CHOOSE u \in Users : TRUE, cmd |-> "message",
         conv |-> NoId, setup |-> 0, id |-> NoId, of |-> NoAgent]

Seat(c) == <<worker[c].user, c>>
UserOf(n) == agent[n].seat[1]

-----------------------------------------------------------------------------
(* The database. *)

(* Mutant of SessionSaved: only an empty session id is replaced. *)
SessionSavedOnce(u, id) == row' = IF row[u].conv = NoId THEN [row EXCEPT ![u].conv = id] ELSE row

SessionSaved(u, id) == row' = [row EXCEPT ![u].conv = id]

(* Mutant of Listed: a conversation is listed only when it is resumed. *)
ListedNever(u, id) == listed

(* Mutant of Listed: the empty id is a conversation too. *)
ListedEmpty(u, id) == [listed EXCEPT ![u] = @ \cup {id}]

(* INSERT OR IGNORE: an orphaned conversation stays orphaned. *)
Listed(u, id) == IF id = NoId THEN listed ELSE [listed EXCEPT ![u] = @ \cup {id}]

(* updateUserSession *)
UpdateUserSession(u, id) ==
  /\ SessionSaved(u, id) /\ listed' = Listed(u, id)
  /\ UNCHANGED <<known, hidden>>

(* getUser: who is not yet known gets a row with an id of his own making.  *)
GetUser(u) ==
  IF u \in known
  THEN UNCHANGED <<database, ids>>
  ELSE /\ Len(made) < MaxIds
       /\ known' = known \cup {u} /\ made' = Append(made, u)
       /\ row' = [row EXCEPT ![u].conv = Len(made')]
       /\ UNCHANGED <<listed, hidden, spoken, refused>>

(* isSessionOwnedByUser *)
Owned(u, id) == id \in listed[u]

-----------------------------------------------------------------------------
(* The reader of agent n: the init event in readStdout. *)

(* What agy answers: the conversation it was asked for, if it has spoken   *)
(* it and finds it under its account's home, or a new one.                 *)
Reported(n) ==
  {id \in Ids : \/ id = Len(made) + 1
                \/ id = agent[n].argv /\ id \in spoken}

(* The id is put into InitChan, which holds one and matters only while a   *)
(* resume waits for it, and into the session.                              *)
Awaited(n) == \E c \in Chats : worker[c].of = n /\ worker[c].cmd = "resume"

Told(n) ==
  /\ agent[n].reader = "waiting"
  /\ \E id \in Reported(n) :
       /\ made' = IF id > Len(made) THEN Append(made, UserOf(n)) ELSE made
       /\ spoken' = spoken \cup {id}
       /\ refused' = IF agent[n].argv \in {NoId, id} THEN refused ELSE refused \cup {agent[n].argv}
       /\ agent' = [agent EXCEPT ![n].reader = "told", ![n].got = id, ![n].conv = id,
                                 ![n].wanted = agent[n].conv,
                                 ![n].init = IF Awaited(n) /\ @ = NoId THEN id ELSE @]
  /\ UNCHANGED <<database, registry, worker, bounds, stray>>

(* Mutant of Desync: a conversation continued by a message is not missed.  *)
DesyncExplicit(n) == agent[n].wanted \notin {NoId, agent[n].got} /\ agent[n].explicit

Desync(n) ==
  /\ agent[n].wanted \notin {NoId, agent[n].got}
  /\ agent[n].explicit \/ Owned(UserOf(n), agent[n].wanted)

(* Mutant of Orphaned: the new conversation is marked, not the lost one. *)
OrphanedNew(n) == {agent[n].got}

(* markSessionOrphaned: an UPDATE, which finds only what is listed. *)
Orphaned(n) == {agent[n].wanted} \cap listed[UserOf(n)]

Looked(n) ==
  /\ agent[n].reader = "told"
  /\ agent' = [agent EXCEPT ![n].reader = "looked"]
  /\ hidden' = IF Desync(n) THEN hidden \cup Orphaned(n) ELSE hidden
  /\ UNCHANGED <<row, known, listed, ids, registry, worker, bounds, stray>>

(* Mutant of ToSave: the id that was asked for is kept. *)
ToSaveAsked(n) == IF agent[n].wanted # NoId THEN agent[n].wanted ELSE agent[n].got

ToSave(n) == agent[n].got

Newest(u) == {n \in Agents : UserOf(n) = u /\ \A m \in Agents : UserOf(m) = u => m <= n}

Saved(n) ==
  /\ agent[n].reader = "looked"
  /\ agent' = [agent EXCEPT ![n].reader = "done"]
  /\ UpdateUserSession(UserOf(n), ToSave(n))
  /\ stray' = IF n \in Newest(UserOf(n)) THEN stray \ {UserOf(n)} ELSE stray \cup {UserOf(n)}
  /\ UNCHANGED <<ids, registry, worker, bounds>>

(* The process was killed before its init event was read. *)
ReaderEnds(n) ==
  /\ agent[n].reader = "waiting" /\ ~agent[n].alive
  /\ agent' = [agent EXCEPT ![n].reader = "ended"]
  /\ UNCHANGED <<database, ids, registry, worker, bounds, stray>>

-----------------------------------------------------------------------------
(* The commands of chat c.  The user is read from the database first; the  *)
(* work on the command may take its time after that.                       *)

(* The buttons of the /resume lists shown in chat c. *)
Buttons(c) == UNION {listed[u] : u \in {v \in Users : <<v, c>> \in Seats}}

HandleUpdate(c) ==
  /\ worker[c].pc = "idle" /\ asked < MaxCommands /\ asked' = asked + 1
  /\ \E u \in Users, cmd \in Commands :
       /\ <<u, c>> \in Seats
       /\ GetUser(u)
       /\ \E id \in IF cmd = "resume" THEN Buttons(c) ELSE {NoId} :
            worker' = [worker EXCEPT ![c] =
              [pc |-> "asked", user |-> u, cmd |-> cmd, conv |-> row'[u].conv,
               setup |-> row'[u].setup, id |-> id, of |-> NoAgent]]
  /\ UNCHANGED <<agent, registry, faults, stray>>

Finish(c) == worker' = [worker EXCEPT ![c] = Idle]
Goes(c, pc) == worker' = [worker EXCEPT ![c].pc = pc]

(* Mutant of MayResume: any button works. *)
MayResumeAny(c) == worker[c].id # NoId

MayResume(c) == worker[c].id = worker[c].conv \/ Owned(worker[c].user, worker[c].id)

Deny(c) ==
  /\ worker[c].pc = "asked" /\ worker[c].cmd = "resume" /\ ~MayResume(c)
  /\ Finish(c)
  /\ UNCHANGED <<database, ids, agent, registry, bounds, stray>>

(* acquireSession for a message: the registered session will do. *)
Matches(c) ==
  /\ registry[Seat(c)] # NoAgent
  /\ LET a == agent[registry[Seat(c)]]
     IN  /\ a.alive /\ a.setup = worker[c].setup
         /\ a.conv = worker[c].conv \/ NoId \in {a.conv, worker[c].conv}

Reuse(c) ==
  /\ worker[c].pc = "asked" /\ worker[c].cmd = "message" /\ Matches(c)
  /\ Finish(c)
  /\ UNCHANGED <<database, ids, agent, registry, bounds, stray>>

(* acquireSession, otherwise: the registered session is killed and a new   *)
(* one takes its place; if agy does not start it is taken out again, and a *)
(* message starts it once more all the same.                               *)
Requested(c) == CASE worker[c].cmd = "resume" -> worker[c].id
                  [] worker[c].cmd = "workspace" -> NoId
                  [] OTHER -> worker[c].conv
SetupFor(c) == IF worker[c].cmd \in {"model", "workspace"} THEN 1 - worker[c].setup
               ELSE worker[c].setup

Without(seat) == [n \in Agents |-> IF n = registry[seat] THEN Killed(agent[n]) ELSE agent[n]]

Acquire(c) ==
  LET new == Agent(Seat(c), Requested(c), worker[c].cmd # "message", SetupFor(c))
  IN  /\ worker[c].pc = "asked" /\ worker[c].cmd # "clear" /\ Len(agent) < MaxStarts
      /\ worker[c].cmd = "message" => ~Matches(c)
      /\ worker[c].cmd = "resume" => MayResume(c)
      /\ \/ /\ agent' = Append(Without(Seat(c)), new)
            /\ registry' = [registry EXCEPT ![Seat(c)] = Len(agent')]
            /\ IF worker[c].cmd = "message" THEN Finish(c)
               ELSE worker' = [worker EXCEPT ![c].pc = "save", ![c].of = Len(agent')]
            /\ UNCHANGED faults
         \/ /\ faults < MaxFaults /\ faults' = faults + 1
            /\ agent' = Append(Without(Seat(c)), Failed(new))
            /\ registry' = [registry EXCEPT ![Seat(c)] = NoAgent]
            /\ IF worker[c].cmd = "message"
               THEN worker' = [worker EXCEPT ![c].pc = "again", ![c].of = Len(agent')]
               ELSE Finish(c)
  /\ UNCHANGED <<database, ids, asked, stray>>

Again(c) ==
  /\ worker[c].pc = "again"
  /\ \/ agent' = [agent EXCEPT ![worker[c].of].alive = TRUE, ![worker[c].of].reader = "waiting"]
     \/ UNCHANGED agent
  /\ Finish(c)
  /\ UNCHANGED <<database, ids, registry, bounds, stray>>

(* A command's id goes into the row when the agent that was started last   *)
(* has reported another.                                                   *)
Overtakes(u, id) == \E n \in Newest(u) : agent[n].reader = "done" /\ agent[n].conv # id
StraySaved(u, id) == stray' = IF Overtakes(u, id) THEN stray \cup {u} ELSE stray

SaveSetup(c) == [row EXCEPT ![worker[c].user].setup = SetupFor(c)]

Save(c) ==
  LET u == worker[c].user
  IN  /\ worker[c].pc = "save"
      /\ \/ /\ worker[c].cmd = "resume"
            /\ UpdateUserSession(u, worker[c].id)
            /\ StraySaved(u, worker[c].id)
            /\ Goes(c, "wait")
         \/ /\ worker[c].cmd = "model"
            /\ row' = SaveSetup(c)
            /\ UNCHANGED <<known, listed, hidden, stray>>
            /\ Finish(c)
         \/ /\ worker[c].cmd = "workspace"
            /\ row' = [SaveSetup(c) EXCEPT ![u].conv = NoId]
            /\ UNCHANGED <<known, listed, hidden>>
            /\ StraySaved(u, NoId)
            /\ Finish(c)
      /\ UNCHANGED <<ids, agent, registry, bounds>>

(* A resume waits three seconds for the init event. *)
Wait(c) ==
  /\ worker[c].pc = "wait"
  /\ \/ /\ agent[worker[c].of].init # NoId
        /\ agent' = [agent EXCEPT ![worker[c].of].conv = agent[worker[c].of].init,
                                 ![worker[c].of].init = NoId]
     \/ UNCHANGED agent
  /\ Finish(c)
  /\ UNCHANGED <<database, ids, registry, bounds, stray>>

Clear(c) ==
  /\ worker[c].pc = "asked" /\ worker[c].cmd = "clear"
  /\ agent' = Without(Seat(c))
  /\ registry' = [registry EXCEPT ![Seat(c)] = NoAgent]
  /\ Goes(c, "wipe")
  /\ UNCHANGED <<database, ids, bounds, stray>>

Wipe(c) ==
  /\ worker[c].pc = "wipe"
  /\ UpdateUserSession(worker[c].user, NoId)
  /\ StraySaved(worker[c].user, NoId)
  /\ Finish(c)
  /\ UNCHANGED <<ids, agent, registry, bounds>>

-----------------------------------------------------------------------------
(* What happens beside the commands. *)

Fault == faults < MaxFaults /\ faults' = faults + 1 /\ UNCHANGED asked

(* The garbage collector evicts the session of a seat. *)
Evict(seat) ==
  /\ Fault /\ registry[seat] # NoAgent
  /\ agent' = Without(seat)
  /\ registry' = [registry EXCEPT ![seat] = NoAgent]
  /\ UNCHANGED <<database, ids, worker, stray>>

(* resetChatSessionCache, as an administrator's account commands call it:  *)
(* the sessions of the chat forget their conversation, the rows keep it.   *)
ResetChat(c) ==
  LET gone == {registry[s] : s \in {t \in Seats : t[2] = c}}
  IN  /\ Fault /\ gone # {NoAgent}
      /\ agent' = [n \in Agents |-> IF n \in gone THEN [Killed(agent[n]) EXCEPT !.conv = NoId]
                                    ELSE agent[n]]
      /\ registry' = [s \in Seats |-> IF s[2] = c THEN NoAgent ELSE registry[s]]
      /\ UNCHANGED <<database, ids, worker, stray>>

(* A recovery starts the process of a session again.  It answers a prompt, *)
(* so no command of the chat is still at the session.                      *)
Restart(n) ==
  /\ Fault /\ agent[n].alive /\ agent[n].reader = "done"
  /\ \A c \in Chats : worker[c].of # n
  /\ agent' = [agent EXCEPT ![n].reader = "waiting", ![n].argv = agent[n].conv]
  /\ UNCHANGED <<database, ids, registry, worker, stray>>

Crash ==
  /\ Fault
  /\ agent' = [n \in Agents |-> [Killed(agent[n]) EXCEPT
       !.reader = CASE @ \in {"told", "looked"} -> "cut" [] @ = "waiting" -> "ended" [] OTHER -> @]]
  /\ registry' = [s \in Seats |-> NoAgent]
  /\ worker' = [c \in Chats |-> Idle]
  /\ UNCHANGED <<database, ids, stray>>

-----------------------------------------------------------------------------
(* The bot starts with the database of an earlier run: each user in Before *)
(* has a conversation in his row and in his history.                       *)
Earlier(u) == {i \in DOMAIN Before : Before[i] = u}

Init ==
  /\ made = Before /\ spoken = DOMAIN Before
  /\ known = {u \in Users : Earlier(u) # {}}
  /\ listed = [u \in Users |-> Earlier(u)]
  /\ row \in [Users -> [conv : DOMAIN Before \cup {NoId}, setup : {0}]]
  /\ \A u \in Users : row[u].conv \in Earlier(u) \/ (Earlier(u) = {} /\ row[u].conv = NoId)
  /\ hidden = {} /\ refused = {}
  /\ agent = <<>> /\ registry = [s \in Seats |-> NoAgent]
  /\ worker = [c \in Chats |-> Idle]
  /\ asked = 0 /\ faults = 0 /\ stray = {}

ReaderStep(n) == Told(n) \/ Looked(n) \/ Saved(n) \/ ReaderEnds(n)
WorkerStep(c) ==
  \/ HandleUpdate(c) \/ Deny(c) \/ Reuse(c) \/ Acquire(c) \/ Again(c)
  \/ Save(c) \/ Wait(c) \/ Clear(c) \/ Wipe(c)

Next ==
  \/ \E c \in Chats : WorkerStep(c) \/ ResetChat(c)
  \/ \E n \in Agents : ReaderStep(n) \/ Restart(n)
  \/ \E s \in Seats : Evict(s)
  \/ Crash

Spec == Init /\ [][Next]_vars

-----------------------------------------------------------------------------
(* Every variable has its type. *)
TypeOK ==
  /\ row \in [Users -> [conv : Ids \cup {NoId}, setup : Setups]]
  /\ known \subseteq Users
  /\ listed \in [Users -> SUBSET Ids] /\ hidden \subseteq Ids
  /\ made \in Seq(Users) /\ Len(made) <= MaxIds
  /\ spoken \subseteq Ids /\ refused \subseteq Ids
  /\ Len(agent) <= MaxStarts
  /\ \A n \in Agents :
       /\ agent[n].seat \in Seats /\ agent[n].reader \in {"waiting", "told", "looked", "done", "ended", "cut"}
       /\ {agent[n].conv, agent[n].argv, agent[n].got, agent[n].wanted, agent[n].init} \subseteq Ids \cup {NoId}
  /\ registry \in [Seats -> Agents \cup {NoAgent}]
  /\ \A c \in Chats : worker[c].pc \in {"idle", "asked", "again", "save", "wait", "wipe"}
  /\ stray \subseteq Users

(* A user's conversations are his own: neither his row, his history nor    *)
(* any of his agents ever holds a conversation begun for someone else,     *)
(* whatever buttons of a group chat he presses (handlers.go:1246).         *)
ConversationsArePrivate ==
  /\ \A n \in Agents : agent[n].conv = NoId \/ made[agent[n].conv] = UserOf(n)
  /\ \A u \in Users : \A id \in listed[u] \cup ({row[u].conv} \ {NoId}) : made[id] = u

(* No conversation drops out of sight: whatever an agent has reported is   *)
(* in its user's history, unless the reader is still at it or the bot died *)
(* over it (session.go:1269).                                              *)
EveryConversationIsListed ==
  \A id \in spoken :
    \/ id \in listed[made[id]]
    \/ \E n \in Agents : agent[n].got = id /\ agent[n].reader \in {"told", "looked", "cut"}

(* A conversation is hidden from /resume only if agy did not continue it   *)
(* when asked to, although the reader compares what it reads with a field  *)
(* that other goroutines write (session.go:1225).                          *)
HiddenOnlyIfRefused == hidden \subseteq refused

(* A conversation agy did not continue is hidden, unless the reader is     *)
(* still at it, the bot died over it, or the session was reset meanwhile   *)
(* and had forgotten what it asked for (session.go:1238).                  *)
LostContextIsHidden ==
  \A id \in refused :
    \/ id \in hidden \/ id \notin listed[made[id]]
    \/ \E n \in Agents :
         agent[n].argv = id /\ (agent[n].reader \in {"told", "cut"} \/ agent[n].wanted = NoId)

(* The row names the conversation of the agent the user started last, so   *)
(* that his next message continues it, unless the save of a command or of  *)
(* an older agent has come after that agent's (session.go:1269).           *)
RowFollowsAgent ==
  \A u \in Users \ stray : \A n \in Newest(u) :
    agent[n].alive /\ agent[n].reader = "done" => row[u].conv = agent[n].conv
=============================================================================
