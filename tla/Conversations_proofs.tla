------------------------ MODULE Conversations_proofs ------------------------
(***************************************************************************)
(* Proofs about Conversations, for any users, chats and seats and any      *)
(* bounds.                                                                 *)
(*                                                                         *)
(* The same id may stand in the row, in the history, in a worker's hand,   *)
(* in a session and in its process, each written at its own time.  Two     *)
(* facts about an id hold wherever it stands: it was made for that user    *)
(* (Mine), and it is in his history unless agy has never spoken it         *)
(* (Placed); an id that has just been reported is the one exception to the *)
(* second, until its reader has saved it.  Both survive every step because *)
(* ids are only made and histories only grow (Grows).                      *)
(***************************************************************************)
EXTENDS Conversations, SequenceTheorems, TLAPS

IdOrNone == Ids \cup {NoId}
Readers == {"waiting", "told", "looked", "done", "ended", "cut"}

Sessions ==
  [seat : Seats, setup : Setups, conv : IdOrNone, explicit : BOOLEAN, alive : BOOLEAN,
   reader : Readers, argv : IdOrNone, got : IdOrNone, wanted : IdOrNone, init : IdOrNone]

Workers ==
  [pc : {"asked", "again", "save", "wait", "wipe"}, user : Users,
   cmd : {"message", "resume", "model", "workspace", "clear"},
   conv : IdOrNone, setup : Setups, id : IdOrNone, of : Nat]

Typed ==
  /\ row \in [Users -> [conv : IdOrNone, setup : Setups]]
  /\ known \subseteq Users
  /\ listed \in [Users -> SUBSET Ids] /\ hidden \subseteq Ids
  /\ made \in Seq(Users) /\ Len(made) <= MaxIds
  /\ spoken \subseteq DOMAIN made /\ refused \subseteq DOMAIN made
  /\ agent \in Seq(Sessions) /\ Len(agent) <= MaxStarts
  /\ registry \in [Seats -> Agents \cup {NoAgent}]
  /\ worker \in [Chats -> {Idle} \cup Workers]
  /\ stray \subseteq Users

(* An id that may stand with user u. *)
Mine(u, id) == id # NoId => id \in DOMAIN made /\ made[id] = u
Placed(u, id) == id \in listed[u] \cup {NoId} \/ id \notin spoken

(* The ids of a session, and what its reader knows of them. *)
SessionOwn(a) ==
  /\ a.seat[1] \in known
  /\ \A id \in {a.conv, a.argv, a.got, a.wanted, a.init} : Mine(a.seat[1], id)

SessionPlaced(a) ==
  /\ Placed(a.seat[1], a.argv)
  /\ \A id \in {a.conv, a.init} :
       Placed(a.seat[1], id) \/ (id = a.got /\ a.reader \in {"told", "looked", "cut"})
  /\ a.reader \in {"told", "looked"} => a.got \in spoken

SessionRead(a) ==
  /\ a.reader \in {"waiting", "ended"} => a.conv \in {a.argv, NoId}
  /\ a.reader = "waiting" => a.conv = a.argv \/ ~ a.alive
  /\ a.reader = "told" => a.wanted = a.argv \/ (a.wanted = NoId /\ ~ a.alive)
  /\ a.reader \in {"told", "looked"} => a.wanted \in {NoId, a.got} \cup refused
  /\ a.reader \in {"told", "looked", "done"} /\ a.alive => a.conv = a.got

SessionOK(a) == SessionOwn(a) /\ SessionPlaced(a) /\ SessionRead(a)

(* A worker w of chat c: the ids in its hand, and the session it is at.    *)
WorkerOwn(w, c) ==
  w.pc # "idle" =>
    /\ <<w.user, c>> \in Seats /\ w.user \in known
    /\ Mine(w.user, w.conv) /\ Placed(w.user, w.conv)
    /\ w.id # NoId => \E u \in Users : w.id \in listed[u]
    /\ w.pc = "save" => w.cmd \in {"resume", "model", "workspace"}
    /\ w.pc \in {"save", "wait"} /\ w.cmd = "resume" => Mine(w.user, w.id)

WorkerAt(w, c) ==
  /\ w.pc \in {"again", "save", "wait"} =>
       /\ w.of \in Agents /\ agent[w.of].seat = <<w.user, c>>
       /\ agent[w.of].init \in {NoId, agent[w.of].got}
       /\ agent[w.of].reader \in {"waiting", "ended"} => agent[w.of].init = NoId
  /\ w.pc = "again" =>
       /\ agent[w.of].reader = "ended" /\ agent[w.of].conv = agent[w.of].argv
       /\ \A s \in Seats : registry[s] # w.of

(* What is written down about each user. *)
UserOK(u) ==
  /\ \A id \in listed[u] : Mine(u, id)
  /\ Mine(u, row[u].conv) /\ Placed(u, row[u].conv)

(* A session that asked for an id and was given another, and whose reader  *)
(* has not compared them yet, never will, or could not.                    *)
Refuses(a, id) ==
  /\ a.argv = id /\ a.got # id
  /\ \/ a.reader \in {"told", "cut"}
     \/ a.reader \in {"looked", "done"} /\ a.wanted = NoId /\ ~ a.alive

RefusedOK(id) ==
  /\ Placed(made[id], id)
  /\ id \in hidden \/ id \notin listed[made[id]] \/ \E n \in Agents : Refuses(agent[n], id)

ConvInv ==
  /\ Typed
  /\ \A n \in Agents : SessionOK(agent[n])
  /\ \A c \in Chats : WorkerOwn(worker[c], c) /\ WorkerAt(worker[c], c)
  /\ \A u \in Users : UserOK(u)
  /\ EveryConversationIsListed /\ HiddenOnlyIfRefused
  /\ \A id \in refused : RefusedOK(id)
  /\ RowFollowsAgent

(* Ids are made, spoken, listed, refused and hidden, never the other way,  *)
(* and an id is spoken only when it is new.                                *)
Grows ==
  /\ DOMAIN made \subseteq DOMAIN made' /\ \A i \in DOMAIN made : made'[i] = made[i]
  /\ \A u \in Users : listed[u] \subseteq listed'[u]
  /\ spoken \subseteq spoken' /\ spoken' \cap DOMAIN made \subseteq spoken
  /\ refused \subseteq refused' /\ hidden \subseteq hidden' /\ known \subseteq known'

(* A session is left alone, killed, or killed and made to forget.          *)
Calm(a, b) ==
  /\ b.seat = a.seat /\ b.argv = a.argv /\ b.got = a.got
  /\ b.wanted = a.wanted /\ b.init = a.init /\ b.reader = a.reader
  /\ b.alive => a.alive
  /\ b.conv = a.conv \/ (b.conv = NoId /\ ~ b.alive)

-----------------------------------------------------------------------------
(* Types. *)

LEMMA SeatsAre ==
  ASSUME NEW s \in Seats
  PROVE  s[1] \in Users /\ s[2] \in Chats /\ s = <<s[1], s[2]>>
PROOF
  BY ConversationsAssumption DEF ConversationsAssumption

LEMMA AgentsAre ==
  ASSUME Typed
  PROVE  /\ Agents = 1 .. Len(agent) /\ Len(agent) \in Nat /\ agent \in [Agents -> Sessions]
         /\ \A n \in Agents : agent[n] \in Sessions /\ UserOf(n) \in Users /\ n \in Nat /\ n # NoAgent
PROOF
  <1>1. agent \in Seq(Sessions)
    BY DEF Typed
  <1>2. Agents = 1 .. Len(agent) /\ Len(agent) \in Nat /\ agent \in [Agents -> Sessions]
    BY <1>1, LenProperties DEF Agents
  <1>3. \A n \in Agents : agent[n] \in Sessions /\ n \in Nat /\ n # NoAgent
    BY <1>1, <1>2, ElementOfSeq DEF NoAgent
  <1>4. \A n \in Agents : agent[n].seat \in Seats
    BY <1>3 DEF Sessions
  <1>. QED
    BY <1>2, <1>3, <1>4, SeatsAre DEF UserOf

LEMMA IdsAre ==
  ASSUME Typed
  PROVE  /\ DOMAIN made = 1 .. Len(made) /\ Len(made) \in Nat /\ DOMAIN made \subseteq Ids
         /\ \A id \in DOMAIN made : made[id] \in Users /\ id # NoId
         /\ MaxIds \in Nat /\ Ids \subseteq Nat /\ NoId \notin Ids
PROOF
  <1>1. MaxIds \in Nat /\ made \in Seq(Users) /\ Len(made) <= MaxIds
    BY ConversationsAssumption DEF ConversationsAssumption, Typed
  <1>. QED
    BY <1>1, LenProperties, ElementOfSeq DEF Ids, NoId

LEMMA IdleIs ==
  /\ Idle.pc = "idle" /\ Idle.of = NoAgent /\ Idle.cmd = "message"
  /\ \A c : WorkerOwn(Idle, c) /\ WorkerAt(Idle, c)
PROOF
  BY DEF Idle, WorkerOwn, WorkerAt

LEMMA IdleStays == \A c : WorkerOwn(Idle, c)' /\ WorkerAt(Idle, c)'
PROOF
  BY DEF Idle, WorkerOwn, WorkerAt

LEMMA WorkersAre ==
  ASSUME Typed, NEW c \in Chats
  PROVE  /\ worker[c] = Idle \/ (worker[c] \in Workers /\ worker[c].pc # "idle")
         /\ worker[c].pc # "idle" => worker[c] \in Workers
PROOF
  BY IdleIs DEF Typed, Workers

LEMMA EveryAgent ==
  ASSUME Typed, agent' \in [Agents -> Sessions]
  PROVE  agent' \in Seq(Sessions) /\ Len(agent') = Len(agent) /\ Agents' = Agents
PROOF
  <1>1. Agents = 1 .. Len(agent) /\ Len(agent) \in Nat
    BY AgentsAre
  <1>2. agent' \in Seq(Sessions) /\ Len(agent') = Len(agent)
    BY <1>1, IsASeq, LenProperties
  <1>. QED
    BY <1>2 DEF Agents

(* What a killed or a forgetful session keeps. *)
LEMMA KilledIsCalm ==
  ASSUME NEW a \in Sessions
  PROVE  /\ Killed(a) \in Sessions /\ Calm(a, Killed(a)) /\ Calm(a, a)
         /\ [Killed(a) EXCEPT !.conv = NoId] \in Sessions
         /\ Calm(a, [Killed(a) EXCEPT !.conv = NoId])
         /\ Killed(a).conv = a.conv
PROOF
  BY DEF Sessions, Killed, Calm, IdOrNone

LEMMA WithoutIsCalm ==
  ASSUME Typed, NEW s \in Seats
  PROVE  /\ Without(s) \in Seq(Sessions) /\ Len(Without(s)) = Len(agent)
         /\ \A n \in Agents : /\ Without(s)[n] \in Sessions /\ Calm(agent[n], Without(s)[n])
                              /\ Without(s)[n].conv = agent[n].conv
PROOF
  <1>1. Agents = 1 .. Len(agent) /\ Len(agent) \in Nat /\ \A n \in Agents : agent[n] \in Sessions
    BY AgentsAre
  <1>2. \A n \in Agents : /\ Without(s)[n] \in Sessions /\ Calm(agent[n], Without(s)[n])
                          /\ Without(s)[n].conv = agent[n].conv
    BY <1>1, KilledIsCalm DEF Without
  <1>3. Without(s) = [n \in Agents |-> Without(s)[n]] /\ DOMAIN Without(s) = Agents
    BY DEF Without
  <1>4. Without(s) \in [1 .. Len(agent) -> Sessions]
    BY <1>1, <1>2, <1>3
  <1>. QED
    BY <1>1, <1>2, <1>4, IsASeq, LenProperties

-----------------------------------------------------------------------------
(* What survives when ids are only made and histories only grow. *)

LEMMA MineStays ==
  ASSUME Grows, NEW u, NEW id, Mine(u, id)
  PROVE  Mine(u, id)'
PROOF
  BY DEF Grows, Mine

LEMMA PlacedStays ==
  ASSUME Grows, NEW u \in Users, NEW id, Mine(u, id), Placed(u, id)
  PROVE  Placed(u, id)'
PROOF
  BY DEF Grows, Mine, Placed

LEMMA SessionStays ==
  ASSUME Grows, NEW a \in Sessions, SessionOK(a)
  PROVE  SessionOK(a)'
PROOF
  <1>1. a.seat[1] \in Users
    BY SeatsAre DEF Sessions
  <1>2. SessionOwn(a)'
    BY MineStays DEF SessionOK, SessionOwn, Grows
  <1>3. SessionPlaced(a)'
    BY <1>1, PlacedStays DEF SessionOK, SessionOwn, SessionPlaced, Grows
  <1>4. SessionRead(a)'
    BY DEF SessionOK, SessionRead, Grows
  <1>. QED
    BY <1>2, <1>3, <1>4 DEF SessionOK

LEMMA CalmSession ==
  ASSUME NEW a \in Sessions, NEW b \in Sessions, SessionOK(a), Calm(a, b)
  PROVE  SessionOK(b)
PROOF
  <1>1. SessionOwn(b)
    BY DEF SessionOK, SessionOwn, Calm, Mine
  <1>2. SessionPlaced(b)
    BY DEF SessionOK, SessionPlaced, Calm, Placed
  <1>3. SessionRead(b)
    BY DEF SessionOK, SessionRead, Calm
  <1>. QED
    BY <1>1, <1>2, <1>3 DEF SessionOK

LEMMA CalmRefusal ==
  ASSUME NEW a, NEW b, NEW id, Refuses(a, id), Calm(a, b)
  PROVE  Refuses(b, id)
PROOF
  BY DEF Refuses, Calm

LEMMA WorkerOwnStays ==
  ASSUME Grows, NEW c, NEW w, WorkerOwn(w, c)
  PROVE  WorkerOwn(w, c)'
PROOF
  <1> SUFFICES ASSUME w.pc # "idle" PROVE WorkerOwn(w, c)'
    BY DEF WorkerOwn
  <1>1. /\ <<w.user, c>> \in Seats /\ w.user \in known
        /\ Mine(w.user, w.conv) /\ Placed(w.user, w.conv)
        /\ w.id # NoId => \E u \in Users : w.id \in listed[u]
        /\ w.pc = "save" => w.cmd \in {"resume", "model", "workspace"}
        /\ w.pc \in {"save", "wait"} /\ w.cmd = "resume" => Mine(w.user, w.id)
    BY DEF WorkerOwn
  <1>2. w.user \in Users
    BY <1>1, SeatsAre
  <1>3. Mine(w.user, w.conv)' /\ Placed(w.user, w.conv)'
    BY <1>1, <1>2, MineStays, PlacedStays
  <1>4. w.pc \in {"save", "wait"} /\ w.cmd = "resume" => Mine(w.user, w.id)'
    BY <1>1, MineStays
  <1>. QED
    BY <1>1, <1>3, <1>4 DEF WorkerOwn, Grows

LEMMA UserStays ==
  ASSUME Grows, NEW u \in Users, UserOK(u),
         row'[u].conv = row[u].conv, listed'[u] = listed[u]
  PROVE  UserOK(u)'
PROOF
  <1>1. Mine(u, row[u].conv)' /\ Placed(u, row[u].conv)'
    <2>1. PICK id : id = row[u].conv /\ id = row'[u].conv
      OBVIOUS
    <2>2. Mine(u, id) /\ Placed(u, id)
      BY <2>1 DEF UserOK
    <2>3. Mine(u, id)' /\ Placed(u, id)'
      BY <2>2, MineStays, PlacedStays
    <2>. QED
      BY <2>1, <2>3 DEF Mine, Placed
  <1>2. \A id \in listed'[u] : Mine(u, id)'
    BY MineStays DEF UserOK
  <1>. QED
    BY <1>1, <1>2 DEF UserOK

(* A refused id stays settled if those who refuse it still do, and none    *)
(* is listed late.                                                         *)
LEMMA RefusalStays ==
  ASSUME Typed, Grows, NEW id \in refused, RefusedOK(id),
         \A u \in Users : UserOK(u),
         \A n \in Agents : Refuses(agent[n], id) => n \in Agents' /\ Refuses(agent'[n], id),
         id \in listed'[made[id]] => id \in listed[made[id]]
  PROVE  RefusedOK(id)'
PROOF
  <1>1. id \in DOMAIN made /\ made[id] \in Users /\ made'[id] = made[id] /\ Mine(made[id], id)
    BY IdsAre DEF Typed, Grows, Mine
  <1>2. PICK u \in Users : u = made[id] /\ u = made'[id]
    BY <1>1
  <1>3. Placed(u, id)'
    BY <1>1, <1>2, PlacedStays DEF RefusedOK
  <1>4. id \in hidden => id \in hidden'
    BY DEF Grows
  <1>5. (\E n \in Agents : Refuses(agent[n], id)) => \E n \in Agents' : Refuses(agent'[n], id)
    OBVIOUS
  <1>6. id \in hidden' \/ id \notin listed'[u] \/ \E n \in Agents' : Refuses(agent'[n], id)
    BY <1>2, <1>4, <1>5 DEF RefusedOK
  <1>. QED
    BY <1>2, <1>3, <1>6 DEF RefusedOK, Refuses, Placed

-----------------------------------------------------------------------------
(* Steps that only kill and begin sessions, beside the workers and the     *)
(* rows: no reader moves.                                                  *)

AgentsCalm == \A n \in Agents : n \in Agents' /\ Calm(agent[n], agent'[n])

LEMMA CalmWorkerAt ==
  ASSUME AgentsCalm, NEW c, NEW w, WorkerAt(w, c),
         w.pc = "again" => /\ agent'[w.of].conv = agent[w.of].conv
                           /\ \A s \in Seats : registry'[s] # w.of
  PROVE  WorkerAt(w, c)'
PROOF
  BY DEF AgentsCalm, Calm, WorkerAt

(* A worker who does nothing himself, when only registered sessions are    *)
(* made to forget.                                                         *)
LEMMA OthersStay ==
  ASSUME ConvInv, Grows, AgentsCalm, NEW d \in Chats, worker'[d] = worker[d],
         \A n \in Agents : (\A s \in Seats : registry[s] # n) => agent'[n].conv = agent[n].conv,
         \A s \in Seats : registry'[s] \in Agents => registry'[s] = registry[s]
  PROVE  WorkerOwn(worker[d], d)' /\ WorkerAt(worker[d], d)'
PROOF
  <1>1. PICK w : w = worker[d] /\ w = worker'[d]
    OBVIOUS
  <1>2. WorkerOwn(w, d) /\ WorkerAt(w, d)
    BY <1>1 DEF ConvInv
  <1>3. WorkerOwn(w, d)'
    BY <1>2, WorkerOwnStays
  <1>4. w.pc = "again" => /\ agent'[w.of].conv = agent[w.of].conv
                          /\ \A s \in Seats : registry'[s] # w.of
    BY <1>2 DEF WorkerAt
  <1>5. WorkerAt(w, d)'
    BY <1>2, <1>4, CalmWorkerAt
  <1>. QED
    BY <1>1, <1>3, <1>5

LEMMA CalmStep ==
  ASSUME ConvInv, Grows, Typed', AgentsCalm,
         UNCHANGED <<spoken, refused, hidden, listed>>,
         \A n \in Agents' \ Agents :
           SessionOK(agent[n])' /\ agent'[n].reader \in {"waiting", "ended"},
         \A c \in Chats : WorkerOwn(worker[c], c)' /\ WorkerAt(worker[c], c)',
         \A u \in Users : UserOK(u)',
         \A u \in Users \ stray' : \A n \in Newest(u) :
           agent[n].alive /\ agent[n].reader = "done" => row'[u].conv = agent[n].conv
  PROVE  ConvInv'
PROOF
  <1>1. Typed
    BY DEF ConvInv
  <1>2. \A n \in Agents' : SessionOK(agent[n])'
    <2>1. ASSUME NEW n \in Agents PROVE SessionOK(agent[n])'
      <3>1. PICK b : b = agent'[n]
        OBVIOUS
      <3>2. agent[n] \in Sessions /\ b \in Sessions /\ Calm(agent[n], b)
        <4>1. agent'[n] \in Sessions
          BY ElementOfSeq, LenProperties DEF AgentsCalm, Typed, Agents
        <4>. QED
          BY <1>1, <3>1, <4>1, AgentsAre DEF AgentsCalm
      <3>3. SessionOK(b)
        BY <3>2, CalmSession DEF ConvInv
      <3>4. SessionOK(b)'
        BY <3>2, <3>3, SessionStays
      <3>. QED
        BY <3>1, <3>4
    <2>. QED
      BY <2>1
  <1>3. EveryConversationIsListed'
    <2>1. ASSUME NEW id \in spoken
          PROVE  \/ id \in listed'[made'[id]]
                 \/ \E n \in Agents' : agent'[n].got = id /\ agent'[n].reader \in {"told", "looked", "cut"}
      <3>1. made'[id] = made[id]
        BY <1>1 DEF Typed, Grows
      <3>2. \A n \in Agents : /\ n \in Agents' /\ agent'[n].got = agent[n].got
                              /\ agent'[n].reader = agent[n].reader
        BY DEF AgentsCalm, Calm
      <3>. QED
        BY <3>1, <3>2 DEF ConvInv, EveryConversationIsListed
    <2>. QED
      BY <2>1 DEF EveryConversationIsListed
  <1>4. HiddenOnlyIfRefused'
    BY DEF ConvInv, HiddenOnlyIfRefused
  <1>5. \A id \in refused' : RefusedOK(id)'
    <2>1. ASSUME NEW id \in refused PROVE RefusedOK(id)'
      <3>1. \A n \in Agents : Refuses(agent[n], id) => n \in Agents' /\ Refuses(agent'[n], id)
        BY CalmRefusal DEF AgentsCalm
      <3>. QED
        BY <1>1, <3>1, RefusalStays DEF ConvInv
    <2>. QED
      BY <2>1
  <1>6. RowFollowsAgent'
    <2>1. ASSUME NEW u \in Users \ stray', NEW n \in Newest(u)',
                 agent'[n].alive, agent'[n].reader = "done"
          PROVE  row'[u].conv = agent'[n].conv
      <3>1. n \in Agents' /\ n \in Agents
        BY <2>1 DEF Newest
      <3>2. Calm(agent[n], agent'[n])
        BY <3>1 DEF AgentsCalm
      <3>3. n \in Newest(u)
        BY <3>1 DEF AgentsCalm, Newest, UserOf, Calm
      <3>4. n \in Nat
        BY <1>1, <3>1, AgentsAre
      <3>5. agent'[n].conv = agent[n].conv
        BY <2>1, <3>2 DEF Calm
      <3>. QED
        BY <2>1, <3>2, <3>3, <3>5 DEF Calm
    <2>. QED
      BY <2>1 DEF RowFollowsAgent
  <1>. QED
    BY <1>2, <1>3, <1>4, <1>5, <1>6 DEF ConvInv

(* A worker that is done with its update stands nowhere. *)
LEMMA Finished ==
  ASSUME Typed, NEW c \in Chats, Finish(c)
  PROVE  /\ worker' \in [Chats -> {Idle} \cup Workers] /\ worker'[c] = Idle
         /\ \A d \in Chats : d # c => worker'[d] = worker[d]
PROOF
  BY DEF Typed, Finish

(* A step that only ends a worker's command: Deny and Reuse, a second      *)
(* start that fails, a wait that runs out.                                 *)
LEMMA FinishKeeps ==
  ASSUME ConvInv, NEW c \in Chats, Finish(c),
         UNCHANGED <<row, known, listed, hidden, made, spoken, refused, agent, registry, stray>>
  PROVE  ConvInv'
PROOF
  <1>1. Typed /\ Finish(c)
    BY DEF ConvInv
  <1>2. UNCHANGED <<row, known, listed, hidden, made, spoken, refused, agent, registry, stray>>
    OBVIOUS
  <1>3. Typed'
    BY <1>1, <1>2, Finished DEF Typed, Agents
  <1>4. Grows
    BY <1>2 DEF Grows
  <1>5. AgentsCalm /\ Agents' = Agents
    BY <1>1, <1>2, AgentsAre, KilledIsCalm DEF AgentsCalm, Agents
  <1>6. \A d \in Chats : WorkerOwn(worker[d], d)' /\ WorkerAt(worker[d], d)'
    <2>1. ASSUME NEW d \in Chats, d # c PROVE WorkerOwn(worker[d], d)' /\ WorkerAt(worker[d], d)'
      <3>1. worker'[d] = worker[d]
        BY <1>1, <2>1, Finished
      <3>. QED
        BY <1>2, <1>4, <1>5, <3>1, OthersStay
    <2>2. WorkerOwn(worker[c], c)' /\ WorkerAt(worker[c], c)'
      BY <1>1, Finished, IdleStays
    <2>. QED
      BY <2>1, <2>2
  <1>7. \A u \in Users : UserOK(u)'
    BY <1>2, <1>4, UserStays DEF ConvInv
  <1>8. \A u \in Users \ stray' : \A n \in Newest(u) :
           agent[n].alive /\ agent[n].reader = "done" => row'[u].conv = agent[n].conv
    BY <1>2 DEF ConvInv, RowFollowsAgent
  <1>. QED
    BY <1>2, <1>3, <1>4, <1>5, <1>6, <1>7, <1>8, CalmStep

(* A user who writes for the first time gets an id that nobody has spoken. *)
LEMMA GetUserGrows ==
  ASSUME ConvInv, NEW u \in Users, GetUser(u)
  PROVE  /\ Grows
         /\ u \in known' /\ known' \subseteq Users
         /\ row' \in [Users -> [conv : IdOrNone, setup : Setups]]
         /\ made' \in Seq(Users) /\ Len(made') <= MaxIds /\ DOMAIN made \subseteq DOMAIN made'
         /\ \A v \in Users : UserOK(v)'
         /\ \A v \in known : row'[v] = row[v]
         /\ UNCHANGED <<listed, hidden, spoken, refused>>
PROOF
  <1>1. Typed /\ \A v \in Users : UserOK(v)
    BY DEF ConvInv
  <1>2. CASE u \in known
    <2>1. UNCHANGED <<row, known, listed, hidden, made, spoken, refused>>
      BY <1>2 DEF GetUser, database, ids
    <2>2. Grows
      BY <2>1 DEF Grows
    <2>. QED
      BY <1>1, <1>2, <2>1, <2>2, UserStays DEF Typed
  <1>3. CASE u \notin known
    <2> DEFINE id == Len(made) + 1
    <2>1. /\ Len(made) < MaxIds /\ known' = known \cup {u} /\ made' = Append(made, u)
          /\ row' = [row EXCEPT ![u].conv = Len(made')]
          /\ UNCHANGED <<listed, hidden, spoken, refused>>
      BY <1>3 DEF GetUser
    <2>2. /\ made \in Seq(Users) /\ DOMAIN made = 1 .. Len(made) /\ Len(made) \in Nat
          /\ MaxIds \in Nat
      BY <1>1, IdsAre DEF Typed
    <2>3. /\ made' \in Seq(Users) /\ Len(made') = id /\ DOMAIN made' = 1 .. id
          /\ \A i \in 1 .. Len(made) : made'[i] = made[i]
          /\ made'[id] = u
      BY <2>1, <2>2, AppendProperties, LenProperties
    <2>4. id \in Ids /\ id <= MaxIds /\ id \notin DOMAIN made /\ id \in DOMAIN made'
      BY <2>1, <2>2, <2>3 DEF Ids
    <2>5. /\ row'[u].conv = id /\ \A v \in Users : v # u => row'[v] = row[v]
          /\ row' \in [Users -> [conv : IdOrNone, setup : Setups]]
      BY <1>1, <2>1, <2>3, <2>4 DEF Typed, IdOrNone
    <2> HIDE DEF id
    <2>6. Grows
      BY <2>1, <2>2, <2>3 DEF Grows, id
    <2>7. \A v \in Users : UserOK(v)'
      <3>1. ASSUME NEW v \in Users, v # u PROVE UserOK(v)'
        BY <1>1, <2>1, <2>5, <2>6, <3>1, UserStays
      <3>2. UserOK(u)'
        <4>1. \A i \in listed[u] : Mine(u, i)'
          BY <1>1, <2>6, MineStays DEF UserOK
        <4>2. row'[u].conv \in DOMAIN made' /\ made'[row'[u].conv] = u /\ row'[u].conv \notin spoken'
          BY <1>1, <2>1, <2>3, <2>4, <2>5 DEF Typed
        <4>. QED
          BY <2>1, <4>1, <4>2 DEF UserOK, Mine, Placed
      <3>. QED
        BY <3>1, <3>2
    <2>. QED
      BY <1>1, <1>3, <2>1, <2>3, <2>4, <2>5, <2>6, <2>7 DEF Grows, Typed
  <1>. QED
    BY <1>2, <1>3

LEMMA HandleUpdateKeeps ==
  ASSUME ConvInv, NEW c \in Chats, HandleUpdate(c)
  PROVE  ConvInv'
PROOF
  <1>1. PICK u \in Users, cmd \in Commands, id \in IdOrNone :
          /\ <<u, c>> \in Seats /\ GetUser(u)
          /\ id # NoId => \E v \in Users : id \in listed[v]
          /\ worker' = [worker EXCEPT ![c] =
               [pc |-> "asked", user |-> u, cmd |-> cmd, conv |-> row'[u].conv,
                setup |-> row'[u].setup, id |-> id, of |-> NoAgent]]
    <2>1. PICK u \in Users, cmd \in Commands :
             /\ <<u, c>> \in Seats /\ GetUser(u)
             /\ \E id \in IF cmd = "resume" THEN Buttons(c) ELSE {NoId} :
                  worker' = [worker EXCEPT ![c] =
                    [pc |-> "asked", user |-> u, cmd |-> cmd, conv |-> row'[u].conv,
                     setup |-> row'[u].setup, id |-> id, of |-> NoAgent]]
      BY DEF HandleUpdate
    <2>2. \A id \in Buttons(c) : id \in Ids /\ \E v \in Users : id \in listed[v]
      BY DEF Buttons, ConvInv, Typed
    <2>. QED
      BY <2>1, <2>2 DEF IdOrNone
  <1>2. UNCHANGED <<agent, registry, stray>>
    BY DEF HandleUpdate
  <1>3. Typed
    BY DEF ConvInv
  <1>4. /\ Grows
        /\ u \in known' /\ known' \subseteq Users
        /\ row' \in [Users -> [conv : IdOrNone, setup : Setups]]
        /\ made' \in Seq(Users) /\ Len(made') <= MaxIds /\ DOMAIN made \subseteq DOMAIN made'
        /\ \A v \in Users : UserOK(v)'
        /\ \A v \in known : row'[v] = row[v]
        /\ UNCHANGED <<listed, hidden, spoken, refused>>
    BY <1>1, GetUserGrows
  <1> DEFINE w == [pc |-> "asked", user |-> u, cmd |-> cmd, conv |-> row'[u].conv,
                   setup |-> row'[u].setup, id |-> id, of |-> NoAgent]
  <1>5. w \in Workers
    <2>1. cmd \in {"message", "resume", "model", "workspace", "clear"}
      BY ConversationsAssumption DEF ConversationsAssumption
    <2>2. row'[u].conv \in IdOrNone /\ row'[u].setup \in Setups
      BY <1>4
    <2>. QED
      BY <2>1, <2>2 DEF Workers, NoAgent
  <1>6. worker' = [worker EXCEPT ![c] = w]
    BY <1>1
  <1>7. /\ worker' \in [Chats -> {Idle} \cup Workers] /\ worker'[c] = w
        /\ \A d \in Chats : d # c => worker'[d] = worker[d]
    BY <1>3, <1>5, <1>6 DEF Typed
  <1>8. Typed'
    BY <1>2, <1>3, <1>4, <1>7 DEF Typed, Agents
  <1>9. AgentsCalm /\ Agents' = Agents
    BY <1>2, <1>3, AgentsAre, KilledIsCalm DEF AgentsCalm, Agents
  <1>10. \A d \in Chats : WorkerOwn(worker[d], d)' /\ WorkerAt(worker[d], d)'
    <2>1. \A d \in Chats : d # c => WorkerOwn(worker[d], d)' /\ WorkerAt(worker[d], d)'
      BY <1>2, <1>4, <1>7, <1>9, OthersStay
    <2>2. Mine(u, row[u].conv)' /\ Placed(u, row[u].conv)'
      BY <1>4 DEF UserOK
    <2>3. worker'[c].pc = "asked" /\ worker'[c].user = u /\ worker'[c].conv = row'[u].conv
          /\ worker'[c].id = id
      BY <1>7
    <2>4. WorkerOwn(worker[c], c)' /\ WorkerAt(worker[c], c)'
      BY <1>1, <1>4, <2>2, <2>3 DEF WorkerOwn, WorkerAt, Mine, Placed
    <2>. QED
      BY <2>1, <2>4
  <1>11. \A v \in Users \ stray' : \A n \in Newest(v) :
           agent[n].alive /\ agent[n].reader = "done" => row'[v].conv = agent[n].conv
    <2>1. \A v \in Users : \A n \in Newest(v) : v \in known
      BY DEF Newest, UserOf, ConvInv, SessionOK, SessionOwn
    <2>. QED
      BY <1>2, <1>4, <2>1 DEF ConvInv, RowFollowsAgent
  <1>. QED
    BY <1>2, <1>4, <1>8, <1>9, <1>10, <1>11, CalmStep

(* A worker that goes on keeps what it has in its hand. *)
LEMMA GoneOn ==
  ASSUME Typed, NEW c \in Chats, NEW pc \in {"wait", "wipe"}, worker[c].pc # "idle", Goes(c, pc)
  PROVE  /\ worker' \in [Chats -> {Idle} \cup Workers]
         /\ worker'[c] \in Workers /\ worker'[c].pc = pc
         /\ worker'[c].user = worker[c].user /\ worker'[c].cmd = worker[c].cmd
         /\ worker'[c].conv = worker[c].conv /\ worker'[c].id = worker[c].id
         /\ worker'[c].of = worker[c].of
         /\ \A d \in Chats : d # c => worker'[d] = worker[d]
PROOF
  <1>1. worker[c] \in Workers
    BY WorkersAre
  <1>2. worker' = [worker EXCEPT ![c] = [worker[c] EXCEPT !.pc = pc]]
    BY DEF Goes, Typed
  <1>3. PICK w : w = [worker[c] EXCEPT !.pc = pc]
    OBVIOUS
  <1>4. /\ w \in Workers /\ w.pc = pc /\ w.user = worker[c].user /\ w.cmd = worker[c].cmd
        /\ w.conv = worker[c].conv /\ w.id = worker[c].id /\ w.of = worker[c].of
    BY <1>1, <1>3 DEF Workers
  <1>5. worker' = [worker EXCEPT ![c] = w]
    BY <1>2, <1>3
  <1>. QED
    BY <1>4, <1>5 DEF Typed

(* Clear and Evict: the session of a seat is killed and forgotten.         *)
LEMMA ForgetSeat ==
  ASSUME ConvInv, NEW s \in Seats, agent' = Without(s),
         registry' = [registry EXCEPT ![s] = NoAgent],
         UNCHANGED <<row, known, listed, hidden, made, spoken, refused, stray>>
  PROVE  /\ Grows /\ AgentsCalm /\ Agents' = Agents
         /\ agent' \in Seq(Sessions) /\ Len(agent') = Len(agent)
         /\ registry' \in [Seats -> Agents' \cup {NoAgent}]
         /\ \A u \in Users : UserOK(u)'
         /\ \A d \in Chats : worker'[d] = worker[d] =>
              WorkerOwn(worker[d], d)' /\ WorkerAt(worker[d], d)'
         /\ \A u \in Users \ stray' : \A n \in Newest(u) :
              agent[n].alive /\ agent[n].reader = "done" => row'[u].conv = agent[n].conv
PROOF
  <1>1. Typed
    BY DEF ConvInv
  <1>2. Grows
    BY DEF Grows
  <1>3. /\ agent' \in Seq(Sessions) /\ Len(agent') = Len(agent) /\ Agents' = Agents
        /\ \A n \in Agents : Calm(agent[n], agent'[n]) /\ agent'[n].conv = agent[n].conv
    BY <1>1, WithoutIsCalm, LenProperties DEF Agents, Typed
  <1>4. AgentsCalm
    BY <1>3 DEF AgentsCalm
  <1>5. registry' \in [Seats -> Agents \cup {NoAgent}] /\ \A r \in Seats : registry'[r] \in {registry[r], NoAgent}
    BY <1>1 DEF Typed
  <1>6. \A d \in Chats : worker'[d] = worker[d] =>
              WorkerOwn(worker[d], d)' /\ WorkerAt(worker[d], d)'
    BY <1>1, <1>2, <1>3, <1>4, <1>5, AgentsAre, OthersStay
  <1>7. \A u \in Users : UserOK(u)'
    BY <1>2, UserStays DEF ConvInv
  <1>8. \A u \in Users \ stray' : \A n \in Newest(u) :
              agent[n].alive /\ agent[n].reader = "done" => row'[u].conv = agent[n].conv
    BY DEF ConvInv, RowFollowsAgent
  <1>. QED
    BY <1>2, <1>3, <1>4, <1>5, <1>6, <1>7, <1>8

LEMMA EvictKeeps ==
  ASSUME ConvInv, NEW s \in Seats, Evict(s)
  PROVE  ConvInv'
PROOF
  <1>1. /\ agent' = Without(s) /\ registry' = [registry EXCEPT ![s] = NoAgent]
        /\ UNCHANGED <<row, known, listed, hidden, made, spoken, refused, stray, worker>>
    BY DEF Evict, database, ids
  <1>2. Typed
    BY DEF ConvInv
  <1>3. Typed'
    BY <1>1, <1>2, ForgetSeat DEF Typed
  <1>. QED
    BY <1>1, <1>3, ForgetSeat, CalmStep

LEMMA ClearKeeps ==
  ASSUME ConvInv, NEW c \in Chats, Clear(c)
  PROVE  ConvInv'
PROOF
  <1>1. /\ worker[c].pc = "asked" /\ agent' = Without(Seat(c)) /\ Goes(c, "wipe")
        /\ registry' = [registry EXCEPT ![Seat(c)] = NoAgent]
        /\ UNCHANGED <<row, known, listed, hidden, made, spoken, refused, stray>>
    BY DEF Clear, database, ids
  <1>2. Typed /\ Seat(c) \in Seats /\ WorkerOwn(worker[c], c)
    BY <1>1 DEF ConvInv, WorkerOwn, Seat
  <1>3. /\ worker' \in [Chats -> {Idle} \cup Workers]
        /\ worker'[c].pc = "wipe" /\ worker'[c].user = worker[c].user
        /\ worker'[c].conv = worker[c].conv /\ worker'[c].id = worker[c].id
        /\ \A d \in Chats : d # c => worker'[d] = worker[d]
    BY <1>1, <1>2, GoneOn
  <1>4. /\ Grows /\ AgentsCalm /\ Agents' = Agents
        /\ agent' \in Seq(Sessions) /\ Len(agent') = Len(agent)
        /\ registry' \in [Seats -> Agents' \cup {NoAgent}]
        /\ \A u \in Users : UserOK(u)'
        /\ \A d \in Chats : worker'[d] = worker[d] =>
             WorkerOwn(worker[d], d)' /\ WorkerAt(worker[d], d)'
        /\ \A u \in Users \ stray' : \A n \in Newest(u) :
             agent[n].alive /\ agent[n].reader = "done" => row'[u].conv = agent[n].conv
    BY <1>1, <1>2, ForgetSeat
  <1>5. Typed'
    BY <1>1, <1>2, <1>3, <1>4 DEF Typed
  <1>6. WorkerOwn(worker[c], c)' /\ WorkerAt(worker[c], c)'
    <2>1. PICK w : w = worker[c] /\ WorkerOwn(w, c)'
      BY <1>2, <1>4, WorkerOwnStays
    <2>. QED
      BY <1>1, <1>3, <2>1 DEF WorkerOwn, WorkerAt, Mine, Placed
  <1>. QED
    BY <1>1, <1>3, <1>4, <1>5, <1>6, CalmStep

(* ResetChat: the registered sessions of a chat are killed and forget.     *)
LEMMA ResetChatKeeps ==
  ASSUME ConvInv, NEW c \in Chats, ResetChat(c)
  PROVE  ConvInv'
PROOF
  <1> DEFINE gone == {registry[s] : s \in {t \in Seats : t[2] = c}}
  <1>1. /\ agent' = [n \in Agents |-> IF n \in gone THEN [Killed(agent[n]) EXCEPT !.conv = NoId]
                                      ELSE agent[n]]
        /\ registry' = [s \in Seats |-> IF s[2] = c THEN NoAgent ELSE registry[s]]
        /\ UNCHANGED <<row, known, listed, hidden, made, spoken, refused, stray, worker>>
    BY DEF ResetChat, database, ids
  <1>2. Typed
    BY DEF ConvInv
  <1>3. gone \subseteq {registry[s] : s \in Seats}
    OBVIOUS
  <1> HIDE DEF gone
  <1>4. Grows
    BY <1>1 DEF Grows
  <1>5. \A n \in Agents : agent'[n] \in Sessions /\ Calm(agent[n], agent'[n])
    BY <1>1, <1>2, AgentsAre, KilledIsCalm
  <1>6. agent' \in [Agents -> Sessions]
    BY <1>1, <1>5
  <1>7. agent' \in Seq(Sessions) /\ Len(agent') = Len(agent) /\ Agents' = Agents
    BY <1>2, <1>6, EveryAgent
  <1>8. AgentsCalm
    BY <1>5, <1>7 DEF AgentsCalm
  <1>9. /\ registry' \in [Seats -> Agents \cup {NoAgent}]
        /\ \A s \in Seats : registry'[s] \in {registry[s], NoAgent}
    BY <1>1, <1>2 DEF Typed
  <1>10. Typed'
    BY <1>1, <1>2, <1>7, <1>9 DEF Typed
  <1>11. \A n \in Agents : (\A s \in Seats : registry[s] # n) => agent'[n].conv = agent[n].conv
    BY <1>1, <1>3
  <1>12. \A d \in Chats : WorkerOwn(worker[d], d)' /\ WorkerAt(worker[d], d)'
    BY <1>1, <1>2, <1>4, <1>8, <1>9, <1>11, AgentsAre, OthersStay
  <1>13. \A u \in Users : UserOK(u)'
    BY <1>1, <1>4, UserStays DEF ConvInv
  <1>14. \A u \in Users \ stray' : \A n \in Newest(u) :
              agent[n].alive /\ agent[n].reader = "done" => row'[u].conv = agent[n].conv
    BY <1>1 DEF ConvInv, RowFollowsAgent
  <1>. QED
    BY <1>1, <1>4, <1>7, <1>8, <1>10, <1>12, <1>13, <1>14, CalmStep

(* What is asked of a new session is the user's own. *)
LEMMA RequestedIsOwn ==
  ASSUME ConvInv, NEW c \in Chats, worker[c].pc = "asked",
         worker[c].cmd = "resume" => MayResume(c)
  PROVE  /\ Requested(c) \in IdOrNone /\ SetupFor(c) \in Setups
         /\ Mine(worker[c].user, Requested(c)) /\ Placed(worker[c].user, Requested(c))
PROOF
  <1>1. Typed /\ worker[c] \in Workers /\ WorkerOwn(worker[c], c)
    BY WorkersAre DEF ConvInv
  <1>2. /\ worker[c].user \in Users /\ Mine(worker[c].user, worker[c].conv)
        /\ Placed(worker[c].user, worker[c].conv)
        /\ worker[c].conv \in IdOrNone /\ worker[c].id \in IdOrNone
    BY <1>1 DEF WorkerOwn, Workers
  <1>3. SetupFor(c) \in Setups
    BY <1>1 DEF Workers, Setups, SetupFor
  <1>4. CASE worker[c].cmd = "resume"
    <2>1. Requested(c) = worker[c].id
      BY <1>4 DEF Requested
    <2>2. CASE worker[c].id = worker[c].conv
      BY <1>2, <1>3, <2>1, <2>2
    <2>3. CASE worker[c].id \in listed[worker[c].user]
      <3>1. Mine(worker[c].user, worker[c].id) /\ Placed(worker[c].user, worker[c].id)
        BY <1>2, <2>3 DEF ConvInv, UserOK, Placed
      <3>. QED
        BY <1>2, <1>3, <2>1, <3>1
    <2>. QED
      BY <1>4, <2>2, <2>3 DEF MayResume, Owned
  <1>5. CASE worker[c].cmd = "workspace"
    <2>1. Requested(c) = NoId
      BY <1>5 DEF Requested
    <2>. QED
      BY <1>3, <2>1 DEF Mine, Placed, IdOrNone
  <1>6. CASE worker[c].cmd \notin {"resume", "workspace"}
    <2>1. Requested(c) = worker[c].conv
      BY <1>6 DEF Requested
    <2>. QED
      BY <1>2, <1>3, <2>1
  <1>. QED
    BY <1>4, <1>5, <1>6

(* A session that has just begun, or has failed to. *)
LEMMA NewSession ==
  ASSUME NEW s \in Seats, NEW id \in IdOrNone, NEW explicit \in BOOLEAN, NEW setup \in Setups,
         s[1] \in known, Mine(s[1], id), Placed(s[1], id),
         NEW a, a = Agent(s, id, explicit, setup) \/ a = Failed(Agent(s, id, explicit, setup))
  PROVE  /\ a \in Sessions /\ SessionOK(a)
         /\ a.reader \in {"waiting", "ended"} /\ a.seat = s /\ a.init = NoId /\ a.got = NoId
         /\ a.conv = a.argv
         /\ a = Failed(Agent(s, id, explicit, setup)) => a.reader = "ended"
PROOF
  <1>1. Agent(s, id, explicit, setup) \in Sessions
    BY DEF Agent, Sessions, Readers, IdOrNone
  <1>2. PICK o \in Sessions : /\ o = Agent(s, id, explicit, setup)
                              /\ o.seat = s /\ o.conv = id /\ o.argv = id /\ o.got = NoId
                              /\ o.wanted = NoId /\ o.init = NoId /\ o.reader = "waiting"
    BY <1>1 DEF Agent
  <1>3. /\ a \in Sessions /\ a.seat = s /\ a.conv = id /\ a.argv = id /\ a.got = NoId
        /\ a.wanted = NoId /\ a.init = NoId /\ a.reader \in {"waiting", "ended"}
        /\ a = Failed(o) => a.reader = "ended"
    <2>1. /\ Failed(o) \in Sessions /\ Failed(o).seat = s /\ Failed(o).conv = id
          /\ Failed(o).argv = id /\ Failed(o).got = NoId /\ Failed(o).wanted = NoId
          /\ Failed(o).init = NoId /\ Failed(o).reader = "ended"
      BY <1>2 DEF Failed, Sessions, Readers
    <2>. QED
      BY <1>2, <2>1
  <1>4. SessionOwn(a)
    BY <1>3 DEF SessionOwn, Mine
  <1>5. SessionPlaced(a)
    BY <1>3 DEF SessionPlaced, Placed
  <1>6. SessionRead(a)
    BY <1>3 DEF SessionRead
  <1>. QED
    BY <1>2, <1>3, <1>4, <1>5, <1>6 DEF SessionOK

LEMMA AcquireKeeps ==
  ASSUME ConvInv, NEW c \in Chats, Acquire(c)
  PROVE  ConvInv'
PROOF
  <1> DEFINE new == Agent(Seat(c), Requested(c), worker[c].cmd # "message", SetupFor(c))
             last == Len(agent) + 1
  <1>1. /\ worker[c].pc = "asked" /\ worker[c].cmd # "clear" /\ Len(agent) < MaxStarts
        /\ worker[c].cmd = "resume" => MayResume(c)
        /\ UNCHANGED <<row, known, listed, hidden, made, spoken, refused, stray>>
    BY DEF Acquire, database, ids
  <1>2. /\ Typed /\ worker[c] \in Workers /\ WorkerOwn(worker[c], c)
        /\ Seat(c) \in Seats /\ Seat(c)[1] = worker[c].user /\ worker[c].user \in known
    BY <1>1, WorkersAre DEF ConvInv, WorkerOwn, Seat
  <1>3. PICK a : /\ agent' = Append(Without(Seat(c)), a)
                 /\ a = new \/ a = Failed(new)
                 /\ \/ /\ registry' = [registry EXCEPT ![Seat(c)] = Len(agent')]
                       /\ IF worker[c].cmd = "message" THEN Finish(c)
                          ELSE worker' = [worker EXCEPT ![c].pc = "save", ![c].of = Len(agent')]
                    \/ /\ a = Failed(new)
                       /\ registry' = [registry EXCEPT ![Seat(c)] = NoAgent]
                       /\ IF worker[c].cmd = "message"
                          THEN worker' = [worker EXCEPT ![c].pc = "again", ![c].of = Len(agent')]
                          ELSE Finish(c)
    BY DEF Acquire
  <1>4. /\ Requested(c) \in IdOrNone /\ SetupFor(c) \in Setups
        /\ Mine(worker[c].user, Requested(c)) /\ Placed(worker[c].user, Requested(c))
    BY <1>1, RequestedIsOwn
  <1>5. /\ a \in Sessions /\ SessionOK(a)
        /\ a.reader \in {"waiting", "ended"} /\ a.seat = Seat(c) /\ a.init = NoId /\ a.got = NoId
        /\ a.conv = a.argv /\ (a = Failed(new) => a.reader = "ended")
    <2>1. PICK x \in BOOLEAN : x = (worker[c].cmd # "message")
      OBVIOUS
    <2>2. PICK s \in Seats, id \in IdOrNone, setup \in Setups :
            /\ s = Seat(c) /\ id = Requested(c) /\ setup = SetupFor(c)
            /\ new = Agent(s, id, x, setup)
      BY <1>2, <1>4, <2>1
    <2>3. s[1] \in known /\ Mine(s[1], id) /\ Placed(s[1], id)
      BY <1>2, <1>4, <2>2 DEF Mine, Placed
    <2>4. a = Agent(s, id, x, setup) \/ a = Failed(Agent(s, id, x, setup))
      BY <1>3, <2>2
    <2> HIDE DEF new
    <2>5. /\ a \in Sessions /\ SessionOK(a)
          /\ a.reader \in {"waiting", "ended"} /\ a.seat = s /\ a.init = NoId /\ a.got = NoId
          /\ a.conv = a.argv
          /\ a = Failed(Agent(s, id, x, setup)) => a.reader = "ended"
      BY <2>3, <2>4, NewSession
    <2>. QED
      BY <2>2, <2>5
  <1> HIDE DEF new
  <1>6. Grows
    BY <1>1 DEF Grows
  <1>7. /\ agent' \in Seq(Sessions) /\ Len(agent') = last /\ DOMAIN agent' = 1 .. last
        /\ agent'[last] = a /\ \A n \in Agents : agent'[n] = Without(Seat(c))[n]
        /\ Agents = 1 .. Len(agent) /\ last \in Nat /\ last \notin Agents
    <2>1. PICK o \in Seq(Sessions) : o = Without(Seat(c)) /\ Len(o) = Len(agent)
      BY <1>2, WithoutIsCalm
    <2>2. agent' = Append(o, a)
      BY <1>3, <2>1
    <2>3. /\ agent' \in Seq(Sessions) /\ Len(agent') = last /\ DOMAIN agent' = 1 .. last
          /\ agent'[last] = a /\ \A n \in 1 .. Len(agent) : agent'[n] = o[n]
      BY <1>5, <2>1, <2>2, AppendProperties, LenProperties
    <2>4. /\ Agents = 1 .. Len(agent) /\ last \in Nat /\ last \notin Agents
      BY <1>2, AgentsAre
    <2>. QED
      BY <2>1, <2>3, <2>4
  <1>8. /\ Agents' = Agents \cup {last}
        /\ \A n \in Agents : Calm(agent[n], agent'[n]) /\ agent'[n].conv = agent[n].conv
    BY <1>2, <1>7, WithoutIsCalm, AgentsAre DEF Agents
  <1> HIDE DEF last
  <1>9. AgentsCalm
    BY <1>8 DEF AgentsCalm
  <1>10. /\ registry' \in [Seats -> Agents' \cup {NoAgent}]
         /\ \A s \in Seats : registry'[s] \in {registry[s], NoAgent, last}
    BY <1>2, <1>3, <1>7, <1>8 DEF Typed
  <1>11. /\ worker' \in [Chats -> {Idle} \cup Workers]
         /\ \A d \in Chats : d # c => worker'[d] = worker[d]
         /\ \/ worker'[c] = Idle
            \/ /\ worker'[c].pc \in {"save", "again"} /\ worker'[c].of = last
               /\ worker'[c].user = worker[c].user /\ worker'[c].cmd = worker[c].cmd
               /\ worker'[c].conv = worker[c].conv /\ worker'[c].id = worker[c].id
               /\ worker'[c].pc = "save" => worker[c].cmd # "message"
               /\ worker'[c].pc = "again" => a = Failed(new) /\ registry'[Seat(c)] = NoAgent
    <2>1. ASSUME NEW pc \in {"save", "again"},
                 worker' = [worker EXCEPT ![c].pc = pc, ![c].of = Len(agent')]
          PROVE  /\ worker' \in [Chats -> {Idle} \cup Workers]
                 /\ \A d \in Chats : d # c => worker'[d] = worker[d]
                 /\ worker'[c].pc = pc /\ worker'[c].of = last
                 /\ worker'[c].user = worker[c].user /\ worker'[c].cmd = worker[c].cmd
                 /\ worker'[c].conv = worker[c].conv /\ worker'[c].id = worker[c].id
      <3>1. PICK w : w = [[worker[c] EXCEPT !.pc = pc] EXCEPT !.of = last]
        OBVIOUS
      <3>2. /\ w \in Workers /\ w.pc = pc /\ w.of = last /\ w.user = worker[c].user
            /\ w.cmd = worker[c].cmd /\ w.conv = worker[c].conv /\ w.id = worker[c].id
        BY <1>2, <1>7, <3>1 DEF Workers
      <3>3. worker' = [worker EXCEPT ![c] = w]
        BY <1>2, <1>7, <2>1, <3>1 DEF Typed
      <3>. QED
        BY <1>2, <3>2, <3>3 DEF Typed
    <2>2. CASE Finish(c)
      BY <1>2, <2>2, Finished
    <2>3. CASE worker[c].cmd # "message"
               /\ worker' = [worker EXCEPT ![c].pc = "save", ![c].of = Len(agent')]
      BY <2>1, <2>3
    <2>4. CASE /\ a = Failed(new) /\ registry' = [registry EXCEPT ![Seat(c)] = NoAgent]
               /\ worker' = [worker EXCEPT ![c].pc = "again", ![c].of = Len(agent')]
      <3>1. registry'[Seat(c)] = NoAgent
        BY <1>2, <2>4 DEF Typed
      <3>. QED
        BY <2>1, <2>4, <3>1
    <2>. QED
      BY <1>3, <2>2, <2>3, <2>4
  <1>12. Typed'
    <2>1. Len(agent') <= MaxStarts
      BY <1>1, <1>2, <1>7, AgentsAre, ConversationsAssumption
         DEF ConversationsAssumption, last
    <2>. QED
      BY <1>1, <1>2, <1>7, <1>10, <1>11, <2>1 DEF Typed
  <1>13. WorkerOwn(worker[c], c)' /\ WorkerAt(worker[c], c)'
    <2>1. CASE worker'[c] = Idle
      BY <2>1, IdleStays
    <2>2. CASE worker'[c] # Idle
      <3>1. PICK w : w = worker[c] /\ WorkerOwn(w, c)' /\ w \in Workers /\ w.pc = "asked"
        BY <1>1, <1>2, <1>6, WorkerOwnStays
      <3>2. w.cmd = "resume" => Mine(w.user, w.id)'
        <4>1. w.cmd = "resume" => Requested(c) = w.id
          BY <3>1 DEF Requested
        <4>2. w.cmd = "resume" => Mine(w.user, w.id)
          BY <1>4, <3>1, <4>1
        <4>. QED
          BY <1>6, <4>2, MineStays
      <3>3. w.cmd # "message" => w.cmd \in {"resume", "model", "workspace"}
        BY <1>1, <3>1 DEF Workers
      <3>4. WorkerOwn(worker[c], c)'
        BY <1>11, <2>2, <3>1, <3>2, <3>3 DEF WorkerOwn, Mine, Placed
      <3>5. \A s \in Seats : worker'[c].pc = "again" => registry'[s] # last
        <4>1. \A s \in Seats : registry[s] # last
          BY <1>2, <1>7, AgentsAre DEF Typed, NoAgent, last
        <4>2. \A s \in Seats : s # Seat(c) /\ worker'[c].pc = "again" => registry'[s] = registry[s]
          BY <1>2, <1>3, <1>11, <2>2 DEF Typed, Finish, Workers
        <4>3. NoAgent # last
          BY <1>2, AgentsAre DEF NoAgent, last
        <4>. QED
          BY <1>11, <2>2, <4>1, <4>2, <4>3
      <3>6. agent'[last] = a /\ last \in Agents' /\ a.seat = <<worker'[c].user, c>>
        BY <1>5, <1>7, <1>8, <1>11, <2>2 DEF Seat
      <3>7. WorkerAt(worker[c], c)'
        BY <1>5, <1>11, <2>2, <3>5, <3>6 DEF WorkerAt
      <3>. QED
        BY <3>4, <3>7
    <2>. QED
      BY <2>1, <2>2
  <1>14. \A d \in Chats : WorkerOwn(worker[d], d)' /\ WorkerAt(worker[d], d)'
    <2>1. \A s \in Seats : registry'[s] \in Agents => registry'[s] = registry[s]
      BY <1>2, <1>7, <1>10, AgentsAre
    <2>2. \A d \in Chats : d # c => WorkerOwn(worker[d], d)' /\ WorkerAt(worker[d], d)'
      BY <1>6, <1>8, <1>9, <1>11, <2>1, OthersStay
    <2>. QED
      BY <1>13, <2>2
  <1>15. \A n \in Agents' \ Agents :
           SessionOK(agent[n])' /\ agent'[n].reader \in {"waiting", "ended"}
    <2>1. SessionOK(a)'
      BY <1>5, <1>6, SessionStays
    <2>2. ASSUME NEW n \in Agents' \ Agents
          PROVE  SessionOK(agent[n])' /\ agent'[n].reader \in {"waiting", "ended"}
      <3>1. agent'[n] = a
        BY <1>7, <1>8, <2>2
      <3>. QED
        BY <1>5, <2>1, <3>1
    <2>. QED
      BY <2>2
  <1>16. \A u \in Users : UserOK(u)'
    BY <1>1, <1>6, UserStays DEF ConvInv
  <1>17. \A u \in Users \ stray' : \A n \in Newest(u) :
              agent[n].alive /\ agent[n].reader = "done" => row'[u].conv = agent[n].conv
    BY <1>1 DEF ConvInv, RowFollowsAgent
  <1>. QED
    BY <1>1, <1>6, <1>9, <1>12, <1>14, <1>15, <1>16, <1>17, CalmStep

(* A command writes an id into the row that is in the history already, and *)
(* whom it overtakes is noted.                                             *)
LEMMA CommandSaves ==
  ASSUME ConvInv, Grows, NEW u \in Users, NEW id \in listed[u] \cup {NoId},
         row' \in [Users -> [conv : IdOrNone, setup : Setups]],
         row'[u].conv = id, \A v \in Users : v # u => row'[v] = row[v],
         StraySaved(u, id), UNCHANGED <<agent, listed>>
  PROVE  /\ stray' \subseteq Users
         /\ \A v \in Users : UserOK(v)'
         /\ \A v \in Users \ stray' : \A n \in Newest(v) :
              agent[n].alive /\ agent[n].reader = "done" => row'[v].conv = agent[n].conv
PROOF
  <1>1. stray' \in {stray, stray \cup {u}} /\ (Overtakes(u, id) => u \in stray')
    BY DEF StraySaved
  <1>2. \A v \in Users : v # u => UserOK(v)'
    BY UserStays DEF ConvInv
  <1>3. UserOK(u)'
    <2>1. Mine(u, id) /\ Placed(u, id) /\ \A i \in listed[u] : Mine(u, i)
      BY DEF ConvInv, UserOK, Mine, Placed
    <2>2. Mine(u, id)' /\ Placed(u, id)' /\ \A i \in listed[u] : Mine(u, i)'
      BY <2>1, MineStays, PlacedStays
    <2>. QED
      BY <2>2 DEF UserOK, Mine, Placed
  <1>4. ASSUME NEW v \in Users \ stray', NEW n \in Newest(v),
               agent[n].alive, agent[n].reader = "done"
        PROVE  row'[v].conv = agent[n].conv
    <2>1. CASE v = u
      BY <1>1, <1>4, <2>1 DEF Overtakes
    <2>2. CASE v # u
      BY <1>1, <1>4, <2>2 DEF ConvInv, RowFollowsAgent
    <2>. QED
      BY <2>1, <2>2
  <1>. QED
    BY <1>1, <1>2, <1>3, <1>4 DEF ConvInv, Typed

LEMMA SaveKeeps ==
  ASSUME ConvInv, NEW c \in Chats, Save(c)
  PROVE  ConvInv'
PROOF
  <1> DEFINE u == worker[c].user
  <1>1. /\ worker[c].pc = "save" /\ UNCHANGED <<made, spoken, refused, agent, registry>>
    BY DEF Save, ids
  <1>2. /\ Typed /\ worker[c] \in Workers /\ u \in Users
        /\ WorkerOwn(worker[c], c) /\ WorkerAt(worker[c], c)
        /\ \A v \in Users : UserOK(v)
    BY <1>1, WorkersAre DEF ConvInv, Workers
  <1>3. ASSUME worker' \in [Chats -> {Idle} \cup Workers],
               row' \in [Users -> [conv : IdOrNone, setup : Setups]],
               UNCHANGED <<known, listed, hidden>>, stray' \subseteq Users,
               \A d \in Chats : d # c => worker'[d] = worker[d],
               worker'[c] # Idle => WorkerOwn(worker[c], c)' /\ WorkerAt(worker[c], c)',
               \A v \in Users : UserOK(v)',
               \A v \in Users \ stray' : \A n \in Newest(v) :
                 agent[n].alive /\ agent[n].reader = "done" => row'[v].conv = agent[n].conv
        PROVE  ConvInv'
    <2>1. Typed'
      BY <1>1, <1>2, <1>3 DEF Typed, Agents
    <2>2. Grows
      BY <1>1, <1>3 DEF Grows
    <2>3. AgentsCalm /\ Agents' = Agents
      BY <1>1, <1>2, AgentsAre, KilledIsCalm DEF AgentsCalm, Agents
    <2>4. \A d \in Chats : d # c => WorkerOwn(worker[d], d)' /\ WorkerAt(worker[d], d)'
      BY <1>1, <1>3, <2>2, <2>3, OthersStay
    <2>5. WorkerOwn(worker[c], c)' /\ WorkerAt(worker[c], c)'
      BY <1>3, IdleStays
    <2>. QED
      BY <1>1, <1>3, <2>1, <2>2, <2>3, <2>4, <2>5, CalmStep
  <1>4. CASE worker[c].cmd = "resume" /\ UpdateUserSession(u, worker[c].id)
             /\ StraySaved(u, worker[c].id) /\ Goes(c, "wait")
    <2>1. /\ row' = [row EXCEPT ![u].conv = worker[c].id]
          /\ listed' = Listed(u, worker[c].id) /\ UNCHANGED <<known, hidden>>
      BY <1>4 DEF UpdateUserSession, SessionSaved
    <2>2. worker[c].id \in listed[u] \cup {NoId} /\ Mine(u, worker[c].id)
      BY <1>1, <1>2, <1>4 DEF WorkerOwn, UserOK, Mine
    <2>3. listed' = listed
      BY <1>2, <2>1, <2>2 DEF Listed, Typed
    <2>4. /\ row' \in [Users -> [conv : IdOrNone, setup : Setups]]
          /\ row'[u].conv = worker[c].id
          /\ \A v \in Users : v # u => row'[v] = row[v]
      BY <1>2, <2>1 DEF Typed, Workers
    <2>5. Grows
      BY <1>1, <2>1, <2>3 DEF Grows
    <2>6. /\ stray' \subseteq Users
          /\ \A v \in Users : UserOK(v)'
          /\ \A v \in Users \ stray' : \A n \in Newest(v) :
               agent[n].alive /\ agent[n].reader = "done" => row'[v].conv = agent[n].conv
      BY <1>1, <1>2, <1>4, <2>2, <2>3, <2>4, <2>5, CommandSaves
    <2>7. /\ worker' \in [Chats -> {Idle} \cup Workers]
          /\ worker'[c].pc = "wait" /\ worker'[c].user = u /\ worker'[c].cmd = worker[c].cmd
          /\ worker'[c].conv = worker[c].conv /\ worker'[c].id = worker[c].id
          /\ worker'[c].of = worker[c].of
          /\ \A d \in Chats : d # c => worker'[d] = worker[d]
      BY <1>1, <1>2, <1>4, GoneOn
    <2>8. WorkerOwn(worker[c], c)'
      <3>1. PICK w : w = worker[c] /\ WorkerOwn(w, c)'
        BY <1>2, <2>5, WorkerOwnStays
      <3>2. Mine(u, worker[c].id) /\ u = w.user /\ w.id = worker[c].id
        BY <2>2, <3>1
      <3>3. Mine(w.user, w.id)'
        BY <2>5, <3>2, MineStays
      <3>. QED
        BY <1>1, <2>7, <3>1, <3>3 DEF WorkerOwn, Mine, Placed
    <2>9. WorkerAt(worker[c], c)'
      BY <1>1, <1>2, <2>7 DEF WorkerAt, Agents
    <2>. QED
      BY <1>3, <2>1, <2>3, <2>4, <2>6, <2>7, <2>8, <2>9
  <1>5. CASE worker[c].cmd = "model" /\ row' = SaveSetup(c)
             /\ UNCHANGED <<known, listed, hidden, stray>> /\ Finish(c)
    <2>1. SetupFor(c) \in Setups
      BY <1>2 DEF Workers, Setups, SetupFor
    <2>2. /\ row' \in [Users -> [conv : IdOrNone, setup : Setups]]
          /\ \A v \in Users : row'[v].conv = row[v].conv
      BY <1>2, <1>5, <2>1 DEF SaveSetup, Typed
    <2>3. Grows
      BY <1>1, <1>5 DEF Grows
    <2>4. \A v \in Users : UserOK(v)'
      BY <1>2, <1>5, <2>2, <2>3, UserStays
    <2>5. \A v \in Users \ stray' : \A n \in Newest(v) :
            agent[n].alive /\ agent[n].reader = "done" => row'[v].conv = agent[n].conv
      BY <1>5, <2>2 DEF ConvInv, RowFollowsAgent
    <2>6. stray' \subseteq Users
      BY <1>2, <1>5 DEF Typed
    <2>. QED
      BY <1>2, <1>3, <1>5, <2>2, <2>4, <2>5, <2>6, Finished
  <1>6. CASE worker[c].cmd = "workspace" /\ row' = [SaveSetup(c) EXCEPT ![u].conv = NoId]
             /\ UNCHANGED <<known, listed, hidden>> /\ StraySaved(u, NoId) /\ Finish(c)
    <2>1. SetupFor(c) \in Setups
      BY <1>2 DEF Workers, Setups, SetupFor
    <2>2. /\ SaveSetup(c) \in [Users -> [conv : IdOrNone, setup : Setups]]
          /\ \A v \in Users : v # u => SaveSetup(c)[v] = row[v]
      BY <1>2, <2>1 DEF SaveSetup, Typed
    <2>3. /\ row' \in [Users -> [conv : IdOrNone, setup : Setups]]
          /\ row'[u].conv = NoId /\ \A v \in Users : v # u => row'[v] = row[v]
      BY <1>2, <1>6, <2>2 DEF IdOrNone
    <2>4. Grows
      BY <1>1, <1>6 DEF Grows
    <2>5. /\ stray' \subseteq Users
          /\ \A v \in Users : UserOK(v)'
          /\ \A v \in Users \ stray' : \A n \in Newest(v) :
               agent[n].alive /\ agent[n].reader = "done" => row'[v].conv = agent[n].conv
      BY <1>1, <1>2, <1>6, <2>3, <2>4, CommandSaves
    <2>. QED
      BY <1>2, <1>3, <1>6, <2>3, <2>5, Finished
  <1>. QED
    BY <1>4, <1>5, <1>6 DEF Save

LEMMA WipeKeeps ==
  ASSUME ConvInv, NEW c \in Chats, Wipe(c)
  PROVE  ConvInv'
PROOF
  <1> DEFINE u == worker[c].user
  <1>1. /\ worker[c].pc = "wipe" /\ Finish(c) /\ StraySaved(u, NoId)
        /\ row' = [row EXCEPT ![u].conv = NoId] /\ listed' = listed
        /\ UNCHANGED <<known, hidden, made, spoken, refused, agent, registry>>
    BY DEF Wipe, ids, UpdateUserSession, SessionSaved, Listed
  <1>2. Typed /\ worker[c] \in Workers /\ u \in Users
    BY <1>1, WorkersAre DEF ConvInv, Workers
  <1>3. /\ row' \in [Users -> [conv : IdOrNone, setup : Setups]]
        /\ row'[u].conv = NoId /\ \A v \in Users : v # u => row'[v] = row[v]
    BY <1>1, <1>2 DEF Typed, IdOrNone
  <1>4. Grows
    BY <1>1 DEF Grows
  <1>5. /\ stray' \subseteq Users
        /\ \A v \in Users : UserOK(v)'
        /\ \A v \in Users \ stray' : \A n \in Newest(v) :
             agent[n].alive /\ agent[n].reader = "done" => row'[v].conv = agent[n].conv
    BY <1>1, <1>2, <1>3, <1>4, CommandSaves
  <1>6. Typed'
    BY <1>1, <1>2, <1>3, <1>5, Finished DEF Typed, Agents
  <1>7. AgentsCalm /\ Agents' = Agents
    BY <1>1, <1>2, AgentsAre, KilledIsCalm DEF AgentsCalm, Agents
  <1>8. \A d \in Chats : WorkerOwn(worker[d], d)' /\ WorkerAt(worker[d], d)'
    <2>1. \A d \in Chats : d # c => WorkerOwn(worker[d], d)' /\ WorkerAt(worker[d], d)'
      BY <1>1, <1>2, <1>4, <1>7, Finished, OthersStay
    <2>2. WorkerOwn(worker[c], c)' /\ WorkerAt(worker[c], c)'
      BY <1>1, <1>2, Finished, IdleStays
    <2>. QED
      BY <2>1, <2>2
  <1>. QED
    BY <1>1, <1>4, <1>5, <1>6, <1>7, <1>8, CalmStep

-----------------------------------------------------------------------------
(* Steps of one session. *)

LEMMA ListStays ==
  ASSUME ConvInv, Grows, spoken' = spoken, Agents' = Agents,
         \A m \in Agents : agent[m].reader \in {"told", "looked", "cut"} =>
           agent'[m].got = agent[m].got /\ agent'[m].reader \in {"told", "looked", "cut"}
  PROVE  EveryConversationIsListed'
PROOF
  <1>1. ASSUME NEW id \in spoken
        PROVE  \/ id \in listed'[made'[id]]
               \/ \E m \in Agents : agent'[m].got = id /\ agent'[m].reader \in {"told", "looked", "cut"}
    <2>1. made'[id] = made[id] /\ made[id] \in Users
      BY IdsAre DEF ConvInv, Typed, Grows
    <2>2. listed[made[id]] \subseteq listed'[made[id]]
      BY <2>1 DEF Grows
    <2>. QED
      BY <2>1, <2>2 DEF ConvInv, EveryConversationIsListed
  <1>. QED
    BY <1>1 DEF EveryConversationIsListed

LEMMA RowStays ==
  ASSUME ConvInv, Agents' = Agents, UNCHANGED <<row, stray>>,
         \A m \in Agents : agent'[m].seat = agent[m].seat,
         \A m \in Agents : agent'[m].alive /\ agent'[m].reader = "done" =>
           agent[m].alive /\ agent[m].reader = "done" /\ agent'[m].conv = agent[m].conv
  PROVE  RowFollowsAgent'
PROOF
  <1>1. ASSUME NEW u \in Users \ stray, NEW n \in Newest(u)',
               agent'[n].alive, agent'[n].reader = "done"
        PROVE  row[u].conv = agent'[n].conv
    <2>1. n \in Agents /\ n \in Newest(u)
      BY DEF Newest, UserOf
    <2>. QED
      BY <1>1, <2>1 DEF ConvInv, RowFollowsAgent
  <1>. QED
    BY <1>1 DEF RowFollowsAgent

LEMMA OneStep ==
  ASSUME ConvInv, Typed', Grows, NEW n \in Agents, NEW b \in Sessions,
         Agents' = Agents, agent'[n] = b, \A m \in Agents : m # n => agent'[m] = agent[m],
         b.seat = agent[n].seat, SessionOK(b)', UNCHANGED registry,
         \A d \in Chats : worker'[d] \in {worker[d], Idle},
         \A d \in Chats : worker'[d] = worker[d] /\ worker[d].of = n =>
           /\ worker[d].pc # "again"
           /\ worker[d].pc \in {"save", "wait"} =>
                b.init \in {NoId, b.got} /\ (b.reader \in {"waiting", "ended"} => b.init = NoId),
         \A u \in Users : UserOK(u)',
         EveryConversationIsListed', HiddenOnlyIfRefused', RowFollowsAgent',
         \A id \in refused : id \in listed'[made[id]] => id \in listed[made[id]],
         \A id \in refused : Refuses(agent[n], id) => Refuses(b, id) \/ RefusedOK(id)',
         \A id \in refused' \ refused : RefusedOK(id)'
  PROVE  ConvInv'
PROOF
  <1>1. Typed
    BY DEF ConvInv
  <1>2. \A m \in Agents : SessionOK(agent[m])'
    <2>1. ASSUME NEW m \in Agents PROVE SessionOK(agent[m])'
      <3>1. CASE m = n
        BY <3>1
      <3>2. CASE m # n
        <4>1. PICK a : a = agent[m] /\ a = agent'[m]
          BY <3>2
        <4>2. a \in Sessions /\ SessionOK(a)
          BY <1>1, <4>1, AgentsAre DEF ConvInv
        <4>3. SessionOK(a)'
          BY <4>2, SessionStays
        <4>. QED
          BY <4>1, <4>3
      <3>. QED
        BY <3>1, <3>2
    <2>. QED
      BY <2>1
  <1>3. ASSUME NEW d \in Chats PROVE WorkerOwn(worker[d], d)' /\ WorkerAt(worker[d], d)'
    <2>1. CASE worker'[d] = Idle
      BY <2>1, IdleStays
    <2>2. CASE worker'[d] = worker[d]
      <3>1. PICK w : w = worker[d] /\ w = worker'[d]
        BY <2>2
      <3>2. WorkerOwn(w, d) /\ WorkerAt(w, d)
        BY <3>1 DEF ConvInv
      <3>3. WorkerOwn(w, d)'
        BY <3>2, WorkerOwnStays
      <3>4. WorkerAt(w, d)'
        BY <2>2, <3>1, <3>2 DEF WorkerAt
      <3>. QED
        BY <3>1, <3>3, <3>4
    <2>. QED
      BY <2>1, <2>2
  <1>4. ASSUME NEW id \in refused PROVE RefusedOK(id)'
    <2>1. CASE \A m \in Agents : Refuses(agent[m], id) => Refuses(agent'[m], id)
      BY <1>1, <2>1, RefusalStays DEF ConvInv
    <2>2. CASE Refuses(agent[n], id) /\ RefusedOK(id)'
      BY <2>2
    <2>. QED
      BY <2>1, <2>2
  <1>. QED
    BY <1>2, <1>3, <1>4 DEF ConvInv

LEMMA ReaderEndsKeeps ==
  ASSUME ConvInv, NEW n \in Agents, ReaderEnds(n)
  PROVE  ConvInv'
PROOF
  <1>1. /\ agent[n].reader = "waiting" /\ agent' = [agent EXCEPT ![n].reader = "ended"]
        /\ UNCHANGED <<row, known, listed, hidden, made, spoken, refused, registry, worker, stray>>
    BY DEF ReaderEnds, database, ids
  <1>2. Typed /\ agent \in [Agents -> Sessions] /\ agent[n] \in Sessions /\ SessionOK(agent[n])
    BY AgentsAre DEF ConvInv
  <1>3. PICK b : b = [agent[n] EXCEPT !.reader = "ended"]
    OBVIOUS
  <1>4. /\ b \in Sessions /\ b.reader = "ended" /\ b.seat = agent[n].seat /\ b.conv = agent[n].conv
        /\ b.argv = agent[n].argv /\ b.got = agent[n].got /\ b.wanted = agent[n].wanted
        /\ b.init = agent[n].init /\ b.alive = agent[n].alive
    BY <1>2, <1>3 DEF Sessions, Readers
  <1>5. /\ agent' \in [Agents -> Sessions] /\ agent'[n] = b
        /\ \A m \in Agents : m # n => agent'[m] = agent[m]
    BY <1>1, <1>2, <1>3, <1>4
  <1>6. agent' \in Seq(Sessions) /\ Len(agent') = Len(agent) /\ Agents' = Agents
    BY <1>2, <1>5, EveryAgent
  <1>7. Typed' /\ Grows
    BY <1>1, <1>2, <1>6 DEF Typed, Grows
  <1>8. SessionOK(b)'
    <2>1. SessionOK(b)
      BY <1>1, <1>2, <1>4
         DEF SessionOK, SessionOwn, SessionPlaced, SessionRead, Mine, Placed
    <2>. QED
      BY <1>4, <1>7, <2>1, SessionStays
  <1>9. \A d \in Chats : worker[d].of = n =>
           /\ worker[d].pc # "again"
           /\ worker[d].pc \in {"save", "wait"} => b.init = NoId
    BY <1>1, <1>4 DEF ConvInv, WorkerAt
  <1>10. \A u \in Users : UserOK(u)'
    BY <1>1, <1>7, UserStays DEF ConvInv
  <1>11. EveryConversationIsListed' /\ HiddenOnlyIfRefused'
    BY <1>1, <1>5, <1>6, <1>7, ListStays DEF ConvInv, HiddenOnlyIfRefused
  <1>12. RowFollowsAgent'
    BY <1>1, <1>4, <1>5, <1>6, RowStays
  <1>13. \A id : ~ Refuses(agent[n], id)
    BY <1>1 DEF Refuses
  <1>. QED
    BY <1>1, <1>4, <1>5, <1>6, <1>7, <1>8, <1>9, <1>10, <1>11, <1>12, <1>13, OneStep

(* The process of a session is started again for what it works in. *)
LEMMA RestartKeeps ==
  ASSUME ConvInv, NEW n \in Agents, Restart(n)
  PROVE  ConvInv'
PROOF
  <1>1. /\ agent[n].reader = "done" /\ agent[n].alive /\ \A c \in Chats : worker[c].of # n
        /\ agent' = [agent EXCEPT ![n].reader = "waiting", ![n].argv = agent[n].conv]
        /\ UNCHANGED <<row, known, listed, hidden, made, spoken, refused, registry, worker, stray>>
    BY DEF Restart, database, ids
  <1>2. Typed /\ agent \in [Agents -> Sessions] /\ agent[n] \in Sessions /\ SessionOK(agent[n])
    BY AgentsAre DEF ConvInv
  <1>3. PICK b : b = [[agent[n] EXCEPT !.reader = "waiting"] EXCEPT !.argv = agent[n].conv]
    OBVIOUS
  <1>4. /\ b \in Sessions /\ b.reader = "waiting" /\ b.seat = agent[n].seat
        /\ b.conv = agent[n].conv /\ b.argv = agent[n].conv /\ b.got = agent[n].got
        /\ b.wanted = agent[n].wanted /\ b.init = agent[n].init /\ b.alive = agent[n].alive
    BY <1>2, <1>3 DEF Sessions, Readers
  <1>5. /\ agent' \in [Agents -> Sessions] /\ agent'[n] = b
        /\ \A m \in Agents : m # n => agent'[m] = agent[m]
    BY <1>1, <1>2, <1>3, <1>4
  <1>6. agent' \in Seq(Sessions) /\ Len(agent') = Len(agent) /\ Agents' = Agents
    BY <1>2, <1>5, EveryAgent
  <1>7. Typed' /\ Grows
    BY <1>1, <1>2, <1>6 DEF Typed, Grows
  <1>8. SessionOK(b)'
    <2>1. SessionOK(b)
      BY <1>1, <1>2, <1>4
         DEF SessionOK, SessionOwn, SessionPlaced, SessionRead, Mine, Placed
    <2>. QED
      BY <1>4, <1>7, <2>1, SessionStays
  <1>9. \A u \in Users : UserOK(u)'
    BY <1>1, <1>7, UserStays DEF ConvInv
  <1>10. EveryConversationIsListed' /\ HiddenOnlyIfRefused'
    BY <1>1, <1>5, <1>6, <1>7, ListStays DEF ConvInv, HiddenOnlyIfRefused
  <1>11. RowFollowsAgent'
    BY <1>1, <1>4, <1>5, <1>6, RowStays
  <1>12. \A id : ~ Refuses(agent[n], id)
    BY <1>1 DEF Refuses
  <1>13. \A d \in Chats : worker'[d] = worker[d] /\ worker[d].of # n
    BY <1>1
  <1>14. UNCHANGED registry /\ refused' = refused /\ listed' = listed /\ made' = made
    BY <1>1
  <1>. QED
    BY <1>4, <1>5, <1>6, <1>7, <1>8, <1>9, <1>10, <1>11, <1>12, <1>13, <1>14, OneStep

(* A second start of a session whose process did not start: it waits for   *)
(* the init event from here, with what it had asked for.                   *)
LEMMA AgainKeeps ==
  ASSUME ConvInv, NEW c \in Chats, Again(c)
  PROVE  ConvInv'
PROOF
  <1> DEFINE n == worker[c].of
  <1>1. /\ worker[c].pc = "again" /\ Finish(c)
        /\ UNCHANGED <<row, known, listed, hidden, made, spoken, refused, registry, stray>>
    BY DEF Again, database, ids
  <1>2. CASE UNCHANGED agent
    BY <1>1, <1>2, FinishKeeps
  <1>3. CASE agent' = [agent EXCEPT ![n].alive = TRUE, ![n].reader = "waiting"]
    <2>1. /\ Typed /\ agent \in [Agents -> Sessions] /\ worker[c] \in Workers
          /\ WorkerOwn(worker[c], c) /\ WorkerAt(worker[c], c)
      BY <1>1, WorkersAre, AgentsAre DEF ConvInv
    <2>2. /\ n \in Agents /\ agent[n].seat = <<worker[c].user, c>> /\ agent[n].init = NoId
          /\ agent[n].reader = "ended" /\ agent[n].conv = agent[n].argv
          /\ agent[n] \in Sessions /\ SessionOK(agent[n])
      BY <1>1, <2>1 DEF ConvInv, WorkerAt
    <2>3. PICK b : b = [[agent[n] EXCEPT !.alive = TRUE] EXCEPT !.reader = "waiting"]
      OBVIOUS
    <2>4. /\ b \in Sessions /\ b.reader = "waiting" /\ b.alive = TRUE /\ b.seat = agent[n].seat
          /\ b.conv = agent[n].conv /\ b.argv = agent[n].argv /\ b.got = agent[n].got
          /\ b.wanted = agent[n].wanted /\ b.init = agent[n].init
      BY <2>2, <2>3 DEF Sessions, Readers
    <2>5. /\ agent' \in [Agents -> Sessions] /\ agent'[n] = b
          /\ \A m \in Agents : m # n => agent'[m] = agent[m]
      BY <1>3, <2>1, <2>2, <2>3, <2>4
    <2>6. agent' \in Seq(Sessions) /\ Len(agent') = Len(agent) /\ Agents' = Agents
      BY <2>1, <2>5, EveryAgent
    <2>7. worker' \in [Chats -> {Idle} \cup Workers] /\ worker'[c] = Idle
          /\ \A d \in Chats : d # c => worker'[d] = worker[d]
      BY <1>1, <2>1, Finished
    <2>8. Typed' /\ Grows
      BY <1>1, <2>1, <2>6, <2>7 DEF Typed, Grows
    <2>9. SessionOK(b)'
      <3>1. SessionOK(b)
        BY <2>2, <2>4 DEF SessionOK, SessionOwn, SessionPlaced, SessionRead, Mine, Placed
      <3>. QED
        BY <2>4, <2>8, <3>1, SessionStays
    <2>10. \A d \in Chats : worker'[d] = worker[d] /\ worker[d].of = n =>
             worker[d].pc \notin {"again", "save", "wait"}
      <3>1. ASSUME NEW d \in Chats, worker[d].of = n, worker[d].pc \in {"again", "save", "wait"}
            PROVE  d = c
        <4>1. agent[n].seat = <<worker[d].user, d>>
          BY <3>1 DEF ConvInv, WorkerAt
        <4>. QED
          BY <2>2, <4>1
      <3>2. worker[c].pc = "again" /\ worker'[c].pc = "idle"
        BY <1>1, <2>7, IdleIs
      <3>. QED
        BY <3>1, <3>2
    <2>11. \A u \in Users : UserOK(u)'
      BY <1>1, <2>8, UserStays DEF ConvInv
    <2>12. EveryConversationIsListed' /\ HiddenOnlyIfRefused'
      BY <1>1, <2>2, <2>5, <2>6, <2>8, ListStays DEF ConvInv, HiddenOnlyIfRefused
    <2>13. RowFollowsAgent'
      BY <1>1, <2>4, <2>5, <2>6, RowStays
    <2>14. \A id : ~ Refuses(agent[n], id)
      BY <2>2 DEF Refuses
    <2>15. \A d \in Chats : worker'[d] \in {worker[d], Idle}
      BY <2>7
    <2>16. UNCHANGED registry /\ refused' = refused /\ listed' = listed /\ made' = made
      BY <1>1
    <2> HIDE DEF n
    <2>. QED
      BY <2>2, <2>4, <2>5, <2>6, <2>8, <2>9, <2>10, <2>11, <2>12, <2>13, <2>14, <2>15, <2>16, OneStep
  <1>. QED
    BY <1>1, <1>2, <1>3 DEF Again

(* A resume takes the reported id into the session, which has it already.  *)
LEMMA WaitKeeps ==
  ASSUME ConvInv, NEW c \in Chats, Wait(c)
  PROVE  ConvInv'
PROOF
  <1> DEFINE n == worker[c].of
  <1>1. /\ worker[c].pc = "wait" /\ Finish(c)
        /\ UNCHANGED <<row, known, listed, hidden, made, spoken, refused, registry, stray>>
    BY DEF Wait, database, ids
  <1>2. CASE UNCHANGED agent
    BY <1>1, <1>2, FinishKeeps
  <1>3. CASE /\ agent[n].init # NoId
             /\ agent' = [agent EXCEPT ![n].conv = agent[n].init, ![n].init = NoId]
    <2>1. /\ Typed /\ agent \in [Agents -> Sessions] /\ worker[c] \in Workers
          /\ WorkerOwn(worker[c], c) /\ WorkerAt(worker[c], c)
      BY <1>1, WorkersAre, AgentsAre DEF ConvInv
    <2>2. /\ n \in Agents /\ agent[n].init = agent[n].got
          /\ agent[n].reader \notin {"waiting", "ended"}
          /\ agent[n] \in Sessions /\ SessionOK(agent[n])
      BY <1>1, <1>3, <2>1 DEF ConvInv, WorkerAt
    <2>3. PICK b : b = [[agent[n] EXCEPT !.conv = agent[n].init] EXCEPT !.init = NoId]
      OBVIOUS
    <2>4. /\ b \in Sessions /\ b.conv = agent[n].got /\ b.init = NoId
          /\ b.seat = agent[n].seat /\ b.reader = agent[n].reader /\ b.alive = agent[n].alive
          /\ b.argv = agent[n].argv /\ b.got = agent[n].got /\ b.wanted = agent[n].wanted
      BY <2>2, <2>3 DEF Sessions, IdOrNone
    <2>5. /\ agent' \in [Agents -> Sessions] /\ agent'[n] = b
          /\ \A m \in Agents : m # n => agent'[m] = agent[m]
      BY <1>3, <2>1, <2>2, <2>3, <2>4
    <2>6. agent' \in Seq(Sessions) /\ Len(agent') = Len(agent) /\ Agents' = Agents
      BY <2>1, <2>5, EveryAgent
    <2>7. worker' \in [Chats -> {Idle} \cup Workers] /\ worker'[c] = Idle
          /\ \A d \in Chats : d # c => worker'[d] = worker[d]
      BY <1>1, <2>1, Finished
    <2>8. Typed' /\ Grows
      BY <1>1, <2>1, <2>6, <2>7 DEF Typed, Grows
    <2>9. SessionOK(b)'
      <3>1. SessionOK(b)
        BY <2>2, <2>4 DEF SessionOK, SessionOwn, SessionPlaced, SessionRead, Mine, Placed
      <3>. QED
        BY <2>4, <2>8, <3>1, SessionStays
    <2>10. \A d \in Chats : worker'[d] = worker[d] /\ worker[d].of = n => worker[d].pc # "again"
      <3>1. ASSUME NEW d \in Chats, worker[d].of = n, worker[d].pc = "again" PROVE FALSE
        BY <2>2, <3>1 DEF ConvInv, WorkerAt
      <3>. QED
        BY <3>1
    <2>11. \A u \in Users : UserOK(u)'
      BY <1>1, <2>8, UserStays DEF ConvInv
    <2>12. EveryConversationIsListed' /\ HiddenOnlyIfRefused'
      BY <1>1, <2>4, <2>5, <2>6, <2>8, ListStays DEF ConvInv, HiddenOnlyIfRefused
    <2>13. RowFollowsAgent'
      <3>1. agent[n].reader = "done" /\ agent[n].alive => agent[n].conv = agent[n].got
        BY <2>2 DEF SessionOK, SessionRead
      <3>. QED
        BY <1>1, <2>4, <2>5, <2>6, <3>1, RowStays
    <2>14. \A id : Refuses(agent[n], id) => Refuses(b, id)
      BY <2>4 DEF Refuses
    <2>15. \A d \in Chats : worker'[d] \in {worker[d], Idle}
      BY <2>7
    <2>16. UNCHANGED registry /\ refused' = refused /\ listed' = listed /\ made' = made
      BY <1>1
    <2> HIDE DEF n
    <2>. QED
      BY <2>2, <2>4, <2>5, <2>6, <2>8, <2>9, <2>10, <2>11, <2>12, <2>13, <2>14, <2>15, <2>16, OneStep
  <1>. QED
    BY <1>1, <1>2, <1>3 DEF Wait

(* The init event: an id that is new, or the one asked for.  That one is   *)
(* refused if it is not the id reported, and this session says so.         *)
LEMMA ToldKeeps ==
  ASSUME ConvInv, NEW n \in Agents, Told(n)
  PROVE  ConvInv'
PROOF
  <1>1. PICK id \in Ids, u \in Users :
          /\ u = UserOf(n)
          /\ id = Len(made) + 1 \/ (id = agent[n].argv /\ id \in spoken)
          /\ made' = IF id > Len(made) THEN Append(made, u) ELSE made
          /\ spoken' = spoken \cup {id}
          /\ refused' = IF agent[n].argv \in {NoId, id} THEN refused ELSE refused \cup {agent[n].argv}
          /\ agent' = [agent EXCEPT ![n].reader = "told", ![n].got = id, ![n].conv = id,
                                    ![n].wanted = agent[n].conv,
                                    ![n].init = IF Awaited(n) /\ @ = NoId THEN id ELSE @]
    BY AgentsAre DEF Told, Reported, ConvInv
  <1>2. agent[n].reader = "waiting" /\ UNCHANGED <<row, known, listed, hidden, registry, worker, stray>>
    BY DEF Told, database
  <1>3. /\ Typed /\ agent \in [Agents -> Sessions] /\ agent[n] \in Sessions
        /\ SessionOK(agent[n]) /\ agent[n].seat[1] = u
    BY <1>1, AgentsAre DEF ConvInv, UserOf
  <1>4. /\ made \in Seq(Users) /\ DOMAIN made = 1 .. Len(made) /\ Len(made) \in Nat
        /\ MaxIds \in Nat /\ id \in Nat /\ id <= MaxIds /\ id >= 1 /\ NoId \notin Ids
        /\ Len(made) <= MaxIds /\ spoken \subseteq DOMAIN made
    BY <1>3, IdsAre DEF Typed, Ids
  <1>5. /\ made' \in Seq(Users) /\ Len(made') <= MaxIds
        /\ DOMAIN made \subseteq DOMAIN made' /\ \A i \in DOMAIN made : made'[i] = made[i]
        /\ id \in DOMAIN made' /\ (id \in DOMAIN made => id \in spoken /\ id = agent[n].argv)
        /\ id \notin DOMAIN made => made'[id] = u
    <2>1. CASE id = Len(made) + 1
      <3>1. id > Len(made) /\ id \notin 1 .. Len(made)
        <4>1. Len(made) \in Nat
          BY <1>4
        <4>. QED
          BY <2>1, <4>1
      <3>2. made' = Append(made, u) /\ id \notin DOMAIN made
        BY <1>1, <1>4, <3>1
      <3>. QED
        BY <1>4, <2>1, <3>2, AppendProperties, LenProperties
    <2>2. CASE id = agent[n].argv /\ id \in spoken
      <3>1. id \in 1 .. Len(made)
        BY <1>4, <2>2
      <3>2. ~ (id > Len(made))
        <4>1. Len(made) \in Nat
          BY <1>4
        <4>. QED
          BY <3>1, <4>1
      <3>3. made' = made
        BY <1>1, <3>2
      <3>. QED
        BY <1>4, <2>2, <3>1, <3>3
    <2>. QED
      BY <1>1, <2>1, <2>2
  <1>6. Grows
    BY <1>1, <1>2, <1>5 DEF Grows
  <1>7. Mine(u, id)' /\ Mine(u, agent[n].argv)
    <2>1. Mine(u, agent[n].argv)
      BY <1>3 DEF SessionOK, SessionOwn
    <2>. QED
      BY <1>5, <2>1 DEF Mine
  <1>8. PICK i : i = IF Awaited(n) /\ agent[n].init = NoId THEN id ELSE agent[n].init
    OBVIOUS
  <1>9. PICK b : b = [[[[[agent[n] EXCEPT !.reader = "told"] EXCEPT !.got = id] EXCEPT !.conv = id]
                        EXCEPT !.wanted = agent[n].conv] EXCEPT !.init = i]
    OBVIOUS
  <1>10. i \in {id, agent[n].init} /\ i \in IdOrNone /\ id \in IdOrNone
    BY <1>1, <1>3, <1>8 DEF Sessions, IdOrNone
  <1>11. /\ b \in Sessions /\ b.reader = "told" /\ b.got = id /\ b.conv = id
         /\ b.wanted = agent[n].conv /\ b.init = i /\ b.seat = agent[n].seat
         /\ b.argv = agent[n].argv /\ b.alive = agent[n].alive
    BY <1>3, <1>9, <1>10 DEF Sessions, Readers
  <1>12. /\ agent' \in [Agents -> Sessions] /\ agent'[n] = b
         /\ \A m \in Agents : m # n => agent'[m] = agent[m]
    BY <1>1, <1>3, <1>8, <1>9, <1>11
  <1>13. agent' \in Seq(Sessions) /\ Len(agent') = Len(agent) /\ Agents' = Agents
    BY <1>3, <1>12, EveryAgent
  <1>14. Typed'
    <2>1. spoken' \subseteq DOMAIN made' /\ refused' \subseteq DOMAIN made'
      BY <1>1, <1>3, <1>5, <1>7 DEF Typed, Mine
    <2>. QED
      BY <1>2, <1>3, <1>5, <1>13, <2>1 DEF Typed
  <1>15. SessionOK(b)'
    <2>1. SessionOwn(b)'
      <3>1. \A j \in {agent[n].conv, agent[n].argv, agent[n].init} : Mine(u, j)'
        BY <1>3, <1>6, MineStays DEF SessionOK, SessionOwn
      <3>2. \A j \in {b.conv, b.argv, b.got, b.wanted, b.init} : Mine(u, j)'
        BY <1>7, <1>10, <1>11, <3>1
      <3>. QED
        BY <1>2, <1>3, <1>11, <3>2 DEF SessionOK, SessionOwn
    <2>2. SessionPlaced(b)'
      <3>1. \A j \in {agent[n].argv, agent[n].init} : Mine(u, j) /\ Placed(u, j)
        BY <1>2, <1>3 DEF SessionOK, SessionOwn, SessionPlaced
      <3>2. \A j \in {agent[n].argv, agent[n].init} : Placed(u, j)'
        BY <1>6, <3>1, PlacedStays
      <3>. QED
        BY <1>1, <1>3, <1>10, <1>11, <3>2 DEF SessionPlaced
    <2>3. SessionRead(b)'
      BY <1>1, <1>2, <1>3, <1>11 DEF SessionOK, SessionRead
    <2>. QED
      BY <2>1, <2>2, <2>3 DEF SessionOK
  <1>16. \A d \in Chats : worker[d].of = n =>
           /\ worker[d].pc # "again"
           /\ worker[d].pc \in {"save", "wait"} => b.init \in {NoId, b.got}
    BY <1>2, <1>10, <1>11 DEF ConvInv, WorkerAt
  <1>17. \A v \in Users : UserOK(v)'
    BY <1>2, <1>6, UserStays DEF ConvInv
  <1>18. EveryConversationIsListed'
    <2>1. ASSUME NEW j \in spoken
          PROVE  \/ j \in listed'[made'[j]]
                 \/ \E m \in Agents' : agent'[m].got = j /\ agent'[m].reader \in {"told", "looked", "cut"}
      <3>1. made'[j] = made[j]
        BY <1>4, <1>5
      <3>2. \A m \in Agents : agent[m].reader \in {"told", "looked", "cut"} => agent'[m] = agent[m]
        BY <1>2, <1>12
      <3>. QED
        BY <1>2, <1>13, <3>1, <3>2 DEF ConvInv, EveryConversationIsListed
    <2>2. agent'[n].got = id /\ agent'[n].reader \in {"told", "looked", "cut"} /\ n \in Agents'
      BY <1>11, <1>12, <1>13
    <2>. QED
      BY <1>1, <2>1, <2>2 DEF EveryConversationIsListed
  <1>19. HiddenOnlyIfRefused'
    BY <1>2, <1>6 DEF ConvInv, HiddenOnlyIfRefused, Grows
  <1>20. RowFollowsAgent'
    BY <1>2, <1>11, <1>12, <1>13, RowStays
  <1>21. \A j : ~ Refuses(agent[n], j)
    BY <1>2 DEF Refuses
  <1>22. ASSUME NEW j \in refused' \ refused PROVE RefusedOK(j)'
    <2>1. j = agent[n].argv /\ j # NoId /\ j # id
      BY <1>1
    <2>2. j \in DOMAIN made /\ made[j] = u /\ made'[j] = u
      BY <1>5, <1>7, <2>1 DEF Mine
    <2>3. Placed(u, j)'
      BY <1>3, <1>6, <1>7, <2>1, PlacedStays DEF SessionOK, SessionPlaced
    <2>4. Refuses(b, j) /\ n \in Agents'
      BY <1>11, <1>13, <2>1 DEF Refuses
    <2>. QED
      BY <1>12, <2>2, <2>3, <2>4 DEF RefusedOK, Placed, Refuses
  <1>23. \A d \in Chats : worker'[d] = worker[d]
    BY <1>2
  <1>24. \A j \in refused : j \in listed'[made[j]] => j \in listed[made[j]]
    BY <1>2
  <1>. QED
    BY <1>2, <1>6, <1>11, <1>12, <1>13, <1>14, <1>15, <1>16, <1>17, <1>18, <1>19, <1>20, <1>21,
       <1>22, <1>23, <1>24, OneStep

(* The reader compares what it was told with what it had asked for. *)
LEMMA LookedKeeps ==
  ASSUME ConvInv, NEW n \in Agents, Looked(n)
  PROVE  ConvInv'
PROOF
  <1>1. /\ agent[n].reader = "told" /\ agent' = [agent EXCEPT ![n].reader = "looked"]
        /\ hidden' = IF Desync(n) THEN hidden \cup Orphaned(n) ELSE hidden
        /\ UNCHANGED <<row, known, listed, made, spoken, refused, registry, worker, stray>>
    BY DEF Looked, ids
  <1>2. PICK u \in Users : u = UserOf(n)
    BY AgentsAre DEF ConvInv
  <1>3. /\ Typed /\ agent \in [Agents -> Sessions] /\ agent[n] \in Sessions
        /\ SessionOK(agent[n]) /\ agent[n].seat[1] = u
    BY <1>2, AgentsAre DEF ConvInv, UserOf
  <1>4. PICK b : b = [agent[n] EXCEPT !.reader = "looked"]
    OBVIOUS
  <1>5. /\ b \in Sessions /\ b.reader = "looked" /\ b.seat = agent[n].seat
        /\ b.conv = agent[n].conv /\ b.argv = agent[n].argv /\ b.got = agent[n].got
        /\ b.wanted = agent[n].wanted /\ b.init = agent[n].init /\ b.alive = agent[n].alive
    BY <1>3, <1>4 DEF Sessions, Readers
  <1>6. /\ agent' \in [Agents -> Sessions] /\ agent'[n] = b
        /\ \A m \in Agents : m # n => agent'[m] = agent[m]
    BY <1>1, <1>3, <1>4, <1>5
  <1>7. agent' \in Seq(Sessions) /\ Len(agent') = Len(agent) /\ Agents' = Agents
    BY <1>3, <1>6, EveryAgent
  <1>8. hidden \subseteq hidden' /\ hidden' \subseteq refused
    <2>1. Desync(n) => agent[n].wanted \in refused
      BY <1>1, <1>3 DEF Desync, SessionOK, SessionRead
    <2>2. hidden \subseteq refused
      BY DEF ConvInv, HiddenOnlyIfRefused
    <2>. QED
      BY <1>1, <2>1, <2>2 DEF Orphaned
  <1>9. Grows
    BY <1>1, <1>8 DEF Grows
  <1>10. Typed'
    <2>1. hidden' \subseteq Ids
      BY <1>3, <1>8, IdsAre DEF Typed
    <2>. QED
      BY <1>1, <1>3, <1>7, <2>1 DEF Typed
  <1>11. SessionOK(b)'
    <2>1. SessionOK(b)
      BY <1>1, <1>3, <1>5 DEF SessionOK, SessionOwn, SessionPlaced, SessionRead, Mine, Placed
    <2>. QED
      BY <1>5, <1>9, <2>1, SessionStays
  <1>12. \A d \in Chats : worker[d].of = n =>
           /\ worker[d].pc # "again"
           /\ worker[d].pc \in {"save", "wait"} => b.init \in {NoId, b.got}
    BY <1>1, <1>5 DEF ConvInv, WorkerAt
  <1>13. \A v \in Users : UserOK(v)'
    BY <1>1, <1>9, UserStays DEF ConvInv
  <1>14. EveryConversationIsListed' /\ HiddenOnlyIfRefused'
    BY <1>1, <1>5, <1>6, <1>7, <1>8, <1>9, ListStays DEF HiddenOnlyIfRefused
  <1>15. RowFollowsAgent'
    BY <1>1, <1>5, <1>6, <1>7, RowStays
  <1>16. ASSUME NEW j \in refused, Refuses(agent[n], j)
         PROVE  Refuses(b, j) \/ RefusedOK(j)'
    <2>1. agent[n].argv = j /\ agent[n].got # j /\ j \in DOMAIN made /\ j # NoId
      BY <1>3, <1>16, IdsAre DEF Refuses, Typed
    <2>2. agent[n].wanted = j \/ (agent[n].wanted = NoId /\ ~ agent[n].alive)
      BY <1>1, <1>3, <2>1 DEF SessionOK, SessionRead
    <2>3. CASE agent[n].wanted = NoId /\ ~ agent[n].alive
      BY <1>5, <2>1, <2>3 DEF Refuses
    <2>4. CASE agent[n].wanted = j
      <3>1. made[j] = u
        BY <1>3, <2>1 DEF SessionOK, SessionOwn, Mine
      <3>2. j \in listed[u] => j \in hidden'
        BY <1>1, <1>2, <2>1, <2>4 DEF Desync, Owned, Orphaned
      <3>3. Placed(u, j)
        BY <3>1 DEF ConvInv, RefusedOK
      <3>. QED
        BY <1>1, <3>1, <3>2, <3>3 DEF RefusedOK, Placed
    <2>. QED
      BY <2>2, <2>3, <2>4
  <1>17. \A d \in Chats : worker'[d] = worker[d]
    BY <1>1
  <1>18. refused' = refused /\ listed' = listed /\ UNCHANGED registry
    BY <1>1
  <1>. QED
    BY <1>5, <1>6, <1>7, <1>9, <1>10, <1>11, <1>12, <1>13, <1>14, <1>15, <1>16, <1>17, <1>18, OneStep

(* The reported id goes into the row and the history of the user.          *)
LEMMA SavedKeeps ==
  ASSUME ConvInv, NEW n \in Agents, Saved(n)
  PROVE  ConvInv'
PROOF
  <1>1. PICK u \in Users, got \in IdOrNone : u = UserOf(n) /\ got = agent[n].got
    BY AgentsAre DEF ConvInv, Sessions
  <1>2. /\ Typed /\ agent \in [Agents -> Sessions] /\ agent[n] \in Sessions
        /\ SessionOK(agent[n]) /\ agent[n].seat[1] = u /\ agent[n].reader = "looked"
    BY <1>1, AgentsAre DEF ConvInv, UserOf, Saved
  <1>3. Mine(u, got) /\ got \in spoken /\ got \in DOMAIN made /\ got # NoId /\ got \in Ids /\ made[got] = u
    <2>1. Mine(u, got) /\ got \in spoken /\ got \in DOMAIN made
      BY <1>1, <1>2 DEF SessionOK, SessionOwn, SessionPlaced, Typed
    <2>. QED
      BY <1>2, <2>1, IdsAre DEF Mine
  <1>4. /\ agent' = [agent EXCEPT ![n].reader = "done"]
        /\ row' = [row EXCEPT ![u].conv = got] /\ listed' = [listed EXCEPT ![u] = @ \cup {got}]
        /\ stray' = IF n \in Newest(u) THEN stray \ {u} ELSE stray \cup {u}
        /\ UNCHANGED <<known, hidden, made, spoken, refused, registry, worker>>
    BY <1>1, <1>3 DEF Saved, UpdateUserSession, SessionSaved, Listed, ToSave, ids
  <1>5. PICK b : b = [agent[n] EXCEPT !.reader = "done"]
    OBVIOUS
  <1>6. /\ b \in Sessions /\ b.reader = "done" /\ b.seat = agent[n].seat
        /\ b.conv = agent[n].conv /\ b.argv = agent[n].argv /\ b.got = got
        /\ b.wanted = agent[n].wanted /\ b.init = agent[n].init /\ b.alive = agent[n].alive
    BY <1>1, <1>2, <1>5 DEF Sessions, Readers
  <1>7. /\ agent' \in [Agents -> Sessions] /\ agent'[n] = b
        /\ \A m \in Agents : m # n => agent'[m] = agent[m]
    BY <1>2, <1>4, <1>5, <1>6
  <1>8. agent' \in Seq(Sessions) /\ Len(agent') = Len(agent) /\ Agents' = Agents
    BY <1>2, <1>7, EveryAgent
  <1>9. /\ row' \in [Users -> [conv : IdOrNone, setup : Setups]] /\ row'[u].conv = got
        /\ \A v \in Users : v # u => row'[v] = row[v]
    BY <1>2, <1>3, <1>4 DEF Typed, IdOrNone
  <1>10. /\ listed' \in [Users -> SUBSET Ids] /\ listed'[u] = listed[u] \cup {got}
         /\ \A v \in Users : v # u => listed'[v] = listed[v]
    BY <1>2, <1>3, <1>4 DEF Typed
  <1>11. Grows
    BY <1>4, <1>10 DEF Grows
  <1>12. Typed'
    <2>1. stray' \subseteq Users
      BY <1>2, <1>4 DEF Typed
    <2>. QED
      BY <1>2, <1>4, <1>8, <1>9, <1>10, <2>1 DEF Typed
  <1>13. SessionOK(b)'
    <2>1. SessionOwn(b)'
      <3>1. SessionOwn(agent[n])
        BY <1>2 DEF SessionOK
      <3>. QED
        BY <1>1, <1>4, <1>6, <3>1 DEF SessionOwn, Mine
    <2>2. SessionPlaced(b)'
      <3>1. /\ Placed(u, agent[n].argv)
            /\ \A j \in {agent[n].conv, agent[n].init} : Placed(u, j) \/ j = got
        BY <1>1, <1>2 DEF SessionOK, SessionPlaced
      <3>2. \A j : Placed(u, j) \/ j = got => Placed(u, j)'
        BY <1>4, <1>10 DEF Placed
      <3>. QED
        BY <1>2, <1>6, <3>1, <3>2 DEF SessionPlaced
    <2>3. SessionRead(b)'
      BY <1>1, <1>2, <1>6 DEF SessionOK, SessionRead
    <2>. QED
      BY <2>1, <2>2, <2>3 DEF SessionOK
  <1>14. \A d \in Chats : worker[d].of = n =>
           /\ worker[d].pc # "again"
           /\ worker[d].pc \in {"save", "wait"} => b.init \in {NoId, b.got}
    BY <1>1, <1>2, <1>6 DEF ConvInv, WorkerAt
  <1>15. \A v \in Users : UserOK(v)'
    <2>1. ASSUME NEW v \in Users, v # u PROVE UserOK(v)'
      BY <1>9, <1>10, <1>11, <2>1, UserStays DEF ConvInv
    <2>2. UserOK(u)'
      <3>1. \A j \in listed'[u] : Mine(u, j)
        BY <1>3, <1>10 DEF ConvInv, UserOK
      <3>. QED
        BY <1>3, <1>4, <1>9, <1>10, <3>1 DEF UserOK, Mine, Placed
    <2>. QED
      BY <2>1, <2>2
  <1>16. EveryConversationIsListed'
    <2>1. ASSUME NEW j \in spoken
          PROVE  \/ j \in listed'[made[j]]
                 \/ \E m \in Agents : agent'[m].got = j /\ agent'[m].reader \in {"told", "looked", "cut"}
      <3>1. CASE j = got
        BY <1>3, <1>10, <3>1
      <3>2. CASE j # got
        <4>1. made[j] \in Users
          BY <1>2, IdsAre DEF Typed
        <4>2. listed[made[j]] \subseteq listed'[made[j]]
          BY <1>11, <4>1 DEF Grows
        <4>3. \A m \in Agents : agent[m].got = j => agent'[m] = agent[m]
          BY <1>1, <1>7, <3>2
        <4>. QED
          BY <4>2, <4>3 DEF ConvInv, EveryConversationIsListed
      <3>. QED
        BY <3>1, <3>2
    <2>. QED
      BY <1>4, <1>8, <2>1 DEF EveryConversationIsListed
  <1>17. HiddenOnlyIfRefused'
    BY <1>4 DEF ConvInv, HiddenOnlyIfRefused
  <1>18. RowFollowsAgent'
    <2>1. ASSUME NEW v \in Users \ stray', NEW m \in Newest(v)',
                 agent'[m].alive, agent'[m].reader = "done"
          PROVE  row'[v].conv = agent'[m].conv
      <3>1. m \in Agents /\ m \in Newest(v)
        BY <1>6, <1>7, <1>8 DEF Newest, UserOf
      <3>2. CASE v = u
        <4>1. n \in Newest(u)
          BY <1>4, <2>1, <3>2
        <4>2. UserOf(m) = u /\ UserOf(n) = u /\ m <= n /\ n <= m
          BY <3>1, <3>2, <4>1 DEF Newest
        <4>3. m \in Nat /\ n \in Nat
          BY <1>2, <3>1, AgentsAre
        <4>4. m = n
          BY <4>2, <4>3
        <4>. QED
          BY <1>1, <1>2, <1>6, <1>7, <1>9, <2>1, <3>2, <4>4 DEF SessionOK, SessionRead
      <3>3. CASE v # u
        <4>1. m # n
          BY <1>1, <3>1, <3>3 DEF Newest
        <4>2. v \notin stray /\ row'[v] = row[v] /\ agent'[m] = agent[m]
          BY <1>4, <1>7, <1>9, <2>1, <3>1, <3>3, <4>1
        <4>. QED
          BY <2>1, <3>1, <4>2 DEF ConvInv, RowFollowsAgent
      <3>. QED
        BY <3>2, <3>3
    <2>. QED
      BY <2>1 DEF RowFollowsAgent
  <1>19. ASSUME NEW j \in refused, j \in listed'[made[j]] PROVE j \in listed[made[j]]
    <2>1. Placed(made[j], j) /\ made[j] \in Users /\ j # NoId
      BY <1>2, IdsAre DEF ConvInv, RefusedOK, Typed
    <2>. QED
      BY <1>3, <1>10, <1>19, <2>1 DEF Placed
  <1>20. \A j : Refuses(agent[n], j) => Refuses(b, j)
    BY <1>1, <1>2, <1>6 DEF Refuses
  <1>21. \A d \in Chats : worker'[d] = worker[d]
    BY <1>4
  <1>22. refused' = refused /\ made' = made /\ UNCHANGED registry
    BY <1>4
  <1>. QED
    BY <1>6, <1>7, <1>8, <1>11, <1>12, <1>13, <1>14, <1>15, <1>16, <1>17, <1>18, <1>19, <1>20,
       <1>21, <1>22, OneStep

-----------------------------------------------------------------------------
(* A crash of the bot. *)

(* What a crash leaves of a session. *)
Cut(a, b) ==
  /\ b.seat = a.seat /\ b.conv = a.conv /\ b.argv = a.argv /\ b.got = a.got
  /\ b.wanted = a.wanted /\ b.init = a.init /\ ~ b.alive
  /\ b.reader = CASE a.reader \in {"told", "looked"} -> "cut"
                  [] a.reader = "waiting" -> "ended" [] OTHER -> a.reader

LEMMA CutSession ==
  ASSUME NEW a \in Sessions, NEW b, SessionOK(a), Cut(a, b)
  PROVE  SessionOK(b)
PROOF
  <1>1. /\ b.reader = "cut" => a.reader \in {"told", "looked", "cut"}
        /\ b.reader = "ended" => a.reader \in {"waiting", "ended"}
        /\ b.reader \notin {"told", "looked", "waiting"}
        /\ a.reader \in {"told", "looked", "cut"} => b.reader = "cut"
    BY DEF Cut, Sessions, Readers
  <1>2. SessionOwn(b)
    BY DEF SessionOK, SessionOwn, Cut, Mine
  <1>3. SessionPlaced(b)
    BY <1>1 DEF SessionOK, SessionPlaced, Cut, Placed
  <1>4. SessionRead(b)
    BY <1>1 DEF SessionOK, SessionRead, Cut
  <1>. QED
    BY <1>2, <1>3, <1>4 DEF SessionOK

LEMMA CrashKeeps ==
  ASSUME ConvInv, Crash
  PROVE  ConvInv'
PROOF
  <1>1. /\ agent' = [n \in Agents |-> [Killed(agent[n]) EXCEPT
              !.reader = CASE @ \in {"told", "looked"} -> "cut" [] @ = "waiting" -> "ended" [] OTHER -> @]]
        /\ registry' = [s \in Seats |-> NoAgent] /\ worker' = [c \in Chats |-> Idle]
        /\ UNCHANGED <<row, known, listed, hidden, made, spoken, refused, stray>>
    BY DEF Crash, database, ids
  <1>2. Typed /\ agent \in [Agents -> Sessions] /\ \A n \in Agents : SessionOK(agent[n])
    BY AgentsAre DEF ConvInv
  <1>3. ASSUME NEW n \in Agents PROVE agent'[n] \in Sessions /\ Cut(agent[n], agent'[n])
    <2>1. PICK a \in Sessions : a = agent[n]
      BY <1>2
    <2>2. PICK r : r = CASE a.reader \in {"told", "looked"} -> "cut"
                         [] a.reader = "waiting" -> "ended" [] OTHER -> a.reader
      OBVIOUS
    <2>3. r \in Readers
      BY <2>2 DEF Sessions, Readers
    <2>4. Killed(a) \in Sessions /\ Killed(a).reader = a.reader
      BY DEF Killed, Sessions
    <2>5. agent'[n] = [Killed(a) EXCEPT !.reader = r]
      BY <1>1, <2>1, <2>2, <2>4
    <2>6. agent'[n] \in Sessions /\ agent'[n].reader = r
      BY <2>3, <2>4, <2>5 DEF Sessions
    <2>7. agent'[n] = [[a EXCEPT !.alive = FALSE] EXCEPT !.reader = r]
      BY <2>5 DEF Killed
    <2>8. /\ agent'[n].seat = a.seat /\ agent'[n].conv = a.conv /\ agent'[n].argv = a.argv
          /\ agent'[n].got = a.got /\ agent'[n].wanted = a.wanted /\ agent'[n].init = a.init
          /\ ~ agent'[n].alive
      BY <2>7 DEF Sessions
    <2>. QED
      BY <2>1, <2>2, <2>6, <2>8 DEF Cut
  <1>4. agent' \in [Agents -> Sessions]
    BY <1>1, <1>3
  <1>5. agent' \in Seq(Sessions) /\ Len(agent') = Len(agent) /\ Agents' = Agents
    BY <1>2, <1>4, EveryAgent
  <1>6. Grows
    BY <1>1 DEF Grows
  <1>7. Typed'
    BY <1>1, <1>2, <1>5 DEF Typed
  <1>8. \A n \in Agents' : SessionOK(agent[n])'
    <2>1. ASSUME NEW n \in Agents PROVE SessionOK(agent[n])'
      <3>1. PICK b \in Sessions : b = agent'[n]
        BY <1>3
      <3>2. agent[n] \in Sessions /\ SessionOK(b)
        BY <1>2, <1>3, <3>1, CutSession
      <3>3. SessionOK(b)'
        BY <1>6, <3>2, SessionStays
      <3>. QED
        BY <3>1, <3>3
    <2>. QED
      BY <1>5, <2>1
  <1>9. \A c \in Chats : WorkerOwn(worker[c], c)' /\ WorkerAt(worker[c], c)'
    <2>1. \A c \in Chats : worker'[c] = Idle
      BY <1>1
    <2>. QED
      BY <2>1, IdleStays
  <1>10. \A u \in Users : UserOK(u)'
    BY <1>1, <1>6, UserStays DEF ConvInv
  <1>11. EveryConversationIsListed'
    <2>1. ASSUME NEW n \in Agents, agent[n].reader \in {"told", "looked", "cut"}
          PROVE  agent'[n].got = agent[n].got /\ agent'[n].reader = "cut"
      BY <1>3, <2>1 DEF Cut
    <2>. QED
      BY <1>1, <1>5, <1>6, <2>1, ListStays
  <1>12. HiddenOnlyIfRefused'
    BY <1>1 DEF ConvInv, HiddenOnlyIfRefused
  <1>13. \A id \in refused' : RefusedOK(id)'
    <2>1. ASSUME NEW id \in refused PROVE RefusedOK(id)'
      <3>1. \A n \in Agents : Refuses(agent[n], id) => n \in Agents' /\ Refuses(agent'[n], id)
        BY <1>3, <1>5 DEF Refuses, Cut
      <3>. QED
        BY <1>1, <1>2, <1>6, <3>1, RefusalStays DEF ConvInv
    <2>. QED
      BY <1>1, <2>1
  <1>14. RowFollowsAgent'
    BY <1>1, <1>3, <1>5, RowStays DEF Cut
  <1>. QED
    BY <1>7, <1>8, <1>9, <1>10, <1>11, <1>12, <1>13, <1>14 DEF ConvInv

-----------------------------------------------------------------------------
(* The invariant holds of every behaviour. *)

LEMMA InitInv == Init => ConvInv
PROOF
  <1> SUFFICES ASSUME Init PROVE ConvInv
    OBVIOUS
  <1>1. /\ made = Before /\ spoken = DOMAIN Before /\ known = {u \in Users : Earlier(u) # {}}
        /\ listed = [u \in Users |-> Earlier(u)]
        /\ row \in [Users -> [conv : DOMAIN Before \cup {NoId}, setup : {0}]]
        /\ \A u \in Users : row[u].conv \in Earlier(u) \/ (Earlier(u) = {} /\ row[u].conv = NoId)
        /\ hidden = {} /\ refused = {} /\ agent = <<>> /\ registry = [s \in Seats |-> NoAgent]
        /\ worker = [c \in Chats |-> Idle] /\ stray = {}
    BY DEF Init
  <1>2. /\ Before \in Seq(Users) /\ Len(Before) <= MaxIds /\ MaxIds \in Nat /\ MaxStarts \in Nat
        /\ DOMAIN Before = 1 .. Len(Before) /\ Len(Before) \in Nat
        /\ \A i \in DOMAIN Before : Before[i] \in Users /\ i # NoId /\ i \in Ids
    <2>1. Before \in Seq(Users) /\ Len(Before) <= MaxIds /\ MaxIds \in Nat /\ MaxStarts \in Nat
      BY ConversationsAssumption DEF ConversationsAssumption
    <2>2. DOMAIN Before = 1 .. Len(Before) /\ Len(Before) \in Nat
      BY <2>1, LenProperties
    <2>. QED
      BY <2>1, <2>2, ElementOfSeq DEF Ids, NoId
  <1>3. agent \in Seq(Sessions) /\ Len(agent) = 0 /\ Agents = {}
    BY <1>1, EmptySeq DEF Agents
  <1>4. \A u \in Users : Earlier(u) \subseteq DOMAIN Before /\ \A i \in Earlier(u) : Before[i] = u
    BY DEF Earlier
  <1>5. Typed
    <2>1. row \in [Users -> [conv : IdOrNone, setup : Setups]]
      BY <1>1, <1>2 DEF IdOrNone, Setups
    <2>2. listed \in [Users -> SUBSET Ids]
      BY <1>1, <1>2, <1>4
    <2>. QED
      BY <1>1, <1>2, <1>3, <2>1, <2>2 DEF Typed
  <1>6. \A c \in Chats : WorkerOwn(worker[c], c) /\ WorkerAt(worker[c], c)
    BY <1>1, IdleIs
  <1>7. \A u \in Users : UserOK(u)
    BY <1>1, <1>4 DEF UserOK, Mine, Placed
  <1>8. EveryConversationIsListed
    <2>1. \A i \in spoken : i \in listed[made[i]]
      BY <1>1, <1>2 DEF Earlier
    <2>. QED
      BY <2>1 DEF EveryConversationIsListed
  <1>9. HiddenOnlyIfRefused /\ \A id \in refused : RefusedOK(id)
    BY <1>1 DEF HiddenOnlyIfRefused
  <1>10. RowFollowsAgent
    BY <1>3 DEF RowFollowsAgent, Newest
  <1>. QED
    BY <1>3, <1>5, <1>6, <1>7, <1>8, <1>9, <1>10 DEF ConvInv

LEMMA StutterKeeps ==
  ASSUME ConvInv, UNCHANGED vars
  PROVE  ConvInv'
PROOF
  <1>1. UNCHANGED <<row, known, listed, hidden, made, spoken, agent, registry, worker, refused, stray>>
    BY DEF vars, database, ids
  <1>2. Grows /\ AgentsCalm /\ Typed /\ Typed' /\ Agents' = Agents
    <2>1. Grows
      BY <1>1 DEF Grows
    <2>2. Typed /\ Typed' /\ Agents' = Agents
      BY <1>1 DEF ConvInv, Typed, Agents
    <2>. QED
      BY <1>1, <2>1, <2>2, AgentsAre, KilledIsCalm DEF AgentsCalm
  <1>3. \A d \in Chats : WorkerOwn(worker[d], d)' /\ WorkerAt(worker[d], d)'
    BY <1>1, <1>2, OthersStay
  <1>4. \A u \in Users : UserOK(u)'
    BY <1>1, <1>2, UserStays DEF ConvInv
  <1>5. \A u \in Users \ stray' : \A n \in Newest(u) :
           agent[n].alive /\ agent[n].reader = "done" => row'[u].conv = agent[n].conv
    BY <1>1 DEF ConvInv, RowFollowsAgent
  <1>. QED
    BY <1>1, <1>2, <1>3, <1>4, <1>5, CalmStep

LEMMA NextKeeps ==
  ASSUME ConvInv, [Next]_vars
  PROVE  ConvInv'
PROOF
  <1>1. ASSUME NEW c \in Chats, WorkerStep(c) PROVE ConvInv'
    <2>1. CASE HandleUpdate(c) \/ Clear(c) \/ Wipe(c)
      BY <2>1, HandleUpdateKeeps, ClearKeeps, WipeKeeps
    <2>2. CASE Deny(c) \/ Reuse(c)
      BY <2>2, FinishKeeps DEF Deny, Reuse, database, ids
    <2>3. CASE Acquire(c) \/ Again(c)
      BY <2>3, AcquireKeeps, AgainKeeps
    <2>4. CASE Save(c) \/ Wait(c)
      BY <2>4, SaveKeeps, WaitKeeps
    <2>. QED
      BY <1>1, <2>1, <2>2, <2>3, <2>4 DEF WorkerStep
  <1>2. ASSUME NEW n \in Agents, ReaderStep(n) PROVE ConvInv'
    BY <1>2, ToldKeeps, LookedKeeps, SavedKeeps, ReaderEndsKeeps DEF ReaderStep
  <1>3. CASE UNCHANGED vars
    BY <1>3, StutterKeeps
  <1>. QED
    BY <1>1, <1>2, <1>3, ResetChatKeeps, RestartKeeps, EvictKeeps, CrashKeeps DEF Next

LEMMA AlwaysConvInv == Spec => []ConvInv
PROOF
  BY InitInv, NextKeeps, PTL DEF Spec

-----------------------------------------------------------------------------
(* The properties. *)

(* Every variable keeps its type: the row, the history, the sessions and   *)
(* the registry that handlers.go and session.go write hold ids, and the    *)
(* registry only sessions there are.                                       *)
THEOREM TypeCorrect == Spec => []TypeOK
PROOF
  <1>1. ASSUME ConvInv PROVE TypeOK
    <2>1. Typed
      BY <1>1 DEF ConvInv
    <2>2. /\ spoken \subseteq Ids /\ refused \subseteq Ids
      BY <2>1, IdsAre DEF Typed
    <2>3. \A n \in Agents :
            /\ agent[n].seat \in Seats /\ agent[n].reader \in {"waiting", "told", "looked", "done", "ended", "cut"}
            /\ {agent[n].conv, agent[n].argv, agent[n].got, agent[n].wanted, agent[n].init} \subseteq Ids \cup {NoId}
      BY <2>1, AgentsAre DEF Sessions, Readers, IdOrNone
    <2>4. \A c \in Chats : worker[c].pc \in {"idle", "asked", "again", "save", "wait", "wipe"}
      BY <2>1, WorkersAre, IdleIs DEF Workers
    <2>. QED
      BY <2>1, <2>2, <2>3, <2>4 DEF TypeOK, Typed, IdOrNone
  <1>. QED
    BY <1>1, AlwaysConvInv, PTL

(* A user's row, history and agents never hold a conversation that was     *)
(* begun for someone else: isSessionOwnedByUser keeps out the buttons of   *)
(* others (handlers.go:1246), however the readers, the commands and the    *)
(* restarts interleave.                                                    *)
THEOREM OnlyOwnConversations == Spec => []ConversationsArePrivate
PROOF
  <1>1. ASSUME ConvInv PROVE ConversationsArePrivate
    <2>1. \A n \in Agents : agent[n].conv = NoId \/ made[agent[n].conv] = UserOf(n)
      BY <1>1 DEF ConvInv, SessionOK, SessionOwn, Mine, UserOf
    <2>2. \A u \in Users : \A id \in listed[u] : id # NoId
      BY <1>1, IdsAre DEF ConvInv, Typed
    <2>3. \A u \in Users : \A id \in listed[u] \cup ({row[u].conv} \ {NoId}) : made[id] = u
      BY <1>1, <2>2 DEF ConvInv, UserOK, Mine
    <2>. QED
      BY <2>1, <2>3 DEF ConversationsArePrivate
  <1>. QED
    BY <1>1, AlwaysConvInv, PTL

(* What agy has reported is in its user's history unless the reader is     *)
(* still at it or the bot died over it (session.go:1269).                  *)
THEOREM NoneOutOfSight == Spec => []EveryConversationIsListed
PROOF
  <1>1. ConvInv => EveryConversationIsListed
    BY DEF ConvInv
  <1>. QED
    BY <1>1, AlwaysConvInv, PTL

(* The reader hides only a conversation that agy did not continue when it  *)
(* was asked to: what it compares is a field that other goroutines write,  *)
(* but they can only have made it forget (session.go:1225).                *)
THEOREM HiddenOnlyWhenRefused == Spec => []HiddenOnlyIfRefused
PROOF
  <1>1. ConvInv => HiddenOnlyIfRefused
    BY DEF ConvInv
  <1>. QED
    BY <1>1, AlwaysConvInv, PTL

(* A conversation that agy did not continue is hidden once its reader has  *)
(* looked, unless the session was reset and had forgotten what it asked    *)
(* for, or the bot died over it (session.go:1238).                         *)
THEOREM LostIsHidden == Spec => []LostContextIsHidden
PROOF
  <1>1. ConvInv => LostContextIsHidden
    BY DEF ConvInv, RefusedOK, Refuses, LostContextIsHidden
  <1>. QED
    BY <1>1, AlwaysConvInv, PTL

(* The row follows the agent started last, unless another save has         *)
(* overtaken that agent's (session.go:1269).                               *)
THEOREM RowFollows == Spec => []RowFollowsAgent
PROOF
  <1>1. ConvInv => RowFollowsAgent
    BY DEF ConvInv
  <1>. QED
    BY <1>1, AlwaysConvInv, PTL
=============================================================================
