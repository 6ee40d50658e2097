--------------------------- MODULE TurnText_proofs ---------------------------
(***************************************************************************)
(* Proofs about the texts of TurnOutput, on top of TurnOutput_proofs: an   *)
(* answer is the whole text of its turn, or says that it is not.           *)
(*                                                                         *)
(* A step leaves the processes as they are, ends those of a session, or    *)
(* starts one where none runs (ProcStep); so at most one runs, in the      *)
(* registered session (Procs).  What it has read of its turn is then the   *)
(* whole buffer (Buffered), unless something was left out, the turn was    *)
(* cut off, or the reader of an earlier process of the session lingers,    *)
(* whose turns are known to be spoilt (CutInv, LingerInv).  The response   *)
(* taken from the transcript is the one to this turn if it begins with     *)
(* what the turn has in the buffer (BegunIsWhole).                         *)
(***************************************************************************)
EXTENDS TurnOutput_proofs

Live(r) == reader[r].pc # "none" /\ ~ reader[r].killed
Elems(seq) == {seq[i] : i \in DOMAIN seq}
PromptSet(r) == Elems(reader[r].prompts)
Bad == cut \cup haunted
Excused == Bad \cup guessed

(* At most one process runs, that of the registered session, which alone   *)
(* may be alive.                                                           *)
Procs ==
  /\ \A r \in Starts : Live(r) => reader[r].of = Registered /\ session[Registered].alive
  /\ \A r, q \in Starts : Live(r) /\ Live(q) => r = q
  /\ \A s \in Sessions : session[s].alive => s = Registered

(* A reader between two turns has read nothing of the next.  An error is   *)
(* reported by a reader whose process was told to end, and /stop is        *)
(* handled by the worker.                                                  *)
Counts ==
  \A r \in Starts :
    /\ reader[r].prompts = <<>> \/ reader[r].pc \in {"send", "clean", "fail", "report"} =>
         reader[r].at = 0
    /\ reader[r].pc = "report" => reader[r].killed
StopWaits == taker["stop"].pc \in {"take", "kill", "send"} => worker.pc = "stop"

(* What a step does to the processes. *)
SameSlots(q) ==
  /\ reader'[q].of = reader[q].of
  /\ reader'[q].pc = "none" <=> reader[q].pc = "none"
  /\ reader[q].pc = "ended" => reader'[q].pc = "ended"

ProcSame ==
  /\ Sessions' = Sessions /\ Registered' = Registered
  /\ \A q \in Starts : SameSlots(q) /\ reader'[q].killed = reader[q].killed
  /\ \A s \in Sessions : session'[s].alive = session[s].alive

ProcKilled(s) ==
  /\ Sessions' = Sessions /\ Registered' = Registered
  /\ \A q \in Starts : SameSlots(q) /\ Told(q, s)
  /\ session'[s].alive = FALSE
  /\ \A o \in Sessions : o # s => session'[o].alive = session[o].alive
  /\ cut' = cut \cup Asked(s)

ProcStarted(n) ==
  /\ BeginDoes \/ LookDoes \/ WriteDoes
  /\ ~ session[Registered].alive
  /\ Sessions' = Sessions \cup {Registered'}
  /\ Registered' = Registered \/ Registered' \notin Sessions
  /\ Started(n, Registered')
  /\ \A q \in Starts : q # n => SameSlots(q) /\ reader'[q].killed = reader[q].killed
  /\ session'[Registered'].alive = TRUE /\ session'[Registered'].buffer = <<>>
  /\ session'[Registered'].active = NoMessage
  /\ \A s \in Sessions : s # Registered' => session'[s].alive = session[s].alive

LEMMA SlotsIf ==
  ASSUME NEW r \in Starts, NEW y \in Readers, ReaderMoves(r, y), SameProcess(reader[r], y),
         y.pc # "none", reader[r].pc \notin {"none", "ended"}
  PROVE  \A q \in Starts : SameSlots(q) /\ reader'[q].killed = reader[q].killed
PROOF
  BY DEF ReaderMoves, SameProcess, SameSlots

LEMMA ProcSameIf ==
  ASSUME UNCHANGED <<session, reader>>
  PROVE  ProcSame
PROOF
  BY DEF ProcSame, SameSlots, Sessions, Registered

LEMMA ProcSameMoves ==
  ASSUME NEW r \in Starts, NEW y \in Readers, ReaderMoves(r, y), SameProcess(reader[r], y),
         y.pc # "none", reader[r].pc \notin {"none", "ended"},
         \/ UNCHANGED session
         \/ \E s \in Sessions, x \in Objects : SessionMoves(s, x) /\ x.alive = session[s].alive
  PROVE  ProcSame
PROOF
  <1>1. \A q \in Starts : SameSlots(q) /\ reader'[q].killed = reader[q].killed
    BY SlotsIf
  <1>2. Sessions' = Sessions /\ Registered' = Registered
    BY DEF SessionMoves, Sessions, Registered
  <1>3. \A s \in Sessions : session'[s].alive = session[s].alive
    BY DEF SessionMoves
  <1>. QED
    BY <1>1, <1>2, <1>3 DEF ProcSame

(* A dead session has no process. *)
LEMMA DeadIsStill ==
  ASSUME Base, Procs, NEW s \in Sessions, ~ session[s].alive
  PROVE  Running(s) = {} /\ \A r \in Starts : Live(r) => reader[r].of # s
PROOF
  BY DEF Procs, Running, Live

LEMMA ProcStep ==
  ASSUME Base, Procs, Step
  PROVE  ProcSame \/ (\E s \in Sessions : ProcKilled(s)) \/ (\E n \in Starts : ProcStarted(n))
PROOF
  <1> DEFINE Goal == ProcSame \/ (\E s \in Sessions : ProcKilled(s)) \/ (\E n \in Starts : ProcStarted(n))
  <1>a. Registered \in Sessions
    BY SessionsAre DEF Base
  <1>1. ASSUME NEW r \in Starts, NEW y \in Readers, NEW x \in Objects,
               DeltaDoes(r, y, x) \/ ResultDoes(r, y, x) \/ CleanDoes(r, y, x) \/ ReaderEndsDoes(r, y, x)
        PROVE  Goal
    <2>1. /\ ReaderMoves(r, y) /\ SameProcess(reader[r], y) /\ y.pc # "none"
          /\ reader[r].pc \notin {"none", "ended"}
          /\ SessionMoves(reader[r].of, x) /\ x.alive = session[reader[r].of].alive
      BY <1>1 DEF DeltaDoes, ResultDoes, CleanDoes, ReaderEndsDoes
    <2>2. reader[r].of \in Sessions
      BY <2>1, ReaderIs
    <2>. QED
      BY <2>1, <2>2, ProcSameMoves
  <1>2. ASSUME NEW r \in Starts, NEW y \in Readers,
               (\E m \in Messages : SendAnswerDoes(r, y, m)) \/ ErrorDoes(r, y) \/ SendErrorDoes(r, y)
        PROVE  Goal
    <2>1. /\ ReaderMoves(r, y) /\ SameProcess(reader[r], y) /\ y.pc # "none"
          /\ reader[r].pc \notin {"none", "ended"} /\ UNCHANGED session
      BY <1>2 DEF SendAnswerDoes, ErrorDoes, SendErrorDoes
    <2>. QED
      BY <2>1, ProcSameMoves
  <1>3. ASSUME NEW r \in Starts, NEW x \in Objects, FailDoes(r, x)
        PROVE  Goal
    <2>1. PICK s : s = reader[r].of
      OBVIOUS
    <2>2. /\ s \in Sessions /\ reader[r].pc = "fail" /\ SessionMoves(s, x) /\ x.alive = FALSE
          /\ cut' = cut \cup Asked(s)
          /\ \A q \in Starts : Told(q, s)
          /\ \A q \in Starts : q # r => reader'[q].pc = reader[q].pc
          /\ reader'[r].pc = "report"
      BY <1>3, <2>1, ReaderIs DEF FailDoes
    <2>3. \A q \in Starts : SameSlots(q) /\ Told(q, s)
      BY <2>2 DEF SameSlots, Told
    <2>4. ProcKilled(s)
      BY <2>2, <2>3 DEF ProcKilled, SessionMoves, Registered
    <2>. QED
      BY <2>2, <2>4
  <1>4. ASSUME NEW k \in Takers, NEW z \in Takes, NEW x \in Objects, KillTakenDoes(k, z, x)
        PROVE  Goal
    <2>1. PICK s : s = taker[k].of
      OBVIOUS
    <2>2. /\ s \in Sessions /\ SessionMoves(s, x) /\ x.alive = FALSE
          /\ cut' = cut \cup Asked(s)
          /\ \A q \in Starts : Told(q, s) /\ reader'[q].pc = reader[q].pc
      BY <1>4, <2>1, TakerIs DEF KillTakenDoes
    <2>3. \A q \in Starts : SameSlots(q) /\ Told(q, s)
      BY <2>2 DEF SameSlots, Told
    <2>4. ProcKilled(s)
      BY <2>2, <2>3 DEF ProcKilled, SessionMoves, Registered
    <2>. QED
      BY <2>2, <2>4
  <1>5. ASSUME NEW k \in Takers, NEW z \in Takes, NEW x \in Objects, TakeDoes(k, z, x)
        PROVE  Goal
    <2>1. /\ taker[k].of \in Sessions /\ SessionMoves(taker[k].of, x)
          /\ x.alive = session[taker[k].of].alive /\ UNCHANGED reader
      BY <1>5, TakerIs DEF TakeDoes
    <2>2. ProcSame
      BY <2>1 DEF ProcSame, SameSlots, SessionMoves, Registered
    <2>. QED
      BY <2>2
  <1>6. CASE BeginDoes
    <2>1. CASE UNCHANGED <<session, reader>>
      BY <2>1, ProcSameIf
    <2>2. CASE ~ session[Registered].alive
      <3>1. /\ session' \in Seq(Objects) /\ Len(session') = Registered + 1
            /\ Sessions' = Sessions \cup {Registered + 1} /\ Registered + 1 \notin Sessions
            /\ session'[Registered + 1] = NewSession
            /\ \A s \in Sessions : session'[s] = session[s]
        BY <1>6, <2>2 DEF BeginDoes
      <3>2. PICK n \in Starts :
              /\ Started(n, Registered + 1)
              /\ \A q \in Starts : q # n => /\ Told(q, Registered) /\ reader'[q].pc = reader[q].pc
                                            /\ SameCopy(reader[q], reader'[q])
        BY <1>6, <2>2 DEF BeginDoes
      <3>3. Registered' = Registered + 1
        BY <3>1 DEF Registered
      <3>4. Running(Registered) = {}
        BY <1>a, <2>2, DeadIsStill
      <3>5. \A q \in Starts : q # n => SameSlots(q) /\ reader'[q].killed = reader[q].killed
        <4> SUFFICES ASSUME NEW q \in Starts, q # n
                     PROVE  SameSlots(q) /\ reader'[q].killed = reader[q].killed
          OBVIOUS
        <4>1. reader[q] \in Readers
          BY DEF Base, Typed
        <4>2. reader[q].killed \in BOOLEAN
          BY <4>1 DEF Readers
        <4>. QED
          BY <3>2, <3>4, <4>2 DEF SameSlots, Told
      <3>6. ProcStarted(n)
        BY <1>6, <2>2, <3>1, <3>2, <3>3, <3>5, NewSessionIs DEF ProcStarted
      <3>. QED
        BY <3>6
    <2>. QED
      BY <1>6, <2>1, <2>2 DEF BeginDoes
  <1>7. ASSUME LookDoes \/ WriteDoes
        PROVE  Goal
    <2>1. CASE UNCHANGED <<session, reader>>
      BY <2>1, ProcSameIf
    <2>2. CASE ~ session[Registered].alive
      <3>1. PICK x \in Objects : /\ SessionMoves(Registered, x) /\ x.alive = TRUE
                                 /\ x.active = NoMessage /\ x.buffer = <<>>
        BY <1>7, <2>2 DEF LookDoes, WriteDoes
      <3>2. PICK n \in Starts : Started(n, Registered) /\ \A q \in Starts : q # n => reader'[q] = reader[q]
        BY <1>7, <2>2 DEF LookDoes, WriteDoes
      <3>3. Registered' = Registered
        BY <3>1 DEF SessionMoves, Registered
      <3>4. ProcStarted(n)
        BY <1>7, <1>a, <2>2, <3>1, <3>2, <3>3 DEF ProcStarted, SessionMoves, SameSlots
      <3>. QED
        BY <3>4
    <2>3. CASE WriteDoes /\ session[Registered].alive
      <3>1. UNCHANGED session
        BY <2>3 DEF WriteDoes
      <3>2. ASSUME NEW q \in Starts
            PROVE  SameSlots(q) /\ reader'[q].killed = reader[q].killed
        <4>1. \/ reader'[q] = reader[q]
              \/ reader'[q].pc = reader[q].pc /\ SameProcess(reader[q], reader'[q])
          BY <2>3 DEF WriteDoes
        <4>. QED
          BY <4>1 DEF SameSlots, SameProcess
      <3>3. ProcSame
        BY <3>1, <3>2 DEF ProcSame, Sessions, Registered
      <3>. QED
        BY <3>3
    <2>. QED
      BY <1>7, <2>1, <2>2, <2>3 DEF LookDoes
  <1>8. CASE ArmDoes
    <2>1. CASE UNCHANGED session
      BY <1>8, <2>1, ProcSameIf DEF ArmDoes
    <2>2. CASE ~ UNCHANGED session
      <3>1. PICK x \in Objects : /\ SessionMoves(Registered, x) /\ x.alive = session[Registered].alive
                                 /\ UNCHANGED reader
        BY <1>8, <2>2 DEF ArmDoes
      <3>2. ProcSame
        BY <1>a, <3>1 DEF ProcSame, SameSlots, SessionMoves, Registered
      <3>. QED
        BY <3>2
    <2>. QED
      BY <2>1, <2>2
  <1>9. ASSUME \/ \E r \in Starts : (\E e \in Edits : TickDoes(r, e)) \/ DraftDoes(r)
               \/ PostDoes
               \/ \E k \in Takers, z \in Takes : CommandDoes(k, z) \/ SendTakenDoes(k, z)
               \/ \E s \in Sessions, z \in Takes : StalledDoes(s, z)
               \/ \E id \in DOMAIN chat : DeleteDoes(id)
               \/ UNCHANGED vars
        PROVE  Goal
    <2>1. UNCHANGED <<session, reader>>
      BY <1>9 DEF TickDoes, DraftDoes, PostDoes, CommandDoes, SendTakenDoes, StalledDoes, DeleteDoes, vars
    <2>. QED
      BY <2>1, ProcSameIf
  <1>. QED
    BY <1>1, <1>2, <1>3, <1>4, <1>5, <1>6, <1>7, <1>8, <1>9 DEF Step

LEMMA ProcsKept ==
  ASSUME Base, Procs, Step
  PROVE  Procs'
PROOF
  <1>1. CASE ProcSame
    <2>1. \A q \in Starts : Live(q)' = Live(q) /\ reader'[q].of = reader[q].of
      BY <1>1 DEF ProcSame, SameSlots, Live
    <2>2. Registered \in Sessions
      BY SessionsAre DEF Base
    <2>. QED
      BY <1>1, <2>1, <2>2 DEF Procs, ProcSame
  <1>2. ASSUME NEW s \in Sessions, ProcKilled(s)
        PROVE  Procs'
    <2>1. \A q \in Starts : Live(q)' => Live(q) /\ reader'[q].of = reader[q].of /\ reader[q].of # s
      BY <1>2 DEF ProcKilled, SameSlots, Told, Live, Running
    <2>2. /\ Registered \in Sessions /\ Registered' = Registered /\ Sessions' = Sessions
          /\ \A o \in Sessions : session'[o].alive => o # s /\ session[o].alive
          /\ \A o \in Sessions : o # s => session'[o].alive = session[o].alive
      BY <1>2, SessionsAre DEF Base, ProcKilled
    <2>3. ASSUME NEW r \in Starts, Live(r)'
          PROVE  reader'[r].of = Registered' /\ session'[Registered'].alive
      <3>1. Live(r) /\ reader'[r].of = reader[r].of /\ reader[r].of # s
        BY <2>1, <2>3
      <3>2. reader[r].of = Registered /\ session[Registered].alive
        BY <3>1 DEF Procs
      <3>3. session'[Registered].alive = session[Registered].alive
        BY <2>2, <3>1, <3>2
      <3>. QED
        BY <2>2, <3>1, <3>2, <3>3
    <2>4. \A r, q \in Starts : Live(r)' /\ Live(q)' => r = q
      BY <2>1 DEF Procs
    <2>5. \A o \in Sessions' : session'[o].alive => o = Registered'
      BY <2>2 DEF Procs
    <2>. QED
      BY <2>3, <2>4, <2>5 DEF Procs
  <1>3. ASSUME NEW n \in Starts, ProcStarted(n)
        PROVE  Procs'
    <2>1. Registered \in Sessions
      BY SessionsAre DEF Base
    <2>2. \A q \in Starts : ~ Live(q)
      BY <1>3 DEF Procs, ProcStarted
    <2>3. \A q \in Starts : q # n => ~ Live(q)'
      BY <1>3, <2>2 DEF ProcStarted, SameSlots, Live
    <2>4. reader'[n].of = Registered' /\ session'[Registered'].alive
      BY <1>3 DEF ProcStarted, Started
    <2>5. \A s \in Sessions' : session'[s].alive => s = Registered'
      <3> SUFFICES ASSUME NEW s \in Sessions', session'[s].alive, s # Registered'
                   PROVE  FALSE
        OBVIOUS
      <3>1. s \in Sessions /\ session[s].alive
        BY <1>3 DEF ProcStarted
      <3>2. s = Registered
        BY <3>1 DEF Procs
      <3>. QED
        BY <1>3, <3>1, <3>2 DEF ProcStarted
    <2>. QED
      BY <2>3, <2>4, <2>5 DEF Procs
  <1>. QED
    BY <1>1, <1>2, <1>3, ProcStep

(* A process that runs has run before, while its session had no more       *)
(* lingering readers than before, or it has just been started.             *)
LEMMA LiveWas ==
  ASSUME Base, Procs, Step, NEW q \in Starts, Live(q)'
  PROVE  \/ /\ Live(q) /\ reader'[q].of = reader[q].of /\ Registered' = Registered
            /\ Sessions' = Sessions /\ reader[q].of = Registered
            /\ Lingering(Registered)' \subseteq Lingering(Registered)
            /\ session[Registered].alive /\ session'[Registered].alive
         \/ ProcStarted(q)
PROOF
  <1>a. Registered \in Sessions
    BY SessionsAre DEF Base
  <1>1. CASE ProcSame
    <2>1. Live(q) /\ reader'[q].of = reader[q].of
      BY <1>1 DEF ProcSame, SameSlots, Live
    <2>2. Lingering(Registered)' \subseteq Lingering(Registered)
      BY <1>1 DEF ProcSame, SameSlots, Lingering
    <2>. QED
      BY <1>1, <1>a, <2>1, <2>2 DEF Procs, ProcSame
  <1>2. ASSUME NEW s \in Sessions, ProcKilled(s)
        PROVE  /\ Live(q) /\ reader'[q].of = reader[q].of /\ Registered' = Registered
               /\ Sessions' = Sessions /\ reader[q].of = Registered
               /\ Lingering(Registered)' \subseteq Lingering(Registered)
               /\ session[Registered].alive /\ session'[Registered].alive
    <2>1. Live(q) /\ reader'[q].of = reader[q].of /\ reader[q].of # s
      BY <1>2 DEF ProcKilled, SameSlots, Told, Live, Running
    <2>2. Registered' = Registered /\ reader[q].of = Registered /\ session[Registered].alive
      BY <1>2, <2>1 DEF Procs, ProcKilled
    <2>3. Lingering(Registered)' \subseteq Lingering(Registered)
      <3> SUFFICES ASSUME NEW o \in Starts, reader'[o].of = Registered, reader'[o].killed,
                          reader'[o].pc # "ended"
                   PROVE  reader[o].of = Registered /\ reader[o].killed /\ reader[o].pc # "ended"
        BY <2>2 DEF Lingering
      <3>1. SameSlots(o) /\ Told(o, s) /\ s # Registered
        BY <1>2, <2>1, <2>2 DEF ProcKilled
      <3>2. reader[o].of = Registered /\ reader[o].pc # "ended"
        BY <3>1 DEF SameSlots
      <3>3. o \notin Running(s)
        BY <3>1, <3>2 DEF Running
      <3>. QED
        BY <3>1, <3>2, <3>3 DEF Told
    <2>4. session'[Registered].alive
      BY <1>2, <1>a, <2>1, <2>2 DEF ProcKilled
    <2>. QED
      BY <1>2, <2>1, <2>2, <2>3, <2>4 DEF ProcKilled
  <1>3. ASSUME NEW n \in Starts, ProcStarted(n)
        PROVE  ProcStarted(q)
    <2>1. ~ Live(q)
      BY <1>3 DEF Procs, ProcStarted
    <2>2. q = n
      BY <1>3, <2>1 DEF ProcStarted, SameSlots, Live
    <2>. QED
      BY <1>3, <2>2
  <1>. QED
    BY <1>1, <1>2, <1>3, ProcStep

LEMMA StopKept ==
  ASSUME Base, StopWaits, Step
  PROVE  StopWaits'
PROOF
  <1>1. ASSUME UNCHANGED taker, worker'.pc = "stop" \/ worker.pc # "stop"
        PROVE  StopWaits'
    BY <1>1 DEF StopWaits
  <1>2. ASSUME NEW k \in Takers, NEW z \in Takes, TakerMoves(k, z),
               k = "stop" /\ z.pc \in {"take", "kill", "send"} => worker'.pc = "stop",
               k # "stop" => UNCHANGED worker
        PROVE  StopWaits'
    <2>1. "stop" \in Takers
      BY DEF Takers
    <2>2. CASE k = "stop"
      BY <1>2, <2>2 DEF StopWaits, TakerMoves
    <2>3. CASE k # "stop"
      BY <1>2, <2>1, <2>3 DEF StopWaits, TakerMoves
    <2>. QED
      BY <2>2, <2>3
  <1>3. ASSUME NEW r \in Starts,
               \/ \E y \in Readers, x \in Objects :
                    DeltaDoes(r, y, x) \/ ResultDoes(r, y, x) \/ CleanDoes(r, y, x) \/ ReaderEndsDoes(r, y, x)
               \/ \E y \in Readers, m \in Messages : SendAnswerDoes(r, y, m)
               \/ \E y \in Readers : ErrorDoes(r, y) \/ SendErrorDoes(r, y)
               \/ \E x \in Objects : FailDoes(r, x)
               \/ \E e \in Edits : TickDoes(r, e)
               \/ DraftDoes(r)
        PROVE  StopWaits'
    <2>1. ASSUME NEW y \in Readers, NEW x \in Objects,
                 DeltaDoes(r, y, x) \/ ResultDoes(r, y, x) \/ CleanDoes(r, y, x) \/ ReaderEndsDoes(r, y, x)
          PROVE  UNCHANGED <<taker, worker>>
      BY <2>1 DEF DeltaDoes, ResultDoes, CleanDoes, ReaderEndsDoes
    <2>2. ASSUME NEW y \in Readers,
                 (\E m \in Messages : SendAnswerDoes(r, y, m)) \/ ErrorDoes(r, y) \/ SendErrorDoes(r, y)
          PROVE  UNCHANGED <<taker, worker>>
      BY <2>2 DEF SendAnswerDoes, ErrorDoes, SendErrorDoes
    <2>3. ASSUME (\E x \in Objects : FailDoes(r, x)) \/ (\E e \in Edits : TickDoes(r, e)) \/ DraftDoes(r)
          PROVE  UNCHANGED <<taker, worker>>
      BY <2>3 DEF FailDoes, TickDoes, DraftDoes
    <2>. QED
      BY <1>1, <1>3, <2>1, <2>2, <2>3
  <1>4. ASSUME BeginDoes \/ LookDoes \/ PostDoes \/ ArmDoes \/ WriteDoes
        PROVE  StopWaits'
    <2>1. UNCHANGED taker /\ worker.pc # "stop"
      BY <1>4 DEF BeginDoes, LookDoes, PostDoes, ArmDoes, WriteDoes
    <2>. QED
      BY <1>1, <2>1
  <1>5. ASSUME NEW k \in Takers, NEW z \in Takes, CommandDoes(k, z) \/ SendTakenDoes(k, z)
        PROVE  StopWaits'
    <2>1. TakerMoves(k, z) /\ (k # "stop" => UNCHANGED worker)
          /\ (k = "stop" /\ z.pc \in {"take", "kill", "send"} => worker'.pc = "stop")
      BY <1>5 DEF CommandDoes, SendTakenDoes
    <2>. QED
      BY <1>2, <2>1
  <1>6. ASSUME NEW k \in Takers, NEW z \in Takes, NEW x \in Objects,
               TakeDoes(k, z, x) \/ KillTakenDoes(k, z, x)
        PROVE  StopWaits'
    <2>1. TakerMoves(k, z) /\ UNCHANGED worker /\ taker[k].pc \in {"take", "kill"}
      BY <1>6 DEF TakeDoes, KillTakenDoes
    <2>. QED
      BY <1>2, <2>1 DEF StopWaits
  <1>7. ASSUME NEW s \in Sessions, NEW z \in Takes, StalledDoes(s, z)
        PROVE  StopWaits'
    <2>1. TakerMoves("stall", z) /\ UNCHANGED worker /\ "stall" \in Takers
      BY <1>7 DEF StalledDoes, Takers
    <2>. QED
      BY <1>2, <2>1
  <1>8. ASSUME (\E id \in DOMAIN chat : DeleteDoes(id)) \/ UNCHANGED vars
        PROVE  StopWaits'
    <2>1. UNCHANGED <<taker, worker>>
      BY <1>8 DEF DeleteDoes, vars
    <2>. QED
      BY <1>1, <2>1
  <1>. QED
    BY <1>3, <1>4, <1>5, <1>6, <1>7, <1>8 DEF Step

-----------------------------------------------------------------------------
(* The prompts a process has. *)

LEMMA TailElems ==
  ASSUME NEW S, NEW seq \in Seq(S), seq # <<>>
  PROVE  Elems(Tail(seq)) \subseteq Elems(seq) /\ Head(seq) \in Elems(seq)
PROOF
  <1>1. /\ Len(seq) \in Nat /\ DOMAIN seq = 1 .. Len(seq) /\ Len(seq) # 0
    BY LenProperties, EmptySeq
  <1>2. /\ Tail(seq) \in Seq(S) /\ Len(Tail(seq)) = Len(seq) - 1
        /\ \A i \in 1 .. Len(Tail(seq)) : Tail(seq)[i] = seq[i + 1]
    BY HeadTailProperties
  <1>3. DOMAIN Tail(seq) = 1 .. (Len(seq) - 1)
    BY <1>2, LenProperties
  <1>4. ASSUME NEW i \in DOMAIN Tail(seq)
        PROVE  i + 1 \in DOMAIN seq /\ Tail(seq)[i] = seq[i + 1]
    BY <1>1, <1>2, <1>3
  <1>5. Head(seq) = seq[1] /\ 1 \in DOMAIN seq
    BY <1>1, HeadTailProperties
  <1>. QED
    BY <1>4, <1>5 DEF Elems

LEMMA AppendElems ==
  ASSUME NEW S, NEW seq \in Seq(S), NEW e \in S
  PROVE  Elems(Append(seq, e)) = Elems(seq) \cup {e}
PROOF
  <1>1. /\ Len(seq) \in Nat /\ DOMAIN seq = 1 .. Len(seq)
    BY LenProperties
  <1>2. /\ Append(seq, e) \in Seq(S) /\ Len(Append(seq, e)) = Len(seq) + 1
        /\ \A i \in 1 .. Len(seq) : Append(seq, e)[i] = seq[i]
        /\ Append(seq, e)[Len(seq) + 1] = e
    BY AppendProperties
  <1>3. DOMAIN Append(seq, e) = 1 .. (Len(seq) + 1)
    BY <1>2, LenProperties
  <1>4. /\ \A i \in DOMAIN seq : i \in DOMAIN Append(seq, e) /\ Append(seq, e)[i] = seq[i]
        /\ Len(seq) + 1 \in DOMAIN Append(seq, e)
        /\ \A i \in DOMAIN Append(seq, e) : i \in DOMAIN seq \/ i = Len(seq) + 1
    BY <1>1, <1>2, <1>3
  <1>. QED
    BY <1>2, <1>4 DEF Elems

LEMMA NoElems == Elems(<<>>) = {}
PROOF
  BY DEF Elems

(* The prompts of a process only become fewer, until the next is written. *)
Wrote(q) ==
  /\ WriteDoes /\ session[Registered].alive /\ Live(q) /\ reader[q].of = Registered
  /\ reader'[q].pc = reader[q].pc /\ reader'[q].at = reader[q].at
  /\ reader'[q].prompts = Append(reader[q].prompts, worker.turn)
  /\ PromptSet(q)' = PromptSet(q) \cup {worker.turn}

LEMMA PromptsStep ==
  ASSUME Base, Step, NEW q \in Starts
  PROVE  PromptSet(q)' \subseteq PromptSet(q) \/ Wrote(q)
PROOF
  <1>a. reader[q].prompts \in Seq(Turns)
    BY ReaderIs
  <1>1. ASSUME NEW r \in Starts, NEW y \in Readers, ReaderMoves(r, y),
               \/ y.prompts = reader[r].prompts
               \/ y.prompts = <<>>
               \/ reader[r].prompts # <<>> /\ y.prompts = Tail(reader[r].prompts)
        PROVE  PromptSet(q)' \subseteq PromptSet(q)
    <2>1. CASE q # r
      BY <1>1, <2>1 DEF ReaderMoves, PromptSet
    <2>2. CASE q = r
      <3>1. PromptSet(q)' = Elems(y.prompts)
        BY <1>1, <2>2 DEF ReaderMoves, PromptSet
      <3>2. Elems(y.prompts) \subseteq Elems(reader[q].prompts)
        BY <1>a, <1>1, <2>2, TailElems, NoElems
      <3>. QED
        BY <3>1, <3>2 DEF PromptSet
    <2>. QED
      BY <2>1, <2>2
  <1>2. ASSUME SameWork(reader[q], reader'[q])
        PROVE  PromptSet(q)' = PromptSet(q)
    BY <1>2 DEF SameWork, PromptSet
  <1>3. ASSUME NEW n \in Starts, NEW s, Started(n, s),
               \A p \in Starts : p # n => SameWork(reader[p], reader'[p])
        PROVE  PromptSet(q)' \subseteq PromptSet(q)
    <2>1. CASE q = n
      BY <1>3, <2>1, NoElems DEF Started, PromptSet
    <2>2. CASE q # n
      BY <1>2, <1>3, <2>2
    <2>. QED
      BY <2>1, <2>2
  <1>4. ASSUME UNCHANGED reader
        PROVE  PromptSet(q)' = PromptSet(q)
    BY <1>4 DEF PromptSet
  <1>5. ASSUME NEW r \in Starts, NEW y \in Readers, NEW x \in Objects,
               DeltaDoes(r, y, x) \/ ResultDoes(r, y, x) \/ CleanDoes(r, y, x) \/ ReaderEndsDoes(r, y, x)
        PROVE  PromptSet(q)' \subseteq PromptSet(q)
    BY <1>1, <1>5 DEF DeltaDoes, ResultDoes, CleanDoes, ReaderEndsDoes, SameWork
  <1>6. ASSUME NEW r \in Starts, NEW y \in Readers,
               (\E m \in Messages : SendAnswerDoes(r, y, m)) \/ ErrorDoes(r, y) \/ SendErrorDoes(r, y)
        PROVE  PromptSet(q)' \subseteq PromptSet(q)
    BY <1>1, <1>6 DEF SendAnswerDoes, ErrorDoes, SendErrorDoes, SameWork
  <1>7. ASSUME NEW r \in Starts, NEW x \in Objects, FailDoes(r, x)
        PROVE  PromptSet(q)' = PromptSet(q)
    BY <1>2, <1>7 DEF FailDoes, Told
  <1>8. ASSUME NEW k \in Takers, NEW z \in Takes, NEW x \in Objects, KillTakenDoes(k, z, x)
        PROVE  PromptSet(q)' = PromptSet(q)
    BY <1>2, <1>8 DEF KillTakenDoes, Told
  <1>9. CASE BeginDoes
    <2>1. CASE UNCHANGED <<session, reader>>
      BY <1>4, <2>1
    <2>2. CASE ~ session[Registered].alive
      <3>1. PICK n \in Starts :
              /\ Started(n, Registered + 1)
              /\ \A p \in Starts : p # n => /\ Told(p, Registered) /\ reader'[p].pc = reader[p].pc
                                            /\ SameCopy(reader[p], reader'[p])
        BY <1>9, <2>2 DEF BeginDoes
      <3>. QED
        BY <1>3, <3>1 DEF Told
    <2>. QED
      BY <1>9, <2>1, <2>2 DEF BeginDoes
  <1>10. ASSUME LookDoes \/ WriteDoes
         PROVE  PromptSet(q)' \subseteq PromptSet(q) \/ Wrote(q)
    <2>1. CASE UNCHANGED <<session, reader>>
      BY <1>4, <2>1
    <2>2. CASE ~ session[Registered].alive
      <3>1. PICK n \in Starts : Started(n, Registered) /\ \A p \in Starts : p # n => reader'[p] = reader[p]
        BY <1>10, <2>2 DEF LookDoes, WriteDoes
      <3>. QED
        BY <1>3, <3>1 DEF SameWork
    <2>3. CASE WriteDoes /\ session[Registered].alive
      <3>1. CASE q \notin Running(Registered)
        BY <2>3, <3>1 DEF WriteDoes, PromptSet
      <3>2. CASE q \in Running(Registered)
        <4>1. /\ reader'[q].prompts = Append(reader[q].prompts, worker.turn) /\ worker.turn \in Turns
              /\ reader'[q].pc = reader[q].pc /\ reader'[q].at = reader[q].at
          BY <2>3, <3>2 DEF WriteDoes
        <4>2. PromptSet(q)' = PromptSet(q) \cup {worker.turn}
          BY <1>a, <4>1, AppendElems DEF PromptSet
        <4>. QED
          BY <2>3, <3>2, <4>1, <4>2 DEF Wrote, Running, Live
      <3>. QED
        BY <3>1, <3>2
    <2>. QED
      BY <1>10, <2>1, <2>2, <2>3 DEF LookDoes
  <1>11. ASSUME \/ \E r \in Starts : (\E e \in Edits : TickDoes(r, e)) \/ DraftDoes(r)
                \/ PostDoes \/ ArmDoes
         PROVE  PromptSet(q)' = PromptSet(q)
    <2>1. UNCHANGED reader
      BY <1>11 DEF TickDoes, DraftDoes, PostDoes, ArmDoes
    <2>. QED
      BY <1>4, <2>1
  <1>12. ASSUME NEW k \in Takers, NEW z \in Takes,
                CommandDoes(k, z) \/ SendTakenDoes(k, z) \/ \E x \in Objects : TakeDoes(k, z, x)
         PROVE  PromptSet(q)' = PromptSet(q)
    <2>1. UNCHANGED reader
      BY <1>12 DEF CommandDoes, SendTakenDoes, TakeDoes
    <2>. QED
      BY <1>4, <2>1
  <1>13. ASSUME \/ \E s \in Sessions, z \in Takes : StalledDoes(s, z)
                \/ \E id \in DOMAIN chat : DeleteDoes(id)
                \/ UNCHANGED vars
         PROVE  PromptSet(q)' = PromptSet(q)
    <2>1. UNCHANGED reader
      BY <1>13 DEF StalledDoes, DeleteDoes, vars
    <2>. QED
      BY <1>4, <2>1
  <1>. QED
    BY <1>5, <1>6, <1>7, <1>8, <1>9, <1>10, <1>11, <1>12, <1>13 DEF Step

(* What is known to be spoilt stays so. *)
LEMMA BadGrows ==
  ASSUME Step
  PROVE  cut \subseteq cut' /\ haunted \subseteq haunted' /\ Bad \subseteq Bad'
PROOF
  <1>1. ASSUME NEW r \in Starts,
               \/ \E y \in Readers, x \in Objects :
                    DeltaDoes(r, y, x) \/ ResultDoes(r, y, x) \/ CleanDoes(r, y, x) \/ ReaderEndsDoes(r, y, x)
               \/ \E y \in Readers, m \in Messages : SendAnswerDoes(r, y, m)
               \/ \E y \in Readers : ErrorDoes(r, y) \/ SendErrorDoes(r, y)
        PROVE  cut \subseteq cut' /\ haunted \subseteq haunted'
    <2>1. ASSUME NEW y \in Readers, NEW x \in Objects,
                 DeltaDoes(r, y, x) \/ ResultDoes(r, y, x) \/ CleanDoes(r, y, x) \/ ReaderEndsDoes(r, y, x)
          PROVE  UNCHANGED <<cut, haunted>>
      BY <2>1 DEF DeltaDoes, ResultDoes, CleanDoes, ReaderEndsDoes
    <2>2. ASSUME NEW y \in Readers,
                 (\E m \in Messages : SendAnswerDoes(r, y, m)) \/ ErrorDoes(r, y) \/ SendErrorDoes(r, y)
          PROVE  UNCHANGED <<cut, haunted>>
      BY <2>2 DEF SendAnswerDoes, ErrorDoes, SendErrorDoes
    <2>. QED
      BY <1>1, <2>1, <2>2
  <1>2. ASSUME NEW r \in Starts,
               (\E x \in Objects : FailDoes(r, x)) \/ (\E e \in Edits : TickDoes(r, e)) \/ DraftDoes(r)
        PROVE  cut \subseteq cut' /\ haunted \subseteq haunted'
    BY <1>2 DEF FailDoes, TickDoes, DraftDoes
  <1>3. ASSUME BeginDoes \/ LookDoes \/ PostDoes \/ ArmDoes \/ WriteDoes
        PROVE  cut \subseteq cut' /\ haunted \subseteq haunted'
    BY <1>3 DEF BeginDoes, LookDoes, PostDoes, ArmDoes, WriteDoes
  <1>4. ASSUME NEW k \in Takers, NEW z \in Takes,
               \/ CommandDoes(k, z) \/ SendTakenDoes(k, z)
               \/ \E x \in Objects : TakeDoes(k, z, x) \/ KillTakenDoes(k, z, x)
        PROVE  cut \subseteq cut' /\ haunted \subseteq haunted'
    BY <1>4 DEF CommandDoes, SendTakenDoes, TakeDoes, KillTakenDoes
  <1>5. ASSUME \/ \E s \in Sessions, z \in Takes : StalledDoes(s, z)
               \/ \E id \in DOMAIN chat : DeleteDoes(id)
               \/ UNCHANGED vars
        PROVE  cut \subseteq cut' /\ haunted \subseteq haunted'
    BY <1>5 DEF StalledDoes, DeleteDoes, vars, history
  <1>6. cut \subseteq cut' /\ haunted \subseteq haunted'
    BY <1>1, <1>2, <1>3, <1>4, <1>5 DEF Step
  <1>. QED
    BY <1>6 DEF Bad

LEMMA ExcusedGrows ==
  ASSUME Step
  PROVE  guessed \subseteq guessed' /\ Excused \subseteq Excused'
PROOF
  <1>1. ASSUME NEW r \in Starts, NEW y \in Readers, NEW x \in Objects,
               DeltaDoes(r, y, x) \/ CleanDoes(r, y, x) \/ ReaderEndsDoes(r, y, x)
        PROVE  guessed \subseteq guessed'
    BY <1>1 DEF DeltaDoes, CleanDoes, ReaderEndsDoes
  <1>2. ASSUME NEW r \in Starts, NEW y \in Readers, NEW x \in Objects, ResultDoes(r, y, x)
        PROVE  guessed \subseteq guessed'
    BY <1>2 DEF ResultDoes
  <1>3. ASSUME NEW r \in Starts, NEW y \in Readers,
               (\E m \in Messages : SendAnswerDoes(r, y, m)) \/ ErrorDoes(r, y) \/ SendErrorDoes(r, y)
        PROVE  guessed \subseteq guessed'
    BY <1>3 DEF SendAnswerDoes, ErrorDoes, SendErrorDoes
  <1>4. ASSUME NEW r \in Starts,
               (\E x \in Objects : FailDoes(r, x)) \/ (\E e \in Edits : TickDoes(r, e)) \/ DraftDoes(r)
        PROVE  guessed \subseteq guessed'
    BY <1>4 DEF FailDoes, TickDoes, DraftDoes
  <1>5. ASSUME BeginDoes \/ LookDoes \/ PostDoes \/ ArmDoes \/ WriteDoes
        PROVE  guessed \subseteq guessed'
    BY <1>5 DEF BeginDoes, LookDoes, PostDoes, ArmDoes, WriteDoes
  <1>6. ASSUME NEW k \in Takers, NEW z \in Takes,
               \/ CommandDoes(k, z) \/ SendTakenDoes(k, z)
               \/ \E x \in Objects : TakeDoes(k, z, x) \/ KillTakenDoes(k, z, x)
        PROVE  guessed \subseteq guessed'
    BY <1>6 DEF CommandDoes, SendTakenDoes, TakeDoes, KillTakenDoes
  <1>7. ASSUME \/ \E s \in Sessions, z \in Takes : StalledDoes(s, z)
               \/ \E id \in DOMAIN chat : DeleteDoes(id)
               \/ UNCHANGED vars
        PROVE  guessed \subseteq guessed'
    BY <1>7 DEF StalledDoes, DeleteDoes, vars, history
  <1>8. guessed \subseteq guessed'
    BY <1>1, <1>2, <1>3, <1>4, <1>5, <1>6, <1>7 DEF Step
  <1>. QED
    BY <1>8, BadGrows DEF Excused

(* What a step does to the worker. *)
LEMMA WorkerStep ==
  ASSUME StopWaits, Step
  PROVE  \/ worker' = worker
         \/ worker.pc = "idle" /\ worker'.pc \in {"look", "stop"}
         \/ worker.pc = "look" /\ worker'.pc \in {"post", "write"} /\ LookDoes
         \/ worker.pc = "post" /\ worker'.pc = "arm" /\ worker'.turn = worker.turn
         \/ worker.pc = "arm" /\ worker'.pc = "write" /\ worker'.turn = worker.turn
         \/ worker.pc = "write" /\ worker'.pc = "idle" /\ WriteDoes
         \/ worker.pc = "stop" /\ worker'.pc = "idle"
PROOF
  <1>1. ASSUME NEW r \in Starts, NEW y \in Readers, NEW x \in Objects,
               DeltaDoes(r, y, x) \/ ResultDoes(r, y, x) \/ CleanDoes(r, y, x) \/ ReaderEndsDoes(r, y, x)
        PROVE  worker' = worker
    BY <1>1 DEF DeltaDoes, ResultDoes, CleanDoes, ReaderEndsDoes
  <1>2. ASSUME NEW r \in Starts, NEW y \in Readers,
               (\E m \in Messages : SendAnswerDoes(r, y, m)) \/ ErrorDoes(r, y) \/ SendErrorDoes(r, y)
        PROVE  worker' = worker
    BY <1>2 DEF SendAnswerDoes, ErrorDoes, SendErrorDoes
  <1>3. ASSUME NEW r \in Starts,
               (\E x \in Objects : FailDoes(r, x)) \/ (\E e \in Edits : TickDoes(r, e)) \/ DraftDoes(r)
        PROVE  worker' = worker
    BY <1>3 DEF FailDoes, TickDoes, DraftDoes
  <1>4. BeginDoes => worker.pc = "idle" /\ worker'.pc = "look"
    BY DEF BeginDoes
  <1>5. LookDoes => worker.pc = "look" /\ worker'.pc \in {"post", "write"}
    BY DEF LookDoes
  <1>6. PostDoes => worker.pc = "post" /\ worker'.pc = "arm" /\ worker'.turn = worker.turn
    BY DEF PostDoes
  <1>7. ArmDoes => worker.pc = "arm" /\ worker'.pc = "write" /\ worker'.turn = worker.turn
    BY DEF ArmDoes
  <1>8. WriteDoes => worker.pc = "write" /\ worker'.pc = "idle"
    BY NoneIs DEF WriteDoes
  <1>9. ASSUME NEW k \in Takers, NEW z \in Takes, CommandDoes(k, z)
        PROVE  worker' = worker \/ (worker.pc = "idle" /\ worker'.pc = "stop")
    <2>1. \/ worker' = worker
          \/ worker.pc = "idle" /\ worker'.pc = "stop"
      BY <1>9 DEF CommandDoes
    <2>. QED
      BY <2>1
  <1>10. ASSUME NEW k \in Takers, NEW z \in Takes, SendTakenDoes(k, z)
         PROVE  worker' = worker \/ (worker.pc = "stop" /\ worker'.pc = "idle")
    <2>1. taker[k].pc = "send" /\ worker' = (IF k = "stop" THEN IdleWorker ELSE worker)
      BY <1>10 DEF SendTakenDoes
    <2>2. CASE k = "stop"
      <3>1. worker' = IdleWorker /\ taker["stop"].pc = "send"
        BY <2>1, <2>2
      <3>2. worker.pc = "stop"
        BY <3>1 DEF StopWaits
      <3>. QED
        BY <3>1, <3>2, NoneIs
    <2>3. CASE k # "stop"
      BY <2>1, <2>3
    <2>. QED
      BY <2>2, <2>3
  <1>11. ASSUME NEW k \in Takers, NEW z \in Takes, NEW x \in Objects,
                TakeDoes(k, z, x) \/ KillTakenDoes(k, z, x)
         PROVE  worker' = worker
    BY <1>11 DEF TakeDoes, KillTakenDoes
  <1>12. ASSUME \/ \E s \in Sessions, z \in Takes : StalledDoes(s, z)
                \/ \E id \in DOMAIN chat : DeleteDoes(id)
                \/ UNCHANGED vars
         PROVE  worker' = worker
    BY <1>12 DEF StalledDoes, DeleteDoes, vars
  <1>. QED
    BY <1>1, <1>2, <1>3, <1>4, <1>5, <1>6, <1>7, <1>8, <1>9, <1>10, <1>11, <1>12 DEF Step

(* The turns of a process that was told to end were cut off. *)
CutInv == \A r \in Starts : reader[r].killed => PromptSet(r) \subseteq cut

LEMMA CutKept ==
  ASSUME Base, Procs, CutInv, Step
  PROVE  CutInv'
PROOF
  <1> SUFFICES ASSUME NEW q \in Starts, reader'[q].killed
               PROVE  PromptSet(q)' \subseteq cut'
    BY DEF CutInv
  <1>1. cut \subseteq cut'
    BY BadGrows
  <1>2. CASE reader[q].killed
    <2>1. PromptSet(q)' \subseteq PromptSet(q)
      BY <1>2, PromptsStep DEF Wrote, Live
    <2>. QED
      BY <1>1, <1>2, <2>1 DEF CutInv
  <1>3. CASE ~ reader[q].killed
    <2>1. ~ ProcSame /\ \A n \in Starts : ~ ProcStarted(n)
      BY <1>3 DEF ProcSame, ProcStarted, Started
    <2>2. PICK s \in Sessions : ProcKilled(s)
      BY <2>1, ProcStep
    <2>3. q \in Running(s) /\ SameWork(reader[q], reader'[q]) /\ Asked(s) \subseteq cut'
      BY <1>3, <2>2 DEF ProcKilled, Told
    <2>4. PromptSet(q) \subseteq Asked(s)
      BY <2>3 DEF Asked, PromptSet, Elems
    <2>. QED
      BY <2>3, <2>4 DEF SameWork, PromptSet
  <1>. QED
    BY <1>2, <1>3

(* While a reader of an earlier process of the session lingers, the turns  *)
(* of its process, and the next one, are known to be spoilt.               *)
LingerInv ==
  \A r \in Starts : Live(r) /\ Lingering(Registered) # {} =>
    /\ PromptSet(r) \subseteq Bad
    /\ worker.pc \in {"post", "arm", "write"} => worker.turn \in Bad

LEMMA LingerKept ==
  ASSUME Base, Procs, StopWaits, LingerInv, Step
  PROVE  LingerInv'
PROOF
  <1> SUFFICES ASSUME NEW q \in Starts, Live(q)', Lingering(Registered)' # {}
               PROVE  /\ PromptSet(q)' \subseteq Bad'
                      /\ worker'.pc \in {"post", "arm", "write"} => worker'.turn \in Bad'
    BY DEF LingerInv
  <1>a. Bad \subseteq Bad' /\ haunted' \subseteq Bad'
    BY BadGrows DEF Bad
  <1>1. LookDoes /\ Lingering(Registered) # {} => worker'.turn \in haunted'
    BY DEF LookDoes
  <1>2. CASE /\ Live(q) /\ Registered' = Registered
             /\ Lingering(Registered)' \subseteq Lingering(Registered)
    <2>1. /\ Lingering(Registered) # {} /\ PromptSet(q) \subseteq Bad
          /\ worker.pc \in {"post", "arm", "write"} => worker.turn \in Bad
      BY <1>2 DEF LingerInv
    <2>2. PromptSet(q)' \subseteq PromptSet(q) \cup Bad
      BY <2>1, PromptsStep DEF Wrote, WriteDoes
    <2>3. worker'.pc \in {"post", "arm", "write"} => worker'.turn \in Bad'
      BY <1>a, <1>1, <2>1, WorkerStep
    <2>. QED
      BY <1>a, <2>1, <2>2, <2>3
  <1>3. CASE ProcStarted(q)
    <2>1. PromptSet(q)' = {}
      BY <1>3, NoElems DEF ProcStarted, Started, PromptSet
    <2>2. CASE LookDoes
      <3>1. Registered' = Registered
        BY <2>2 DEF LookDoes, SessionMoves, Registered
      <3>2. Lingering(Registered)' \subseteq Lingering(Registered)
        <4> SUFFICES ASSUME NEW o \in Starts, reader'[o].of = Registered, reader'[o].killed,
                            reader'[o].pc # "ended"
                     PROVE  reader[o].of = Registered /\ reader[o].killed /\ reader[o].pc # "ended"
          BY <3>1 DEF Lingering
        <4>1. o # q
          BY <1>3 DEF ProcStarted, Started
        <4>2. SameSlots(o) /\ reader'[o].killed = reader[o].killed
          BY <1>3, <4>1 DEF ProcStarted
        <4>. QED
          BY <4>2 DEF SameSlots
      <3>. QED
        BY <1>a, <1>1, <2>1, <2>2, <3>2
    <2>3. CASE ~ LookDoes
      <3>1. worker'.pc \in {"look", "idle"}
        BY <1>3, <2>3, NoneIs DEF ProcStarted, BeginDoes, WriteDoes
      <3>. QED
        BY <2>1, <3>1
    <2>. QED
      BY <2>2, <2>3
  <1>. QED
    BY <1>2, <1>3, LiveWas

-----------------------------------------------------------------------------
(* What has been read of a turn. *)

LEMMA CountsKept ==
  ASSUME Base, Counts, Step
  PROVE  Counts'
PROOF
  <1> SUFFICES ASSUME NEW q \in Starts
               PROVE  /\ reader'[q].prompts = <<>> \/ reader'[q].pc \in {"send", "clean", "fail", "report"} =>
                           reader'[q].at = 0
                      /\ reader'[q].pc = "report" => reader'[q].killed
    BY DEF Counts
  <1> DEFINE Goal == /\ reader'[q].prompts = <<>> \/ reader'[q].pc \in {"send", "clean", "fail", "report"} =>
                          reader'[q].at = 0
                     /\ reader'[q].pc = "report" => reader'[q].killed
  <1>1. ASSUME reader'[q].pc = reader[q].pc, SameWork(reader[q], reader'[q]),
               reader[q].killed => reader'[q].killed
        PROVE  Goal
    BY <1>1 DEF Counts, SameWork
  <1>2. ASSUME reader'[q].at = 0, reader'[q].pc # "report"
        PROVE  Goal
    BY <1>2
  <1>3. ASSUME NEW r \in Starts, NEW y \in Readers, ReaderMoves(r, y), SameProcess(reader[r], y),
               \/ y.at = 0 /\ y.pc # "report"
               \/ /\ SameWork(reader[r], y) /\ y.pc \in {"clean", "read"}
                  /\ reader[r].pc \in {"send", "clean", "report"}
               \/ /\ y.prompts = reader[r].prompts /\ y.pc = "read" /\ reader[r].prompts # <<>>
        PROVE  Goal
    <2>1. CASE q # r
      BY <1>1, <1>3, <2>1 DEF ReaderMoves, SameWork
    <2>2. CASE q = r
      <3>1. reader'[q] = y
        BY <1>3, <2>2 DEF ReaderMoves
      <3>2. CASE SameWork(reader[r], y) /\ y.pc \in {"clean", "read"} /\ reader[r].pc \in {"send", "clean", "report"}
        <4>1. reader[q].at = 0
          BY <2>2, <3>2 DEF Counts
        <4>. QED
          BY <1>2, <2>2, <3>1, <3>2, <4>1 DEF SameWork
      <3>3. CASE y.at = 0 /\ y.pc # "report"
        BY <1>2, <3>1, <3>3
      <3>4. CASE y.prompts = reader[r].prompts /\ y.pc = "read" /\ reader[r].prompts # <<>>
        BY <3>1, <3>4
      <3>. QED
        BY <1>3, <3>2, <3>3, <3>4
    <2>. QED
      BY <2>1, <2>2
  <1>4. ASSUME UNCHANGED reader
        PROVE  Goal
    BY <1>1, <1>4 DEF SameWork
  <1>5. ASSUME NEW n \in Starts, NEW s, Started(n, s),
               \A p \in Starts : p # n =>
                 /\ reader'[p].pc = reader[p].pc /\ SameWork(reader[p], reader'[p])
                 /\ reader[p].killed => reader'[p].killed
        PROVE  Goal
    BY <1>1, <1>2, <1>5 DEF Started
  <1>6. ASSUME NEW r \in Starts, NEW y \in Readers, NEW x \in Objects,
               DeltaDoes(r, y, x) \/ ResultDoes(r, y, x) \/ CleanDoes(r, y, x) \/ ReaderEndsDoes(r, y, x)
        PROVE  Goal
    BY <1>3, <1>6 DEF DeltaDoes, ResultDoes, CleanDoes, ReaderEndsDoes
  <1>7. ASSUME NEW r \in Starts, NEW y \in Readers,
               (\E m \in Messages : SendAnswerDoes(r, y, m)) \/ ErrorDoes(r, y) \/ SendErrorDoes(r, y)
        PROVE  Goal
    BY <1>3, <1>7 DEF SendAnswerDoes, ErrorDoes, SendErrorDoes
  <1>8. ASSUME NEW r \in Starts, NEW x \in Objects, FailDoes(r, x)
        PROVE  Goal
    <2>1. /\ Told(q, reader[r].of) /\ reader[r].pc = "fail" /\ reader'[r].pc = "report"
          /\ q # r => reader'[q].pc = reader[q].pc
      BY <1>8 DEF FailDoes
    <2>2. reader[q].killed => reader'[q].killed
      BY <2>1 DEF Told
    <2>3. CASE q # r
      BY <1>1, <2>1, <2>2, <2>3 DEF Told
    <2>4. CASE q = r
      <3>1. reader'[q].killed
        BY <2>1, <2>4 DEF Told, Running
      <3>2. reader'[q].at = 0
        BY <2>1, <2>4 DEF Told, SameWork, Counts
      <3>. QED
        BY <3>1, <3>2
    <2>. QED
      BY <2>3, <2>4
  <1>9. ASSUME NEW k \in Takers, NEW z \in Takes, NEW x \in Objects, KillTakenDoes(k, z, x)
        PROVE  Goal
    BY <1>1, <1>9 DEF KillTakenDoes, Told
  <1>10. CASE BeginDoes
    <2>1. CASE UNCHANGED <<session, reader>>
      BY <1>4, <2>1
    <2>2. CASE ~ session[Registered].alive
      <3>1. PICK n \in Starts :
              /\ Started(n, Registered + 1)
              /\ \A p \in Starts : p # n => /\ Told(p, Registered) /\ reader'[p].pc = reader[p].pc
                                            /\ SameCopy(reader[p], reader'[p])
        BY <1>10, <2>2 DEF BeginDoes
      <3>2. \A p \in Starts : p # n =>
              /\ reader'[p].pc = reader[p].pc /\ SameWork(reader[p], reader'[p])
              /\ reader[p].killed => reader'[p].killed
        BY <3>1 DEF Told
      <3>. QED
        BY <1>5, <3>1, <3>2
    <2>. QED
      BY <1>10, <2>1, <2>2 DEF BeginDoes
  <1>11. ASSUME LookDoes \/ WriteDoes
         PROVE  Goal
    <2>1. CASE UNCHANGED <<session, reader>>
      BY <1>4, <2>1
    <2>2. CASE ~ session[Registered].alive
      <3>1. PICK n \in Starts : Started(n, Registered) /\ \A p \in Starts : p # n => reader'[p] = reader[p]
        BY <1>11, <2>2 DEF LookDoes, WriteDoes
      <3>2. \A p \in Starts : p # n =>
              /\ reader'[p].pc = reader[p].pc /\ SameWork(reader[p], reader'[p])
              /\ reader[p].killed => reader'[p].killed
        BY <3>1 DEF SameWork
      <3>. QED
        BY <1>5, <3>1, <3>2
    <2>3. CASE WriteDoes /\ session[Registered].alive
      <3>1. CASE q \notin Running(Registered)
        <4>1. reader'[q] = reader[q]
          BY <2>3, <3>1 DEF WriteDoes
        <4>. QED
          BY <1>1, <4>1 DEF SameWork
      <3>2. CASE q \in Running(Registered)
        <4>1. /\ reader'[q].prompts = Append(reader[q].prompts, worker.turn) /\ worker.turn \in Turns
              /\ reader'[q].pc = reader[q].pc /\ reader'[q].at = reader[q].at
              /\ SameProcess(reader[q], reader'[q])
          BY <2>3, <3>2 DEF WriteDoes
        <4>2. reader'[q].prompts # <<>>
          BY <4>1, ReaderIs, AppendProperties, EmptySeq
        <4>. QED
          BY <4>1, <4>2 DEF Counts, SameProcess
      <3>. QED
        BY <3>1, <3>2
    <2>. QED
      BY <1>11, <2>1, <2>2, <2>3 DEF LookDoes
  <1>12. ASSUME \/ \E r \in Starts : (\E e \in Edits : TickDoes(r, e)) \/ DraftDoes(r)
                \/ PostDoes \/ ArmDoes
         PROVE  Goal
    <2>1. UNCHANGED reader
      BY <1>12 DEF TickDoes, DraftDoes, PostDoes, ArmDoes
    <2>. QED
      BY <1>4, <2>1
  <1>13. ASSUME NEW k \in Takers, NEW z \in Takes,
                CommandDoes(k, z) \/ SendTakenDoes(k, z) \/ \E x \in Objects : TakeDoes(k, z, x)
         PROVE  Goal
    <2>1. UNCHANGED reader
      BY <1>13 DEF CommandDoes, SendTakenDoes, TakeDoes
    <2>. QED
      BY <1>4, <2>1
  <1>14. ASSUME \/ \E s \in Sessions, z \in Takes : StalledDoes(s, z)
                \/ \E id \in DOMAIN chat : DeleteDoes(id)
                \/ UNCHANGED vars
         PROVE  Goal
    <2>1. UNCHANGED reader
      BY <1>14 DEF StalledDoes, DeleteDoes, vars
    <2>. QED
      BY <1>4, <2>1
  <1>. QED
    BY <1>6, <1>7, <1>8, <1>9, <1>10, <1>11, <1>12, <1>13, <1>14 DEF Step

Prefix(t, k) == [i \in 1 .. k |-> <<t, i>>]

LEMMA PrefixIs ==
  ASSUME NEW t \in Turns
  PROVE  /\ Prefix(t, 0) = <<>> /\ Prefix(t, Size(t)) = Whole(t)
         /\ \A k \in Nat : Append(Prefix(t, k), <<t, k + 1>>) = Prefix(t, k + 1)
PROOF
  <1>1. \A k \in Nat : /\ Prefix(t, k) \in Seq(Turns \X Nat) /\ Len(Prefix(t, k)) = k
                       /\ \A i \in 1 .. k : Prefix(t, k)[i] = <<t, i>>
    <2> SUFFICES ASSUME NEW k \in Nat
                 PROVE  /\ Prefix(t, k) \in Seq(Turns \X Nat) /\ Len(Prefix(t, k)) = k
                        /\ \A i \in 1 .. k : Prefix(t, k)[i] = <<t, i>>
      OBVIOUS
    <2>1. \A i \in 1 .. k : <<t, i>> \in Turns \X Nat
      OBVIOUS
    <2>. QED
      BY <2>1, IsASeq DEF Prefix
  <1>2. Prefix(t, 0) = <<>>
    BY <1>1, EmptySeq
  <1>3. ASSUME NEW k \in Nat
        PROVE  Append(Prefix(t, k), <<t, k + 1>>) = Prefix(t, k + 1)
    <2>1. <<t, k + 1>> \in Turns \X Nat /\ k + 1 \in Nat
      OBVIOUS
    <2>2. PICK a : a = Append(Prefix(t, k), <<t, k + 1>>)
      OBVIOUS
    <2>3. /\ a \in Seq(Turns \X Nat) /\ Len(a) = k + 1
          /\ \A i \in 1 .. k : a[i] = <<t, i>>
          /\ a[k + 1] = <<t, k + 1>>
      <3>1. PICK p : p = Prefix(t, k)
        OBVIOUS
      <3>2. p \in Seq(Turns \X Nat) /\ Len(p) = k /\ \A i \in 1 .. k : p[i] = <<t, i>>
        BY <1>1, <3>1
      <3>3. PICK e : e = <<t, k + 1>>
        OBVIOUS
      <3>4. e \in Turns \X Nat /\ a = Append(p, e)
        BY <2>1, <2>2, <3>1, <3>3
      <3>5. a \in Seq(Turns \X Nat) /\ Len(a) = k + 1 /\ (\A i \in 1 .. k : a[i] = p[i]) /\ a[k + 1] = e
        BY <3>2, <3>4, AppendProperties
      <3>. QED
        BY <3>2, <3>3, <3>5
    <2>4. PICK b : b = Prefix(t, k + 1)
      OBVIOUS
    <2>5. b \in Seq(Turns \X Nat) /\ Len(b) = k + 1 /\ \A i \in 1 .. (k + 1) : b[i] = <<t, i>>
      BY <1>1, <2>1, <2>4
    <2>6. \A i \in 1 .. Len(a) : a[i] = b[i]
      <3> SUFFICES ASSUME NEW i \in 1 .. Len(a)
                   PROVE  a[i] = b[i]
        OBVIOUS
      <3>1. i \in 1 .. (k + 1) /\ (i \in 1 .. k \/ i = k + 1)
        BY <2>3
      <3>2. b[i] = <<t, i>>
        BY <2>5, <3>1
      <3>3. a[i] = <<t, i>>
        BY <2>3, <3>1
      <3>. QED
        BY <3>2, <3>3
    <2>7. a = b
      BY <2>3, <2>5, <2>6, SeqEqual
    <2>. QED
      BY <2>2, <2>4, <2>7
  <1>. QED
    BY <1>2, <1>3 DEF Prefix, Whole

(* A message that waits for the answer waits for a prompt that is, or is   *)
(* about to be, written.                                                   *)
Prompted(q) ==
  reader[q].pc \in {"read", "send", "clean"} /\ session[Registered].active # NoMessage =>
    reader[q].prompts # <<>> \/ worker.pc = "write"

(* The buffer is what has been read of the turn at hand.                   *)
Buffered(q) ==
  reader[q].pc = "read" /\ Lingering(Registered) = {} =>
    \/ /\ reader[q].prompts # <<>>
       /\ \/ Head(reader[q].prompts) \in Bad
          \/ session[Registered].truncated
          \/ session[Registered].buffer = Prefix(Head(reader[q].prompts), reader[q].at)
    \/ /\ reader[q].prompts = <<>>
       /\ session[Registered].buffer = <<>> \/ (worker.pc = "write" /\ worker.turn \in Bad)

TextInv == \A q \in Starts : Live(q) => Prompted(q) /\ Buffered(q)

(* The process q goes on while s is registered. *)
GoesOn(q, s) ==
  /\ Live(q) /\ Live(q)' /\ reader[q].of = s /\ Registered = s /\ Registered' = s
  /\ s \in Sessions /\ session[s].alive /\ Bad \subseteq Bad'
  /\ \A r \in Starts : Live(r) => r = q
  /\ worker.pc = "write" => worker' = worker \/ WriteDoes

LEMMA Calm ==
  ASSUME NEW q \in Starts, NEW s, GoesOn(q, s), Prompted(q), Buffered(q),
         reader'[q].pc = reader[q].pc, SameWork(reader[q], reader'[q]),
         session'[s].active \in {NoMessage, session[s].active},
         session'[s].buffer = session[s].buffer, session'[s].truncated = session[s].truncated,
         Lingering(s) \subseteq Lingering(s)', ~ WriteDoes
  PROVE  Prompted(q)' /\ Buffered(q)'
PROOF
  <1>1. Prompted(q)'
    BY DEF GoesOn, Prompted, SameWork
  <1>2. Lingering(Registered)' = {} => Lingering(Registered) = {}
    BY DEF GoesOn, Lingering
  <1>3. Buffered(q)'
    BY <1>2 DEF GoesOn, Buffered, SameWork
  <1>. QED
    BY <1>1, <1>3

LEMMA CalmIf ==
  ASSUME Base, NEW q \in Starts, NEW s, GoesOn(q, s), Prompted(q), Buffered(q),
         UNCHANGED <<session, reader>>, ~ WriteDoes
  PROVE  Prompted(q)' /\ Buffered(q)'
PROOF
  <1>1. Lingering(s) \subseteq Lingering(s)'
    BY DEF Lingering
  <1>. QED
    BY <1>1, Calm DEF SameWork

(* Another reader, when it is of another session, or lingers. *)
LEMMA OtherReader ==
  ASSUME Base, NEW q \in Starts, NEW s, GoesOn(q, s), Prompted(q), Buffered(q), ~ WriteDoes,
         NEW r \in Starts, NEW y \in Readers, NEW x \in Objects, r # q, reader[r].pc \notin {"none", "ended"},
         ReaderMoves(r, y), SameProcess(reader[r], y), SessionMoves(reader[r].of, x),
         x.active \in {NoMessage, session[reader[r].of].active}
  PROVE  /\ Prompted(q)'
         /\ reader[r].of # s \/ y.pc # "ended" => Buffered(q)'
         /\ reader[r].of = s => r \in Lingering(s)
PROOF
  <1>1. reader'[q] = reader[q]
    BY DEF ReaderMoves
  <1>2. CASE reader[r].of # s
    <2>1. session'[s] = session[s]
      BY <1>2 DEF GoesOn, SessionMoves
    <2>2. Lingering(s) \subseteq Lingering(s)'
      BY <1>2 DEF ReaderMoves, Lingering
    <2>. QED
      BY <1>1, <1>2, <2>1, <2>2, Calm DEF SameWork
  <1>3. CASE reader[r].of = s
    <2>1. r \in Lingering(s)
      BY <1>3 DEF GoesOn, Live, Lingering
    <2>2. session'[s].active \in {NoMessage, session[s].active}
      BY <1>3 DEF SessionMoves
    <2>3. Prompted(q)'
      BY <1>1, <2>2 DEF GoesOn, Prompted
    <2>4. y.pc # "ended" => Buffered(q)'
      <3> SUFFICES ASSUME y.pc # "ended"
                   PROVE  Buffered(q)'
        OBVIOUS
      <3>1. reader'[r].of = s /\ reader'[r].killed /\ reader'[r].pc # "ended"
        BY <2>1 DEF ReaderMoves, SameProcess, Lingering
      <3>2. Lingering(Registered)' # {}
        BY <3>1 DEF GoesOn, Lingering
      <3>. QED
        BY <3>2 DEF Buffered
    <2>. QED
      BY <1>3, <2>1, <2>3, <2>4
  <1>. QED
    BY <1>2, <1>3

LEMMA ReaderReads ==
  ASSUME Base, Procs, Counts, StopWaits, LingerInv, TextInv,
         NEW q \in Starts, NEW s, GoesOn(q, s), Prompted(q), Buffered(q), ~ WriteDoes,
         NEW r \in Starts, NEW y \in Readers, NEW x \in Objects,
         DeltaDoes(r, y, x) \/ ResultDoes(r, y, x) \/ CleanDoes(r, y, x) \/ ReaderEndsDoes(r, y, x)
  PROVE  Prompted(q)' /\ Buffered(q)'
PROOF
  <1>1. CASE r # q
    <2>1. /\ reader[r].pc \notin {"none", "ended"} /\ ReaderMoves(r, y) /\ SameProcess(reader[r], y)
          /\ SessionMoves(reader[r].of, x) /\ x.active \in {NoMessage, session[reader[r].of].active}
      BY DEF DeltaDoes, ResultDoes, CleanDoes, ReaderEndsDoes
    <2>2. /\ Prompted(q)'
          /\ reader[r].of # s \/ y.pc # "ended" => Buffered(q)'
          /\ reader[r].of = s => r \in Lingering(s)
      BY <1>1, <2>1, OtherReader
    <2>3. CASE reader[r].of = s /\ y.pc = "ended"
      <3>1. ReaderEndsDoes(r, y, x)
        BY <2>3 DEF DeltaDoes, ResultDoes, CleanDoes
      <3>2. /\ reader'[q] = reader[q] /\ worker' = worker /\ session'[s].active = session[s].active
            /\ session'[s].active = NoMessage => session'[s].buffer = <<>>
        BY <1>1, <2>3, <3>1 DEF ReaderEndsDoes, ReaderMoves, SessionMoves
      <3>3. /\ PromptSet(q) \subseteq Bad
            /\ worker.pc \in {"post", "arm", "write"} => worker.turn \in Bad
        BY <2>2, <2>3 DEF LingerInv, GoesOn
      <3>4. reader[q].prompts # <<>> => Head(reader[q].prompts) \in Bad
        <4>1. reader[q].prompts \in Seq(Turns)
          BY ReaderIs
        <4>2. reader[q].prompts # <<>> => Head(reader[q].prompts) \in Elems(reader[q].prompts)
          BY <4>1, TailElems
        <4>. QED
          BY <3>3, <4>2 DEF PromptSet
      <3>5. CASE reader[q].prompts # <<>>
        BY <2>2, <3>2, <3>4, <3>5 DEF Buffered, GoesOn
      <3>6. CASE reader[q].prompts = <<>> /\ reader[q].pc = "read"
        <4>1. session[s].active = NoMessage \/ worker.pc = "write"
          BY <3>6 DEF Prompted, GoesOn
        <4>. QED
          BY <2>2, <3>2, <3>3, <3>6, <4>1 DEF Buffered, GoesOn
      <3>7. CASE reader[q].pc # "read"
        BY <2>2, <3>2, <3>7 DEF Buffered
      <3>. QED
        BY <2>2, <3>5, <3>6, <3>7
    <2>. QED
      BY <2>2, <2>3
  <1>2. CASE r = q /\ DeltaDoes(r, y, x)
    <2>1. /\ reader[q].prompts # <<>> /\ reader'[q].prompts = reader[q].prompts
          /\ reader[q].at \in Nat /\ reader'[q].at = reader[q].at + 1 /\ reader[q].pc = "read"
          /\ reader[r] \in Readers
      <3>1. reader[r] \in Readers
        BY ReaderIs
      <3>2. reader[r].at \in Nat
        BY <3>1, Numbers DEF Readers
      <3>. QED
        BY <1>2, <3>1, <3>2 DEF DeltaDoes, ReaderMoves
    <2>2. /\ worker' = worker
          /\ \/ /\ session'[s].truncated = session[s].truncated
                /\ session'[s].buffer = Append(session[s].buffer,
                                               <<Head(reader[q].prompts), reader[q].at + 1>>)
             \/ session'[s].truncated
      BY <1>2 DEF DeltaDoes, SessionMoves, GoesOn
    <2>3. Prompted(q)'
      BY <2>1 DEF Prompted
    <2>4. Lingering(Registered)' = {} => Lingering(Registered) = {}
      <3>1. Lingering(Registered) \subseteq Lingering(Registered)'
        BY <1>2 DEF DeltaDoes, ReaderMoves, SameProcess, Lingering, GoesOn
      <3>. QED
        BY <3>1
    <2>5. Append(Prefix(Head(reader[q].prompts), reader[q].at),
                 <<Head(reader[q].prompts), reader[q].at + 1>>)
            = Prefix(Head(reader[q].prompts), reader[q].at + 1)
      BY <2>1, ReaderIs, PrefixIs
    <2>6. Buffered(q)'
      <3> SUFFICES ASSUME Lingering(Registered)' = {}
                   PROVE  \/ Head(reader[q].prompts) \in Bad'
                          \/ session'[s].truncated
                          \/ session'[s].buffer = Prefix(Head(reader[q].prompts), reader[q].at + 1)
        BY <2>1 DEF Buffered, GoesOn
      <3>1. \/ Head(reader[q].prompts) \in Bad
            \/ session[s].truncated
            \/ session[s].buffer = Prefix(Head(reader[q].prompts), reader[q].at)
        BY <2>1, <2>4 DEF Buffered, GoesOn
      <3>. QED
        BY <2>2, <2>5, <3>1 DEF GoesOn
    <2>. QED
      BY <2>3, <2>6
  <1>3. CASE r = q /\ ResultDoes(r, y, x)
    <2>1. reader'[q].pc = "send" /\ session'[s].active = NoMessage
      BY <1>3 DEF ResultDoes, ReaderMoves, SessionMoves, GoesOn
    <2>. QED
      BY <2>1 DEF Prompted, Buffered, GoesOn
  <1>4. CASE r = q /\ CleanDoes(r, y, x)
    <2>1. /\ reader[q].pc = "clean" /\ reader'[q].prompts = reader[q].prompts
          /\ reader'[q].at = reader[q].at /\ worker' = worker
          /\ session'[s].active = session[s].active /\ session'[s].buffer = <<>>
      BY <1>4 DEF CleanDoes, ReaderMoves, SameWork, SessionMoves, GoesOn
    <2>2. reader[q].at = 0
      BY <2>1 DEF Counts
    <2>3. Prompted(q)'
      BY <2>1 DEF Prompted, GoesOn
    <2>4. reader[q].prompts # <<>> => Prefix(Head(reader[q].prompts), 0) = <<>>
      BY ReaderIs, PrefixIs
    <2>5. Buffered(q)'
      BY <2>1, <2>2, <2>4 DEF Buffered, GoesOn
    <2>. QED
      BY <2>3, <2>5
  <1>5. CASE r = q /\ ReaderEndsDoes(r, y, x)
    BY <1>5 DEF ReaderEndsDoes, GoesOn, Live
  <1>. QED
    BY <1>1, <1>2, <1>3, <1>4, <1>5

LEMMA ReaderSends ==
  ASSUME Base, Procs, Counts, TextInv,
         NEW q \in Starts, NEW s, GoesOn(q, s), Prompted(q), Buffered(q), ~ WriteDoes,
         NEW r \in Starts, NEW y \in Readers,
         (\E m \in Messages : SendAnswerDoes(r, y, m)) \/ ErrorDoes(r, y) \/ SendErrorDoes(r, y)
  PROVE  Prompted(q)' /\ Buffered(q)'
PROOF
  <1>1. CASE r # q
    <2>1. /\ reader[r].pc \notin {"none", "ended"} /\ ReaderMoves(r, y) /\ SameProcess(reader[r], y)
          /\ UNCHANGED session /\ y.pc # "ended"
      BY DEF SendAnswerDoes, ErrorDoes, SendErrorDoes
    <2>2. Lingering(s) \subseteq Lingering(s)'
      BY <2>1 DEF ReaderMoves, SameProcess, Lingering
    <2>3. reader'[q] = reader[q]
      BY <1>1, <2>1 DEF ReaderMoves
    <2>. QED
      BY <2>1, <2>2, <2>3, Calm DEF SameWork
  <1>2. ASSUME r = q, NEW m \in Messages, SendAnswerDoes(r, y, m)
        PROVE  Prompted(q)' /\ Buffered(q)'
    <2>1. /\ reader[q].pc = "send" /\ reader'[q].pc = "clean"
          /\ reader'[q].prompts = reader[q].prompts /\ UNCHANGED <<session, worker>>
      BY <1>2 DEF SendAnswerDoes, ReaderMoves, SameWork
    <2>. QED
      BY <2>1 DEF Prompted, Buffered, GoesOn
  <1>3. CASE r = q /\ ErrorDoes(r, y)
    <2>1. /\ reader'[q] = y /\ y.at = 0 /\ UNCHANGED <<session, worker>>
          /\ \/ Ignored(session[s]) /\ y.pc = "read"
             \/ y.pc = "fail"
      BY <1>3 DEF ErrorDoes, ReaderMoves, GoesOn
    <2>2. CASE y.pc = "fail"
      BY <2>1, <2>2 DEF Prompted, Buffered
    <2>3. CASE Ignored(session[s]) /\ y.pc = "read"
      <3>1. session[s].active = NoMessage /\ session[s].buffer = <<>>
        BY <2>3 DEF Ignored, GoesOn
      <3>2. Prompted(q)'
        BY <2>1, <3>1 DEF Prompted, GoesOn
      <3>3. y.prompts # <<>> => Head(y.prompts) \in Turns
        <4>1. y.prompts \in Seq(Turns)
          BY DEF Readers
        <4>. QED
          BY <4>1, HeadTailProperties
      <3>4. y.prompts # <<>> => Prefix(Head(y.prompts), 0) = <<>>
        BY <3>3, PrefixIs
      <3>5. Buffered(q)'
        BY <2>1, <3>1, <3>4 DEF Buffered, GoesOn
      <3>. QED
        BY <3>2, <3>5
    <2>. QED
      BY <2>1, <2>2, <2>3
  <1>4. CASE r = q /\ SendErrorDoes(r, y)
    BY <1>4 DEF SendErrorDoes, Counts, GoesOn, Live
  <1>. QED
    BY <1>1, <1>2, <1>3, <1>4

LEMMA HeadOfAppend ==
  ASSUME NEW S, NEW p \in Seq(S), NEW e \in S
  PROVE  /\ Append(p, e) # <<>>
         /\ p # <<>> => Head(Append(p, e)) = Head(p)
         /\ p = <<>> => Head(Append(p, e)) = e
PROOF
  <1>1. PICK a : a = Append(p, e)
    OBVIOUS
  <1>2. /\ a \in Seq(S) /\ Len(a) = Len(p) + 1 /\ Len(p) \in Nat /\ Head(a) = a[1]
        /\ \A i \in 1 .. Len(p) : a[i] = p[i]
        /\ a[Len(p) + 1] = e
    BY <1>1, AppendProperties, LenProperties, HeadTailProperties, EmptySeq
  <1>3. a # <<>>
    BY <1>2, EmptySeq
  <1>4. ASSUME p # <<>>
        PROVE  Head(a) = Head(p)
    <2>1. Len(p) # 0 /\ Head(p) = p[1]
      BY <1>4, EmptySeq, HeadTailProperties
    <2>. QED
      BY <1>2, <2>1
  <1>5. ASSUME p = <<>>
        PROVE  Head(a) = e
    <2>1. Len(p) = 0
      BY <1>5
    <2>. QED
      BY <1>2, <2>1
  <1>. QED
    BY <1>1, <1>3, <1>4, <1>5

LEMMA NotWriting ==
  ASSUME worker' = worker \/ worker.pc # "write"
  PROVE  ~ WriteDoes
PROOF
  BY NoneIs DEF WriteDoes

LEMMA TextKept ==
  ASSUME Base, Procs, Counts, StopWaits, LingerInv, TextInv, Step
  PROVE  TextInv'
PROOF
  <1> SUFFICES ASSUME NEW q \in Starts, Live(q)'
               PROVE  Prompted(q)' /\ Buffered(q)'
    BY DEF TextInv
  <1> DEFINE Goal == Prompted(q)' /\ Buffered(q)'
  <1>1. CASE ProcStarted(q)
    <2>1. /\ session'[Registered'].buffer = <<>> /\ session'[Registered'].active = NoMessage
          /\ reader'[q].prompts = <<>>
      BY <1>1 DEF ProcStarted, Started
    <2>. QED
      BY <2>1 DEF Prompted, Buffered
  <1>2. CASE ~ ProcStarted(q)
    <2>1. PICK s : s = Registered
      OBVIOUS
    <2>2. GoesOn(q, s) /\ Prompted(q) /\ Buffered(q)
      <3>1. /\ Live(q) /\ reader[q].of = Registered /\ Registered' = Registered
            /\ session[Registered].alive
        BY <1>2, LiveWas
      <3>2. worker.pc = "write" => worker' = worker \/ WriteDoes
        BY WorkerStep
      <3>3. Registered \in Sessions
        BY SessionsAre DEF Base
      <3>4. \A r \in Starts : Live(r) => r = q
        BY <3>1 DEF Procs
      <3>. QED
        BY <2>1, <3>1, <3>2, <3>3, <3>4, BadGrows DEF GoesOn, TextInv
    <2>3. \A o : Told(q, o) => o # s
      BY <2>2 DEF GoesOn, Running, Live, Told
    <2>4. ASSUME NEW r \in Starts, NEW y \in Readers, NEW x \in Objects,
                 DeltaDoes(r, y, x) \/ ResultDoes(r, y, x) \/ CleanDoes(r, y, x) \/ ReaderEndsDoes(r, y, x)
          PROVE  Goal
      <3>1. worker' = worker
        BY <2>4 DEF DeltaDoes, ResultDoes, CleanDoes, ReaderEndsDoes
      <3>. QED
        BY <2>2, <2>4, <3>1, NotWriting, ReaderReads
    <2>5. ASSUME NEW r \in Starts, NEW y \in Readers,
                 (\E m \in Messages : SendAnswerDoes(r, y, m)) \/ ErrorDoes(r, y) \/ SendErrorDoes(r, y)
          PROVE  Goal
      <3>1. worker' = worker
        BY <2>5 DEF SendAnswerDoes, ErrorDoes, SendErrorDoes
      <3>. QED
        BY <2>2, <2>5, <3>1, NotWriting, ReaderSends
    <2>6. ASSUME NEW o \in Sessions, NEW x \in Objects, SessionMoves(o, x), worker' = worker,
                 Told(q, o), reader'[q].pc = reader[q].pc,
                 \A p \in Starts : Told(p, o) /\ (reader[p].killed => reader'[p].pc = reader[p].pc)
          PROVE  Goal
      <3>1. o # s
        BY <2>3, <2>6
      <3>2. session'[s] = session[s]
        BY <2>2, <2>6, <3>1 DEF SessionMoves, GoesOn
      <3>3. Lingering(s) \subseteq Lingering(s)'
        BY <2>6 DEF Lingering, Told
      <3>. QED
        BY <2>2, <2>6, <3>2, <3>3, NotWriting, Calm DEF Told
    <2>7. ASSUME NEW r \in Starts, NEW x \in Objects, FailDoes(r, x)
          PROVE  Goal
      <3>1. PICK o : o = reader[r].of
        OBVIOUS
      <3>2. /\ SessionMoves(o, x) /\ worker' = worker /\ reader[r].pc = "fail"
            /\ \A p \in Starts : Told(p, o)
            /\ \A p \in Starts : p # r => reader'[p].pc = reader[p].pc
        BY <2>7, <3>1 DEF FailDoes
      <3>3. o \in Sessions
        BY <3>1, <3>2, ReaderIs
      <3>4. q # r
        BY <2>2, <2>3, <3>1, <3>2 DEF GoesOn
      <3>5. session'[s] = session[s]
        BY <2>2, <2>3, <3>2 DEF SessionMoves, GoesOn
      <3>6. Lingering(s) \subseteq Lingering(s)'
        <4> SUFFICES ASSUME NEW p \in Starts, reader[p].of = s, reader[p].killed, reader[p].pc # "ended"
                     PROVE  reader'[p].of = s /\ reader'[p].killed /\ reader'[p].pc # "ended"
          BY DEF Lingering
        <4>1. p # r
          BY <2>3, <3>1, <3>2
        <4>. QED
          BY <3>2, <4>1 DEF Told
      <3>. QED
        BY <2>2, <3>2, <3>4, <3>5, <3>6, NotWriting, Calm DEF Told
    <2>8. ASSUME NEW k \in Takers, NEW z \in Takes, NEW x \in Objects, KillTakenDoes(k, z, x)
          PROVE  Goal
      <3>1. PICK o : o = taker[k].of
        OBVIOUS
      <3>2. /\ SessionMoves(o, x) /\ worker' = worker
            /\ \A p \in Starts : Told(p, o) /\ reader'[p].pc = reader[p].pc
        BY <2>8, <3>1 DEF KillTakenDoes
      <3>3. o \in Sessions
        BY <2>8, <3>1, TakerIs DEF KillTakenDoes
      <3>. QED
        BY <2>6, <3>2, <3>3
    <2>9. ASSUME NEW k \in Takers, NEW z \in Takes, NEW x \in Objects, TakeDoes(k, z, x)
          PROVE  Goal
      <3>1. PICK o : o = taker[k].of
        OBVIOUS
      <3>2. /\ SessionMoves(o, x) /\ UNCHANGED <<worker, reader>> /\ x.active = NoMessage
            /\ x.buffer = <<>> /\ Asked(o) \subseteq cut'
        BY <2>9, <3>1 DEF TakeDoes
      <3>3. Lingering(s) \subseteq Lingering(s)'
        BY <3>2 DEF Lingering
      <3>4. CASE o # s
        <4>1. session'[s] = session[s]
          BY <2>2, <3>2, <3>4 DEF SessionMoves, GoesOn
        <4>. QED
          BY <2>2, <3>2, <3>3, <4>1, NotWriting, Calm DEF SameWork
      <3>5. CASE o = s
        <4>1. session'[s].active = NoMessage /\ session'[s].buffer = <<>>
          BY <3>2, <3>5 DEF SessionMoves
        <4>2. reader[q].prompts # <<>> => Head(reader[q].prompts) \in Bad'
          <5>1. Elems(reader[q].prompts) \subseteq Asked(s)
            BY <2>2 DEF GoesOn, Asked, Running, Live, Elems
          <5>2. reader[q].prompts # <<>> => Head(reader[q].prompts) \in Elems(reader[q].prompts)
            BY ReaderIs, TailElems
          <5>. QED
            BY <3>2, <3>5, <5>1, <5>2 DEF Bad
        <4>. QED
          BY <2>2, <3>2, <4>1, <4>2 DEF Prompted, Buffered, GoesOn
      <3>. QED
        BY <3>4, <3>5
    <2>10. ASSUME BeginDoes \/ LookDoes
           PROVE  Goal
      <3>1. session[Registered].alive
        BY <2>1, <2>2 DEF GoesOn
      <3>2. UNCHANGED <<session, reader>> /\ worker.pc # "write"
        BY <2>10, <3>1 DEF BeginDoes, LookDoes
      <3>. QED
        BY <2>2, <3>2, NotWriting, CalmIf
    <2>11. CASE ArmDoes
      <3>1. /\ worker.pc = "arm" /\ worker'.pc = "write" /\ UNCHANGED reader
            /\ session'[s].buffer = session[s].buffer /\ session'[s].truncated = session[s].truncated
        BY <2>1, <2>11 DEF ArmDoes, SessionMoves
      <3>2. Prompted(q)'
        BY <3>1 DEF Prompted
      <3>3. Lingering(Registered)' = Lingering(Registered)
        BY <2>2, <3>1 DEF Lingering, GoesOn
      <3>4. Buffered(q)'
        BY <2>2, <3>1, <3>3 DEF Buffered, GoesOn
      <3>. QED
        BY <3>2, <3>4
    <2>12. CASE WriteDoes
      <3>1. /\ UNCHANGED session
            /\ \A r \in Starts :
                 \/ r \notin Running(s) /\ reader'[r] = reader[r]
                 \/ /\ r \in Running(s) /\ reader'[r].pc = reader[r].pc
                    /\ SameProcess(reader[r], reader'[r]) /\ reader'[r].at = reader[r].at
                    /\ reader'[r].prompts = Append(reader[r].prompts, worker.turn)
        BY <2>1, <2>2, <2>12 DEF WriteDoes, GoesOn
      <3>2. /\ reader'[q].pc = reader[q].pc /\ reader'[q].at = reader[q].at
            /\ reader'[q].prompts = Append(reader[q].prompts, worker.turn)
        BY <2>2, <3>1 DEF GoesOn, Running, Live
      <3>3. Lingering(Registered)' = {} => Lingering(Registered) = {}
        <4>1. Lingering(s) \subseteq Lingering(s)'
          BY <3>1 DEF Lingering, SameProcess, Running
        <4>. QED
          BY <2>2, <4>1 DEF GoesOn
      <3>4. worker.turn \in Turns
        BY <2>12 DEF WriteDoes
      <3>5. /\ reader'[q].prompts # <<>>
            /\ reader[q].prompts # <<>> => Head(reader'[q].prompts) = Head(reader[q].prompts)
            /\ reader[q].prompts = <<>> => Head(reader'[q].prompts) = worker.turn
        <4>1. PICK p : p = reader[q].prompts
          OBVIOUS
        <4>2. p \in Seq(Turns) /\ reader'[q].prompts = Append(p, worker.turn)
          BY <3>2, <4>1, ReaderIs
        <4>3. /\ Append(p, worker.turn) # <<>>
              /\ p # <<>> => Head(Append(p, worker.turn)) = Head(p)
              /\ p = <<>> => Head(Append(p, worker.turn)) = worker.turn
          BY <3>4, <4>2, HeadOfAppend
        <4>. QED
          BY <4>1, <4>2, <4>3
      <3>6. reader[q].prompts = <<>> => reader[q].at = 0
        BY DEF Counts
      <3>7. Prefix(worker.turn, 0) = <<>>
        BY <3>4, PrefixIs
      <3>8. Prompted(q)'
        BY <3>5 DEF Prompted
      <3>9. Buffered(q)'
        BY <2>2, <3>1, <3>2, <3>3, <3>5, <3>6, <3>7 DEF Buffered, GoesOn
      <3>. QED
        BY <3>8, <3>9
    <2>13. ASSUME \/ \E r \in Starts : (\E e \in Edits : TickDoes(r, e)) \/ DraftDoes(r)
                  \/ PostDoes
                  \/ \E id \in DOMAIN chat : DeleteDoes(id)
                  \/ UNCHANGED vars
           PROVE  Goal
      <3>1. /\ UNCHANGED <<session, reader>>
            /\ worker' = worker \/ worker.pc # "write"
        BY <2>13 DEF TickDoes, DraftDoes, PostDoes, DeleteDoes, vars
      <3>. QED
        BY <2>2, <3>1, NotWriting, CalmIf
    <2>14. ASSUME \/ \E k \in Takers, z \in Takes : CommandDoes(k, z) \/ SendTakenDoes(k, z)
                  \/ \E o \in Sessions, z \in Takes : StalledDoes(o, z)
           PROVE  Goal
      <3>1. UNCHANGED <<session, reader>>
        BY <2>14 DEF CommandDoes, SendTakenDoes, StalledDoes
      <3>2. worker' = worker \/ worker.pc # "write"
        <4>1. CASE worker.pc = "write" /\ WriteDoes
          <5>1. taker' = taker
            BY <4>1 DEF WriteDoes
          <5>2. taker' # taker
            BY <2>14 DEF CommandDoes, SendTakenDoes, StalledDoes, TakerMoves
          <5>. QED
            BY <5>1, <5>2
        <4>. QED
          BY <4>1, WorkerStep
      <3>. QED
        BY <2>2, <3>1, <3>2, NotWriting, CalmIf
    <2>. QED
      BY <2>4, <2>5, <2>7, <2>8, <2>9, <2>10, <2>11, <2>12, <2>13, <2>14 DEF Step
  <1>. QED
    BY <1>1, <1>2

-----------------------------------------------------------------------------
(* What is sent as the answer. *)

SendInv ==
  \A r \in Starts : reader[r].pc = "send" =>
    \/ reader[r].marked
    \/ reader[r].turn \in Excused
    \/ reader[r].text = Whole(reader[r].turn)

(* Only a result makes a reader send an answer. *)
LEMMA SendStep ==
  ASSUME Base, Step, NEW q \in Starts, reader'[q].pc = "send"
  PROVE  \/ reader[q].pc = "send" /\ SameCopy(reader[q], reader'[q])
         \/ \E y \in Readers, x \in Objects : ResultDoes(q, y, x)
PROOF
  <1> DEFINE Goal == \/ reader[q].pc = "send" /\ SameCopy(reader[q], reader'[q])
                     \/ \E y \in Readers, x \in Objects : ResultDoes(q, y, x)
  <1>1. ASSUME reader'[q] = reader[q]
        PROVE  Goal
    BY <1>1 DEF SameCopy
  <1>2. ASSUME reader'[q].pc = reader[q].pc, SameCopy(reader[q], reader'[q])
        PROVE  Goal
    BY <1>2
  <1>3. ASSUME NEW r \in Starts, NEW y \in Readers, NEW x \in Objects,
               DeltaDoes(r, y, x) \/ ResultDoes(r, y, x) \/ CleanDoes(r, y, x) \/ ReaderEndsDoes(r, y, x)
        PROVE  Goal
    BY <1>1, <1>3 DEF DeltaDoes, ResultDoes, CleanDoes, ReaderEndsDoes, ReaderMoves
  <1>4. ASSUME NEW r \in Starts, NEW y \in Readers,
               (\E m \in Messages : SendAnswerDoes(r, y, m)) \/ ErrorDoes(r, y) \/ SendErrorDoes(r, y)
        PROVE  Goal
    BY <1>1, <1>4 DEF SendAnswerDoes, ErrorDoes, SendErrorDoes, ReaderMoves
  <1>5. ASSUME NEW r \in Starts, NEW x \in Objects, FailDoes(r, x)
        PROVE  Goal
    BY <1>2, <1>5 DEF FailDoes
  <1>6. ASSUME NEW k \in Takers, NEW z \in Takes, NEW x \in Objects, KillTakenDoes(k, z, x)
        PROVE  Goal
    BY <1>2, <1>6 DEF KillTakenDoes
  <1>7. CASE BeginDoes
    <2>1. CASE UNCHANGED <<session, reader>>
      BY <1>1, <2>1
    <2>2. CASE ~ session[Registered].alive
      <3>1. PICK n \in Starts :
              /\ Started(n, Registered + 1)
              /\ \A p \in Starts : p # n => /\ Told(p, Registered) /\ reader'[p].pc = reader[p].pc
                                            /\ SameCopy(reader[p], reader'[p])
        BY <1>7, <2>2 DEF BeginDoes
      <3>. QED
        BY <1>2, <3>1 DEF Started
    <2>. QED
      BY <1>7, <2>1, <2>2 DEF BeginDoes
  <1>8. ASSUME LookDoes \/ WriteDoes
        PROVE  Goal
    <2>1. CASE UNCHANGED <<session, reader>>
      BY <1>1, <2>1
    <2>2. CASE ~ session[Registered].alive
      <3>1. PICK n \in Starts : Started(n, Registered) /\ \A p \in Starts : p # n => reader'[p] = reader[p]
        BY <1>8, <2>2 DEF LookDoes, WriteDoes
      <3>. QED
        BY <1>1, <3>1 DEF Started
    <2>3. CASE WriteDoes /\ session[Registered].alive
      BY <1>1, <1>2, <2>3 DEF WriteDoes
    <2>. QED
      BY <1>8, <2>1, <2>2, <2>3 DEF LookDoes
  <1>9. ASSUME \/ \E r \in Starts : (\E e \in Edits : TickDoes(r, e)) \/ DraftDoes(r)
               \/ PostDoes \/ ArmDoes
        PROVE  Goal
    <2>1. UNCHANGED reader
      BY <1>9 DEF TickDoes, DraftDoes, PostDoes, ArmDoes
    <2>. QED
      BY <1>1, <2>1
  <1>10. ASSUME NEW k \in Takers, NEW z \in Takes,
                CommandDoes(k, z) \/ SendTakenDoes(k, z) \/ \E x \in Objects : TakeDoes(k, z, x)
         PROVE  Goal
    <2>1. UNCHANGED reader
      BY <1>10 DEF CommandDoes, SendTakenDoes, TakeDoes
    <2>. QED
      BY <1>1, <2>1
  <1>11. ASSUME \/ \E s \in Sessions, z \in Takes : StalledDoes(s, z)
                \/ \E id \in DOMAIN chat : DeleteDoes(id)
                \/ UNCHANGED vars
         PROVE  Goal
    <2>1. UNCHANGED reader
      BY <1>11 DEF StalledDoes, DeleteDoes, vars
    <2>. QED
      BY <1>1, <2>1
  <1>. QED
    BY <1>3, <1>4, <1>5, <1>6, <1>7, <1>8, <1>9, <1>10, <1>11 DEF Step

(* A response that goes on where the buffer of this turn ends is the one   *)
(* to this turn, from its first piece.                                     *)
LEMMA BegunIsWhole ==
  ASSUME given \subseteq Turns, NEW t \in Turns, NEW text \in Texts, NEW last \in LastResponses,
         Recovers(text, last), Begun(text, t)
  PROVE  last = Whole(t)
PROOF
  <1>1. PICK u \in Turns, k \in 1 .. Pieces : u \notin Silent /\ last = Response(u, k)
    BY DEF LastResponses
  <1>2. last \in Texts /\ last[1] = <<u, k>> /\ (k = 1 => last = Whole(u))
    BY <1>1, ResponseIs
  <1>3. /\ text \in Seq(Pairs) /\ last \in Seq(Pairs) /\ Len(text) \in Nat /\ Len(last) \in Nat
        /\ Len(text) <= Len(last) /\ text = SubSeq(last, 1, Len(text)) /\ text # <<>>
    BY <1>2, LenProperties DEF Recovers, Begins, Begun, Texts
  <1>4. Len(text) >= 1
    BY <1>3, EmptySeq
  <1>5. text[1] = last[1]
    <2>1. PICK n : n = Len(text)
      OBVIOUS
    <2>2. SubSeq(last, 1, n)[1] = last[1]
      BY <1>3, <1>4, <2>1, SubSeqProperties
    <2>. QED
      BY <1>3, <2>1, <2>2
  <1>6. <<u, k>> = <<t, 1>>
    BY <1>2, <1>5 DEF Begun
  <1>. QED
    BY <1>2, <1>6

LEMMA ResultText ==
  ASSUME Base, NEW r \in Starts, NEW y \in Readers, NEW x \in Objects, ResultDoes(r, y, x)
  PROVE  \/ y.text = session[reader[r].of].buffer /\ y.marked = session[reader[r].of].truncated
         \/ y.text = Whole(Head(reader[r].prompts))
         \/ Head(reader[r].prompts) \in guessed'
PROOF
  <1>1. PICK t, text : t = Head(reader[r].prompts) /\ text = session[reader[r].of].buffer
    OBVIOUS
  <1>2. t \in Turns /\ text \in Texts /\ given \subseteq Turns
    BY <1>1, ReaderIs DEF ResultDoes, Objects, Base, Typed
  <1>3. ASSUME NEW last \in LastResponses, Recovers(text, last), y.text = last,
               guessed' = IF Begun(text, t) THEN guessed ELSE guessed \cup {t}
        PROVE  y.text = Whole(t) \/ t \in guessed'
    BY <1>2, <1>3, BegunIsWhole
  <1>. QED
    BY <1>1, <1>3 DEF ResultDoes

LEMMA SendKept ==
  ASSUME Base, Procs, CutInv, LingerInv, TextInv, SendInv, Step
  PROVE  SendInv'
PROOF
  <1> SUFFICES ASSUME NEW q \in Starts, reader'[q].pc = "send"
               PROVE  \/ reader'[q].marked
                      \/ reader'[q].turn \in Excused'
                      \/ reader'[q].text = Whole(reader'[q].turn)
    BY DEF SendInv
  <1>1. Bad \subseteq Excused' /\ Bad \subseteq Bad' /\ Excused \subseteq Excused' /\ guessed' \subseteq Excused'
    BY BadGrows, ExcusedGrows DEF Excused
  <1>2. CASE reader[q].pc = "send" /\ SameCopy(reader[q], reader'[q])
    <2>1. \/ reader[q].marked
          \/ reader[q].turn \in Excused
          \/ reader[q].text = Whole(reader[q].turn)
      BY <1>2 DEF SendInv
    <2>. QED
      BY <1>1, <1>2, <2>1 DEF SameCopy
  <1>3. ASSUME NEW y \in Readers, NEW x \in Objects, ResultDoes(q, y, x)
        PROVE  \/ reader'[q].marked
               \/ reader'[q].turn \in Excused'
               \/ reader'[q].text = Whole(reader'[q].turn)
    <2>1. PICK t : t = Head(reader[q].prompts)
      OBVIOUS
    <2>2. /\ reader[q].pc = "read" /\ reader[q].prompts # <<>> /\ reader[q].at = Size(t)
          /\ reader'[q].turn = t
          /\ \/ /\ reader'[q].text = session[reader[q].of].buffer
                /\ reader'[q].marked = session[reader[q].of].truncated
             \/ reader'[q].text = Whole(t)
             \/ t \in guessed'
      BY <1>3, <2>1, ResultText DEF ResultDoes, ReaderMoves
    <2>3. t \in PromptSet(q) /\ t \in Turns
      BY <2>1, <2>2, ReaderIs, TailElems DEF PromptSet
    <2>4. CASE reader[q].killed
      BY <1>1, <2>2, <2>3, <2>4 DEF CutInv, Bad
    <2>5. CASE ~ reader[q].killed
      <3>1. Live(q) /\ reader[q].of = Registered
        BY <2>2, <2>5 DEF Live, Procs
      <3>2. CASE Lingering(Registered) # {}
        BY <1>1, <2>2, <2>3, <3>1, <3>2 DEF LingerInv
      <3>3. CASE Lingering(Registered) = {} /\ reader[q].of = Registered
        <4>1. \/ t \in Bad
              \/ session[Registered].truncated
              \/ session[Registered].buffer = Prefix(t, Size(t))
          BY <2>1, <2>2, <3>1, <3>3 DEF TextInv, Buffered
        <4>2. Prefix(t, Size(t)) = Whole(t)
          BY <2>3, PrefixIs
        <4>. QED
          BY <1>1, <2>2, <3>3, <4>1, <4>2
      <3>. QED
        BY <3>1, <3>2, <3>3
    <2>. QED
      BY <2>4, <2>5
  <1>. QED
    BY <1>2, <1>3, SendStep

LEMMA WholeKept ==
  ASSUME Base, SendInv, WholeOrMarked, Step
  PROVE  WholeOrMarked'
PROOF
  <1> SUFFICES ASSUME NEW i \in DOMAIN chat', chat'[i].kind = "answer"
               PROVE  \/ chat'[i].marked \/ chat'[i].turn \in Excused'
                      \/ chat'[i].text = Whole(chat'[i].turn)
    BY DEF WholeOrMarked, Excused, Bad
  <1>1. Excused \subseteq Excused'
    BY ExcusedGrows
  <1>2. CASE i \in DOMAIN chat /\ chat'[i] = chat[i]
    BY <1>1, <1>2 DEF WholeOrMarked, Excused, Bad
  <1>3. ASSUME NEW r \in Starts, NEW y \in Readers, NEW m \in Messages, SendAnswerDoes(r, y, m), chat'[i] = m
        PROVE  \/ chat'[i].marked \/ chat'[i].turn \in Excused'
               \/ chat'[i].text = Whole(chat'[i].turn)
    <2>1. /\ reader[r].pc = "send" /\ m.turn = reader[r].turn /\ m.text = reader[r].text
          /\ m.marked = reader[r].marked
      BY <1>3 DEF SendAnswerDoes
    <2>2. \/ reader[r].marked
          \/ reader[r].turn \in Excused
          \/ reader[r].text = Whole(reader[r].turn)
      BY <2>1 DEF SendInv
    <2>. QED
      BY <1>1, <1>3, <2>1, <2>2
  <1>4. \/ i \in DOMAIN chat /\ chat'[i] = chat[i]
        \/ \E r \in Starts, y \in Readers, m \in Messages : SendAnswerDoes(r, y, m) /\ chat'[i] = m
    <2> DEFINE Goal == \/ i \in DOMAIN chat /\ chat'[i] = chat[i]
                       \/ \E r \in Starts, y \in Readers, m \in Messages :
                            SendAnswerDoes(r, y, m) /\ chat'[i] = m
    <2>1. ASSUME UNCHANGED chat
          PROVE  Goal
      BY <2>1
    <2>2. ASSUME NEW r \in Starts, NEW y \in Readers, NEW x \in Objects,
                 DeltaDoes(r, y, x) \/ ResultDoes(r, y, x) \/ CleanDoes(r, y, x) \/ ReaderEndsDoes(r, y, x)
          PROVE  Goal
      BY <2>1, <2>2 DEF DeltaDoes, ResultDoes, CleanDoes, ReaderEndsDoes
    <2>3. ASSUME NEW r \in Starts, NEW y \in Readers, NEW m \in Messages, SendAnswerDoes(r, y, m)
          PROVE  Goal
      <3>1. \/ i \in DOMAIN chat /\ chat'[i] = chat[i]
            \/ chat'[i] = m
        BY <2>3 DEF SendAnswerDoes
      <3>. QED
        BY <2>3, <3>1
    <2>4. ASSUME NEW r \in Starts, NEW y \in Readers, ErrorDoes(r, y) \/ SendErrorDoes(r, y)
          PROVE  Goal
      BY <2>4 DEF ErrorDoes, SendErrorDoes
    <2>5. ASSUME NEW r \in Starts,
                 (\E x \in Objects : FailDoes(r, x)) \/ (\E e \in Edits : TickDoes(r, e)) \/ DraftDoes(r)
          PROVE  Goal
      BY <2>5 DEF FailDoes, TickDoes, DraftDoes
    <2>6. ASSUME BeginDoes \/ LookDoes \/ PostDoes \/ ArmDoes \/ WriteDoes
          PROVE  Goal
      BY <2>6 DEF BeginDoes, LookDoes, PostDoes, ArmDoes, WriteDoes
    <2>7. ASSUME NEW k \in Takers, NEW z \in Takes,
                 \/ CommandDoes(k, z) \/ SendTakenDoes(k, z)
                 \/ \E x \in Objects : TakeDoes(k, z, x) \/ KillTakenDoes(k, z, x)
          PROVE  Goal
      BY <2>7 DEF CommandDoes, SendTakenDoes, TakeDoes, KillTakenDoes
    <2>8. ASSUME \/ \E s \in Sessions, z \in Takes : StalledDoes(s, z)
                 \/ \E id \in DOMAIN chat : DeleteDoes(id)
                 \/ UNCHANGED vars
          PROVE  Goal
      BY <2>8 DEF StalledDoes, DeleteDoes, vars, telegramVars
    <2>. QED
      BY <2>2, <2>3, <2>4, <2>5, <2>6, <2>7, <2>8 DEF Step
  <1>. QED
    BY <1>2, <1>3, <1>4

-----------------------------------------------------------------------------
(* All of it, from the first state. *)

TextsHold ==
  Procs /\ Counts /\ StopWaits /\ CutInv /\ LingerInv /\ TextInv /\ SendInv /\ WholeOrMarked

LEMMA TextsInit ==
  ASSUME Init
  PROVE  TextsHold
PROOF
  <1>1. /\ chat = <<>> /\ session = <<NewSession>> /\ worker = IdleWorker
        /\ reader = [[r \in Starts |-> NoReader] EXCEPT ![1].pc = "read", ![1].of = 1]
        /\ taker = [k \in Takers |-> NoTake]
    BY DEF Init
  <1>2. session[1].alive /\ session[1].buffer = <<>> /\ session[1].active = NoMessage
    BY <1>1, NewSessionIs
  <1>3. Sessions = {1} /\ Registered = 1
    <2>1. Base
      BY BaseInit
    <2>2. Len(session) = 1 /\ session \in Seq(Objects)
      BY <1>1, <2>1 DEF Base, Typed
    <2>. QED
      BY <2>2, LenProperties DEF Sessions, Registered
  <1>4. 1 \in Starts
    BY Numbers DEF Starts
  <1>5. /\ \A r \in Starts : reader[r].prompts = <<>> /\ reader[r].at = 0 /\ ~ reader[r].killed
        /\ \A r \in Starts : r # 1 => reader[r].pc = "none"
        /\ reader[1].pc = "read" /\ reader[1].of = 1
    <2>1. PICK y : y = [[NoReader EXCEPT !.pc = "read"] EXCEPT !.of = 1]
      OBVIOUS
    <2>2. /\ y.pc = "read" /\ y.of = 1 /\ y.prompts = <<>> /\ y.at = 0 /\ y.killed = FALSE
      BY <2>1 DEF NoReader
    <2>3. reader = [[r \in Starts |-> NoReader] EXCEPT ![1] = y]
      BY <1>1, <1>4, <2>1
    <2>4. reader[1] = y /\ \A r \in Starts : r # 1 => reader[r] = NoReader
      BY <1>4, <2>3
    <2>. QED
      BY <2>2, <2>4, NoneIs
  <1>6. Live(1) /\ \A r \in Starts : Live(r) => r = 1
    BY <1>4, <1>5 DEF Live
  <1>7. Procs
    BY <1>2, <1>3, <1>5, <1>6 DEF Procs
  <1>8. Counts /\ CutInv
    BY <1>5, NoElems DEF Counts, CutInv, PromptSet
  <1>9. StopWaits
    BY <1>1, NoneIs DEF StopWaits, Takers
  <1>10. worker.pc = "idle"
    BY <1>1, NoneIs
  <1>11. LingerInv
    BY <1>5, <1>10, NoElems DEF LingerInv, PromptSet
  <1>12. TextInv
    BY <1>2, <1>3, <1>5, <1>6 DEF TextInv, Prompted, Buffered
  <1>13. SendInv
    BY <1>5 DEF SendInv
  <1>14. WholeOrMarked
    BY <1>1 DEF WholeOrMarked
  <1>. QED
    BY <1>7, <1>8, <1>9, <1>11, <1>12, <1>13, <1>14 DEF TextsHold

LEMMA TextsKept ==
  ASSUME Base, TextsHold, Step
  PROVE  TextsHold'
PROOF
  BY ProcsKept, CountsKept, StopKept, CutKept, LingerKept, TextKept, SendKept, WholeKept DEF TextsHold

LEMMA TextsAlways == Spec => []TextsHold
PROOF
  <1>1. Init => TextsHold
    BY TextsInit
  <1>2. Base /\ TextsHold /\ [Next]_vars => TextsHold'
    BY NextIsStep, TextsKept
  <1>. QED
    BY <1>1, <1>2, BaseAlways, PTL DEF Spec

(* An answer in the chat is the whole text of its turn, or says that it is *)
(* not: deltas that do not fit, responses to other prompts in the          *)
(* transcript, drafts, the end of one process and the start of the next,   *)
(* and prompts sent while the turn before is being answered                *)
(* notwithstanding.  Only a turn that was cut off, that was begun while    *)
(* the reader of an earlier process of the session lingered, or for which  *)
(* the transcript was believed though the buffer held no beginning of its  *)
(* text, may be answered otherwise.                                        *)
THEOREM AnswersAreWhole == Spec => []WholeOrMarked
PROOF
  <1>1. TextsHold => WholeOrMarked
    BY DEF TextsHold
  <1>. QED
    BY <1>1, TextsAlways, PTL
=============================================================================
