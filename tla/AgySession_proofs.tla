------------------------- MODULE AgySession_proofs -------------------------
(***************************************************************************)
(* Proofs about the agy sessions of a chat, for any sessions, processes,   *)
(* accounts and bounds.                                                    *)
(***************************************************************************)
EXTENDS AgySession, FiniteSetTheorems, TLAPS

-----------------------------------------------------------------------------
(* The inductive invariants. *)

(* A slot that is in use belongs to a session, and a process that runs is  *)
(* in a slot in use.                                                       *)
Owned == \A p \in Slots :
  /\ proc[p].pc # "free" => proc[p].owner \in Sessions
  /\ proc[p].run => proc[p].pc # "free"

(* The handler at work has a session ...                                   *)
Held == ~At("idle") => handler.s \in Sessions

(* ... and goes from the start of a fresh one to check or idle, from that  *)
(* of another to look or apologise.                                        *)
Bound ==
  handler.pc \in {"start", "spawn"} =>
    handler.then \in (IF handler.fresh THEN {"check", "idle"} ELSE {"look", "apologise"})

(* A reader that restarts an agent knows by which remedy. *)
Planned == \A p \in Slots : proc[p].pc \in {"cut", "rearm", "restart", "spawn"} => proc[p].plan # "none"

Basics == TypeOK /\ Owned /\ Held /\ Bound /\ Planned

(* startMu: whoever is between the test of isAlive and the new process     *)
(* holds it, and the session is dead meanwhile.                            *)
Locks ==
  /\ At("spawn") => starting[handler.s] = Handler
  /\ \A p \in Slots : proc[p].pc = "spawn" => starting[Own(p)] = p
  /\ \A s \in Sessions : starting[s] # Nobody => ~Alive(s)

(* Nobody else knows a fresh session before it has been started. *)
Fresh ==
  handler.pc \in {"start", "spawn"} /\ handler.fresh =>
    ~sess[handler.s].msg /\ \A p \in Slots : Own(p) # handler.s

(* A turn that is shown has a process, a recovery or the handler.          *)
SpinnerHeld == \A s \in Sessions : sess[s].msg => Alive(s) \/ Recovering(s) \/ HandlerOn(s)

(* A context start() has just made is live or cancelled once the process   *)
(* runs.                                                                   *)
Contexts == \A s \in Sessions : Alive(s) => sess[s].ctx # "new"

SessionInv == Basics /\ Locks /\ WithinReach /\ Fresh /\ SpinnerHeld

(* Without stream and quota errors no reader restarts an agent; the        *)
(* handler works on the registered session or on a lost one, it rests      *)
(* after a stop, and a process that runs is registered, about to be killed *)
(* or lost.                                                                *)
Calm == \A p \in Slots :
  /\ proc[p].out \in {"none", "ok", "other"}
  /\ proc[p].pc \in {"free", "reading", "finalizing", "fail", "done"}
HandlerAt == ~At("idle") => handler.s \in {registry} \cup lost
Rests == stopped => At("idle")
Known == \A p \in Slots : proc[p].run => Own(p) \in {registry} \cup doomed \cup lost

StopInv == Calm /\ HandlerAt /\ Rests /\ Known /\ StopIsFinal
-----------------------------------------------------------------------------
(* Types. *)

(* The values the actions put into a session. *)
LEMMA SessionValues ==
  /\ NewSession \in Session
  /\ \A ss \in Session : Exited(ss) \in Session /\ ~Exited(ss).msg /\ Exited(ss).cmd = NoSlot
  /\ \A ss \in Session : Dead(ss) \in Session /\ ~Dead(ss).msg /\ Dead(ss).cmd = NoSlot
<1>1. NewSession \in Session  BY SessionAssumption DEF Session, NewSession
<1>2. ASSUME NEW ss \in Session
      PROVE  Exited(ss) \in Session /\ ~Exited(ss).msg /\ Exited(ss).cmd = NoSlot
  BY DEF Session, Idle, Exited
<1>3. ASSUME NEW ss \in Session
      PROVE  Dead(ss) \in Session /\ ~Dead(ss).msg /\ Dead(ss).cmd = NoSlot
  BY <1>2 DEF Session, Dead
<1>4. QED  BY <1>1, <1>2, <1>3

(* The values the actions put into a slot. *)
LEMMA ProcessValues ==
  /\ NoProcess \in Process
  /\ \A s \in Sessions : Child(s) \in Process
  /\ \A r \in Process : Silent(r) \in Process /\ Done(r) \in Process /\ Prompted(r) \in Process
<1>w. MaxWork \in Nat \ {0}  BY SessionAssumption
<1>0. 0 \in 0 .. MaxWork /\ 0 \in Nat  BY <1>w
<1>1. NoProcess \in Process  BY <1>0 DEF NoProcess, Process, Reader
<1>2. ASSUME NEW s \in Sessions PROVE Child(s) \in Process
  BY <1>0 DEF Child, NoProcess, Process, Reader
<1>3. ASSUME NEW r \in Process PROVE Silent(r) \in Process
  BY <1>0 DEF Silent, Process
<1>4. ASSUME NEW r \in Process PROVE Done(r) \in Process
  BY <1>0 DEF Done, NoProcess, Process, Reader
<1>5. ASSUME NEW r \in Process PROVE Prompted(r) \in Process
  BY <1>w DEF Prompted, Process
<1>6. QED  BY <1>1, <1>2, <1>3, <1>4, <1>5

(* What they leave of it. *)
LEMMA ProcessKeeps ==
  /\ NoProcess.pc = "free" /\ ~NoProcess.run
  /\ \A s \in Sessions : Child(s).owner = s /\ Child(s).pc \in {"reading", "done"} /\ Child(s).run
                         /\ Child(s).out = "none" /\ Child(s).plan = "none"
  /\ \A r \in Process :
       /\ Silent(r).owner = r.owner /\ Silent(r).pc = r.pc /\ Silent(r).plan = r.plan
       /\ ~Silent(r).run /\ Silent(r).out = r.out
       /\ Done(r).owner = r.owner /\ Done(r).pc = "done" /\ Done(r).run = r.run /\ Done(r).out = "none"
       /\ Prompted(r).owner = r.owner /\ Prompted(r).pc = r.pc /\ Prompted(r).plan = r.plan
       /\ Prompted(r).run = r.run /\ Prompted(r).out = r.out
BY DEF NoProcess, Child, Silent, Done, Prompted, Process

(* A kill: every slot keeps its reader, no process starts to run, and that *)
(* of the session does not run any more.                                   *)
LEMMA KillKeeps ==
  ASSUME TypeOK, NEW s
  PROVE  /\ KillProc(s) \in [Slots -> Process]
         /\ \A p \in Slots :
              /\ KillProc(s)[p].owner = proc[p].owner /\ KillProc(s)[p].pc = proc[p].pc
              /\ KillProc(s)[p].plan = proc[p].plan /\ KillProc(s)[p].out = proc[p].out
              /\ KillProc(s)[p].run => proc[p].run
              /\ KillProc(s)[p].run => sess[s].cmd # p
<1>1. proc \in [Slots -> Process]  BY DEF TypeOK
<1>2. CASE Alive(s)
  <2>1. KillProc(s) = [proc EXCEPT ![sess[s].cmd] = Silent(@)]  BY <1>2 DEF KillProc
  <2>2. KillProc(s) \in [Slots -> Process]  BY <2>1, <1>1, ProcessValues
  <2>3. ASSUME NEW p \in Slots
        PROVE  KillProc(s)[p] = IF p = sess[s].cmd THEN Silent(proc[p]) ELSE proc[p]
    BY <2>1, <1>1
  <2>4. QED  BY <2>2, <2>3, <1>1, ProcessKeeps
<1>3. CASE ~Alive(s)
  BY <1>1, <1>3, SessionAssumption DEF KillProc, Alive
<1>4. QED  BY <1>2, <1>3

(* The counts of the pool keep their range. *)
LEMMA TurnsTyped ==
  ASSUME NEW t \in [Accounts -> 0 .. MaxTurns], NEW a
  PROVE  /\ Released(t, a) \in [Accounts -> 0 .. MaxTurns]
         /\ Counted(t, a) \in [Accounts -> 0 .. MaxTurns]
         /\ [t EXCEPT ![a] = 0] \in [Accounts -> 0 .. MaxTurns]
<1>0. MaxTurns \in Nat \ {0}  BY SessionAssumption
<1>1. Released(t, a) \in [Accounts -> 0 .. MaxTurns]
  <2>1. CASE a \in Accounts  BY <1>0, <2>1 DEF Released
  <2>2. CASE a \notin Accounts  BY <2>2 DEF Released
  <2>3. QED  BY <2>1, <2>2
<1>2. Counted(t, a) \in [Accounts -> 0 .. MaxTurns]
  <2>1. CASE a \in Accounts  BY <1>0, <2>1 DEF Counted
  <2>2. CASE a \notin Accounts  BY <2>2 DEF Counted
  <2>3. QED  BY <2>1, <2>2
<1>3. [t EXCEPT ![a] = 0] \in [Accounts -> 0 .. MaxTurns]
  <2>1. 0 \in 0 .. MaxTurns  BY <1>0
  <2>2. QED  BY <2>1
<1>4. QED  BY <1>1, <1>2, <1>3

LEMMA KillTurnsTyped ==
  ASSUME TypeOK, NEW s PROVE KillTurns(s) \in [Accounts -> 0 .. MaxTurns]
BY TurnsTyped DEF TypeOK, KillTurns

(* start() binds an account and counts at most one turn. *)
LEMMA BindTyped ==
  ASSUME TypeOK, NEW s \in Sessions, NEW b \in Bind(s)
  PROVE  b.account \in Accounts \cup {NoAccount} /\ b.turns \in [Accounts -> 0 .. MaxTurns]
<1>1. turns \in [Accounts -> 0 .. MaxTurns] /\ sess[s].account \in Accounts \cup {NoAccount}
  BY DEF TypeOK, Session
<1>2. \A c \in Offered : Counted(turns, c) \in [Accounts -> 0 .. MaxTurns] /\ c \in Accounts
  BY <1>1, TurnsTyped DEF Offered
<1>3. QED  BY <1>1, <1>2 DEF Bind
-----------------------------------------------------------------------------
(* What most steps do.  Only the two calls of start(), by the handler and  *)
(* by a reader, begin a process or take startMu.                           *)

AtWork == {"cut", "rearm", "restart", "spawn", "failover", "giveup", "fail", "park"}

(* A step leaves the slot as it is, though its process may end. *)
Kept(q) ==
  /\ proc'[q].owner = proc[q].owner /\ proc'[q].pc = proc[q].pc /\ proc'[q].plan = proc[q].plan
  /\ proc'[q].run => proc[q].run

(* It kills a session, leaves it alone, or arms it again. *)
Dies(s) ==
  /\ sess'[s].cmd = NoSlot /\ ~sess'[s].msg
  /\ \A q \in Slots : proc'[q].run => Own(q) # s
Stays(s) ==
  /\ sess'[s].cmd = sess[s].cmd
  /\ sess'[s].msg => sess[s].msg
Rearms(s) ==
  /\ sess'[s].cmd = sess[s].cmd
  /\ \E q \in Slots : Own(q) = s /\ proc'[q].owner = s /\ proc'[q].pc \in AtWork

(* What it does to the slots. *)
SlotsStep == \A q \in Slots :
  /\ proc'[q].run => proc[q].run /\ proc'[q].owner = proc[q].owner
  /\ proc'[q].owner \in {proc[q].owner, NoSession}
  /\ proc[q].pc \in AtWork =>
       \/ proc'[q].pc \in AtWork /\ proc'[q].owner = proc[q].owner
       \/ ~sess'[proc[q].owner].msg \/ sess'[proc[q].owner].cmd # NoSlot

(* No reader takes startMu; whoever holds that of a session keeps it, or   *)
(* gives it back.                                                          *)
NoStart == \A q \in Slots :
  proc'[q].pc = "spawn" => proc[q].pc = "spawn" /\ proc'[q].owner = proc[q].owner
Unlocks(s) ==
  /\ starting'[s] = Nobody
  /\ \A q \in Slots : Own(q) = s => proc'[q].pc # "spawn"
  /\ handler'.pc = "spawn" => handler.s # s

(* A reader goes on with its work. *)
Moves(p) ==
  /\ \A q \in Slots \ {p} : Kept(q)
  /\ proc'[p].owner = proc[p].owner
  /\ proc'[p].run => proc[p].run
  /\ proc'[p].pc \notin {"free", "spawn"}
  /\ proc'[p].pc \in {"cut", "rearm", "restart"} => proc'[p].plan # "none"

LEMMA AtWorkIsRecovering ==
  ASSUME TypeOK, NEW s
  PROVE  Recovering(s) <=> \E p \in Slots : Own(p) = s /\ proc[p].pc \in AtWork
<1>1. \A p \in Slots : proc[p].pc \in Reader  BY DEF TypeOK, Process
<1>2. QED  BY <1>1 DEF Recovering, AtWork, Reader

(* A step that begins no process leaves every running process within reach. *)
LEMMA ReachKept ==
  ASSUME SessionInv, SlotsStep, \A s \in Sessions : Dies(s) \/ sess'[s].cmd = sess[s].cmd
  PROVE  WithinReach'
<1>. SUFFICES ASSUME NEW p \in Slots, proc'[p].run PROVE sess'[proc'[p].owner].cmd = p
  BY DEF WithinReach, Own
<1>1. proc[p].run /\ proc'[p].owner = proc[p].owner  BY DEF SlotsStep
<1>2. sess[proc[p].owner].cmd = p  BY <1>1 DEF SessionInv, WithinReach, Own
<1>3. proc[p].owner \in Sessions  BY <1>1 DEF SessionInv, Basics, Owned
<1>4. ~Dies(proc[p].owner)  BY DEF Dies, Own
<1>5. QED  BY <1>1, <1>2, <1>3, <1>4

(* Who holds startMu goes on holding it. *)
LEMMA LocksKept ==
  ASSUME SessionInv, NoStart, \A s \in Sessions : Dies(s) \/ sess'[s].cmd = sess[s].cmd,
         \A s \in Sessions : starting'[s] = starting[s] \/ Unlocks(s),
         handler'.pc = "spawn" => handler' = handler
  PROVE  Locks'
<1>1. handler'.pc = "spawn" => starting'[handler'.s] = Handler
  <2>1. ASSUME handler'.pc = "spawn" PROVE starting'[handler'.s] = Handler
    <3>1. handler' = handler  BY <2>1
    <3>2. handler.s \in Sessions /\ starting[handler.s] = Handler
      BY <2>1, <3>1 DEF SessionInv, Basics, Held, Locks, At
    <3>3. QED  BY <2>1, <3>1, <3>2 DEF Unlocks
  <2>2. QED  BY <2>1
<1>2. ASSUME NEW p \in Slots, proc'[p].pc = "spawn" PROVE starting'[proc'[p].owner] = p
  <2>1. proc[p].pc = "spawn" /\ proc'[p].owner = Own(p)  BY <1>2 DEF NoStart, Own
  <2>2. Own(p) \in Sessions /\ starting[Own(p)] = p
    BY <2>1 DEF SessionInv, Basics, Owned, Locks, Own
  <2>3. QED  BY <1>2, <2>1, <2>2 DEF Unlocks
<1>3. ASSUME NEW s \in Sessions, starting'[s] # Nobody PROVE sess'[s].cmd = NoSlot
  <2>1. sess[s].cmd = NoSlot  BY <1>3 DEF SessionInv, Locks, Alive, Unlocks
  <2>2. QED  BY <2>1 DEF Dies
<1>4. QED  BY <1>1, <1>2, <1>3 DEF Locks, Alive, Own, At

(* A turn that is shown stays with whoever watches it. *)
LEMMA SpinnerKept ==
  ASSUME SessionInv, TypeOK', SlotsStep,
         \A s \in Sessions : Dies(s) \/ Stays(s) \/ Rearms(s) \/ HandlerOn(s)',
         \A s \in Sessions : HandlerOn(s) => HandlerOn(s)' \/ Alive(s)' \/ ~sess'[s].msg
  PROVE  SpinnerHeld'
<1>. SUFFICES ASSUME NEW s \in Sessions, sess'[s].msg
              PROVE  Alive(s)' \/ Recovering(s)' \/ HandlerOn(s)'
  BY DEF SpinnerHeld
<1>t. TypeOK  BY DEF SessionInv, Basics
<1>0. Recovering(s)' <=> \E p \in Slots : proc'[p].owner = s /\ proc'[p].pc \in AtWork
  <2>1. \A p \in Slots : proc'[p].pc \in Reader  BY DEF TypeOK, Process
  <2>2. QED  BY <2>1 DEF Recovering, AtWork, Reader, Own
<1>1. CASE Rearms(s)  BY <1>1, <1>0 DEF Rearms
<1>2. CASE Stays(s)
  <2>1. Alive(s) \/ Recovering(s) \/ HandlerOn(s)  BY <1>2 DEF Stays, SessionInv, SpinnerHeld
  <2>2. CASE Alive(s)  BY <2>2, <1>2 DEF Stays, Alive
  <2>3. CASE Recovering(s)
    <3>1. PICK p \in Slots : proc[p].owner = s /\ proc[p].pc \in AtWork
      BY <2>3, <1>t, AtWorkIsRecovering DEF Own
    <3>2. (proc'[p].pc \in AtWork /\ proc'[p].owner = s) \/ sess'[s].cmd # NoSlot
      BY <3>1 DEF SlotsStep
    <3>3. QED  BY <3>2, <1>0 DEF Alive
  <2>4. CASE HandlerOn(s)  BY <2>4
  <2>5. QED  BY <2>1, <2>2, <2>3, <2>4
<1>3. CASE Dies(s)  BY <1>3 DEF Dies
<1>4. QED  BY <1>1, <1>2, <1>3

(* A fresh session stays unknown while others act. *)
LEMMA FreshKept ==
  ASSUME SessionInv, SlotsStep, \A s \in Sessions : Dies(s) \/ Stays(s) \/ Rearms(s),
         handler' = handler
  PROVE  Fresh'
<1>. SUFFICES ASSUME handler.pc \in {"start", "spawn"}, handler.fresh
              PROVE  ~sess'[handler.s].msg /\ \A p \in Slots : proc'[p].owner # handler.s
  BY DEF Fresh, Own
<1>1. handler.s \in Sessions  BY DEF SessionInv, Basics, Held, At
<1>2. ~sess[handler.s].msg /\ \A p \in Slots : proc[p].owner # handler.s
  BY DEF SessionInv, Fresh, Own
<1>3. ~sess'[handler.s].msg  BY <1>1, <1>2 DEF Dies, Stays, Rearms, Own
<1>4. \A p \in Slots : proc'[p].owner # handler.s  BY <1>1, <1>2, SessionAssumption DEF SlotsStep
<1>5. QED  BY <1>3, <1>4

(* A step of somebody else than the handler that is no start().            *)
LEMMA QuietKeeps ==
  ASSUME SessionInv, Basics', SlotsStep, NoStart,
         \A s \in Sessions : Dies(s) \/ Stays(s) \/ Rearms(s), UNCHANGED <<starting, handler>>
  PROVE  SessionInv'
<1>0. \A s \in Sessions : Dies(s) \/ sess'[s].cmd = sess[s].cmd  BY DEF Stays, Rearms
<1>1. \A s \in Sessions : HandlerOn(s) => HandlerOn(s)'  BY DEF HandlerOn
<1>2. TypeOK'  BY DEF Basics
<1>3. WithinReach' /\ Locks'  BY <1>0, ReachKept, LocksKept
<1>4. SpinnerHeld'  BY <1>1, <1>2, SpinnerKept
<1>5. QED  BY <1>3, <1>4, FreshKept DEF SessionInv

(* The step of a reader. *)
LEMMA ReaderKeeps ==
  ASSUME SessionInv, TypeOK', UNCHANGED <<starting, handler>>,
         NEW p \in Slots, proc[p].pc # "free", Moves(p),
         \A s \in Sessions : Dies(s) \/ Stays(s) \/ Rearms(s),
         proc[p].pc \in AtWork => \/ proc'[p].pc \in AtWork \/ Dies(Own(p))
                                  \/ sess'[Own(p)].cmd # NoSlot
  PROVE  SessionInv'
<1>1. Owned'
  <2>1. \A q \in Slots \ {p} : /\ proc'[q].pc # "free" => proc'[q].owner \in Sessions
                               /\ proc'[q].run => proc'[q].pc # "free"
    BY DEF Moves, Kept, SessionInv, Basics, Owned
  <2>2. proc'[p].owner \in Sessions /\ proc'[p].pc # "free"
    BY DEF Moves, SessionInv, Basics, Owned
  <2>3. QED  BY <2>1, <2>2 DEF Owned
<1>2. Planned'
  <2>1. \A q \in Slots \ {p} :
          proc'[q].pc \in {"cut", "rearm", "restart", "spawn"} => proc'[q].plan # "none"
    BY DEF Moves, Kept, SessionInv, Basics, Planned
  <2>2. proc'[p].pc \in {"cut", "rearm", "restart", "spawn"} => proc'[p].plan # "none"
    BY DEF Moves
  <2>3. QED  BY <2>1, <2>2 DEF Planned
<1>3. Held' /\ Bound'  BY DEF SessionInv, Basics, Held, Bound, At
<1>4. SlotsStep /\ NoStart
  <2>1. ASSUME NEW q \in Slots \ {p}
        PROVE  /\ proc'[q].run => proc[q].run /\ proc'[q].owner = proc[q].owner
               /\ proc'[q].owner \in {proc[q].owner, NoSession}
               /\ proc'[q].pc = "spawn" => proc[q].pc = "spawn" /\ proc'[q].owner = proc[q].owner
               /\ proc[q].pc \in AtWork => proc'[q].pc \in AtWork /\ proc'[q].owner = proc[q].owner
    BY DEF Moves, Kept
  <2>2. /\ proc'[p].run => proc[p].run /\ proc'[p].owner = proc[p].owner
        /\ proc'[p].owner \in {proc[p].owner, NoSession}
        /\ proc'[p].pc # "spawn"
        /\ proc[p].pc \in AtWork =>
             \/ proc'[p].pc \in AtWork /\ proc'[p].owner = proc[p].owner
             \/ ~sess'[proc[p].owner].msg \/ sess'[proc[p].owner].cmd # NoSlot
    BY DEF Moves, Dies, Own
  <2>3. QED  BY <2>1, <2>2 DEF SlotsStep, NoStart
<1>5. Basics'  BY <1>1, <1>2, <1>3 DEF Basics
<1>6. QED  BY <1>4, <1>5, QuietKeeps
-----------------------------------------------------------------------------
(* The steps of a reader, other than start(). *)

LEMMA ReaderHas ==
  ASSUME SessionInv, NEW p \in Slots, proc[p].pc # "free"
  PROVE  /\ TypeOK /\ proc \in [Slots -> Process] /\ sess \in [Sessions -> Session]
         /\ proc[p] \in Process /\ Own(p) \in Sessions /\ sess[Own(p)] \in Session
BY DEF SessionInv, Basics, TypeOK, Owned, Own

(* The answer has come: the message is disarmed. *)
LEMMA ReadOkKeeps ==
  ASSUME SessionInv, NEW p \in Slots, ReadOk(p) PROVE SessionInv'
<1>. DEFINE s == Own(p)
<1>0. proc[p].pc = "reading"  BY DEF ReadOk, Reading
<1>h. /\ TypeOK /\ proc \in [Slots -> Process] /\ sess \in [Sessions -> Session]
      /\ proc[p] \in Process /\ s \in Sessions /\ sess[s] \in Session
  BY <1>0, ReaderHas
<1>a. /\ sess' = [sess EXCEPT ![s] = [sess[s] EXCEPT !.msg = FALSE]]
      /\ proc' = [proc EXCEPT ![p] = [proc[p] EXCEPT !.out = "none", !.pc = "finalizing"]]
      /\ UNCHANGED <<ReaderVars, turns>>
  BY <1>h DEF ReadOk
<1>1. [sess[s] EXCEPT !.msg = FALSE] \in Session  BY <1>h DEF Session
<1>2. [proc[p] EXCEPT !.out = "none", !.pc = "finalizing"] \in Process
  BY <1>h DEF Process, Reader
<1>3. TypeOK'  BY <1>a, <1>h, <1>1, <1>2 DEF TypeOK, ReaderVars, adminVars, userVars
<1>4. Moves(p)  BY <1>a, <1>h DEF Moves, Kept, Process, Own
<1>5. \A x \in Sessions : Stays(x)  BY <1>a, <1>h DEF Stays, Session
<1>6. QED  BY <1>0, <1>a, <1>3, <1>4, <1>5, ReaderKeeps DEF AtWork, ReaderVars
(* The answer has been sent: the turn ends.                               *)
LEMMA FinalizeKeeps ==
  ASSUME SessionInv, NEW p \in Slots, Finalize(p) PROVE SessionInv'
<1>. DEFINE s == Own(p)
<1>0. proc[p].pc = "finalizing"  BY DEF Finalize, Reading
<1>h. /\ TypeOK /\ proc \in [Slots -> Process] /\ sess \in [Sessions -> Session]
      /\ proc[p] \in Process /\ s \in Sessions /\ sess[s] \in Session
  BY <1>0, ReaderHas
<1>a. /\ sess' = [sess EXCEPT ![s] = [sess[s] EXCEPT !.turn = FALSE, !.retries = 0, !.failovers = 0]]
      /\ proc' = [proc EXCEPT ![p] = [proc[p] EXCEPT !.pc = "reading"]]
      /\ turns' = Released(turns, sess[s].account) /\ UNCHANGED ReaderVars
  BY <1>h DEF Finalize
<1>1. [sess[s] EXCEPT !.turn = FALSE, !.retries = 0, !.failovers = 0] \in Session  BY <1>h DEF Session
<1>2. [proc[p] EXCEPT !.pc = "reading"] \in Process
  BY <1>h DEF Process, Reader
<1>t. turns' \in [Accounts -> 0 .. MaxTurns]  BY <1>a, <1>h, TurnsTyped DEF TypeOK
<1>3. TypeOK'  BY <1>a, <1>h, <1>1, <1>t, <1>2 DEF TypeOK, ReaderVars, adminVars, userVars
<1>4. Moves(p)  BY <1>0, <1>a, <1>h DEF Moves, Kept, Process, Own
<1>5. \A x \in Sessions : Stays(x)  BY <1>a, <1>h DEF Stays, Session
<1>6. QED  BY <1>0, <1>a, <1>3, <1>4, <1>5, ReaderKeeps DEF AtWork, ReaderVars

(* An error nobody is told of.                                            *)
LEMMA ReadNothingKeeps ==
  ASSUME SessionInv, NEW p \in Slots, ReadNothing(p) PROVE SessionInv'
<1>. DEFINE s == Own(p)
<1>0. proc[p].pc = "reading"  BY DEF ReadNothing, Reading
<1>h. /\ TypeOK /\ proc \in [Slots -> Process] /\ sess \in [Sessions -> Session]
      /\ proc[p] \in Process /\ s \in Sessions /\ sess[s] \in Session
  BY <1>0, ReaderHas
<1>a. /\ sess' = sess
      /\ proc' = [proc EXCEPT ![p] = [proc[p] EXCEPT !.out = "none"]]
      /\ UNCHANGED <<ReaderVars, turns>>
  BY <1>h DEF ReadNothing
<1>2. [proc[p] EXCEPT !.out = "none"] \in Process
  BY <1>h DEF Process, Reader
<1>3. TypeOK'  BY <1>a, <1>h, <1>2 DEF TypeOK, ReaderVars, adminVars, userVars
<1>4. Moves(p)  BY <1>0, <1>a, <1>h DEF Moves, Kept, Process, Own
<1>5. \A x \in Sessions : Stays(x)  BY <1>a, <1>h DEF Stays, Session
<1>6. QED  BY <1>0, <1>a, <1>3, <1>4, <1>5, ReaderKeeps DEF AtWork, ReaderVars

(* Another error is to be reported.                                       *)
LEMMA ReadOtherKeeps ==
  ASSUME SessionInv, NEW p \in Slots, ReadOther(p) PROVE SessionInv'
<1>. DEFINE s == Own(p)
<1>0. proc[p].pc = "reading"  BY DEF ReadOther, Reading
<1>h. /\ TypeOK /\ proc \in [Slots -> Process] /\ sess \in [Sessions -> Session]
      /\ proc[p] \in Process /\ s \in Sessions /\ sess[s] \in Session
  BY <1>0, ReaderHas
<1>a. /\ sess' = sess
      /\ proc' = [proc EXCEPT ![p] = [proc[p] EXCEPT !.out = "none", !.pc = "fail"]]
      /\ UNCHANGED <<ReaderVars, turns>>
  BY <1>h DEF ReadOther
<1>2. [proc[p] EXCEPT !.out = "none", !.pc = "fail"] \in Process
  BY <1>h DEF Process, Reader
<1>3. TypeOK'  BY <1>a, <1>h, <1>2 DEF TypeOK, ReaderVars, adminVars, userVars
<1>4. Moves(p)  BY <1>0, <1>a, <1>h DEF Moves, Kept, Process, Own
<1>5. \A x \in Sessions : Stays(x)  BY <1>a, <1>h DEF Stays, Session
<1>6. QED  BY <1>0, <1>a, <1>3, <1>4, <1>5, ReaderKeeps DEF AtWork, ReaderVars

(* A kill leaves no process of the session running. *)
LEMMA KillDies ==
  ASSUME SessionInv, NEW s \in Sessions, sess' = [sess EXCEPT ![s] = Dead(@)],
         \A q \in Slots : proc'[q].run => KillProc(s)[q].run
  PROVE  Dies(s) /\ \A x \in Sessions \ {s} : Stays(x)
<1>1. TypeOK /\ sess \in [Sessions -> Session]  BY DEF SessionInv, Basics, TypeOK
<1>2. sess'[s] = Dead(sess[s]) /\ \A x \in Sessions \ {s} : sess'[x] = sess[x]  BY <1>1
<1>3. ASSUME NEW q \in Slots, proc'[q].run PROVE Own(q) # s
  <2>1. proc[q].run /\ sess[s].cmd # q  BY <1>1, <1>3, KillKeeps
  <2>2. QED  BY <2>1 DEF SessionInv, WithinReach
<1>4. QED  BY <1>1, <1>2, <1>3, SessionValues DEF Dies, Stays

(* It is, and the session is killed.                                      *)
LEMMA FailKeeps ==
  ASSUME SessionInv, NEW p \in Slots, Fail(p) PROVE SessionInv'
<1>. DEFINE s == Own(p)
<1>0. proc[p].pc = "fail"  BY DEF Fail
<1>h. /\ TypeOK /\ proc \in [Slots -> Process] /\ sess \in [Sessions -> Session]
      /\ proc[p] \in Process /\ s \in Sessions /\ sess[s] \in Session
  BY <1>0, ReaderHas
<1>p. PICK k : k = KillProc(s)  OBVIOUS
<1>k. /\ k \in [Slots -> Process]
      /\ \A q \in Slots : /\ k[q].owner = proc[q].owner /\ k[q].pc = proc[q].pc
                          /\ k[q].plan = proc[q].plan
                          /\ k[q].run => proc[q].run
  BY <1>h, <1>p, KillKeeps
<1>r. PICK r : r = k[p]  OBVIOUS
<1>f. /\ r \in Process /\ r.owner = proc[p].owner /\ r.plan = proc[p].plan
      /\ r.run => proc[p].run
  BY <1>k, <1>r
<1>a. /\ sess' = [sess EXCEPT ![s] = Dead(@)]
      /\ proc' = [k EXCEPT ![p] = [r EXCEPT !.pc = "reading", !.plan = "none"]]
      /\ turns' = KillTurns(s)
      /\ UNCHANGED <<registry, starting, handler, doomed, stalled, resting, resets, asked, stopped, lost>>
  BY <1>h, <1>k, <1>p, <1>r DEF Fail, ReaderVars, adminVars, userVars
<1>2. [r EXCEPT !.pc = "reading", !.plan = "none"] \in Process  BY <1>f DEF Process, Reader
<1>t. KillTurns(s) \in [Accounts -> 0 .. MaxTurns] /\ Dead(sess[s]) \in Session
  BY <1>h, KillTurnsTyped, SessionValues
<1>s. sess' \in [Sessions -> Session] /\ proc' \in [Slots -> Process]  BY <1>a, <1>h, <1>k, <1>2, <1>t
<1>3. TypeOK'  BY <1>a, <1>h, <1>s, <1>t DEF TypeOK
<1>d. /\ proc'[p].owner = proc[p].owner /\ proc'[p].pc = "reading"
      /\ proc'[p].run => k[p].run
  BY <1>a, <1>f, <1>k, <1>r DEF Process
<1>e. \A q \in Slots \ {p} : proc'[q] = k[q]  BY <1>a, <1>k
<1>o. \A q \in Slots \ {p} : Kept(q)  BY <1>e, <1>k DEF Kept
<1>4. Moves(p)  BY <1>d, <1>f, <1>o, <1>r DEF Moves
<1>5. Dies(s) /\ \A x \in Sessions \ {s} : Stays(x)
  <2>1. \A q \in Slots : proc'[q].run => k[q].run  BY <1>d, <1>e
  <2>2. QED  BY <2>1, <1>a, <1>h, <1>p, KillDies
<1>6. QED  BY <1>0, <1>a, <1>3, <1>4, <1>5, ReaderKeeps DEF AtWork

(* A recovery begins with a kill.                                         *)
LEMMA CutKeeps ==
  ASSUME SessionInv, NEW p \in Slots, Cut(p) PROVE SessionInv'
<1>. DEFINE s == Own(p)
<1>0. proc[p].pc = "cut"  BY DEF Cut
<1>h. /\ TypeOK /\ proc \in [Slots -> Process] /\ sess \in [Sessions -> Session]
      /\ proc[p] \in Process /\ s \in Sessions /\ sess[s] \in Session
  BY <1>0, ReaderHas
<1>p. PICK k : k = KillProc(s)  OBVIOUS
<1>k. /\ k \in [Slots -> Process]
      /\ \A q \in Slots : /\ k[q].owner = proc[q].owner /\ k[q].pc = proc[q].pc
                          /\ k[q].plan = proc[q].plan
                          /\ k[q].run => proc[q].run
  BY <1>h, <1>p, KillKeeps
<1>r. PICK r : r = k[p]  OBVIOUS
<1>f. /\ r \in Process /\ r.owner = proc[p].owner /\ r.plan = proc[p].plan
      /\ r.run => proc[p].run
  BY <1>k, <1>r
<1>a. /\ sess' = [sess EXCEPT ![s] = Dead(@)]
      /\ proc' = [k EXCEPT ![p] = [r EXCEPT !.pc = "rearm"]]
      /\ turns' = KillTurns(s)
      /\ UNCHANGED <<registry, starting, handler, doomed, stalled, resting, resets, asked, stopped, lost>>
  BY <1>h, <1>k, <1>p, <1>r DEF Cut, ReaderVars, adminVars, userVars
<1>2. [r EXCEPT !.pc = "rearm"] \in Process  BY <1>f DEF Process, Reader
<1>t. KillTurns(s) \in [Accounts -> 0 .. MaxTurns] /\ Dead(sess[s]) \in Session
  BY <1>h, KillTurnsTyped, SessionValues
<1>s. sess' \in [Sessions -> Session] /\ proc' \in [Slots -> Process]  BY <1>a, <1>h, <1>k, <1>2, <1>t
<1>3. TypeOK'  BY <1>a, <1>h, <1>s, <1>t DEF TypeOK
<1>d. /\ proc'[p].owner = proc[p].owner /\ proc'[p].pc = "rearm"
      /\ proc'[p].run => k[p].run
  BY <1>a, <1>f, <1>k, <1>r DEF Process
<1>e. \A q \in Slots \ {p} : proc'[q] = k[q]  BY <1>a, <1>k
<1>n. proc'[p].plan # "none"
  <2>1. proc'[p].plan = proc[p].plan  BY <1>a, <1>f, <1>k DEF Process
  <2>2. QED  BY <2>1, <1>0 DEF SessionInv, Basics, Planned
<1>o. \A q \in Slots \ {p} : Kept(q)  BY <1>e, <1>k DEF Kept
<1>4. Moves(p)  BY <1>d, <1>f, <1>o, <1>n, <1>r DEF Moves
<1>5. Dies(s) /\ \A x \in Sessions \ {s} : Stays(x)
  <2>1. \A q \in Slots : proc'[q].run => k[q].run  BY <1>d, <1>e
  <2>2. QED  BY <2>1, <1>a, <1>h, <1>p, KillDies
<1>6. QED  BY <1>0, <1>a, <1>3, <1>4, <1>5, ReaderKeeps DEF AtWork

(* No remedy is left for a stream.                                        *)
LEMMA GiveUpKeeps ==
  ASSUME SessionInv, NEW p \in Slots, GiveUp(p) PROVE SessionInv'
<1>. DEFINE s == Own(p)
<1>0. proc[p].pc = "giveup"  BY DEF GiveUp
<1>h. /\ TypeOK /\ proc \in [Slots -> Process] /\ sess \in [Sessions -> Session]
      /\ proc[p] \in Process /\ s \in Sessions /\ sess[s] \in Session
  BY <1>0, ReaderHas
<1>p. PICK k : k = KillProc(s)  OBVIOUS
<1>k. /\ k \in [Slots -> Process]
      /\ \A q \in Slots : /\ k[q].owner = proc[q].owner /\ k[q].pc = proc[q].pc
                          /\ k[q].plan = proc[q].plan
                          /\ k[q].run => proc[q].run
  BY <1>h, <1>p, KillKeeps
<1>r. PICK r : r = k[p]  OBVIOUS
<1>f. /\ r \in Process /\ r.owner = proc[p].owner /\ r.plan = proc[p].plan
      /\ r.run => proc[p].run
  BY <1>k, <1>r
<1>a. /\ sess' = [sess EXCEPT ![s] = Dead(@)]
      /\ proc' = [k EXCEPT ![p] = [r EXCEPT !.pc = "reading", !.plan = "none"]]
      /\ UNCHANGED <<turns, registry, starting, handler, doomed, stalled, resting, resets, asked, stopped, lost>>
  BY <1>h, <1>k, <1>p, <1>r DEF GiveUp, ReaderVars, adminVars, userVars
<1>2. [r EXCEPT !.pc = "reading", !.plan = "none"] \in Process  BY <1>f DEF Process, Reader
<1>t. KillTurns(s) \in [Accounts -> 0 .. MaxTurns] /\ Dead(sess[s]) \in Session
  BY <1>h, KillTurnsTyped, SessionValues
<1>s. sess' \in [Sessions -> Session] /\ proc' \in [Slots -> Process]  BY <1>a, <1>h, <1>k, <1>2, <1>t
<1>3. TypeOK'  BY <1>a, <1>h, <1>s, <1>t DEF TypeOK
<1>d. /\ proc'[p].owner = proc[p].owner /\ proc'[p].pc = "reading"
      /\ proc'[p].run => k[p].run
  BY <1>a, <1>f, <1>k, <1>r DEF Process
<1>e. \A q \in Slots \ {p} : proc'[q] = k[q]  BY <1>a, <1>k
<1>o. \A q \in Slots \ {p} : Kept(q)  BY <1>e, <1>k DEF Kept
<1>4. Moves(p)  BY <1>d, <1>f, <1>o, <1>r DEF Moves
<1>5. Dies(s) /\ \A x \in Sessions \ {s} : Stays(x)
  <2>1. \A q \in Slots : proc'[q].run => k[q].run  BY <1>d, <1>e
  <2>2. QED  BY <2>1, <1>a, <1>h, <1>p, KillDies
<1>6. QED  BY <1>0, <1>a, <1>3, <1>4, <1>5, ReaderKeeps DEF AtWork

(* Safe parking.                                                          *)
LEMMA ParkKeeps ==
  ASSUME SessionInv, NEW p \in Slots, Park(p) PROVE SessionInv'
<1>. DEFINE s == Own(p)
<1>0. proc[p].pc = "park"  BY DEF Park
<1>h. /\ TypeOK /\ proc \in [Slots -> Process] /\ sess \in [Sessions -> Session]
      /\ proc[p] \in Process /\ s \in Sessions /\ sess[s] \in Session
  BY <1>0, ReaderHas
<1>p. PICK k : k = KillProc(s)  OBVIOUS
<1>k. /\ k \in [Slots -> Process]
      /\ \A q \in Slots : /\ k[q].owner = proc[q].owner /\ k[q].pc = proc[q].pc
                          /\ k[q].plan = proc[q].plan
                          /\ k[q].run => proc[q].run
  BY <1>h, <1>p, KillKeeps
<1>r. PICK r : r = k[p]  OBVIOUS
<1>f. /\ r \in Process /\ r.owner = proc[p].owner /\ r.plan = proc[p].plan
      /\ r.run => proc[p].run
  BY <1>k, <1>r
<1>a. /\ sess' = [sess EXCEPT ![s] = Dead(@)]
      /\ proc' = [k EXCEPT ![p] = Done(r)]
      /\ turns' = KillTurns(s) /\ registry' = NoSession
      /\ UNCHANGED <<starting, handler, doomed, stalled, resting, resets, asked, stopped, lost>>
  BY <1>h, <1>k, <1>p, <1>r DEF Park, ReaderVars, adminVars, userVars
<1>2. Done(r) \in Process  BY <1>f, ProcessValues
<1>t. KillTurns(s) \in [Accounts -> 0 .. MaxTurns] /\ Dead(sess[s]) \in Session
  BY <1>h, KillTurnsTyped, SessionValues
<1>s. sess' \in [Sessions -> Session] /\ proc' \in [Slots -> Process]  BY <1>a, <1>h, <1>k, <1>2, <1>t
<1>3. TypeOK'  BY <1>a, <1>h, <1>s, <1>t DEF TypeOK
<1>d. /\ proc'[p].owner = proc[p].owner /\ proc'[p].pc = "done"
      /\ proc'[p].run => k[p].run
  BY <1>a, <1>f, <1>k, <1>r, ProcessKeeps
<1>e. \A q \in Slots \ {p} : proc'[q] = k[q]  BY <1>a, <1>k
<1>o. \A q \in Slots \ {p} : Kept(q)  BY <1>e, <1>k DEF Kept
<1>4. Moves(p)  BY <1>d, <1>f, <1>o, <1>r DEF Moves
<1>5. Dies(s) /\ \A x \in Sessions \ {s} : Stays(x)
  <2>1. \A q \in Slots : proc'[q].run => k[q].run  BY <1>d, <1>e
  <2>2. QED  BY <2>1, <1>a, <1>h, <1>p, KillDies
<1>6. QED  BY <1>0, <1>a, <1>3, <1>4, <1>5, ReaderKeeps DEF AtWork
(* A stream that broke is tried again, or a failover is. *)
LEMMA ReadStreamKeeps ==
  ASSUME SessionInv, NEW p \in Slots, ReadStream(p) PROVE SessionInv'
<1>0. proc[p].pc = "reading"  BY DEF ReadStream, Reading
<1>h. /\ TypeOK /\ proc \in [Slots -> Process] /\ sess \in [Sessions -> Session]
      /\ proc[p] \in Process /\ Own(p) \in Sessions /\ sess[Own(p)] \in Session
  BY <1>0, ReaderHas
<1>s. PICK s : s = Own(p)  OBVIOUS
<1>f. /\ sess[s].retries \in Nat /\ sess[s].failovers \in Nat /\ sess[s].msg \in BOOLEAN
      /\ sess[s].account \in Accounts \cup {NoAccount} /\ s \in Sessions /\ sess[s] \in Session
  BY <1>h, <1>s DEF Session
<1>u. UNCHANGED <<registry, starting, handler, doomed, stalled, resting, resets, asked, stopped, lost, turns>>
  BY DEF ReadStream, ReaderVars, adminVars, userVars
<1>r. PICK r : r = Remembers(p, s)  OBVIOUS
<1>m. r \in Process /\ r.owner = Own(p) /\ r.run = proc[p].run
  BY <1>h, <1>f, <1>r DEF Remembers, Process, Own
<1>1. CASE /\ sess' = [sess EXCEPT ![s] = [sess[s] EXCEPT !.retries = @ + 1]]
           /\ proc' = [proc EXCEPT ![p] =
                [r EXCEPT !.pc = "cut", !.plan = "retry", !.tries = sess[s].retries + 1]]
  <2>0. sess[s].retries + 1 \in Nat  BY <1>f
  <2>1. [sess[s] EXCEPT !.retries = @ + 1] \in Session  BY <1>f, <2>0 DEF Session
  <2>2. [r EXCEPT !.pc = "cut", !.plan = "retry", !.tries = sess[s].retries + 1] \in Process
    BY <1>m, <2>0 DEF Process, Reader
  <2>3. TypeOK'  BY <1>1, <1>h, <1>u, <2>1, <2>2 DEF TypeOK
  <2>4. Moves(p)  BY <1>1, <1>h, <1>m DEF Moves, Kept, Process, Own
  <2>5. \A x \in Sessions : Stays(x)  BY <1>1, <1>h, <1>f DEF Stays, Session
  <2>6. QED  BY <1>0, <1>u, <2>3, <2>4, <2>5, ReaderKeeps DEF AtWork
<1>2. CASE /\ sess' = sess
           /\ proc' = [proc EXCEPT ![p] = [r EXCEPT !.pc = "failover"]]
  <2>2. [r EXCEPT !.pc = "failover"] \in Process  BY <1>m DEF Process, Reader
  <2>3. TypeOK'  BY <1>2, <1>h, <1>u, <2>2 DEF TypeOK
  <2>4. Moves(p)  BY <1>2, <1>h, <1>m DEF Moves, Kept, Process, Own
  <2>5. \A x \in Sessions : Stays(x)  BY <1>2 DEF Stays
  <2>6. QED  BY <1>0, <1>u, <2>3, <2>4, <2>5, ReaderKeeps DEF AtWork
<1>3. QED
  <2>1. \/ sess' = [sess EXCEPT ![s].retries = @ + 1] /\ proc' = [proc EXCEPT ![p] =
                [r EXCEPT !.pc = "cut", !.plan = "retry", !.tries = sess[s].retries + 1]]
        \/ sess' = sess /\ proc' = [proc EXCEPT ![p] = [r EXCEPT !.pc = "failover"]]
    BY <1>r, <1>s DEF ReadStream
  <2>2. [sess EXCEPT ![s].retries = @ + 1] = [sess EXCEPT ![s] = [sess[s] EXCEPT !.retries = @ + 1]]
    OBVIOUS
  <2>3. QED  BY <2>1, <2>2, <1>1, <1>2

(* A failover takes another account, or the reader goes on as it is told. *)
LEMMA RotatesDoes ==
  ASSUME TypeOK, NEW p \in Slots, NEW pr \in Process, NEW limit, NEW plan \in {"failover", "rotate"},
         NEW tries \in Nat, NEW otherwise \in Reader, RotatesOr(p, pr, limit, plan, tries, otherwise)
  PROVE  /\ turns' \in [Accounts -> 0 .. MaxTurns] /\ resting' \subseteq Accounts
         /\ \E r \in Process :
              /\ proc' = [proc EXCEPT ![p] = r] /\ r.owner = pr.owner /\ r.run = pr.run
              /\ r.pc \in {"cut", otherwise} /\ (r.pc = otherwise \/ r.plan = plan)
<1>h. turns \in [Accounts -> 0 .. MaxTurns] /\ resting \subseteq Accounts  BY DEF TypeOK
<1>1. [pr EXCEPT !.pc = otherwise] \in Process  BY DEF Process
<1>2. CASE pr.hops < limit /\ pr.acc # NoAccount
  <2>1. Rotate(p, pr, plan, tries, otherwise)  BY <1>2 DEF RotatesOr
  <2>2. pr.acc \in Accounts /\ pr.hops \in Nat  BY <1>2 DEF Process
  <2>3. PICK c : c = [turns EXCEPT ![pr.acc] = 0]  OBVIOUS
  <2>4. c \in [Accounts -> 0 .. MaxTurns]  BY <1>h, <2>3, TurnsTyped
  <2>5. resting' \subseteq Accounts  BY <1>h, <2>1, <2>2 DEF Rotate
  <2>6. CASE \E b \in Offered \ {pr.acc} :
               /\ turns' = Counted(c, b)
               /\ proc' = [proc EXCEPT ![p] = [pr EXCEPT
                    !.pc = "cut", !.plan = plan, !.tries = tries, !.hops = @ + 1, !.next = b]]
    <3>1. PICK b \in Offered \ {pr.acc} :
               /\ turns' = Counted(c, b)
               /\ proc' = [proc EXCEPT ![p] = [pr EXCEPT
                    !.pc = "cut", !.plan = plan, !.tries = tries, !.hops = @ + 1, !.next = b]]
      BY <2>6
    <3>2. b \in Accounts  BY DEF Offered
    <3>3. PICK r : r = [pr EXCEPT
                    !.pc = "cut", !.plan = plan, !.tries = tries, !.hops = @ + 1, !.next = b]
      OBVIOUS
    <3>0. pr.hops + 1 \in Nat  BY <2>2
    <3>4. r \in Process  BY <3>0, <3>2, <3>3 DEF Process, Reader
    <3>5. r.owner = pr.owner /\ r.run = pr.run /\ r.pc = "cut" /\ r.plan = plan
      BY <3>3 DEF Process
    <3>6. turns' \in [Accounts -> 0 .. MaxTurns]  BY <3>1, <2>4, TurnsTyped
    <3>7. QED  BY <3>1, <3>3, <3>4, <3>5, <3>6, <2>5
  <2>7. CASE turns' = c /\ proc' = [proc EXCEPT ![p] = [pr EXCEPT !.pc = otherwise]]
    <3>1. PICK r : r = [pr EXCEPT !.pc = otherwise]  OBVIOUS
    <3>2. r.owner = pr.owner /\ r.run = pr.run /\ r.pc = otherwise  BY <3>1 DEF Process
    <3>3. QED  BY <2>7, <3>1, <3>2, <1>1, <2>4, <2>5
  <2>8. QED  BY <2>1, <2>3, <2>6, <2>7 DEF Rotate
<1>3. CASE ~(pr.hops < limit /\ pr.acc # NoAccount)
  <2>1. GoesOn(p, pr, otherwise)  BY <1>3 DEF RotatesOr
  <2>2. PICK r : r = [pr EXCEPT !.pc = otherwise]  OBVIOUS
  <2>3. r.owner = pr.owner /\ r.run = pr.run /\ r.pc = otherwise  BY <2>2 DEF Process
  <2>4. QED  BY <2>1, <2>2, <2>3, <1>1, <1>h DEF GoesOn
<1>4. QED  BY <1>2, <1>3

(* The sessions are left alone while a reader rotates. *)
LEMMA RotatesKeeps ==
  ASSUME SessionInv, NEW p \in Slots, proc[p].pc # "free", NEW pr \in Process,
         pr.owner = Own(p), pr.run = proc[p].run,
         NEW limit, NEW plan \in {"failover", "rotate"}, NEW tries \in Nat,
         NEW otherwise \in {"giveup", "park"}, RotatesOr(p, pr, limit, plan, tries, otherwise),
         UNCHANGED <<registry, sess, starting, handler, doomed, stalled, resets, asked, stopped, lost>>
  PROVE  SessionInv'
<1>h. /\ TypeOK /\ proc \in [Slots -> Process] /\ sess \in [Sessions -> Session]  BY ReaderHas
<1>0. otherwise \in Reader  BY DEF Reader
<1>1. /\ turns' \in [Accounts -> 0 .. MaxTurns] /\ resting' \subseteq Accounts
      /\ \E r \in Process :
              /\ proc' = [proc EXCEPT ![p] = r] /\ r.owner = pr.owner /\ r.run = pr.run
              /\ r.pc \in {"cut", otherwise} /\ (r.pc = otherwise \/ r.plan = plan)
  <2>1. RotatesOr(p, pr, limit, plan, tries, otherwise)  OBVIOUS
  <2>2. TypeOK /\ otherwise \in Reader  BY <1>h, <1>0
  <2>3. QED  BY <2>1, <2>2, RotatesDoes
<1>2. PICK r \in Process :
              /\ proc' = [proc EXCEPT ![p] = r] /\ r.owner = pr.owner /\ r.run = pr.run
              /\ r.pc \in {"cut", otherwise} /\ (r.pc = otherwise \/ r.plan = plan)
  BY <1>1
<1>3. TypeOK'  BY <1>1, <1>2, <1>h DEF TypeOK
<1>4. Moves(p)  BY <1>2, <1>h DEF Moves, Kept, Own
<1>5. \A x \in Sessions : Stays(x)  BY DEF Stays
<1>6. proc'[p].pc \in AtWork  BY <1>2, <1>h DEF AtWork
<1>7. QED  BY <1>3, <1>4, <1>5, <1>6, ReaderKeeps

LEMMA FailoverKeeps ==
  ASSUME SessionInv, NEW p \in Slots, Failover(p) PROVE SessionInv'
<1>0. proc[p].pc = "failover"  BY DEF Failover
<1>1. proc[p] \in Process  BY <1>0, ReaderHas
<1>2. MaxStreamRetries - 1 \in Nat  BY DEF MaxStreamRetries
<1>3. QED  BY <1>0, <1>1, <1>2, RotatesKeeps DEF Failover, Own, userVars

LEMMA ReadQuotaKeeps ==
  ASSUME SessionInv, NEW p \in Slots, ReadQuota(p) PROVE SessionInv'
<1>0. proc[p].pc = "reading"  BY DEF ReadQuota, Reading
<1>1. proc[p] \in Process /\ Own(p) \in Sessions /\ sess[Own(p)] \in Session  BY <1>0, ReaderHas
<1>r. PICK r : r = Remembers(p, Own(p))  OBVIOUS
<1>f. sess[Own(p)].failovers \in Nat /\ sess[Own(p)].msg \in BOOLEAN
      /\ sess[Own(p)].account \in Accounts \cup {NoAccount}
  BY <1>1 DEF Session
<1>2. r \in Process /\ r.owner = Own(p) /\ r.run = proc[p].run
  BY <1>1, <1>f, <1>r DEF Remembers, Process, Own
<1>3. RotatesOr(p, r, QuotaLimit, "rotate", 0, "park")
      /\ UNCHANGED <<registry, sess, starting, handler, doomed, stalled, resets, asked, stopped, lost>>
  BY <1>r DEF ReadQuota, userVars
<1>4. PICK limit : limit = QuotaLimit  OBVIOUS
<1>5. QED  BY <1>0, <1>2, <1>3, <1>4, RotatesKeeps

(* The turn is armed again for the agent that is started next. *)
LEMMA RearmKeeps ==
  ASSUME SessionInv, NEW p \in Slots, Rearm(p) PROVE SessionInv'
<1>0. proc[p].pc = "rearm"  BY DEF Rearm
<1>h. /\ TypeOK /\ proc \in [Slots -> Process] /\ sess \in [Sessions -> Session]
      /\ proc[p] \in Process /\ Own(p) \in Sessions /\ sess[Own(p)] \in Session
  BY <1>0, ReaderHas
<1>s. PICK s : s = Own(p)  OBVIOUS
<1>n. PICK n : n = Armed(sess[s], proc[p])  OBVIOUS
<1>a. /\ sess' = [sess EXCEPT ![s] = n]
      /\ proc' = [proc EXCEPT ![p] = [proc[p] EXCEPT !.pc = "restart"]]
      /\ registry' \in {registry, s}
      /\ UNCHANGED <<starting, handler, doomed, stalled, turns, resting, resets, asked, stopped, lost>>
  BY <1>h, <1>s, <1>n DEF Rearm, adminVars, userVars
<1>1. n \in Session /\ n.cmd = sess[s].cmd
  <2>1. /\ sess[s] \in Session /\ proc[p].armed \in BOOLEAN /\ proc[p].tries \in Nat /\ proc[p].hops \in Nat
        /\ proc[p].next \in Accounts \cup {NoAccount}
    BY <1>h, <1>s DEF Process
  <2>2. QED  BY <2>1, <1>n DEF Armed, Session
<1>2. [proc[p] EXCEPT !.pc = "restart"] \in Process  BY <1>h DEF Process, Reader
<1>p. proc[p].plan # "none"  BY <1>0 DEF SessionInv, Basics, Planned
<1>3. TypeOK'  BY <1>a, <1>h, <1>s, <1>1, <1>2 DEF TypeOK
<1>4. Moves(p)  BY <1>0, <1>a, <1>h, <1>p DEF Moves, Kept, Process, Own
<1>5. Rearms(s) /\ \A x \in Sessions \ {s} : Stays(x)
  <2>1. proc'[p].owner = s /\ proc'[p].pc = "restart"  BY <1>a, <1>h, <1>s DEF Process, Own
  <2>2. QED  BY <2>1, <1>a, <1>h, <1>s, <1>1 DEF Rearms, Stays, AtWork
<1>6. proc'[p].pc \in AtWork  BY <1>a, <1>h DEF AtWork, Process
<1>7. QED  BY <1>0, <1>a, <1>3, <1>4, <1>5, <1>6, ReaderKeeps

LEMMA ReaderEndsKeeps ==
  ASSUME SessionInv, NEW p \in Slots, ReaderEnds(p) PROVE SessionInv'
<1>0. proc[p].pc = "reading"  BY DEF ReaderEnds, Reading
<1>h. /\ TypeOK /\ proc \in [Slots -> Process] /\ sess \in [Sessions -> Session] /\ proc[p] \in Process
  BY <1>0, ReaderHas
<1>d. PICK d : d = Done(proc[p])  OBVIOUS
<1>1. d \in Process /\ d.owner = Own(p) /\ d.pc = "done" /\ d.run = proc[p].run
  BY <1>d, <1>h, ProcessValues, ProcessKeeps DEF Own
<1>a. /\ proc' = [proc EXCEPT ![p] = d]
      /\ UNCHANGED <<registry, starting, handler, doomed, stalled, resting, resets, asked, stopped, lost, sess, turns>>
  BY <1>d DEF ReaderEnds, ReaderVars, adminVars, userVars
<1>3. TypeOK'  BY <1>a, <1>h, <1>1 DEF TypeOK
<1>4. Moves(p)  BY <1>a, <1>h, <1>1 DEF Moves, Kept, Own
<1>5. \A x \in Sessions : Stays(x)  BY <1>a DEF Stays
<1>6. QED  BY <1>0, <1>a, <1>3, <1>4, <1>5, ReaderKeeps DEF AtWork
-----------------------------------------------------------------------------
(* The steps of the agent, the waiter, the watchdog, the GC, the           *)
(* administrator, and of a user who ends his turn.                         *)

(* No reader moves. *)
LEMMA OthersKeep ==
  ASSUME SessionInv, TypeOK', UNCHANGED <<starting, handler>>, \A q \in Slots : Kept(q),
         \A s \in Sessions : Dies(s) \/ Stays(s) \/ Rearms(s)
  PROVE  SessionInv'
<1>1. Owned'  BY DEF Kept, SessionInv, Basics, Owned
<1>2. Planned'  BY DEF Kept, SessionInv, Basics, Planned
<1>3. Held' /\ Bound'  BY DEF SessionInv, Basics, Held, Bound, At
<1>4. SlotsStep /\ NoStart  BY DEF Kept, SlotsStep, NoStart
<1>5. Basics'  BY <1>1, <1>2, <1>3 DEF Basics
<1>6. QED  BY <1>4, <1>5, QuietKeeps

(* The slots and sessions after the kill of one session. *)
LEMMA KillsKeep ==
  ASSUME SessionInv, NEW s \in Sessions, sess' = [sess EXCEPT ![s] = Dead(@)], proc' = KillProc(s)
  PROVE  /\ \A q \in Slots : Kept(q)
         /\ \A x \in Sessions : Dies(x) \/ Stays(x)
         /\ sess' \in [Sessions -> Session] /\ proc' \in [Slots -> Process]
<1>1. TypeOK /\ sess \in [Sessions -> Session]  BY DEF SessionInv, Basics, TypeOK
<1>2. \A q \in Slots : Kept(q)  BY <1>1, KillKeeps DEF Kept
<1>3. Dies(s) /\ \A x \in Sessions \ {s} : Stays(x)  BY KillDies
<1>4. proc' \in [Slots -> Process]  BY <1>1, KillKeeps
<1>5. sess' \in [Sessions -> Session]  BY <1>1, SessionValues
<1>6. QED  BY <1>2, <1>3, <1>4, <1>5

(* The agent answers. *)
LEMMA AnswerKeeps ==
  ASSUME SessionInv, NEW p \in Slots, NEW out \in Answers, Answer(p, out) PROVE SessionInv'
<1>h. TypeOK /\ proc \in [Slots -> Process] /\ proc[p] \in Process
  BY DEF SessionInv, Basics, TypeOK
<1>a. /\ proc' = [proc EXCEPT ![p] = [proc[p] EXCEPT !.out = out, !.work = @ - 1]]
      /\ proc[p].work > 0
      /\ UNCHANGED <<registry, starting, handler, doomed, stalled, resting, resets, asked, stopped, lost, sess, turns>>
  BY <1>h DEF Answer, ReaderVars, adminVars, userVars
<1>1. proc[p].work - 1 \in 0 .. MaxWork
  <2>1. MaxWork \in Nat /\ proc[p].work \in 0 .. MaxWork  BY <1>h, SessionAssumption DEF Process
  <2>2. QED  BY <1>a, <2>1
<1>2. out \in {"none", "ok", "stream", "quota", "other"}  BY SessionAssumption
<1>3. [proc[p] EXCEPT !.out = out, !.work = @ - 1] \in Process  BY <1>h, <1>1, <1>2 DEF Process
<1>4. TypeOK'  BY <1>a, <1>h, <1>3 DEF TypeOK
<1>5. \A q \in Slots : Kept(q)  BY <1>a, <1>h DEF Kept, Process
<1>6. \A x \in Sessions : Stays(x)  BY <1>a DEF Stays
<1>7. QED  BY <1>a, <1>4, <1>5, <1>6, OthersKeep

(* The agent dies. *)
LEMMA ExitKeeps ==
  ASSUME SessionInv, NEW p \in Slots, Exit(p) PROVE SessionInv'
<1>h. TypeOK /\ proc \in [Slots -> Process] /\ proc[p] \in Process
  BY DEF SessionInv, Basics, TypeOK
<1>d. PICK d : d = Silent(proc[p])  OBVIOUS
<1>1. d \in Process /\ d.owner = proc[p].owner /\ d.pc = proc[p].pc /\ d.plan = proc[p].plan /\ ~d.run
  BY <1>d, <1>h, ProcessValues, ProcessKeeps
<1>a. /\ proc' = [proc EXCEPT ![p] = d]
      /\ UNCHANGED <<registry, starting, handler, doomed, stalled, resting, resets, asked, stopped, lost, sess, turns>>
  BY <1>d DEF Exit, ReaderVars, adminVars, userVars
<1>4. TypeOK'  BY <1>a, <1>h, <1>1 DEF TypeOK
<1>5. \A q \in Slots : Kept(q)  BY <1>a, <1>h, <1>1 DEF Kept
<1>6. \A x \in Sessions : Stays(x)  BY <1>a DEF Stays
<1>7. QED  BY <1>a, <1>4, <1>5, <1>6, OthersKeep

(* The waiter clears the session only if it has no later process. *)
LEMMA WaitKeeps ==
  ASSUME SessionInv, NEW p \in Slots, Wait(p) PROVE SessionInv'
<1>0. proc[p].pc = "done" /\ ~proc[p].run  BY DEF Wait
<1>h. /\ TypeOK /\ proc \in [Slots -> Process] /\ sess \in [Sessions -> Session]
      /\ proc[p] \in Process /\ Own(p) \in Sessions /\ sess[Own(p)] \in Session
  BY <1>0, ReaderHas
<1>s. PICK s : s = Own(p)  OBVIOUS
<1>a. /\ proc' = [proc EXCEPT ![p] = NoProcess]
      /\ UNCHANGED <<registry, starting, handler, doomed, stalled, resting, resets, asked, stopped, lost, turns>>
      /\ sess' = IF sess[s].cmd = p THEN [sess EXCEPT ![s] = Exited(@)] ELSE sess
  BY <1>s DEF Wait, ReaderVars, adminVars, userVars
<1>1. sess' \in [Sessions -> Session]  BY <1>a, <1>h, SessionValues
<1>2. proc' \in [Slots -> Process]  BY <1>a, <1>h, ProcessValues
<1>3. TypeOK'  BY <1>a, <1>h, <1>1, <1>2 DEF TypeOK
<1>4. \A q \in Slots \ {p} : proc'[q] = proc[q]  BY <1>a, <1>h
<1>5. proc'[p].owner = NoSession /\ proc'[p].pc = "free" /\ ~proc'[p].run /\ proc'[p].plan = "none"
  BY <1>a, <1>h DEF NoProcess
<1>6. \A x \in Sessions : Dies(x) \/ Stays(x)
  <2>1. CASE sess[s].cmd = p
    <3>1. sess' = [sess EXCEPT ![s] = Exited(@)]  BY <1>a, <2>1
    <3>2. Dies(s)
      <4>1. sess'[s] = Exited(sess[s])  BY <3>1, <1>h, <1>s
      <4>2. ASSUME NEW q \in Slots, proc'[q].run PROVE Own(q) # s
        <5>1. q # p /\ proc[q].run  BY <4>2, <1>4, <1>5
        <5>2. QED  BY <5>1, <2>1 DEF SessionInv, WithinReach
      <4>3. QED  BY <4>1, <4>2, <1>h, <1>s, SessionValues DEF Dies
    <3>3. \A x \in Sessions \ {s} : Stays(x)  BY <3>1, <1>h DEF Stays
    <3>4. QED  BY <3>2, <3>3
  <2>2. CASE sess[s].cmd # p
    <3>1. sess' = sess  BY <1>a, <2>2
    <3>2. QED  BY <3>1 DEF Stays
  <2>3. QED  BY <2>1, <2>2
<1>7. SlotsStep /\ NoStart
  <2>1. proc[p].pc \notin AtWork /\ proc'[p].pc # "spawn"  BY <1>0, <1>5 DEF AtWork
  <2>2. QED  BY <2>1, <1>4, <1>5 DEF SlotsStep, NoStart
<1>8. Basics'
  <2>1. Owned'
    <3>1. \A q \in Slots \ {p} : /\ proc'[q].pc # "free" => proc'[q].owner \in Sessions
                                 /\ proc'[q].run => proc'[q].pc # "free"
      BY <1>4 DEF SessionInv, Basics, Owned
    <3>2. QED  BY <3>1, <1>5 DEF Owned
  <2>2. Planned'
    <3>1. \A q \in Slots \ {p} :
            proc'[q].pc \in {"cut", "rearm", "restart", "spawn"} => proc'[q].plan # "none"
      BY <1>4 DEF SessionInv, Basics, Planned
    <3>2. QED  BY <3>1, <1>5 DEF Planned
  <2>3. Held' /\ Bound'  BY <1>a DEF SessionInv, Basics, Held, Bound, At
  <2>4. QED  BY <1>3, <2>1, <2>2, <2>3 DEF Basics
<1>9. QED  BY <1>a, <1>6, <1>7, <1>8, QuietKeeps

(* The watchdog finds a turn too long or too silent.                       *)
LEMMA JudgeKeeps ==
  ASSUME SessionInv, NEW s \in Sessions, Judge(s) PROVE SessionInv'
<1>h. TypeOK  BY DEF SessionInv, Basics
<1>3. TypeOK'  BY <1>h DEF Judge, TypeOK, adminVars, userVars
<1>4. /\ UNCHANGED <<starting, handler>>
      /\ \A q \in Slots : Kept(q)
  BY DEF Judge, Kept
<1>5. \A x \in Sessions : Stays(x)  BY DEF Judge, Stays
<1>6. QED  BY <1>3, <1>4, <1>5, OthersKeep

(* The GC takes the session from the registry.                             *)
LEMMA EvictKeeps ==
  ASSUME SessionInv, Evict PROVE SessionInv'
<1>h. TypeOK /\ sess \in [Sessions -> Session]  BY DEF SessionInv, Basics, TypeOK
<1>3. TypeOK'  BY <1>h DEF Evict, TypeOK, adminVars, userVars
<1>4. /\ UNCHANGED <<starting, handler>>
      /\ \A q \in Slots : Kept(q)
  BY DEF Evict, Kept
<1>5. \A x \in Sessions : Stays(x)  BY DEF Evict, Stays
<1>6. QED  BY <1>3, <1>4, <1>5, OthersKeep

(* The administrator freezes an account.                                   *)
LEMMA FreezeKeeps ==
  ASSUME SessionInv, NEW a \in Accounts, Freeze(a) PROVE SessionInv'
<1>h. TypeOK /\ sess \in [Sessions -> Session]  BY DEF SessionInv, Basics, TypeOK
<1>3. TypeOK'  
  <2>1. [turns EXCEPT ![a] = 0] \in [Accounts -> 0 .. MaxTurns]  BY <1>h, TurnsTyped DEF TypeOK
  <2>2. QED  BY <1>h, <2>1, SessionAssumption DEF Freeze, TypeOK, userVars
<1>4. /\ UNCHANGED <<starting, handler>>
      /\ \A q \in Slots : Kept(q)
  BY DEF Freeze, Kept
<1>5. \A x \in Sessions : Stays(x)  BY DEF Freeze, Stays
<1>6. QED  BY <1>3, <1>4, <1>5, OthersKeep

(* A cooldown or a freeze ends.                                            *)
LEMMA RecoverKeeps ==
  ASSUME SessionInv, NEW a \in Accounts, Recover(a) PROVE SessionInv'
<1>h. TypeOK /\ sess \in [Sessions -> Session]  BY DEF SessionInv, Basics, TypeOK
<1>3. TypeOK'  BY <1>h DEF Recover, TypeOK, userVars
<1>4. /\ UNCHANGED <<starting, handler>>
      /\ \A q \in Slots : Kept(q)
  BY DEF Recover, Kept
<1>5. \A x \in Sessions : Stays(x)  BY DEF Recover, Stays
<1>6. QED  BY <1>3, <1>4, <1>5, OthersKeep

(* The sessions of a frozen account leave the registry. *)
LEMMA ResetKeeps ==
  ASSUME SessionInv, NEW a \in Accounts, ResetAccountSessions(a) PROVE SessionInv'
<1>h. TypeOK /\ sess \in [Sessions -> Session]  BY DEF SessionInv, Basics, TypeOK
<1>u. UNCHANGED <<starting, proc, handler, stalled, turns, resting, asked, stopped>> /\ resets' = resets \ {a}
  BY DEF ResetAccountSessions, poolVars
<1>1. CASE registry # NoSession /\ sess[registry].account = a
  <2>0. registry \in Sessions  BY <1>h, <1>1 DEF TypeOK
  <2>1. /\ sess' = [sess EXCEPT ![registry] = [sess[registry] EXCEPT !.account = NoAccount]]
        /\ doomed' = doomed \cup {registry} /\ registry' = NoSession
        /\ lost' \in {lost, lost \cup {registry}}
    BY <1>1, <1>h DEF ResetAccountSessions
  <2>2. [sess[registry] EXCEPT !.account = NoAccount] \in Session  BY <1>h, <2>0 DEF Session
  <2>3. TypeOK'  BY <1>h, <1>u, <2>0, <2>1, <2>2 DEF TypeOK
  <2>4. \A x \in Sessions : Stays(x)  BY <1>h, <2>0, <2>1 DEF Stays, Session
  <2>5. \A q \in Slots : Kept(q)  BY <1>u DEF Kept
  <2>6. QED  BY <1>u, <2>3, <2>4, <2>5, OthersKeep
<1>2. CASE ~(registry # NoSession /\ sess[registry].account = a)
  <2>1. UNCHANGED <<registry, sess, doomed, lost>>  BY <1>2 DEF ResetAccountSessions
  <2>3. TypeOK'  BY <1>h, <1>u, <2>1 DEF TypeOK
  <2>4. \A x \in Sessions : Stays(x)  BY <2>1 DEF Stays
  <2>5. \A q \in Slots : Kept(q)  BY <1>u DEF Kept
  <2>6. QED  BY <1>u, <2>3, <2>4, <2>5, OthersKeep
<1>3. QED  BY <1>1, <1>2

(* The watchdog ends a turn it has judged.                                 *)
LEMMA WatchdogKeeps ==
  ASSUME SessionInv, NEW s \in Sessions, Watchdog(s) PROVE SessionInv'
<1>h. TypeOK  BY DEF SessionInv, Basics
<1>a. /\ sess' = [sess EXCEPT ![s] = Dead(@)] /\ proc' = KillProc(s)
      /\ turns' \in {turns, KillTurns(s)} /\ doomed' \subseteq doomed /\ stalled' \subseteq stalled
      /\ UNCHANGED <<registry, starting, handler, resting, resets, asked, stopped, lost>>
  BY DEF Watchdog, adminVars, userVars
<1>k. /\ \A q \in Slots : Kept(q)
      /\ \A x \in Sessions : Dies(x) \/ Stays(x)
      /\ sess' \in [Sessions -> Session] /\ proc' \in [Slots -> Process]
  BY <1>a, KillsKeep
<1>t. turns' \in [Accounts -> 0 .. MaxTurns]  BY <1>a, <1>h, KillTurnsTyped DEF TypeOK
<1>3. TypeOK'  BY <1>a, <1>h, <1>k, <1>t DEF TypeOK
<1>4. QED  BY <1>a, <1>k, <1>3, OthersKeep

(* A session that left the registry is killed.                             *)
LEMMA KillDoomedKeeps ==
  ASSUME SessionInv, NEW s \in Sessions, KillDoomed(s) PROVE SessionInv'
<1>h. TypeOK  BY DEF SessionInv, Basics
<1>a. /\ sess' = [sess EXCEPT ![s] = Dead(@)] /\ proc' = KillProc(s)
      /\ turns' \in {turns, KillTurns(s)} /\ doomed' \subseteq doomed /\ stalled' \subseteq stalled
      /\ UNCHANGED <<registry, starting, handler, resting, resets, asked, stopped, lost>>
  BY DEF KillDoomed, adminVars, userVars
<1>k. /\ \A q \in Slots : Kept(q)
      /\ \A x \in Sessions : Dies(x) \/ Stays(x)
      /\ sess' \in [Sessions -> Session] /\ proc' \in [Slots -> Process]
  BY <1>a, KillsKeep
<1>t. turns' \in [Accounts -> 0 .. MaxTurns]  BY <1>a, <1>h, KillTurnsTyped DEF TypeOK
<1>3. TypeOK'  BY <1>a, <1>h, <1>k, <1>t DEF TypeOK
<1>4. QED  BY <1>a, <1>k, <1>3, OthersKeep

(* /stop.                                                                  *)
LEMMA StopKeeps ==
  ASSUME SessionInv, Stop PROVE SessionInv'
<1>h. TypeOK /\ MaxCommands \in Nat  BY SessionAssumption DEF SessionInv, Basics
<1>u. /\ UNCHANGED <<starting, handler, doomed, stalled, resting, resets, lost>>
      /\ asked < MaxCommands /\ asked' = asked + 1 /\ stopped' = TRUE
      /\ registry' \in {registry, NoSession}
  BY DEF Stop, Asks, adminVars
<1>v. asked' \in 0 .. MaxCommands  BY <1>h, <1>u DEF TypeOK
<1>1. CASE registry = NoSession
  <2>1. UNCHANGED <<sess, proc, turns>>  BY <1>1 DEF Stop
  <2>2. TypeOK'  BY <1>h, <1>u, <1>v, <2>1 DEF TypeOK
  <2>3. \A q \in Slots : Kept(q)  BY <2>1 DEF Kept
  <2>4. \A x \in Sessions : Stays(x)  BY <2>1 DEF Stays
  <2>5. QED  BY <1>u, <2>2, <2>3, <2>4, OthersKeep
<1>2. CASE registry # NoSession
  <2>0. registry \in Sessions  BY <1>h, <1>2 DEF TypeOK
  <2>s. PICK s \in Sessions : s = registry  BY <2>0
  <2>1. /\ sess' = [sess EXCEPT ![s] = Dead(@)] /\ proc' = KillProc(s)
        /\ turns' \in {turns, KillTurns(s)}
    BY <1>2, <2>s DEF Stop
  <2>k. /\ \A q \in Slots : Kept(q)
        /\ \A x \in Sessions : Dies(x) \/ Stays(x)
        /\ sess' \in [Sessions -> Session] /\ proc' \in [Slots -> Process]
    BY <2>1, KillsKeep
  <2>t. turns' \in [Accounts -> 0 .. MaxTurns]  BY <2>1, <1>h, KillTurnsTyped DEF TypeOK
  <2>3. TypeOK'  BY <1>h, <1>u, <1>v, <2>k, <2>t DEF TypeOK
  <2>4. QED  BY <1>u, <2>k, <2>3, OthersKeep
<1>3. QED  BY <1>1, <1>2

(* /clear.                                                                 *)
LEMMA ClearKeeps ==
  ASSUME SessionInv, Clear PROVE SessionInv'
<1>h. TypeOK /\ MaxCommands \in Nat  BY SessionAssumption DEF SessionInv, Basics
<1>u. /\ UNCHANGED <<starting, handler, doomed, stalled, resting, resets, lost>>
      /\ asked < MaxCommands /\ asked' = asked + 1 /\ stopped' = TRUE
      /\ registry' \in {registry, NoSession}
  BY DEF Clear, Asks, adminVars
<1>v. asked' \in 0 .. MaxCommands  BY <1>h, <1>u DEF TypeOK
<1>1. CASE registry = NoSession
  <2>1. UNCHANGED <<sess, proc, turns>>  BY <1>1 DEF Clear
  <2>2. TypeOK'  BY <1>h, <1>u, <1>v, <2>1 DEF TypeOK
  <2>3. \A q \in Slots : Kept(q)  BY <2>1 DEF Kept
  <2>4. \A x \in Sessions : Stays(x)  BY <2>1 DEF Stays
  <2>5. QED  BY <1>u, <2>2, <2>3, <2>4, OthersKeep
<1>2. CASE registry # NoSession
  <2>0. registry \in Sessions  BY <1>h, <1>2 DEF TypeOK
  <2>s. PICK s \in Sessions : s = registry  BY <2>0
  <2>1. /\ sess' = [sess EXCEPT ![s] = Dead(@)] /\ proc' = KillProc(s)
        /\ turns' \in {turns, KillTurns(s)}
    BY <1>2, <2>s DEF Clear
  <2>k. /\ \A q \in Slots : Kept(q)
        /\ \A x \in Sessions : Dies(x) \/ Stays(x)
        /\ sess' \in [Sessions -> Session] /\ proc' \in [Slots -> Process]
    BY <2>1, KillsKeep
  <2>t. turns' \in [Accounts -> 0 .. MaxTurns]  BY <2>1, <1>h, KillTurnsTyped DEF TypeOK
  <2>3. TypeOK'  BY <1>h, <1>u, <1>v, <2>k, <2>t DEF TypeOK
  <2>4. QED  BY <1>u, <2>k, <2>3, OthersKeep
<1>3. QED  BY <1>1, <1>2
-----------------------------------------------------------------------------
(* The steps of the handler, other than start(). *)

HandlerType == [pc : HandlerPC, s : Sessions \cup {NoSession}, then : HandlerPC,
                fresh : BOOLEAN, queued : BOOLEAN]

LEMMA GoesDoes ==
  ASSUME TypeOK, NEW pc \in HandlerPC, Goes(pc)
  PROVE  /\ handler' \in HandlerType /\ handler'.pc = pc
         /\ pc # "idle" => /\ handler'.s = handler.s /\ handler'.fresh = handler.fresh
                           /\ handler'.then = handler.then
BY DEF TypeOK, Goes, HandlerType, HandlerIdle, HandlerPC

LEMMA StartsDoes ==
  ASSUME NEW s \in Sessions, NEW then \in HandlerPC, NEW fresh \in BOOLEAN, StartsAndGoes(s, then, fresh)
  PROVE  /\ handler' \in HandlerType /\ handler'.pc = "start" /\ handler'.s = s
         /\ handler'.then = then /\ handler'.fresh = fresh
BY DEF StartsAndGoes, HandlerType, HandlerPC

(* The handler moves, and the readers do not. *)
LEMMA HandlerKeeps ==
  ASSUME SessionInv, TypeOK', starting' = starting, \A q \in Slots : Kept(q),
         \A s \in Sessions : \/ Dies(s) \/ Stays(s)
                             \/ HandlerOn(s)' /\ sess'[s].cmd = sess[s].cmd,
         \A s \in Sessions : HandlerOn(s) => HandlerOn(s)' \/ Alive(s)' \/ ~sess'[s].msg,
         handler'.pc # "idle" => handler'.s \in Sessions,
         handler'.pc # "spawn",
         handler'.pc = "start" => ~handler'.fresh /\ handler'.then \in {"look", "apologise"}
  PROVE  SessionInv'
<1>1. Owned' /\ Planned'  BY DEF Kept, SessionInv, Basics, Owned, Planned
<1>2. Held' /\ Bound'  BY DEF Held, Bound, At
<1>3. SlotsStep /\ NoStart  BY DEF Kept, SlotsStep, NoStart
<1>4. \A s \in Sessions : Dies(s) \/ sess'[s].cmd = sess[s].cmd  BY DEF Stays
<1>5. WithinReach' /\ Locks'  BY <1>3, <1>4, ReachKept, LocksKept
<1>6. SpinnerHeld'
  <2>1. \A s \in Sessions : Dies(s) \/ Stays(s) \/ Rearms(s) \/ HandlerOn(s)'  OBVIOUS
  <2>2. QED  BY <2>1, <1>3, SpinnerKept
<1>7. Fresh'  BY DEF Fresh
<1>8. QED  BY <1>1, <1>2, <1>5, <1>6, <1>7 DEF SessionInv, Basics

(* The handler is at work on its session. *)
LEMMA HandlerHas ==
  ASSUME SessionInv, ~At("idle")
  PROVE  /\ TypeOK /\ sess \in [Sessions -> Session] /\ proc \in [Slots -> Process]
         /\ handler \in HandlerType /\ handler.s \in Sessions /\ sess[handler.s] \in Session
BY DEF SessionInv, Basics, TypeOK, Held, HandlerType

LEMMA CheckKeeps ==
  ASSUME SessionInv, Check PROVE SessionInv'
<1>0. handler.pc = "check"  BY DEF Check, At
<1>s. PICK s : s = handler.s  OBVIOUS
<1>h. /\ TypeOK /\ sess \in [Sessions -> Session] /\ proc \in [Slots -> Process]
      /\ s \in Sessions /\ sess[s] \in Session
  BY <1>0, <1>s, HandlerHas DEF At
<1>u. UNCHANGED <<registry, starting, proc, doomed, stalled, turns, resting, resets, asked, stopped, lost>>
  BY DEF Check, adminVars, userVars
<1>1. \A x : ~HandlerOn(x)  BY <1>0 DEF HandlerOn
<1>2. \A q \in Slots : Kept(q)  BY <1>u DEF Kept
<1>3. CASE Alive(s)
  <2>1. Goes("look") /\ sess' = sess  BY <1>3, <1>s DEF Check
  <2>2. handler' \in HandlerType /\ handler'.pc = "look" /\ handler'.s = s
    BY <2>1, <1>h, <1>s, GoesDoes DEF HandlerPC
  <2>3. TypeOK'  BY <2>1, <2>2, <1>h, <1>u DEF TypeOK, HandlerType
  <2>4. \A x \in Sessions : Stays(x)  BY <2>1 DEF Stays
  <2>5. QED  BY <1>h, <1>u, <1>1, <1>2, <2>2, <2>3, <2>4, HandlerKeeps
<1>4. CASE ~Alive(s)
  <2>1. StartsAndGoes(s, "look", FALSE) /\ sess' = [sess EXCEPT ![s] = [sess[s] EXCEPT !.msg = FALSE]]
    BY <1>4, <1>s, <1>h DEF Check
  <2>2. /\ handler' \in HandlerType /\ handler'.pc = "start" /\ handler'.s = s
        /\ handler'.then = "look" /\ ~handler'.fresh
    BY <2>1, <1>h, StartsDoes DEF HandlerPC
  <2>3. [sess[s] EXCEPT !.msg = FALSE] \in Session  BY <1>h DEF Session
  <2>4. TypeOK'  BY <2>1, <2>2, <2>3, <1>h, <1>u DEF TypeOK, HandlerType
  <2>5. \A x \in Sessions : Stays(x)  BY <2>1, <1>h DEF Stays, Session
  <2>6. QED  BY <1>h, <1>u, <1>1, <1>2, <2>2, <2>4, <2>5, HandlerKeeps
<1>5. QED  BY <1>3, <1>4

LEMMA LookKeeps ==
  ASSUME SessionInv, Look PROVE SessionInv'
<1>0. handler.pc = "look"  BY DEF Look, At
<1>h. /\ TypeOK /\ handler \in HandlerType /\ handler.s \in Sessions /\ sess[handler.s] \in Session
  BY <1>0, HandlerHas DEF At
<1>a. /\ handler' = [handler EXCEPT !.pc = "arm", !.queued = sess[handler.s].msg]
      /\ UNCHANGED <<registry, sess, starting, proc, doomed, stalled, turns, resting, resets, asked, stopped, lost>>
  BY DEF Look, adminVars, userVars
<1>1. sess[handler.s].msg \in BOOLEAN  BY <1>h DEF Session
<1>2. handler' \in HandlerType /\ handler'.pc = "arm" /\ handler'.s = handler.s
  BY <1>a, <1>h, <1>1 DEF HandlerType, HandlerPC
<1>3. TypeOK'  BY <1>a, <1>h, <1>2 DEF TypeOK, HandlerType
<1>4. \A q \in Slots : Kept(q)  BY <1>a DEF Kept
<1>5. \A x \in Sessions : Stays(x)  BY <1>a DEF Stays
<1>6. \A x \in Sessions : HandlerOn(x) => HandlerOn(x)'  BY <1>2 DEF HandlerOn
<1>7. QED  BY <1>a, <1>h, <1>2, <1>3, <1>4, <1>5, <1>6, HandlerKeeps

LEMMA ArmKeeps ==
  ASSUME SessionInv, Arm PROVE SessionInv'
<1>0. handler.pc = "arm"  BY DEF Arm, At
<1>s. PICK s : s = handler.s  OBVIOUS
<1>h. /\ TypeOK /\ sess \in [Sessions -> Session] /\ s \in Sessions /\ sess[s] \in Session
  BY <1>0, <1>s, HandlerHas DEF At
<1>a. /\ Goes("write")
      /\ UNCHANGED <<registry, starting, proc, doomed, stalled, turns, resting, resets, asked, stopped, lost>>
      /\ \/ sess' = [sess EXCEPT ![s] = [sess[s] EXCEPT !.msg = TRUE, !.turn = TRUE]]
         \/ sess' = sess
  BY <1>s, <1>h DEF Arm, adminVars, userVars
<1>2. handler' \in HandlerType /\ handler'.pc = "write" /\ handler'.s = s
  BY <1>a, <1>h, <1>s, GoesDoes DEF HandlerPC
<1>1. [sess[s] EXCEPT !.msg = TRUE, !.turn = TRUE] \in Session  BY <1>h DEF Session
<1>3. TypeOK'  BY <1>a, <1>h, <1>1, <1>2 DEF TypeOK, HandlerType
<1>4. \A q \in Slots : Kept(q)  BY <1>a DEF Kept
<1>5. HandlerOn(s)' /\ \A x \in Sessions : HandlerOn(x) => x = s  BY <1>2, <1>s DEF HandlerOn
<1>6. sess'[s].cmd = sess[s].cmd /\ \A x \in Sessions \ {s} : Stays(x)  BY <1>a, <1>h DEF Stays, Session
<1>7. QED  BY <1>a, <1>h, <1>2, <1>3, <1>4, <1>5, <1>6, HandlerKeeps

LEMMA WriteKeeps ==
  ASSUME SessionInv, Write PROVE SessionInv'
<1>0. handler.pc = "write"  BY DEF Write, At
<1>s. PICK s : s = handler.s  OBVIOUS
<1>h. /\ TypeOK /\ sess \in [Sessions -> Session] /\ proc \in [Slots -> Process]
      /\ s \in Sessions /\ sess[s] \in Session
  BY <1>0, <1>s, HandlerHas DEF At
<1>c. PICK c : c = sess[s].cmd  OBVIOUS
<1>u. UNCHANGED <<registry, sess, starting, doomed, stalled, turns, resting, resets, asked, stopped, lost>>
  BY DEF Write, adminVars, userVars
<1>1. \A x \in Sessions : Stays(x)  BY <1>u DEF Stays
<1>2. \A x \in Sessions : HandlerOn(x) => x = s  BY <1>s DEF HandlerOn
<1>3. CASE /\ c # NoSlot /\ proc[c].work < MaxWork
           /\ proc' = [proc EXCEPT ![c].work = @ + 1] /\ Goes("idle")
  <2>1. c \in Slots  BY <1>3, <1>c, <1>h DEF Session
  <2>2. proc[c] \in Process /\ proc[c].work + 1 \in 0 .. MaxWork
    <3>1. proc[c] \in Process  BY <2>1, <1>h
    <3>2. MaxWork \in Nat /\ proc[c].work \in 0 .. MaxWork  BY <3>1, SessionAssumption DEF Process
    <3>3. QED  BY <3>1, <3>2, <1>3
  <2>3. PICK r : r = [proc[c] EXCEPT !.work = @ + 1]  OBVIOUS
  <2>4. /\ r \in Process /\ r.owner = proc[c].owner /\ r.pc = proc[c].pc /\ r.plan = proc[c].plan
        /\ r.run = proc[c].run
    BY <2>2, <2>3 DEF Process
  <2>5. proc' = [proc EXCEPT ![c] = r]  BY <1>3, <2>3
  <2>6. proc' \in [Slots -> Process] /\ \A q \in Slots : Kept(q)
    BY <2>1, <2>4, <2>5, <1>h DEF Kept
  <2>7. handler' \in HandlerType /\ handler'.pc = "idle"
    BY <1>3, <1>h, GoesDoes DEF HandlerPC
  <2>8. TypeOK'  BY <2>6, <2>7, <1>h, <1>u DEF TypeOK, HandlerType
  <2>9. Alive(s)'  BY <1>3, <1>c, <1>u DEF Alive
  <2>10. QED  BY <1>h, <1>u, <1>1, <1>2, <2>6, <2>7, <2>8, <2>9, HandlerKeeps
<1>4. CASE Goes("broken") /\ proc' = proc
  <2>7. handler' \in HandlerType /\ handler'.pc = "broken" /\ handler'.s = s
    BY <1>4, <1>h, <1>s, GoesDoes DEF HandlerPC
  <2>8. TypeOK'  BY <2>7, <1>4, <1>h, <1>u DEF TypeOK, HandlerType
  <2>9. HandlerOn(s)' /\ \A q \in Slots : Kept(q)  BY <1>4, <2>7 DEF HandlerOn, Kept
  <2>10. QED  BY <1>h, <1>u, <1>1, <1>2, <2>7, <2>8, <2>9, HandlerKeeps
<1>5. QED  BY <1>3, <1>4, <1>c, <1>s DEF Write

LEMMA BrokenKeeps ==
  ASSUME SessionInv, Broken PROVE SessionInv'
<1>0. handler.pc = "broken"  BY DEF Broken, At
<1>s. PICK s : s = handler.s  OBVIOUS
<1>h. /\ TypeOK /\ sess \in [Sessions -> Session] /\ proc \in [Slots -> Process]
      /\ s \in Sessions /\ sess[s] \in Session
  BY <1>0, <1>s, HandlerHas DEF At
<1>a. /\ sess' = [sess EXCEPT ![s] = Dead(@)] /\ proc' = KillProc(s) /\ turns' = KillTurns(s)
      /\ StartsAndGoes(s, "apologise", FALSE)
      /\ UNCHANGED <<registry, starting, doomed, stalled, resting, resets, asked, stopped, lost>>
  BY <1>s DEF Broken, adminVars, userVars
<1>k. /\ \A q \in Slots : Kept(q)
      /\ \A x \in Sessions : Dies(x) \/ Stays(x)
      /\ sess' \in [Sessions -> Session] /\ proc' \in [Slots -> Process]
  BY <1>a, <1>h, KillsKeep
<1>t. turns' \in [Accounts -> 0 .. MaxTurns]  BY <1>a, <1>h, KillTurnsTyped
<1>2. /\ handler' \in HandlerType /\ handler'.pc = "start" /\ handler'.s = s
      /\ handler'.then = "apologise" /\ ~handler'.fresh
  BY <1>a, <1>h, StartsDoes DEF HandlerPC
<1>3. TypeOK'  BY <1>a, <1>h, <1>k, <1>t, <1>2 DEF TypeOK, HandlerType
<1>4. \A x \in Sessions : HandlerOn(x) => HandlerOn(x)'  BY <1>2, <1>s DEF HandlerOn
<1>5. QED  BY <1>a, <1>h, <1>k, <1>2, <1>3, <1>4, HandlerKeeps

LEMMA ApologiseKeeps ==
  ASSUME SessionInv, Apologise PROVE SessionInv'
<1>0. handler.pc = "apologise"  BY DEF Apologise, At
<1>s. PICK s : s = handler.s  OBVIOUS
<1>h. /\ TypeOK /\ sess \in [Sessions -> Session] /\ s \in Sessions /\ sess[s] \in Session
  BY <1>0, <1>s, HandlerHas DEF At
<1>a. /\ sess' = [sess EXCEPT ![s] = [sess[s] EXCEPT !.msg = FALSE]] /\ Goes("idle")
      /\ UNCHANGED <<registry, starting, proc, doomed, stalled, turns, resting, resets, asked, stopped, lost>>
  BY <1>s, <1>h DEF Apologise, adminVars, userVars
<1>1. [sess[s] EXCEPT !.msg = FALSE] \in Session  BY <1>h DEF Session
<1>2. handler' \in HandlerType /\ handler'.pc = "idle"  BY <1>a, <1>h, GoesDoes DEF HandlerPC
<1>3. TypeOK'  BY <1>a, <1>h, <1>1, <1>2 DEF TypeOK, HandlerType
<1>4. \A q \in Slots : Kept(q)  BY <1>a DEF Kept
<1>5. ~sess'[s].msg /\ \A x \in Sessions : Stays(x)  BY <1>a, <1>h DEF Stays, Session
<1>6. \A x \in Sessions : HandlerOn(x) => x = s  BY <1>s DEF HandlerOn
<1>7. QED  BY <1>a, <1>2, <1>3, <1>4, <1>5, <1>6, HandlerKeeps

(* A reused session is left as it is; a fresh one replaces the old.        *)
LEMMA AcquireKeeps ==
  ASSUME SessionInv, At("idle"), asked' \in 0 .. MaxCommands /\ stopped' \in BOOLEAN,
         NEW force \in BOOLEAN, NEW then \in {"check", "idle"}, then = "idle" => force,
         Acquire(force, then), UNCHANGED <<starting, doomed, stalled, adminVars>>
  PROVE  SessionInv'
<1>h. /\ TypeOK /\ sess \in [Sessions -> Session] /\ proc \in [Slots -> Process]
      /\ asked' \in 0 .. MaxCommands /\ stopped' \in BOOLEAN
      /\ UNCHANGED <<starting, doomed, stalled, resting, resets>>
  BY DEF SessionInv, Basics, TypeOK, adminVars
<1>0. \A x : ~HandlerOn(x)  BY DEF HandlerOn, At
<1>1. CASE /\ registry # NoSession /\ ~force
           /\ handler' = [HandlerIdle EXCEPT !.pc = then, !.s = registry]
           /\ UNCHANGED <<registry, sess, proc, turns, lost>>
  <2>1. /\ handler' \in HandlerType /\ handler'.pc = "check" /\ handler'.s \in Sessions
    BY <1>1, <1>h DEF HandlerIdle, HandlerType, HandlerPC, TypeOK
  <2>2. TypeOK'  BY <1>1, <1>h, <2>1 DEF TypeOK, HandlerType
  <2>3. \A q \in Slots : Kept(q)  BY <1>1 DEF Kept
  <2>4. \A x \in Sessions : Stays(x)  BY <1>1 DEF Stays
  <2>5. QED  BY <1>h, <1>0, <2>1, <2>2, <2>3, <2>4, HandlerKeeps
<1>2. CASE \E n \in {x \in Sessions : ~Referenced(x)} :
              /\ registry' = n /\ lost' = lost \ {n}
              /\ StartsAndGoes(n, then, TRUE)
              /\ IF registry = NoSession
                 THEN sess' = [sess EXCEPT ![n] = NewSession] /\ UNCHANGED <<proc, turns>>
                 ELSE /\ sess' = [sess EXCEPT ![n] = NewSession, ![registry] = Dead(@)]
                      /\ proc' = KillProc(registry)
                      /\ turns' = KillTurns(registry)
  <2>1. PICK n \in Sessions :
              /\ ~Referenced(n)
              /\ registry' = n /\ lost' = lost \ {n}
              /\ StartsAndGoes(n, then, TRUE)
              /\ IF registry = NoSession
                 THEN sess' = [sess EXCEPT ![n] = NewSession] /\ UNCHANGED <<proc, turns>>
                 ELSE /\ sess' = [sess EXCEPT ![n] = NewSession, ![registry] = Dead(@)]
                      /\ proc' = KillProc(registry)
                      /\ turns' = KillTurns(registry)
    BY <1>2
  <2>2. n # registry /\ \A q \in Slots : Own(q) # n  BY <2>1 DEF Referenced, Own
  <2>3. /\ handler' \in HandlerType /\ handler'.pc = "start" /\ handler'.s = n
        /\ handler'.then = then /\ handler'.fresh
    BY <2>1, StartsDoes DEF HandlerPC
  <2>4. /\ sess'[n] = NewSession /\ sess' \in [Sessions -> Session] /\ proc' \in [Slots -> Process]
        /\ turns' \in [Accounts -> 0 .. MaxTurns] /\ \A q \in Slots : Kept(q)
        /\ \A x \in Sessions \ {n} : Dies(x) \/ Stays(x)
    <3>1. CASE registry = NoSession
      <4>1. sess' = [sess EXCEPT ![n] = NewSession] /\ UNCHANGED <<proc, turns>>  BY <2>1, <3>1
      <4>2. sess' \in [Sessions -> Session] /\ sess'[n] = NewSession  BY <4>1, <1>h, SessionValues
      <4>3. \A x \in Sessions \ {n} : Stays(x)  BY <4>1, <1>h DEF Stays
      <4>4. \A q \in Slots : Kept(q)  BY <4>1 DEF Kept
      <4>5. QED  BY <4>1, <4>2, <4>3, <4>4, <1>h DEF TypeOK
    <3>2. CASE registry # NoSession
      <4>1. PICK o \in Sessions : o = registry  BY <3>2, <1>h DEF TypeOK
      <4>2. /\ sess' = [sess EXCEPT ![n] = NewSession, ![o] = Dead(@)]
            /\ proc' = KillProc(o) /\ turns' = KillTurns(o)
        BY <2>1, <3>2, <4>1
      <4>3. /\ sess' \in [Sessions -> Session] /\ sess'[n] = NewSession /\ sess'[o] = Dead(sess[o])
            /\ \A x \in Sessions \ {n, o} : sess'[x] = sess[x]
        BY <4>1, <4>2, <1>h, <2>2, SessionValues
      <4>4. proc' \in [Slots -> Process] /\ \A q \in Slots : Kept(q)
        BY <4>2, <1>h, KillKeeps DEF Kept
      <4>5. Dies(o)
        <5>1. ASSUME NEW q \in Slots, proc'[q].run PROVE Own(q) # o
          <6>1. proc[q].run /\ sess[o].cmd # q  BY <1>h, <4>2, <5>1, KillKeeps
          <6>2. QED  BY <6>1 DEF SessionInv, WithinReach
        <5>2. QED  BY <5>1, <4>3, <1>h, SessionValues DEF Dies
      <4>6. \A x \in Sessions \ {n, o} : Stays(x)  BY <4>3 DEF Stays
      <4>7. turns' \in [Accounts -> 0 .. MaxTurns]  BY <4>2, <1>h, KillTurnsTyped
      <4>8. QED  BY <4>3, <4>4, <4>5, <4>6, <4>7
    <3>3. QED  BY <3>1, <3>2
  <2>5. Dies(n)
    <3>1. sess'[n].cmd = NoSlot /\ ~sess'[n].msg  BY <2>4 DEF NewSession
    <3>2. QED  BY <2>2, <3>1 DEF Dies
  <2>6. \A x \in Sessions : Dies(x) \/ Stays(x)  BY <2>4, <2>5
  <2>7. SlotsStep /\ NoStart  BY <2>4 DEF Kept, SlotsStep, NoStart
  <2>8. TypeOK'  BY <1>h, <2>1, <2>3, <2>4 DEF TypeOK, HandlerType
  <2>9. Owned' /\ Planned'  BY <2>4 DEF Kept, SessionInv, Basics, Owned, Planned
  <2>10. Held' /\ Bound'  BY <2>3 DEF Held, Bound, At
  <2>11. \A x \in Sessions : Dies(x) \/ sess'[x].cmd = sess[x].cmd  BY <2>6 DEF Stays
  <2>12. WithinReach' /\ Locks'  BY <1>h, <2>3, <2>7, <2>11, ReachKept, LocksKept
  <2>13. SpinnerHeld'  BY <1>0, <2>6, <2>7, <2>8, SpinnerKept
  <2>14. Fresh'
    <3>1. \A q \in Slots : proc'[q].owner # n  BY <2>2, <2>4 DEF Kept, Own
    <3>2. ~sess'[n].msg  BY <2>5 DEF Dies
    <3>3. QED  BY <2>3, <3>1, <3>2 DEF Fresh, Own
  <2>15. QED  BY <2>8, <2>9, <2>10, <2>12, <2>13, <2>14 DEF SessionInv, Basics
<1>3. QED  BY <1>1, <1>2 DEF Acquire

(* A command is counted. *)
LEMMA AsksTyped ==
  ASSUME TypeOK, NEW command, Asks(command)
  PROVE  asked' \in 0 .. MaxCommands /\ stopped' \in BOOLEAN
<1>1. MaxCommands \in Nat /\ asked \in 0 .. MaxCommands  BY SessionAssumption DEF TypeOK
<1>2. QED  BY <1>1 DEF Asks

LEMMA MessageKeeps ==
  ASSUME SessionInv, Message PROVE SessionInv'
<1>1. At("idle") /\ Asks("message")  BY DEF Message, Asks
<1>2. asked' \in 0 .. MaxCommands /\ stopped' \in BOOLEAN
  BY <1>1, AsksTyped DEF SessionInv, Basics
<1>3. Acquire(FALSE, "check") /\ UNCHANGED <<starting, doomed, stalled, adminVars>>  BY DEF Message
<1>4. QED  BY <1>1, <1>2, <1>3, AcquireKeeps

LEMMA ReplaceKeeps ==
  ASSUME SessionInv, Replace PROVE SessionInv'
<1>1. At("idle") /\ Asks("replace")  BY DEF Replace, Asks
<1>2. asked' \in 0 .. MaxCommands /\ stopped' \in BOOLEAN
  BY <1>1, AsksTyped DEF SessionInv, Basics
<1>3. Acquire(TRUE, "idle") /\ UNCHANGED <<starting, doomed, stalled, adminVars>>  BY DEF Replace
<1>4. QED  BY <1>1, <1>2, <1>3, AcquireKeeps
-----------------------------------------------------------------------------
(* start(), called by the handler and by a reader.                         *)

(* A process begins for the session whose startMu is held. *)
LEMMA BeginKeeps ==
  ASSUME SessionInv, TypeOK', NEW s \in Sessions, NEW c \in Slots, proc[c].pc = "free",
         starting[s] # Nobody, starting' = [starting EXCEPT ![s] = Nobody],
         sess'[s].cmd = c, \A x \in Sessions \ {s} : sess'[x] = sess[x],
         proc'[c].owner = s, proc'[c].pc \in {"reading", "done"},
         \A q \in Slots \ {c} :
           /\ proc'[q].owner = proc[q].owner
           /\ proc'[q].run => proc[q].run
           /\ proc'[q].pc = proc[q].pc \/ (Own(q) = s /\ proc'[q].pc = "done"),
         \A q \in Slots \ {c} : Own(q) = s => proc'[q].pc # "spawn",
         handler'.pc = "spawn" => handler' = handler /\ handler.s # s,
         \A x \in Sessions \ {s} : HandlerOn(x) => HandlerOn(x)'
  PROVE  WithinReach' /\ Locks' /\ SpinnerHeld'
<1>h. TypeOK /\ starting \in [Sessions -> {Nobody, Handler} \cup Slots]
  BY DEF SessionInv, Basics, TypeOK
<1>t. starting'[s] = Nobody /\ \A x \in Sessions \ {s} : starting'[x] = starting[x]  BY <1>h
<1>d. sess[s].cmd = NoSlot  BY DEF SessionInv, Locks, Alive
<1>n. c # NoSlot  BY SessionAssumption
<1>1. ASSUME NEW q \in Slots, proc'[q].run PROVE sess'[proc'[q].owner].cmd = q
  <2>1. CASE q = c  BY <2>1
  <2>2. CASE q # c
    <3>1. proc[q].run /\ proc'[q].owner = proc[q].owner  BY <1>1, <2>2
    <3>2. sess[proc[q].owner].cmd = q  BY <3>1 DEF SessionInv, WithinReach, Own
    <3>3. proc[q].owner \in Sessions  BY <3>1 DEF SessionInv, Basics, Owned
    <3>4. proc[q].owner # s  BY <3>2, <1>d, SessionAssumption
    <3>5. QED  BY <3>1, <3>2, <3>3, <3>4
  <2>3. QED  BY <2>1, <2>2
<1>2. WithinReach'  BY <1>1 DEF WithinReach, Own
<1>3. ASSUME handler'.pc = "spawn" PROVE starting'[handler'.s] = Handler
  <2>1. handler' = handler /\ handler.s # s  BY <1>3
  <2>2. handler.s \in Sessions /\ starting[handler.s] = Handler
    BY <1>3, <2>1 DEF SessionInv, Basics, Held, Locks, At
  <2>3. QED  BY <2>1, <2>2, <1>t
<1>4. ASSUME NEW q \in Slots, proc'[q].pc = "spawn" PROVE starting'[proc'[q].owner] = q
  <2>1. q # c  BY <1>4
  <2>2. proc[q].pc = "spawn" /\ proc'[q].owner = Own(q) /\ Own(q) # s  BY <1>4, <2>1 DEF Own
  <2>3. Own(q) \in Sessions /\ starting[Own(q)] = q
    BY <2>2 DEF SessionInv, Basics, Owned, Locks, Own
  <2>4. QED  BY <2>2, <2>3, <1>t
<1>5. ASSUME NEW x \in Sessions, starting'[x] # Nobody PROVE sess'[x].cmd = NoSlot
  <2>1. x # s /\ starting[x] # Nobody  BY <1>5, <1>t
  <2>2. QED  BY <2>1 DEF SessionInv, Locks, Alive
<1>6. Locks'  BY <1>3, <1>4, <1>5 DEF Locks, At, Alive, Own
<1>7. SpinnerHeld'
  <2>. SUFFICES ASSUME NEW x \in Sessions, sess'[x].msg
                PROVE  Alive(x)' \/ Recovering(x)' \/ HandlerOn(x)'
    BY DEF SpinnerHeld
  <2>1. CASE x = s  BY <2>1, <1>n DEF Alive
  <2>2. CASE x # s
    <3>1. Alive(x) \/ Recovering(x) \/ HandlerOn(x)
      BY <2>2 DEF SessionInv, SpinnerHeld
    <3>2. CASE Alive(x)  BY <3>2, <2>2 DEF Alive
    <3>3. CASE Recovering(x)
      <4>1. PICK q \in Slots : Own(q) = x /\ proc[q].pc \in AtWork
        BY <3>3, <1>h, AtWorkIsRecovering
      <4>2. q # c  BY <4>1 DEF AtWork
      <4>3. proc'[q].owner = x /\ proc'[q].pc \in AtWork  BY <4>1, <4>2, <2>2 DEF Own
      <4>4. QED  BY <4>3 DEF Recovering, AtWork, Own
    <3>4. CASE HandlerOn(x)  BY <3>4, <2>2
    <3>5. QED  BY <3>1, <3>2, <3>3, <3>4
  <2>3. QED  BY <2>1, <2>2
<1>8. QED  BY <1>2, <1>6, <1>7

(* What start() writes into the session. *)
LEMMA StartWrites ==
  ASSUME TypeOK, NEW s \in Sessions, NEW b \in Bind(s), NEW c \in Slots \cup {NoSlot},
         NEW ctx \in {"none", "new", "live"},
         sess' = [sess EXCEPT ![s].account = b.account, ![s].cmd = c, ![s].ctx = ctx],
         starting' = [starting EXCEPT ![s] = Nobody]
  PROVE  /\ sess' \in [Sessions -> Session] /\ starting' \in [Sessions -> {Nobody, Handler} \cup Slots]
         /\ sess'[s].cmd = c /\ sess'[s].msg = sess[s].msg
         /\ \A x \in Sessions \ {s} : sess'[x] = sess[x]
         /\ b.turns \in [Accounts -> 0 .. MaxTurns]
<1>h. sess \in [Sessions -> Session] /\ starting \in [Sessions -> {Nobody, Handler} \cup Slots]
      /\ sess[s] \in Session
  BY DEF TypeOK
<1>b. b.account \in Accounts \cup {NoAccount} /\ b.turns \in [Accounts -> 0 .. MaxTurns]
  BY BindTyped
<1>1. PICK n : n = [sess[s] EXCEPT !.account = b.account, !.cmd = c, !.ctx = ctx]  OBVIOUS
<1>2. n \in Session /\ n.cmd = c /\ n.msg = sess[s].msg  BY <1>1, <1>b, <1>h DEF Session
<1>3. sess' = [sess EXCEPT ![s] = n]  BY <1>1, <1>h
<1>4. QED  BY <1>2, <1>3, <1>b, <1>h

LEMMA StartedWrites ==
  ASSUME TypeOK, NEW s \in Sessions, NEW b, NEW c,
         Started(s, c, b) \/ (c = NoSlot /\ NotStarted(s, b))
  PROVE  \E ctx \in {"none", "new", "live"} :
           /\ sess' = [sess EXCEPT ![s].account = b.account, ![s].cmd = c, ![s].ctx = ctx]
           /\ starting' = [starting EXCEPT ![s] = Nobody]
<1>h. sess \in [Sessions -> Session] /\ sess[s] \in Session  BY DEF TypeOK
<1>1. CASE Started(s, c, b)
  <2>1. PICK ctx \in {"none", "live"} : ctx = IF sess[s].ctx = "new" THEN "live" ELSE "none"
    OBVIOUS
  <2>2. [sess EXCEPT ![s].account = b.account, ![s].cmd = c,
                     ![s].ctx = IF @ = "new" THEN "live" ELSE "none"]
        = [sess EXCEPT ![s].account = b.account, ![s].cmd = c, ![s].ctx = ctx]
    BY <2>1, <1>h DEF Session
  <2>3. QED  BY <1>1, <2>2 DEF Started
<1>2. CASE c = NoSlot /\ NotStarted(s, b)
  <2>1. sess[s].ctx \in {"none", "new", "live"}  BY <1>h DEF Session
  <2>2. [sess EXCEPT ![s].account = b.account, ![s].cmd = c]
        = [sess EXCEPT ![s].account = b.account, ![s].cmd = c, ![s].ctx = sess[s].ctx]
    BY <1>h DEF Session
  <2>3. QED  BY <1>2, <2>1, <2>2 DEF NotStarted
<1>3. QED  BY <1>1, <1>2

(* A new context changes nothing else. *)
LEMMA ContextWrites ==
  ASSUME TypeOK, NEW s \in Sessions, sess' = WithContext(s)
  PROVE  /\ sess' \in [Sessions -> Session]
         /\ \A x \in Sessions : sess'[x].cmd = sess[x].cmd /\ sess'[x].msg = sess[x].msg
<1>h. sess \in [Sessions -> Session] /\ sess[s] \in Session  BY DEF TypeOK
<1>1. PICK n : n = [sess[s] EXCEPT !.ctx = "new"]  OBVIOUS
<1>2. n \in Session /\ n.cmd = sess[s].cmd /\ n.msg = sess[s].msg  BY <1>1, <1>h DEF Session
<1>3. sess' = [sess EXCEPT ![s] = n]  BY <1>1, <1>h DEF WithContext
<1>4. QED  BY <1>2, <1>3, <1>h

LEMMA HandlerStartKeeps ==
  ASSUME SessionInv, HandlerStart PROVE SessionInv'
<1>0. handler.pc = "start"  BY DEF HandlerStart, At
<1>s. PICK s : s = handler.s  OBVIOUS
<1>h. /\ TypeOK /\ sess \in [Sessions -> Session] /\ s \in Sessions
      /\ starting \in [Sessions -> {Nobody, Handler} \cup Slots]
      /\ handler \in HandlerType
  BY <1>0, <1>s, HandlerHas DEF At, TypeOK
<1>u. UNCHANGED <<registry, proc, doomed, stalled, turns, resting, resets, asked, stopped, lost>>
  BY DEF HandlerStart, adminVars, userVars
<1>k. \A q \in Slots : Kept(q)  BY <1>u DEF Kept
<1>w. /\ sess' \in [Sessions -> Session]
      /\ \A x \in Sessions : sess'[x].cmd = sess[x].cmd /\ sess'[x].msg = sess[x].msg
  BY <1>h, <1>s, ContextWrites DEF HandlerStart
<1>y. \A x \in Sessions : Stays(x)  BY <1>w DEF Stays
<1>n. \A x \in Sessions : HandlerOn(x) => x = s  BY <1>s DEF HandlerOn
<1>b. handler.then \in {"check", "idle", "look", "apologise"}
      /\ (handler.fresh \/ handler.then \in {"look", "apologise"})
  BY <1>0 DEF SessionInv, Basics, Bound
<1>1. CASE Alive(s) /\ Goes(handler.then) /\ starting' = starting
  <2>1. handler' \in HandlerType /\ handler'.pc = handler.then /\ (handler'.pc # "idle" => handler'.s = s)
    BY <1>1, <1>b, <1>h, <1>s, GoesDoes DEF HandlerPC
  <2>2. TypeOK'  BY <1>1, <1>h, <1>u, <1>w, <2>1 DEF TypeOK, HandlerType
  <2>3. Alive(s)'  BY <1>1, <1>h, <1>w DEF Alive
  <2>4. QED  BY <1>1, <1>b, <1>h, <1>k, <1>y, <1>n, <2>1, <2>2, <2>3, HandlerKeeps
<1>2. CASE MayStart(s) /\ starting' = [starting EXCEPT ![s] = Handler] /\ Goes("spawn")
  <2>1. /\ handler' \in HandlerType /\ handler'.pc = "spawn" /\ handler'.s = s
        /\ handler'.fresh = handler.fresh /\ handler'.then = handler.then
    BY <1>2, <1>h, <1>s, GoesDoes DEF HandlerPC
  <2>2. /\ starting' \in [Sessions -> {Nobody, Handler} \cup Slots]
        /\ starting'[s] = Handler /\ \A x \in Sessions \ {s} : starting'[x] = starting[x]
    BY <1>2, <1>h
  <2>3. TypeOK'  BY <1>h, <1>u, <1>w, <2>1, <2>2 DEF TypeOK, HandlerType
  <2>4. Owned' /\ Planned'  BY <1>u DEF SessionInv, Basics, Owned, Planned
  <2>5. Held' /\ Bound'  BY <1>0, <1>h, <2>1 DEF SessionInv, Basics, Held, Bound, At
  <2>6. WithinReach'
    <3>1. SlotsStep  BY <1>u DEF SlotsStep
    <3>2. QED  BY <1>w, <3>1, ReachKept
  <2>7. Locks'
    <3>1. starting[s] = Nobody /\ sess[s].cmd = NoSlot  BY <1>2 DEF MayStart, Alive
    <3>2. ASSUME NEW q \in Slots, proc[q].pc = "spawn" PROVE starting'[proc[q].owner] = q
      <4>1. Own(q) \in Sessions /\ starting[Own(q)] = q
        BY <3>2 DEF SessionInv, Basics, Owned, Locks, Own
      <4>2. q # Nobody  BY SessionAssumption DEF Nobody
      <4>3. Own(q) # s  BY <4>1, <4>2, <3>1
      <4>4. QED  BY <4>1, <4>3, <2>2 DEF Own
    <3>3. \A x \in Sessions : starting'[x] # Nobody => sess'[x].cmd = NoSlot
      BY <1>w, <2>2, <3>1 DEF SessionInv, Locks, Alive
    <3>4. QED  BY <1>u, <2>1, <2>2, <3>2, <3>3 DEF Locks, At, Alive, Own
  <2>8. Fresh'  BY <1>0, <1>h, <1>s, <1>u, <1>w, <2>1 DEF SessionInv, Fresh, Own
  <2>9. SpinnerHeld'
    <3>1. \A x \in Sessions : HandlerOn(x) => HandlerOn(x)'  BY <1>n, <2>1 DEF HandlerOn
    <3>2. SlotsStep  BY <1>u DEF SlotsStep
    <3>3. QED  BY <1>y, <2>3, <3>1, <3>2, SpinnerKept
  <2>10. QED  BY <2>3, <2>4, <2>5, <2>6, <2>7, <2>8, <2>9 DEF SessionInv, Basics
<1>3. QED  BY <1>1, <1>2, <1>s DEF HandlerStart

LEMMA HandlerSpawnKeeps ==
  ASSUME SessionInv, HandlerSpawn PROVE SessionInv'
<1>0. handler.pc = "spawn"  BY DEF HandlerSpawn, At
<1>s. PICK s : s = handler.s  OBVIOUS
<1>h. /\ TypeOK /\ sess \in [Sessions -> Session] /\ proc \in [Slots -> Process] /\ s \in Sessions
      /\ starting \in [Sessions -> {Nobody, Handler} \cup Slots]
  BY <1>0, <1>s, HandlerHas DEF At, TypeOK
<1>b. handler.then \in {"check", "idle", "look", "apologise"}
      /\ (handler.fresh \/ handler.then \in {"look", "apologise"})
  BY <1>0 DEF SessionInv, Basics, Bound
<1>g. /\ handler' \in HandlerType /\ handler'.pc = handler.then
      /\ handler'.pc # "idle" => handler'.s = s
  <2>1. Goes(handler.then)  BY DEF HandlerSpawn
  <2>2. handler.then \in HandlerPC  BY <1>b DEF HandlerPC
  <2>3. QED  BY <2>1, <2>2, <1>h, <1>s, GoesDoes
<1>u. UNCHANGED <<doomed, stalled, resting, resets, asked, stopped>>
  BY DEF HandlerSpawn, adminVars
<1>l. starting[s] = Handler /\ Handler # Nobody /\ sess[s].cmd = NoSlot
  <2>1. starting[s] = Handler /\ Handler # Nobody  BY <1>0, <1>s DEF SessionInv, Locks, At, Handler, Nobody
  <2>2. QED  BY <2>1, <1>h DEF SessionInv, Locks, Alive
<1>q. \A q \in Slots : proc[q].pc = "spawn" => Own(q) # s
  <2>1. Handler \notin Slots  BY SessionAssumption DEF Handler
  <2>2. QED  BY <2>1, <1>l DEF SessionInv, Locks
<1>o. Held' /\ Bound' /\ Fresh'  BY <1>b, <1>g, <1>h DEF Held, Bound, Fresh, At
<1>n. \A x \in Sessions \ {s} : ~HandlerOn(x)  BY <1>s DEF HandlerOn
<1>1. PICK b \in Bind(s) :
           /\ turns' = b.turns
           /\ \/ \E p \in Free : /\ Started(s, p, b) /\ proc' = [proc EXCEPT ![p] = Child(s)]
                                 /\ UNCHANGED <<registry, lost>>
              \/ /\ NotStarted(s, b) /\ UNCHANGED proc
                 /\ IF handler.fresh /\ registry = s
                    THEN registry' = NoSession /\ lost' = lost \cup {s}
                    ELSE UNCHANGED <<registry, lost>>
  BY <1>s DEF HandlerSpawn
<1>2. CASE \E p \in Free : /\ Started(s, p, b) /\ proc' = [proc EXCEPT ![p] = Child(s)]
                           /\ UNCHANGED <<registry, lost>>
  <2>1. PICK c \in Slots : /\ proc[c].pc = "free"
                           /\ Started(s, c, b) /\ proc' = [proc EXCEPT ![c] = Child(s)]
                           /\ UNCHANGED <<registry, lost>>
    BY <1>2 DEF Free
  <2>2. PICK ctx \in {"none", "new", "live"} :
          /\ sess' = [sess EXCEPT ![s].account = b.account, ![s].cmd = c, ![s].ctx = ctx]
          /\ starting' = [starting EXCEPT ![s] = Nobody]
    BY <2>1, <1>h, StartedWrites
  <2>3. /\ sess' \in [Sessions -> Session] /\ starting' \in [Sessions -> {Nobody, Handler} \cup Slots]
        /\ sess'[s].cmd = c /\ sess'[s].msg = sess[s].msg
        /\ \A x \in Sessions \ {s} : sess'[x] = sess[x]
        /\ b.turns \in [Accounts -> 0 .. MaxTurns]
    BY <2>2, <1>h, StartWrites
  <2>4. /\ proc' \in [Slots -> Process] /\ proc'[c] = Child(s)
        /\ \A q \in Slots \ {c} : proc'[q] = proc[q]
    BY <2>1, <1>h, ProcessValues
  <2>5. proc'[c].owner = s /\ proc'[c].pc \in {"reading", "done"} /\ proc'[c].plan = "none"
    BY <2>4, <1>h, ProcessKeeps
  <2>6. TypeOK'  BY <1>1, <1>g, <1>h, <1>u, <2>1, <2>3, <2>4 DEF TypeOK, HandlerType
  <2>7. Owned'
    <3>1. \A q \in Slots \ {c} : /\ proc'[q].pc # "free" => proc'[q].owner \in Sessions
                                 /\ proc'[q].run => proc'[q].pc # "free"
      BY <2>4 DEF SessionInv, Basics, Owned
    <3>2. QED  BY <3>1, <2>5, <1>h DEF Owned
  <2>8. Planned'
    <3>1. \A q \in Slots \ {c} :
            proc'[q].pc \in {"cut", "rearm", "restart", "spawn"} => proc'[q].plan # "none"
      BY <2>4 DEF SessionInv, Basics, Planned
    <3>2. QED  BY <3>1, <2>5 DEF Planned
  <2>9. WithinReach' /\ Locks' /\ SpinnerHeld'
    <3>1. \A q \in Slots \ {c} :
           /\ proc'[q].owner = proc[q].owner
           /\ proc'[q].run => proc[q].run
           /\ proc'[q].pc = proc[q].pc \/ (Own(q) = s /\ proc'[q].pc = "done")
      BY <2>4
    <3>2. \A q \in Slots \ {c} : Own(q) = s => proc'[q].pc # "spawn"  BY <2>4, <1>q
    <3>3. handler'.pc # "spawn"  BY <1>b, <1>g
    <3>4. QED  BY <1>h, <1>l, <1>n, <2>1, <2>2, <2>3, <2>5, <2>6, <3>1, <3>2, <3>3, BeginKeeps
  <2>10. QED  BY <1>o, <2>6, <2>7, <2>8, <2>9 DEF SessionInv, Basics
<1>3. CASE /\ NotStarted(s, b) /\ UNCHANGED proc
           /\ registry' \in {registry, NoSession} /\ lost' \subseteq lost \cup {s}
  <2>2. PICK ctx \in {"none", "new", "live"} :
          /\ sess' = [sess EXCEPT ![s].account = b.account, ![s].cmd = NoSlot, ![s].ctx = ctx]
          /\ starting' = [starting EXCEPT ![s] = Nobody]
    BY <1>3, <1>h, StartedWrites
  <2>3. /\ sess' \in [Sessions -> Session] /\ starting' \in [Sessions -> {Nobody, Handler} \cup Slots]
        /\ sess'[s].cmd = NoSlot /\ sess'[s].msg = sess[s].msg
        /\ \A x \in Sessions \ {s} : sess'[x] = sess[x]
        /\ b.turns \in [Accounts -> 0 .. MaxTurns]
    BY <2>2, <1>h, StartWrites
  <2>4. TypeOK'  BY <1>1, <1>3, <1>g, <1>h, <1>u, <2>3 DEF TypeOK, HandlerType
  <2>5. Owned' /\ Planned'  BY <1>3 DEF SessionInv, Basics, Owned, Planned
  <2>6. SlotsStep /\ NoStart  BY <1>3 DEF SlotsStep, NoStart
  <2>7. \A x \in Sessions : Stays(x)  BY <2>3, <1>l DEF Stays
  <2>8. \A x \in Sessions : sess'[x].cmd = sess[x].cmd  BY <2>7 DEF Stays
  <2>9. Unlocks(s) /\ \A x \in Sessions \ {s} : starting'[x] = starting[x]
    <3>1. starting'[s] = Nobody /\ \A x \in Sessions \ {s} : starting'[x] = starting[x]
      BY <2>2, <1>h
    <3>2. \A q \in Slots : Own(q) = s => proc'[q].pc # "spawn"  BY <1>3, <1>q
    <3>3. handler'.pc # "spawn"  BY <1>b, <1>g
    <3>4. QED  BY <3>1, <3>2, <3>3 DEF Unlocks
  <2>10. WithinReach'  BY <2>6, <2>8, ReachKept
  <2>11. Locks'
    <3>1. handler'.pc # "spawn"  BY <1>b, <1>g
    <3>2. \A x \in Sessions : starting'[x] = starting[x] \/ Unlocks(x)  BY <2>9
    <3>3. QED  BY <2>6, <2>8, <3>1, <3>2, LocksKept
  <2>12. SpinnerHeld'
    <3>1. CASE handler.fresh
      <4>1. ~sess'[s].msg  BY <3>1, <2>3, <1>0, <1>s DEF SessionInv, Fresh
      <4>2. \A x \in Sessions : HandlerOn(x) => HandlerOn(x)' \/ Alive(x)' \/ ~sess'[x].msg
        BY <4>1, <1>n
      <4>3. QED  BY <2>4, <2>6, <2>7, <4>2, SpinnerKept
    <3>2. CASE ~handler.fresh
      <4>1. handler'.pc \in {"look", "apologise"} /\ handler'.s = s  BY <3>2, <1>b, <1>g
      <4>2. \A x \in Sessions : HandlerOn(x) => HandlerOn(x)' \/ Alive(x)' \/ ~sess'[x].msg
        BY <4>1, <1>n DEF HandlerOn
      <4>3. QED  BY <2>4, <2>6, <2>7, <4>2, SpinnerKept
    <3>3. QED  BY <3>1, <3>2
  <2>13. QED  BY <1>o, <2>4, <2>5, <2>10, <2>11, <2>12 DEF SessionInv, Basics
<1>4. QED  BY <1>1, <1>2, <1>3
(* A reader finds the session alive and prompts its agent, or takes        *)
(* startMu.                                                                *)
LEMMA RestartKeeps ==
  ASSUME SessionInv, NEW p \in Slots, Restart(p) PROVE SessionInv'
<1>0. proc[p].pc = "restart"  BY DEF Restart
<1>s. PICK s : s = Own(p)  OBVIOUS
<1>h. /\ TypeOK /\ proc \in [Slots -> Process] /\ sess \in [Sessions -> Session]
      /\ starting \in [Sessions -> {Nobody, Handler} \cup Slots]
      /\ proc[p] \in Process /\ s \in Sessions /\ sess[s] \in Session
  BY <1>0, <1>s, ReaderHas DEF TypeOK
<1>u. UNCHANGED <<registry, handler, doomed, stalled, turns, resting, resets, asked, stopped, lost>>
  BY DEF Restart, adminVars, userVars
<1>w. /\ sess' \in [Sessions -> Session]
      /\ \A x \in Sessions : sess'[x].cmd = sess[x].cmd /\ sess'[x].msg = sess[x].msg
  BY <1>h, <1>s, ContextWrites DEF Restart
<1>y. \A x \in Sessions : Stays(x)  BY <1>w DEF Stays
<1>1. CASE Alive(s) /\ starting' = starting
           /\ proc' = [[proc EXCEPT ![p] = Done(@)] EXCEPT ![sess[s].cmd] = Prompted(@)]
  <2>1. PICK c \in Slots : c = sess[s].cmd  BY <1>1, <1>h DEF Alive, Session
  <2>2. PICK g : g = [proc EXCEPT ![p] = Done(proc[p])]  OBVIOUS
  <2>3. g \in [Slots -> Process] /\ g[p] = Done(proc[p]) /\ \A q \in Slots \ {p} : g[q] = proc[q]
    BY <2>2, <1>h, ProcessValues
  <2>4. proc' = [g EXCEPT ![c] = Prompted(g[c])]  BY <1>1, <2>1, <2>2
  <2>5. g[c] \in Process /\ Prompted(g[c]) \in Process  BY <2>3, ProcessValues
  <2>6. proc' \in [Slots -> Process]  BY <2>3, <2>4, <2>5
  <2>7. \A q \in Slots : /\ proc'[q].owner = g[q].owner /\ proc'[q].pc = g[q].pc
                         /\ proc'[q].plan = g[q].plan /\ proc'[q].run = g[q].run
    <3>1. proc'[c] = Prompted(g[c]) /\ \A q \in Slots \ {c} : proc'[q] = g[q]  BY <2>3, <2>4
    <3>2. QED  BY <3>1, <2>5, ProcessKeeps
  <2>8. g[p].owner = proc[p].owner /\ g[p].pc = "done" /\ g[p].run = proc[p].run
    BY <2>3, <1>h, ProcessKeeps
  <2>9. \A q \in Slots \ {p} : Kept(q)  BY <2>3, <2>7 DEF Kept
  <2>10. Moves(p)  BY <2>7, <2>8, <2>9 DEF Moves
  <2>11. TypeOK'  BY <1>1, <1>h, <1>u, <1>w, <2>6 DEF TypeOK
  <2>12. sess'[Own(p)].cmd # NoSlot  BY <1>1, <1>h, <1>s, <1>w DEF Alive
  <2>13. QED  BY <1>0, <1>1, <1>u, <1>y, <2>10, <2>11, <2>12, ReaderKeeps
<1>2. CASE MayStart(s) /\ starting' = [starting EXCEPT ![s] = p]
           /\ proc' = [proc EXCEPT ![p] = [proc[p] EXCEPT !.pc = "spawn"]]
  <2>1. [proc[p] EXCEPT !.pc = "spawn"] \in Process  BY <1>h DEF Process, Reader
  <2>2. /\ proc' \in [Slots -> Process] /\ \A q \in Slots \ {p} : proc'[q] = proc[q]
        /\ proc'[p].owner = s /\ proc'[p].pc = "spawn" /\ proc'[p].run = proc[p].run
        /\ proc'[p].plan = proc[p].plan
    BY <1>2, <1>h, <1>s, <2>1 DEF Process, Own
  <2>3. /\ starting' \in [Sessions -> {Nobody, Handler} \cup Slots]
        /\ starting'[s] = p /\ \A x \in Sessions \ {s} : starting'[x] = starting[x]
    BY <1>2, <1>h
  <2>4. TypeOK'  BY <1>h, <1>u, <1>w, <2>2, <2>3 DEF TypeOK
  <2>5. Owned' /\ Planned'
    <3>1. proc[p].plan # "none"  BY <1>0 DEF SessionInv, Basics, Planned
    <3>2. \A q \in Slots \ {p} :
            /\ proc'[q].pc # "free" => proc'[q].owner \in Sessions
            /\ proc'[q].run => proc'[q].pc # "free"
            /\ proc'[q].pc \in {"cut", "rearm", "restart", "spawn"} => proc'[q].plan # "none"
      BY <2>2 DEF SessionInv, Basics, Owned, Planned
    <3>3. QED  BY <1>h, <2>2, <3>1, <3>2 DEF Owned, Planned
  <2>6. Held' /\ Bound'  BY <1>u DEF SessionInv, Basics, Held, Bound, At
  <2>7. SlotsStep
    <3>1. proc[p].owner = s  BY <1>s DEF Own
    <3>2. QED  BY <2>2, <3>1 DEF SlotsStep, AtWork
  <2>8. \A x \in Sessions : sess'[x].cmd = sess[x].cmd  BY <1>w
  <2>9. WithinReach'  BY <2>7, <2>8, ReachKept
  <2>10. SpinnerHeld'
    <3>1. \A x \in Sessions : HandlerOn(x) => HandlerOn(x)'  BY <1>u DEF HandlerOn
    <3>2. QED  BY <1>y, <2>4, <2>7, <3>1, SpinnerKept
  <2>11. Fresh'  BY <1>u, <1>y, <2>7, FreshKept
  <2>12. Locks'
    <3>1. starting[s] = Nobody /\ sess[s].cmd = NoSlot  BY <1>2 DEF MayStart, Alive
    <3>2. ASSUME handler.pc = "spawn" PROVE starting'[handler.s] = Handler
      <4>1. handler.s \in Sessions /\ starting[handler.s] = Handler
        BY <3>2 DEF SessionInv, Basics, Held, Locks, At
      <4>2. handler.s # s  BY <4>1, <3>1 DEF Handler, Nobody
      <4>3. QED  BY <4>1, <4>2, <2>3
    <3>3. ASSUME NEW q \in Slots, proc'[q].pc = "spawn" PROVE starting'[proc'[q].owner] = q
      <4>1. CASE q = p  BY <4>1, <2>2, <2>3
      <4>2. CASE q # p
        <5>1. proc[q].pc = "spawn" /\ proc'[q].owner = Own(q)  BY <3>3, <4>2, <2>2 DEF Own
        <5>2. Own(q) \in Sessions /\ starting[Own(q)] = q
          BY <5>1 DEF SessionInv, Basics, Owned, Locks, Own
        <5>3. q # Nobody  BY SessionAssumption DEF Nobody
        <5>4. Own(q) # s  BY <5>2, <5>3, <3>1
        <5>5. QED  BY <5>1, <5>2, <5>4, <2>3
      <4>3. QED  BY <4>1, <4>2
    <3>4. \A x \in Sessions : starting'[x] # Nobody => sess'[x].cmd = NoSlot
      BY <1>w, <2>3, <3>1 DEF SessionInv, Locks, Alive
    <3>5. QED  BY <1>u, <3>2, <3>3, <3>4 DEF Locks, At, Alive, Own
  <2>13. QED  BY <2>4, <2>5, <2>6, <2>9, <2>10, <2>11, <2>12 DEF SessionInv, Basics
<1>3. QED
  <2>1. [proc EXCEPT ![p].pc = "spawn"] = [proc EXCEPT ![p] = [proc[p] EXCEPT !.pc = "spawn"]]
    BY <1>h
  <2>2. QED  BY <2>1, <1>1, <1>2, <1>s DEF Restart

(* The agent is started, or the next remedy is tried. *)
LEMMA RespawnKeeps ==
  ASSUME SessionInv, NEW p \in Slots, Respawn(p) PROVE SessionInv'
<1>0. proc[p].pc = "spawn"  BY DEF Respawn
<1>s. PICK s : s = Own(p)  OBVIOUS
<1>h. /\ TypeOK /\ proc \in [Slots -> Process] /\ sess \in [Sessions -> Session]
      /\ starting \in [Sessions -> {Nobody, Handler} \cup Slots]
      /\ proc[p] \in Process /\ s \in Sessions /\ sess[s] \in Session
  BY <1>0, <1>s, ReaderHas DEF TypeOK
<1>u. UNCHANGED <<registry, handler, doomed, stalled, resting, resets, asked, stopped, lost>>
  BY DEF Respawn, adminVars, userVars
<1>l. starting[s] = p /\ p # Nobody /\ p # Handler /\ sess[s].cmd = NoSlot
  <2>1. starting[s] = p /\ p # Nobody /\ p # Handler
    BY <1>0, <1>s, SessionAssumption DEF SessionInv, Locks, Handler, Nobody
  <2>2. QED  BY <2>1, <1>h DEF SessionInv, Locks, Alive
<1>q. \A q \in Slots \ {p} : proc[q].pc = "spawn" => Own(q) # s
  BY <1>l DEF SessionInv, Locks
<1>n. handler.pc = "spawn" => handler.s # s
  BY <1>l DEF SessionInv, Locks, At
<1>o. Held' /\ Bound'  BY <1>u DEF SessionInv, Basics, Held, Bound, At
<1>1. CASE \E c \in Free : \E b \in Bind(s) :
              /\ Started(s, c, b)
              /\ proc' = [proc EXCEPT ![p] = Done(@), ![c] = Prompted(Child(s))]
              /\ turns' = b.turns
  <2>1. PICK c \in Slots, b \in Bind(s) :
              /\ proc[c].pc = "free" /\ Started(s, c, b)
              /\ proc' = [proc EXCEPT ![p] = Done(@), ![c] = Prompted(Child(s))]
              /\ turns' = b.turns
    BY <1>1 DEF Free
  <2>2. PICK ctx \in {"none", "new", "live"} :
          /\ sess' = [sess EXCEPT ![s].account = b.account, ![s].cmd = c, ![s].ctx = ctx]
          /\ starting' = [starting EXCEPT ![s] = Nobody]
    BY <2>1, <1>h, StartedWrites
  <2>3. /\ sess' \in [Sessions -> Session] /\ starting' \in [Sessions -> {Nobody, Handler} \cup Slots]
        /\ sess'[s].cmd = c /\ sess'[s].msg = sess[s].msg
        /\ \A x \in Sessions \ {s} : sess'[x] = sess[x]
        /\ b.turns \in [Accounts -> 0 .. MaxTurns]
    BY <2>2, <1>h, StartWrites
  <2>c. c # p  BY <1>0, <2>1
  <2>d. Done(proc[p]) \in Process /\ Prompted(Child(s)) \in Process  BY <1>h, ProcessValues
  <2>4. /\ proc' \in [Slots -> Process] /\ proc'[c] = Prompted(Child(s)) /\ proc'[p] = Done(proc[p])
        /\ \A q \in Slots \ {c, p} : proc'[q] = proc[q]
    BY <2>1, <2>c, <2>d, <1>h
  <2>5. proc'[c].owner = s /\ proc'[c].pc \in {"reading", "done"} /\ proc'[c].plan = "none"
    <3>1. Child(s) \in Process  BY <1>h, ProcessValues
    <3>2. QED  BY <2>4, <3>1, <1>h, ProcessKeeps
  <2>p. /\ proc'[p].owner = proc[p].owner /\ proc'[p].pc = "done" /\ (proc'[p].run => proc[p].run)
    BY <2>4, <1>h, ProcessKeeps
  <2>6. TypeOK'  BY <1>h, <1>u, <2>1, <2>3, <2>4 DEF TypeOK
  <2>7. Owned'
    <3>1. \A q \in Slots \ {c, p} : /\ proc'[q].pc # "free" => proc'[q].owner \in Sessions
                                    /\ proc'[q].run => proc'[q].pc # "free"
      BY <2>4 DEF SessionInv, Basics, Owned
    <3>2. QED  BY <3>1, <2>5, <2>p, <1>h, <1>s DEF Owned, Own
  <2>8. Planned'
    <3>1. \A q \in Slots \ {c, p} :
            proc'[q].pc \in {"cut", "rearm", "restart", "spawn"} => proc'[q].plan # "none"
      BY <2>4 DEF SessionInv, Basics, Planned
    <3>2. QED  BY <3>1, <2>5, <2>p DEF Planned
  <2>9. WithinReach' /\ Locks' /\ SpinnerHeld'
    <3>1. \A q \in Slots \ {c} :
           /\ proc'[q].owner = proc[q].owner
           /\ proc'[q].run => proc[q].run
           /\ proc'[q].pc = proc[q].pc \/ (Own(q) = s /\ proc'[q].pc = "done")
      BY <2>4, <2>p, <1>s
    <3>2. \A q \in Slots \ {c} : Own(q) = s => proc'[q].pc # "spawn"  BY <2>4, <2>p, <1>q
    <3>3. handler'.pc = "spawn" => handler' = handler /\ handler.s # s  BY <1>u, <1>n
    <3>4. \A x \in Sessions \ {s} : HandlerOn(x) => HandlerOn(x)'  BY <1>u DEF HandlerOn
    <3>5. starting[s] # Nobody  BY <1>l
    <3>6. QED  BY <1>h, <2>1, <2>2, <2>3, <2>5, <2>6, <3>1, <3>2, <3>3, <3>4, <3>5, BeginKeeps
  <2>10. Fresh'
    <3>. SUFFICES ASSUME handler.pc \in {"start", "spawn"}, handler.fresh
                  PROVE  ~sess'[handler.s].msg /\ \A q \in Slots : proc'[q].owner # handler.s
      BY <1>u DEF Fresh, Own
    <3>1. handler.s \in Sessions /\ ~sess[handler.s].msg /\ \A q \in Slots : Own(q) # handler.s
      BY DEF SessionInv, Basics, Held, At, Fresh
    <3>2. handler.s # s  BY <3>1, <1>s
    <3>3. sess'[handler.s] = sess[handler.s]  BY <2>3, <3>1, <3>2
    <3>4. ASSUME NEW q \in Slots PROVE proc'[q].owner # handler.s
      BY <2>4, <2>5, <2>p, <3>1, <3>2 DEF Own
    <3>5. QED  BY <3>1, <3>3, <3>4
  <2>11. QED  BY <1>o, <2>6, <2>7, <2>8, <2>9, <2>10 DEF SessionInv, Basics
<1>2. CASE \E b \in Bind(s) :
              /\ NotStarted(s, b)
              /\ proc' = [proc EXCEPT ![p].pc =
                   CASE proc[p].plan = "retry" -> "failover"
                     [] proc[p].plan = "failover" -> "fail"
                     [] proc[p].plan = "rotate" -> "park"]
              /\ turns' = IF proc[p].plan = "rotate" THEN Released(b.turns, proc[p].next) ELSE b.turns
  <2>1. PICK b \in Bind(s) :
              /\ NotStarted(s, b)
              /\ proc' = [proc EXCEPT ![p].pc =
                   CASE proc[p].plan = "retry" -> "failover"
                     [] proc[p].plan = "failover" -> "fail"
                     [] proc[p].plan = "rotate" -> "park"]
              /\ turns' = IF proc[p].plan = "rotate" THEN Released(b.turns, proc[p].next) ELSE b.turns
    BY <1>2
  <2>2. PICK ctx \in {"none", "new", "live"} :
          /\ sess' = [sess EXCEPT ![s].account = b.account, ![s].cmd = NoSlot, ![s].ctx = ctx]
          /\ starting' = [starting EXCEPT ![s] = Nobody]
    BY <2>1, <1>h, StartedWrites
  <2>3. /\ sess' \in [Sessions -> Session] /\ starting' \in [Sessions -> {Nobody, Handler} \cup Slots]
        /\ sess'[s].cmd = NoSlot /\ sess'[s].msg = sess[s].msg
        /\ \A x \in Sessions \ {s} : sess'[x] = sess[x]
        /\ b.turns \in [Accounts -> 0 .. MaxTurns]
    BY <2>2, <1>h, StartWrites
  <2>t. turns' \in [Accounts -> 0 .. MaxTurns]  BY <2>1, <2>3, TurnsTyped
  <2>4. proc[p].plan \in {"retry", "failover", "rotate"}
    BY <1>0, <1>h DEF SessionInv, Basics, Planned, Process
  <2>5. PICK pc \in {"failover", "fail", "park"} : proc' = [proc EXCEPT ![p] = [proc[p] EXCEPT !.pc = pc]]
    <3>1. CASE proc[p].plan = "retry"
      <4>1. proc' = [proc EXCEPT ![p].pc = "failover"]  BY <2>1, <3>1
      <4>2. proc' = [proc EXCEPT ![p] = [proc[p] EXCEPT !.pc = "failover"]]  BY <4>1, <1>h
      <4>3. QED  BY <4>2
    <3>2. CASE proc[p].plan = "failover"
      <4>1. proc' = [proc EXCEPT ![p].pc = "fail"]  BY <2>1, <3>2
      <4>2. proc' = [proc EXCEPT ![p] = [proc[p] EXCEPT !.pc = "fail"]]  BY <4>1, <1>h
      <4>3. QED  BY <4>2
    <3>3. CASE proc[p].plan = "rotate"
      <4>1. proc' = [proc EXCEPT ![p].pc = "park"]  BY <2>1, <3>3
      <4>2. proc' = [proc EXCEPT ![p] = [proc[p] EXCEPT !.pc = "park"]]  BY <4>1, <1>h
      <4>3. QED  BY <4>2
    <3>4. QED  BY <2>4, <3>1, <3>2, <3>3
  <2>6. [proc[p] EXCEPT !.pc = pc] \in Process  BY <1>h DEF Process, Reader
  <2>7. /\ proc' \in [Slots -> Process] /\ \A q \in Slots \ {p} : proc'[q] = proc[q]
        /\ proc'[p].owner = proc[p].owner /\ proc'[p].pc = pc /\ proc'[p].run = proc[p].run
    BY <1>h, <2>5, <2>6 DEF Process
  <2>8. TypeOK'  BY <1>h, <1>u, <2>3, <2>7, <2>t DEF TypeOK
  <2>9. Owned' /\ Planned'
    <3>1. \A q \in Slots \ {p} :
            /\ proc'[q].pc # "free" => proc'[q].owner \in Sessions
            /\ proc'[q].run => proc'[q].pc # "free"
            /\ proc'[q].pc \in {"cut", "rearm", "restart", "spawn"} => proc'[q].plan # "none"
      BY <2>7 DEF SessionInv, Basics, Owned, Planned
    <3>2. QED  BY <1>h, <1>s, <2>7, <3>1 DEF Owned, Planned, Own
  <2>10. SlotsStep /\ NoStart
    <3>1. \A q \in Slots \ {p} : proc'[q] = proc[q]  BY <2>7
    <3>2. proc'[p].pc \in AtWork /\ proc'[p].pc # "spawn"  BY <2>7 DEF AtWork
    <3>3. QED  BY <2>7, <3>1, <3>2 DEF SlotsStep, NoStart
  <2>11. \A x \in Sessions : Stays(x)  BY <2>3, <1>l DEF Stays
  <2>12. \A x \in Sessions : sess'[x].cmd = sess[x].cmd  BY <2>11 DEF Stays
  <2>13. WithinReach'  BY <2>10, <2>12, ReachKept
  <2>14. Locks'
    <3>1. starting'[s] = Nobody /\ \A x \in Sessions \ {s} : starting'[x] = starting[x]
      BY <2>2, <1>h
    <3>2. \A q \in Slots : Own(q) = s => proc'[q].pc # "spawn"  BY <2>7, <1>q
    <3>3. Unlocks(s)  BY <3>1, <3>2, <1>n, <1>u DEF Unlocks
    <3>4. \A x \in Sessions : starting'[x] = starting[x] \/ Unlocks(x)  BY <3>1, <3>3
    <3>5. QED  BY <1>u, <2>10, <2>12, <3>4, LocksKept
  <2>15. SpinnerHeld'
    <3>1. \A x \in Sessions : HandlerOn(x) => HandlerOn(x)'  BY <1>u DEF HandlerOn
    <3>2. QED  BY <2>8, <2>10, <2>11, <3>1, SpinnerKept
  <2>16. Fresh'  BY <1>u, <2>10, <2>11, FreshKept
  <2>17. QED  BY <1>o, <2>8, <2>9, <2>13, <2>14, <2>15, <2>16 DEF SessionInv, Basics
<1>3. QED  BY <1>1, <1>2, <1>s DEF Respawn

-----------------------------------------------------------------------------
(* The theorems about processes and spinners. *)

LEMMA SessionInit == Init => SessionInv
<1>. SUFFICES ASSUME Init PROVE SessionInv  OBVIOUS
<1>n. MaxTurns \in Nat \ {0} /\ MaxCommands \in Nat \ {0}  BY SessionAssumption
<1>1. TypeOK
  <2>1. 0 \in 0 .. MaxTurns /\ 0 \in 0 .. MaxCommands  BY <1>n
  <2>2. handler \in HandlerType  BY DEF Init, HandlerIdle, HandlerType, HandlerPC
  <2>3. sess \in [Sessions -> Session] /\ proc \in [Slots -> Process]
    BY SessionValues, ProcessValues DEF Init
  <2>4. QED  BY <2>1, <2>2, <2>3 DEF Init, TypeOK, HandlerType
<1>2. \A p \in Slots : proc[p].pc = "free" /\ ~proc[p].run  BY DEF Init, NoProcess
<1>3. \A s \in Sessions : ~sess[s].msg /\ starting[s] = Nobody  BY DEF Init, NewSession
<1>4. handler.pc = "idle"  BY DEF Init, HandlerIdle
<1>5. QED
  BY <1>1, <1>2, <1>3, <1>4
  DEF SessionInv, Basics, Owned, Held, Bound, Planned, Locks, WithinReach, Fresh, SpinnerHeld, At

LEMMA SessionNext ==
  ASSUME SessionInv, [Next]_vars PROVE SessionInv'
<1>1. CASE UserStep
  BY <1>1, MessageKeeps, ReplaceKeeps, StopKeeps, ClearKeeps DEF UserStep
<1>2. CASE HandlerStep
  BY <1>2, HandlerStartKeeps, HandlerSpawnKeeps, CheckKeeps, LookKeeps, ArmKeeps, WriteKeeps,
     BrokenKeeps, ApologiseKeeps DEF HandlerStep
<1>3. CASE AdminStep
  BY <1>3, EvictKeeps, FreezeKeeps, ResetKeeps, RecoverKeeps DEF AdminStep
<1>4. ASSUME NEW p \in Slots, AgentStep(p) PROVE SessionInv'
  BY <1>4, AnswerKeeps, ExitKeeps DEF AgentStep
<1>5. ASSUME NEW p \in Slots, ReaderStep(p) PROVE SessionInv'
  <2>1. CASE ReadOk(p) \/ Finalize(p) \/ ReadNothing(p) \/ ReadOther(p) \/ Fail(p)
    BY <2>1, ReadOkKeeps, FinalizeKeeps, ReadNothingKeeps, ReadOtherKeeps, FailKeeps
  <2>2. CASE ReadStream(p) \/ Failover(p) \/ ReadQuota(p) \/ Cut(p) \/ Rearm(p)
    BY <2>2, ReadStreamKeeps, FailoverKeeps, ReadQuotaKeeps, CutKeeps, RearmKeeps
  <2>3. CASE Restart(p) \/ Respawn(p) \/ GiveUp(p) \/ Park(p) \/ ReaderEnds(p)
    BY <2>3, RestartKeeps, RespawnKeeps, GiveUpKeeps, ParkKeeps, ReaderEndsKeeps
  <2>4. QED  BY <1>5, <2>1, <2>2, <2>3 DEF ReaderStep
<1>6. ASSUME NEW p \in Slots, Wait(p) PROVE SessionInv'
  BY <1>6, WaitKeeps
<1>7. ASSUME NEW s \in Sessions, KillDoomed(s) \/ Judge(s) \/ Watchdog(s) PROVE SessionInv'
  BY <1>7, KillDoomedKeeps, JudgeKeeps, WatchdogKeeps
<1>8. CASE UNCHANGED vars
  BY <1>8 DEF vars, userVars, SessionInv, Basics, TypeOK, Owned, Held, Bound, Planned, Locks,
     WithinReach, Fresh, SpinnerHeld, At, Own, Alive, Recovering, HandlerOn
<1>9. QED  BY <1>1, <1>2, <1>3, <1>4, <1>5, <1>6, <1>7, <1>8 DEF Next

LEMMA SessionAlways == Spec => []SessionInv
<1>1. SessionInv /\ [Next]_vars => SessionInv'  BY SessionNext
<1>2. QED  BY SessionInit, <1>1, PTL DEF Spec

(* Every variable keeps its type, whatever the user, the agents and the    *)
(* administrator do; in particular the counts of turns stay in their range.*)
THEOREM TypeCorrect == Spec => []TypeOK
<1>1. SessionInv => TypeOK  BY DEF SessionInv, Basics
<1>2. QED  BY <1>1, SessionAlways, PTL

(* No start, recovery, kill or late waiter makes a session lose the agy    *)
(* process that runs for it (start, Kill and the waiter in session.go).    *)
THEOREM NoProcessIsLost == Spec => []WithinReach
<1>1. SessionInv => WithinReach  BY DEF SessionInv
<1>2. QED  BY <1>1, SessionAlways, PTL

(* What the steps do to the context of a session: it stays with its        *)
(* process, the process is gone, or start() has begun one.                 *)
LEMMA ContextKept ==
  ASSUME TypeOK, Contexts, NEW s \in Sessions, NEW n, sess' = [sess EXCEPT ![s] = n],
         n.cmd = NoSlot \/ n.ctx # "new" \/ (n.cmd = sess[s].cmd /\ n.ctx = sess[s].ctx)
  PROVE  Contexts'
<1>1. sess'[s] = n /\ \A x \in Sessions \ {s} : sess'[x] = sess[x]  BY DEF TypeOK
<1>2. ASSUME NEW x \in Sessions, sess'[x].cmd # NoSlot PROVE sess'[x].ctx # "new"
  BY <1>1, <1>2 DEF Contexts, Alive
<1>3. QED  BY <1>2 DEF Contexts, Alive

(* The fields start() does not know. *)
LEMMA FieldsKeepContext ==
  ASSUME TypeOK, Contexts, NEW s \in Sessions,
         \/ sess' = [sess EXCEPT ![s].msg = FALSE]
         \/ sess' = [sess EXCEPT ![s].msg = TRUE, ![s].turn = TRUE]
         \/ sess' = [sess EXCEPT ![s].turn = FALSE, ![s].retries = 0, ![s].failovers = 0]
         \/ sess' = [sess EXCEPT ![s].retries = @ + 1]
         \/ sess' = [sess EXCEPT ![s].account = NoAccount]
         \/ \E pr : sess' = [sess EXCEPT ![s] = Armed(@, pr)]
  PROVE  Contexts'
<1>h. sess \in [Sessions -> Session] /\ sess[s] \in Session  BY DEF TypeOK
<1>1. ASSUME NEW n, sess' = [sess EXCEPT ![s] = n], n.cmd = sess[s].cmd, n.ctx = sess[s].ctx
      PROVE  Contexts'
  BY <1>1, ContextKept
<1>2. CASE sess' = [sess EXCEPT ![s].msg = FALSE]
  <2>1. PICK n : n = [sess[s] EXCEPT !.msg = FALSE]  OBVIOUS
  <2>2. n.cmd = sess[s].cmd /\ n.ctx = sess[s].ctx  BY <2>1, <1>h DEF Session
  <2>3. sess' = [sess EXCEPT ![s] = n]  BY <1>2, <1>h, <2>1
  <2>4. QED  BY <1>1, <2>2, <2>3
<1>3. CASE sess' = [sess EXCEPT ![s].msg = TRUE, ![s].turn = TRUE]
  <2>1. PICK n : n = [sess[s] EXCEPT !.msg = TRUE, !.turn = TRUE]  OBVIOUS
  <2>2. n.cmd = sess[s].cmd /\ n.ctx = sess[s].ctx  BY <2>1, <1>h DEF Session
  <2>3. sess' = [sess EXCEPT ![s] = n]  BY <1>3, <1>h, <2>1
  <2>4. QED  BY <1>1, <2>2, <2>3
<1>4. CASE sess' = [sess EXCEPT ![s].turn = FALSE, ![s].retries = 0, ![s].failovers = 0]
  <2>1. PICK n : n = [sess[s] EXCEPT !.turn = FALSE, !.retries = 0, !.failovers = 0]  OBVIOUS
  <2>2. n.cmd = sess[s].cmd /\ n.ctx = sess[s].ctx  BY <2>1, <1>h DEF Session
  <2>3. sess' = [sess EXCEPT ![s] = n]  BY <1>4, <1>h, <2>1
  <2>4. QED  BY <1>1, <2>2, <2>3
<1>5. CASE sess' = [sess EXCEPT ![s].retries = @ + 1]
  <2>1. PICK n : n = [sess[s] EXCEPT !.retries = @ + 1]  OBVIOUS
  <2>2. n.cmd = sess[s].cmd /\ n.ctx = sess[s].ctx  BY <2>1, <1>h DEF Session
  <2>3. sess' = [sess EXCEPT ![s] = n]  BY <1>5, <1>h, <2>1
  <2>4. QED  BY <1>1, <2>2, <2>3
<1>6. CASE sess' = [sess EXCEPT ![s].account = NoAccount]
  <2>1. PICK n : n = [sess[s] EXCEPT !.account = NoAccount]  OBVIOUS
  <2>2. n.cmd = sess[s].cmd /\ n.ctx = sess[s].ctx  BY <2>1, <1>h DEF Session
  <2>3. sess' = [sess EXCEPT ![s] = n]  BY <1>6, <1>h, <2>1
  <2>4. QED  BY <1>1, <2>2, <2>3
<1>7. ASSUME NEW pr, sess' = [sess EXCEPT ![s] = Armed(@, pr)] PROVE Contexts'
  <2>1. PICK n : n = Armed(sess[s], pr)  OBVIOUS
  <2>2. n.cmd = sess[s].cmd /\ n.ctx = sess[s].ctx  BY <2>1, <1>h DEF Session, Armed
  <2>3. sess' = [sess EXCEPT ![s] = n]  BY <1>7, <1>h, <2>1
  <2>4. QED  BY <1>1, <2>2, <2>3
<1>8. QED  BY <1>2, <1>3, <1>4, <1>5, <1>6, <1>7

(* A session that is killed or has exited has no process. *)
LEMMA EndsKeepContext ==
  ASSUME TypeOK, Contexts, NEW s \in Sessions,
         sess' = [sess EXCEPT ![s] = Dead(@)] \/ sess' = [sess EXCEPT ![s] = Exited(@)]
  PROVE  Contexts'
<1>h. sess[s] \in Session  BY DEF TypeOK
<1>1. CASE sess' = [sess EXCEPT ![s] = Dead(@)]
  <2>1. PICK n : n = Dead(sess[s])  OBVIOUS
  <2>2. QED  BY <1>1, <1>h, <2>1, SessionValues, ContextKept
<1>2. CASE sess' = [sess EXCEPT ![s] = Exited(@)]
  <2>1. PICK n : n = Exited(sess[s])  OBVIOUS
  <2>2. QED  BY <1>2, <1>h, <2>1, SessionValues, ContextKept
<1>3. QED  BY <1>1, <1>2

(* start() makes a new context only for a dead session, and no process     *)
(* runs with it before it is live or cancelled.                            *)
LEMMA StartKeepsContext ==
  ASSUME TypeOK, Contexts, NEW s \in Sessions,
         \/ MayStart(s) /\ sess' = WithContext(s)
         \/ \E c, b : Started(s, c, b)
         \/ \E b : NotStarted(s, b)
  PROVE  Contexts'
<1>h. sess \in [Sessions -> Session] /\ sess[s] \in Session  BY DEF TypeOK
<1>1. CASE MayStart(s) /\ sess' = WithContext(s)
  <2>1. PICK n : n = [sess[s] EXCEPT !.ctx = "new"]  OBVIOUS
  <2>2. n.cmd = NoSlot  BY <1>1, <1>h, <2>1 DEF MayStart, Alive, Session
  <2>3. sess' = [sess EXCEPT ![s] = n]  BY <1>1, <1>h, <2>1 DEF WithContext
  <2>4. QED  BY <2>2, <2>3, ContextKept
<1>2. ASSUME NEW c, NEW b, Started(s, c, b) PROVE Contexts'
  <2>1. PICK n : n = [sess[s] EXCEPT !.account = b.account, !.cmd = c,
                                     !.ctx = IF @ = "new" THEN "live" ELSE "none"]
    OBVIOUS
  <2>2. n.ctx # "new"  BY <1>h, <2>1 DEF Session
  <2>3. sess' = [sess EXCEPT ![s] = n]  BY <1>2, <1>h, <2>1 DEF Started
  <2>4. QED  BY <2>2, <2>3, ContextKept
<1>3. ASSUME NEW b, NotStarted(s, b) PROVE Contexts'
  <2>1. PICK n : n = [sess[s] EXCEPT !.account = b.account, !.cmd = NoSlot]  OBVIOUS
  <2>2. n.cmd = NoSlot  BY <1>h, <2>1 DEF Session
  <2>3. sess' = [sess EXCEPT ![s] = n]  BY <1>3, <1>h, <2>1 DEF NotStarted
  <2>4. QED  BY <2>2, <2>3, ContextKept
<1>4. QED  BY <1>1, <1>2, <1>3

LEMMA ContextsKept ==
  ASSUME SessionInv, Contexts, [Next]_vars PROVE Contexts'
<1>h. TypeOK /\ sess \in [Sessions -> Session] /\ registry \in Sessions \cup {NoSession}
  BY DEF SessionInv, Basics, TypeOK
<1>0. ASSUME sess' = sess PROVE Contexts'  BY <1>0 DEF Contexts, Alive
<1>1. CASE UserStep
  <2>1. ASSUME NEW force, NEW then, Acquire(force, then) PROVE Contexts'
    <3>1. CASE \E n \in Sessions : sess' = [sess EXCEPT ![n] = NewSession]
      <4>1. PICK n \in Sessions : sess' = [sess EXCEPT ![n] = NewSession]  BY <3>1
      <4>2. NewSession.cmd = NoSlot  BY DEF NewSession
      <4>3. QED  BY <1>h, <4>1, <4>2, ContextKept
    <3>2. CASE \E n \in Sessions : /\ registry \in Sessions \ {n}
                                  /\ sess' = [sess EXCEPT ![n] = NewSession, ![registry] = Dead(@)]
      <4>1. PICK n \in Sessions : /\ registry \in Sessions \ {n}
                                  /\ sess' = [sess EXCEPT ![n] = NewSession, ![registry] = Dead(@)]
        BY <3>2
      <4>2. PICK o \in Sessions : o = registry /\ o # n  BY <4>1
      <4>3. sess' = [sess EXCEPT ![n] = NewSession, ![o] = Dead(@)]  BY <4>1, <4>2
      <4>4. /\ sess'[n] = NewSession /\ sess'[o] = Dead(sess[o])
            /\ \A x \in Sessions \ {n, o} : sess'[x] = sess[x]
        BY <4>2, <4>3, <1>h
      <4>5. sess'[n].cmd = NoSlot /\ sess'[o].cmd = NoSlot
        <5>1. sess'[n].cmd = NoSlot  BY <4>4 DEF NewSession
        <5>2. QED  BY <5>1, <4>4, <1>h, SessionValues
      <4>6. QED  BY <4>4, <4>5 DEF Contexts, Alive
    <3>3. QED  BY <1>h, <2>1, <1>0, <3>1, <3>2 DEF Acquire, Referenced
  <2>2. CASE Message \/ Replace  BY <2>1, <2>2 DEF Message, Replace
  <2>3. CASE Stop \/ Clear
    <3>1. sess' = sess \/ (registry \in Sessions /\ sess' = [sess EXCEPT ![registry] = Dead(@)])
      BY <1>h, <2>3 DEF Stop, Clear
    <3>2. QED  BY <1>h, <1>0, <3>1, EndsKeepContext
  <2>4. QED  BY <1>1, <2>2, <2>3 DEF UserStep
<1>2. CASE HandlerStep
  <2>1. PICK s : s = handler.s  OBVIOUS
  <2>2. s \in Sessions
    BY <1>2, <2>1 DEF SessionInv, Basics, Held, At, HandlerStep, HandlerStart, HandlerSpawn, Check, Look,
       Arm, Write, Broken, Apologise
  <2>3. CASE HandlerStart  BY <1>h, <1>0, <2>1, <2>2, <2>3, StartKeepsContext DEF HandlerStart
  <2>4. CASE HandlerSpawn  BY <1>h, <2>1, <2>2, <2>4, StartKeepsContext DEF HandlerSpawn
  <2>5. CASE Check \/ Arm \/ Apologise
    BY <1>h, <1>0, <2>1, <2>2, <2>5, FieldsKeepContext DEF Check, Arm, Apologise
  <2>6. CASE Look \/ Write  BY <1>0, <2>6 DEF Look, Write
  <2>7. CASE Broken  BY <1>h, <2>1, <2>2, <2>7, EndsKeepContext DEF Broken
  <2>8. QED  BY <1>2, <2>3, <2>4, <2>5, <2>6, <2>7 DEF HandlerStep
<1>3. CASE AdminStep
  <2>1. sess' = sess \/ (registry \in Sessions /\ sess' = [sess EXCEPT ![registry].account = NoAccount])
    BY <1>h, <1>3 DEF AdminStep, Evict, Freeze, ResetAccountSessions, Recover
  <2>2. QED  BY <1>h, <1>0, <2>1, FieldsKeepContext
<1>4. ASSUME NEW p \in Slots, AgentStep(p) PROVE Contexts'
  BY <1>0, <1>4 DEF AgentStep, Answer, Exit
<1>5. ASSUME NEW p \in Slots, ReaderStep(p) \/ Wait(p) PROVE Contexts'
  <2>1. PICK s : s = Own(p)  OBVIOUS
  <2>2. s \in Sessions
    <3>1. proc[p].pc # "free"
      BY <1>5 DEF ReaderStep, ReadOk, Finalize, ReadNothing, ReadOther, Fail, ReadStream, Failover,
         ReadQuota, Cut, Rearm, Restart, Respawn, GiveUp, Park, ReaderEnds, Wait, Reading
    <3>2. QED  BY <2>1, <3>1 DEF SessionInv, Basics, Owned, Own
  <2>3. CASE ReadOk(p) \/ Finalize(p) \/ ReadStream(p) \/ Rearm(p)
    BY <1>h, <1>0, <2>1, <2>2, <2>3, FieldsKeepContext DEF ReadOk, Finalize, ReadStream, Rearm
  <2>4. CASE ReadNothing(p) \/ ReadOther(p) \/ Failover(p) \/ ReadQuota(p) \/ ReaderEnds(p)
    BY <1>0, <2>4 DEF ReadNothing, ReadOther, Failover, ReadQuota, ReaderEnds
  <2>5. CASE Fail(p) \/ Cut(p) \/ GiveUp(p) \/ Park(p) \/ Wait(p)
    BY <1>h, <1>0, <2>1, <2>2, <2>5, EndsKeepContext DEF Fail, Cut, GiveUp, Park, Wait
  <2>6. CASE Restart(p)  BY <1>h, <1>0, <2>1, <2>2, <2>6, StartKeepsContext DEF Restart
  <2>7. CASE Respawn(p)  BY <1>h, <2>1, <2>2, <2>7, StartKeepsContext DEF Respawn
  <2>8. QED  BY <1>5, <2>3, <2>4, <2>5, <2>6, <2>7 DEF ReaderStep
<1>6. ASSUME NEW s \in Sessions, KillDoomed(s) \/ Judge(s) \/ Watchdog(s) PROVE Contexts'
  BY <1>h, <1>0, <1>6, EndsKeepContext DEF KillDoomed, Judge, Watchdog
<1>7. CASE UNCHANGED vars  BY <1>0, <1>7 DEF vars
<1>8. QED  BY <1>1, <1>2, <1>3, <1>4, <1>5, <1>6, <1>7 DEF Next

(* A turn that is shown as running always has a process with its watchdog, *)
(* a recovery or the handler to end it.  The one exception is a process    *)
(* whose start() a Kill fell into (session.go:756-764 and 859-865): it     *)
(* runs, but its reader and watchdog return at once.                       *)
THEOREM NoSpinnerAlone == Spec => []SpinnerIsWatched
<1>1. Init => Contexts  BY DEF Init, Contexts, Alive, NewSession
<1>2. SessionInv /\ Contexts /\ [Next]_vars => Contexts'  BY ContextsKept
<1>3. SessionInv /\ Contexts => SpinnerIsWatched
  <2>. SUFFICES ASSUME SessionInv, Contexts, NEW s \in Sessions, sess[s].msg
                PROVE  Watched(s) \/ KilledInStart(s) \/ Recovering(s) \/ HandlerOn(s)
    BY DEF SpinnerIsWatched
  <2>1. Alive(s) \/ Recovering(s) \/ HandlerOn(s)  BY DEF SessionInv, SpinnerHeld
  <2>2. Alive(s) => sess[s].ctx \in {"none", "live"}
    BY DEF SessionInv, Basics, TypeOK, Session, Contexts
  <2>3. QED  BY <2>1, <2>2 DEF Watched, KilledInStart
<1>4. QED  BY <1>1, <1>2, <1>3, SessionAlways, PTL DEF Spec
-----------------------------------------------------------------------------
(* What /stop and /clear promise, while agents answer or fail without a    *)
(* stream or quota error.                                                  *)

CalmSlot(r) == r.out \in {"none", "ok", "other"} /\ r.pc \in {"free", "reading", "finalizing", "fail", "done"}

(* A process that runs after the step ran before it. *)
NoBegin == \A q \in Slots : proc'[q].run => proc[q].run /\ proc'[q].owner = proc[q].owner

(* Neither the user nor the handler does anything.                         *)
LEMMA StopQuiet ==
  ASSUME SessionInv, StopInv, Calm', NoBegin,
         UNCHANGED <<registry, handler, stopped, lost>>,
         \A q \in Slots : proc'[q].run /\ Own(q) \in doomed => Own(q) \in doomed'
  PROVE  StopInv'
<1>1. HandlerAt' /\ Rests'  BY DEF StopInv, HandlerAt, Rests, At
<1>2. Known'  BY DEF StopInv, Known, NoBegin, Own
<1>3. StopIsFinal'  BY DEF StopInv, StopIsFinal, NoBegin, Own
<1>4. QED  BY <1>1, <1>2, <1>3 DEF StopInv

(* The handler goes on with its session. *)
LEMMA StopBusy ==
  ASSUME SessionInv, StopInv, Calm', NoBegin, ~At("idle"),
         UNCHANGED <<registry, doomed, stopped, lost>>,
         handler'.pc # "idle" => handler'.s = handler.s
  PROVE  StopInv'
<1>1. HandlerAt'  BY DEF StopInv, HandlerAt, At
<1>2. Known'  BY DEF StopInv, Known, NoBegin, Own
<1>3. ~stopped'  BY DEF StopInv, Rests
<1>4. QED  BY <1>1, <1>2, <1>3 DEF StopInv, Rests, StopIsFinal

LEMMA CalmSlots == Calm <=> \A p \in Slots : CalmSlot(proc[p])
BY DEF Calm, CalmSlot

(* A kill begins nothing. *)
LEMMA KillCalm ==
  ASSUME SessionInv, StopInv, NEW s, proc' = KillProc(s)
  PROVE  Calm' /\ NoBegin
<1>1. TypeOK  BY DEF SessionInv, Basics
<1>2. QED  BY <1>1, KillKeeps DEF StopInv, Calm, NoBegin

(* A step that changes one slot. *)
LEMMA SlotCalm ==
  ASSUME SessionInv, StopInv, NEW p \in Slots, NEW r, CalmSlot(r),
         r.run => proc[p].run /\ r.owner = proc[p].owner,
         proc' = [proc EXCEPT ![p] = r]
  PROVE  Calm' /\ NoBegin
<1>1. proc \in [Slots -> Process]  BY DEF SessionInv, Basics, TypeOK
<1>2. proc'[p] = r /\ \A q \in Slots \ {p} : proc'[q] = proc[q]  BY <1>1
<1>3. NoBegin  BY <1>2 DEF NoBegin
<1>4. Calm'
  <2>1. ASSUME NEW q \in Slots PROVE CalmSlot(proc'[q])
    <3>1. CASE q = p  BY <3>1, <1>2
    <3>2. CASE q # p
      <4>1. proc'[q] = proc[q]  BY <1>2, <3>2
      <4>2. CalmSlot(proc[q])  BY DEF StopInv, Calm, CalmSlot
      <4>3. QED  BY <4>1, <4>2
    <3>3. QED  BY <3>1, <3>2
  <2>2. QED  BY <2>1 DEF Calm, CalmSlot
<1>5. QED  BY <1>3, <1>4

LEMMA StopReader ==
  ASSUME SessionInv, StopInv, NEW p \in Slots, ReaderStep(p) PROVE StopInv'
<1>h. TypeOK /\ proc \in [Slots -> Process] /\ proc[p] \in Process
  BY DEF SessionInv, Basics, TypeOK
<1>c. CalmSlot(proc[p])  BY DEF StopInv, Calm, CalmSlot
<1>1. CASE ReadOk(p) \/ Finalize(p) \/ ReadNothing(p) \/ ReadOther(p) \/ ReaderEnds(p)
  <2>1. UNCHANGED <<registry, handler, doomed, stopped, lost>>
    BY <1>1 DEF ReadOk, Finalize, ReadNothing, ReadOther, ReaderEnds, ReaderVars, userVars
  <2>2. PICK r \in {[proc[p] EXCEPT !.out = "none", !.pc = "finalizing"], [proc[p] EXCEPT !.pc = "reading"],
                    [proc[p] EXCEPT !.out = "none"], [proc[p] EXCEPT !.out = "none", !.pc = "fail"],
                    Done(proc[p])} : proc' = [proc EXCEPT ![p] = r]
    <3>1. CASE ReadOk(p) \/ Finalize(p)  BY <3>1, <1>h DEF ReadOk, Finalize
    <3>2. CASE ReadNothing(p) \/ ReadOther(p)  BY <3>2, <1>h DEF ReadNothing, ReadOther
    <3>3. CASE ReaderEnds(p)  BY <3>3, <1>h DEF ReaderEnds
    <3>4. QED  BY <1>1, <3>1, <3>2, <3>3
  <2>3. CalmSlot(r) /\ (r.run => proc[p].run /\ r.owner = proc[p].owner)
    <3>1. CASE r = Done(proc[p])  BY <3>1, <1>h, ProcessKeeps DEF CalmSlot
    <3>2. CASE r # Done(proc[p])  BY <2>2, <3>2, <1>h, <1>c DEF CalmSlot, Process
    <3>3. QED  BY <3>1, <3>2
  <2>4. Calm' /\ NoBegin  BY <2>2, <2>3, SlotCalm
  <2>5. QED  BY <2>1, <2>4, StopQuiet
<1>2. CASE Fail(p)
  <2>1. UNCHANGED <<registry, handler, doomed, stopped, lost>>
    BY <1>2 DEF Fail, ReaderVars, userVars
  <2>2. PICK k : k = KillProc(Own(p))  OBVIOUS
  <2>3. /\ k \in [Slots -> Process]
        /\ \A q \in Slots : /\ k[q].owner = proc[q].owner /\ k[q].pc = proc[q].pc
                            /\ k[q].out = proc[q].out
                            /\ k[q].run => proc[q].run
    BY <1>h, <2>2, KillKeeps
  <2>4. PICK r : r = [k[p] EXCEPT !.pc = "reading", !.plan = "none"]  OBVIOUS
  <2>5. proc' = [k EXCEPT ![p] = r]  BY <1>2, <2>2, <2>3, <2>4 DEF Fail
  <2>6. k[p] \in Process /\ k[p].owner = proc[p].owner /\ k[p].out = proc[p].out /\ (k[p].run => proc[p].run)
    BY <2>3
  <2>7. CalmSlot(r) /\ r.owner = proc[p].owner /\ (r.run => proc[p].run)
    BY <2>4, <2>6, <1>c DEF CalmSlot, Process
  <2>8. proc'[p] = r /\ \A q \in Slots \ {p} : proc'[q] = k[q]  BY <2>3, <2>5
  <2>9. NoBegin  BY <2>3, <2>7, <2>8 DEF NoBegin
  <2>10. Calm'
    <3>1. ASSUME NEW q \in Slots \ {p} PROVE CalmSlot(proc'[q])
      BY <2>3, <2>8 DEF StopInv, Calm, CalmSlot
    <3>2. QED  BY <2>7, <2>8, <3>1 DEF Calm, CalmSlot
  <2>11. QED  BY <2>1, <2>9, <2>10, StopQuiet
<1>3. ~(ReadStream(p) \/ ReadQuota(p))  BY <1>c DEF CalmSlot, ReadStream, ReadQuota
<1>4. ~(Failover(p) \/ Cut(p) \/ Rearm(p) \/ Restart(p) \/ Respawn(p) \/ GiveUp(p) \/ Park(p))
  BY <1>c DEF CalmSlot, Failover, Cut, Rearm, Restart, Respawn, GiveUp, Park
<1>5. QED  BY <1>1, <1>2, <1>3, <1>4 DEF ReaderStep

LEMMA StopAgent ==
  ASSUME Answers \subseteq {"ok", "other"}, SessionInv, StopInv, NEW p \in Slots,
         AgentStep(p) \/ Wait(p)
  PROVE  StopInv'
<1>h. TypeOK /\ proc \in [Slots -> Process] /\ proc[p] \in Process
  BY DEF SessionInv, Basics, TypeOK
<1>c. CalmSlot(proc[p])  BY DEF StopInv, Calm, CalmSlot
<1>1. ASSUME NEW out \in Answers, Answer(p, out) PROVE StopInv'
  <2>1. UNCHANGED <<registry, handler, doomed, stopped, lost>>  BY <1>1 DEF Answer, ReaderVars, userVars
  <2>2. PICK r : r = [proc[p] EXCEPT !.out = out, !.work = @ - 1]  OBVIOUS
  <2>3. proc' = [proc EXCEPT ![p] = r]  BY <1>1, <1>h, <2>2 DEF Answer
  <2>4. CalmSlot(r) /\ r.owner = proc[p].owner /\ r.run = proc[p].run
    BY <1>h, <1>c, <2>2 DEF CalmSlot, Process
  <2>5. Calm' /\ NoBegin  BY <2>3, <2>4, SlotCalm
  <2>6. QED  BY <2>1, <2>5, StopQuiet
<1>2. CASE Exit(p)
  <2>1. UNCHANGED <<registry, handler, doomed, stopped, lost>>  BY <1>2 DEF Exit, ReaderVars, userVars
  <2>2. PICK r : r = Silent(proc[p])  OBVIOUS
  <2>3. proc' = [proc EXCEPT ![p] = r]  BY <1>2, <2>2 DEF Exit
  <2>4. CalmSlot(r) /\ ~r.run  BY <1>h, <1>c, <2>2, ProcessKeeps DEF CalmSlot
  <2>5. Calm' /\ NoBegin  BY <2>3, <2>4, SlotCalm
  <2>6. QED  BY <2>1, <2>5, StopQuiet
<1>3. CASE Wait(p)
  <2>1. UNCHANGED <<registry, handler, doomed, stopped, lost>>  BY <1>3 DEF Wait, ReaderVars, userVars
  <2>2. PICK r : r = NoProcess  OBVIOUS
  <2>3. proc' = [proc EXCEPT ![p] = r]  BY <1>3, <2>2 DEF Wait
  <2>4. CalmSlot(r) /\ ~r.run  BY <2>2 DEF CalmSlot, NoProcess
  <2>5. Calm' /\ NoBegin  BY <2>3, <2>4, SlotCalm
  <2>6. QED  BY <2>1, <2>5, StopQuiet
<1>4. QED  BY <1>1, <1>2, <1>3 DEF AgentStep

LEMMA StopJudge ==
  ASSUME SessionInv, StopInv, NEW s \in Sessions, Judge(s) PROVE StopInv'
<1>1. UNCHANGED <<registry, handler, doomed, stopped, lost, proc>>  BY DEF Judge, userVars
<1>2. Calm' /\ NoBegin  BY <1>1 DEF StopInv, Calm, NoBegin
<1>3. QED  BY <1>1, <1>2, StopQuiet

LEMMA StopKills ==
  ASSUME SessionInv, StopInv, NEW s \in Sessions, KillDoomed(s) \/ Watchdog(s) PROVE StopInv'
<1>1. /\ UNCHANGED <<registry, handler, stopped, lost>>
      /\ sess' = [sess EXCEPT ![s] = Dead(@)] /\ proc' = KillProc(s)
      /\ doomed' \in {doomed, doomed \ {s}}
  BY DEF KillDoomed, Watchdog, userVars
<1>2. Calm' /\ NoBegin  BY <1>1, KillCalm
<1>3. Dies(s)  BY <1>1, KillDies
<1>4. \A q \in Slots : proc'[q].run /\ Own(q) \in doomed => Own(q) \in doomed'  BY <1>1, <1>3 DEF Dies
<1>5. QED  BY <1>1, <1>2, <1>4, StopQuiet

LEMMA StopAdmin ==
  ASSUME SessionInv, StopInv, AdminStep PROVE StopInv'
<1>p. proc' = proc /\ handler' = handler /\ stopped' = stopped
  BY DEF AdminStep, Evict, Freeze, ResetAccountSessions, Recover, poolVars, userVars
<1>c. Calm' /\ NoBegin  BY <1>p DEF StopInv, Calm, NoBegin
<1>1. CASE \E a \in Accounts : Freeze(a) \/ Recover(a)
  <2>1. UNCHANGED <<registry, doomed, lost>>  BY <1>1 DEF Freeze, Recover, userVars
  <2>2. QED  BY <1>p, <1>c, <2>1, StopQuiet
<1>2. CASE Evict
  <2>1. registry # NoSession /\ handler.s # registry /\ registry' = NoSession
        /\ doomed' = doomed \cup {registry} /\ lost' = lost
    BY <1>2 DEF Evict, userVars
  <2>2. HandlerAt'  BY <1>p, <2>1 DEF StopInv, HandlerAt, At
  <2>3. Rests'  BY <1>p DEF StopInv, Rests, At
  <2>4. Known'  BY <1>p, <2>1 DEF StopInv, Known, Own
  <2>5. StopIsFinal'  BY <1>p, <2>1 DEF StopInv, StopIsFinal, Own
  <2>6. QED  BY <1>c, <2>2, <2>3, <2>4, <2>5 DEF StopInv
<1>3. ASSUME NEW a \in Accounts, ResetAccountSessions(a) PROVE StopInv'
  <2>1. CASE UNCHANGED <<registry, sess, doomed, lost>>
    BY <1>p, <1>c, <2>1, StopQuiet
  <2>2. CASE /\ doomed' = doomed \cup {registry} /\ registry' = NoSession
             /\ lost' = IF handler.s = registry THEN lost \cup {registry} ELSE lost
    <3>2. HandlerAt'  BY <1>p, <2>2 DEF StopInv, HandlerAt, At
    <3>3. Rests'  BY <1>p DEF StopInv, Rests, At
    <3>4. Known'  BY <1>p, <2>2 DEF StopInv, Known, Own
    <3>5. StopIsFinal'  BY <1>p, <2>2 DEF StopInv, StopIsFinal, Own
    <3>6. QED  BY <1>c, <3>2, <3>3, <3>4, <3>5 DEF StopInv
  <2>3. QED  BY <1>3, <2>1, <2>2 DEF ResetAccountSessions
<1>4. QED  BY <1>1, <1>2, <1>3 DEF AdminStep

(* The user's own steps. *)
LEMMA StopUser ==
  ASSUME SessionInv, StopInv, UserStep PROVE StopInv'
<1>h. TypeOK /\ sess \in [Sessions -> Session] /\ registry \in Sessions \cup {NoSession}
  BY DEF SessionInv, Basics, TypeOK
<1>i. At("idle")  BY DEF UserStep, Message, Replace, Stop, Clear, Asks
<1>1. CASE Stop \/ Clear
  <2>1. /\ UNCHANGED <<handler, doomed, lost>> /\ stopped' = TRUE
        /\ registry' \in {registry, NoSession}
    BY <1>1 DEF Stop, Clear, Asks
  <2>2. Calm' /\ NoBegin /\ \A q \in Slots : proc'[q].run => Own(q) # registry
    <3>1. CASE registry = NoSession
      <4>1. proc' = proc  BY <1>1, <3>1 DEF Stop, Clear
      <4>2. \A q \in Slots : proc[q].run => Own(q) \in Sessions
        BY DEF SessionInv, Basics, Owned, Own
      <4>3. QED  BY <3>1, <4>1, <4>2, SessionAssumption DEF StopInv, Calm, NoBegin
    <3>2. CASE registry # NoSession
      <4>1. PICK s \in Sessions : s = registry  BY <1>h, <3>2
      <4>2. sess' = [sess EXCEPT ![s] = Dead(@)] /\ proc' = KillProc(s)
        BY <1>1, <3>2, <4>1 DEF Stop, Clear
      <4>3. Dies(s)  BY <4>2, KillDies
      <4>4. QED  BY <4>1, <4>2, <4>3, KillCalm DEF Dies
    <3>3. QED  BY <3>1, <3>2
  <2>3. HandlerAt' /\ Rests'  BY <1>i, <2>1 DEF HandlerAt, Rests, At
  <2>4. \A q \in Slots : proc'[q].run => proc'[q].owner \in doomed \cup lost
    BY <2>2 DEF StopInv, Known, NoBegin, Own
  <2>5. Known' /\ StopIsFinal'  BY <2>1, <2>4 DEF Known, StopIsFinal, Own
  <2>6. QED  BY <2>2, <2>3, <2>5 DEF StopInv
<1>2. ASSUME NEW force, NEW then \in {"check", "idle"}, Acquire(force, then), doomed' = doomed, ~stopped'
      PROVE  StopInv'
  <2>1. Rests' /\ StopIsFinal'  BY <1>2 DEF Rests, StopIsFinal
  <2>2. CASE /\ registry # NoSession /\ handler' = [HandlerIdle EXCEPT !.pc = then, !.s = registry]
             /\ UNCHANGED <<registry, sess, proc, turns, lost>>
    <3>1. Calm' /\ Known'  BY <1>2, <2>2 DEF StopInv, Calm, Known, Own
    <3>2. HandlerAt'  BY <2>2 DEF HandlerAt, HandlerIdle, At
    <3>3. QED  BY <2>1, <3>1, <3>2 DEF StopInv
  <2>3. CASE \E n \in Sessions :
              /\ ~Referenced(n) /\ registry' = n /\ lost' = lost \ {n}
              /\ StartsAndGoes(n, then, TRUE)
              /\ IF registry = NoSession THEN proc' = proc
                 ELSE proc' = KillProc(registry)
    <3>1. PICK n \in Sessions :
              /\ ~Referenced(n) /\ registry' = n /\ lost' = lost \ {n}
              /\ StartsAndGoes(n, then, TRUE)
              /\ IF registry = NoSession THEN proc' = proc
                 ELSE proc' = KillProc(registry)
      BY <2>3
    <3>2. HandlerAt'  BY <3>1 DEF HandlerAt, StartsAndGoes
    <3>3. \A q \in Slots : Own(q) # n  BY <3>1 DEF Referenced, Own
    <3>4. Calm' /\ NoBegin /\ \A q \in Slots : proc'[q].run => Own(q) # registry
      <4>1. CASE registry = NoSession
        <5>1. proc' = proc  BY <3>1, <4>1
        <5>2. \A q \in Slots : proc[q].run => Own(q) \in Sessions
          BY DEF SessionInv, Basics, Owned, Own
        <5>3. QED  BY <4>1, <5>1, <5>2, SessionAssumption DEF StopInv, Calm, NoBegin
      <4>2. CASE registry # NoSession
        <5>1. proc' = KillProc(registry)  BY <3>1, <4>2
        <5>2. ASSUME NEW q \in Slots, proc'[q].run PROVE Own(q) # registry
          <6>1. proc[q].run /\ sess[registry].cmd # q  BY <1>h, <5>1, <5>2, KillKeeps
          <6>2. QED  BY <6>1 DEF SessionInv, WithinReach
        <5>3. QED  BY <5>1, <5>2, KillCalm
      <4>3. QED  BY <4>1, <4>2
    <3>5. Known'  BY <1>2, <3>1, <3>3, <3>4 DEF StopInv, Known, NoBegin, Own
    <3>6. QED  BY <2>1, <3>2, <3>4, <3>5 DEF StopInv
  <2>4. QED  BY <1>2, <2>2, <2>3 DEF Acquire
<1>3. CASE Message
  <2>1. Acquire(FALSE, "check") /\ doomed' = doomed /\ ~stopped'  BY <1>3 DEF Message, Asks
  <2>2. QED  BY <2>1, <1>2
<1>4. CASE Replace
  <2>1. Acquire(TRUE, "idle") /\ doomed' = doomed /\ ~stopped'  BY <1>4 DEF Replace, Asks
  <2>2. QED  BY <2>1, <1>2
<1>5. QED  BY <1>1, <1>3, <1>4 DEF UserStep

LEMMA StopHandler ==
  ASSUME SessionInv, StopInv, HandlerStep PROVE StopInv'
<1>h. TypeOK /\ proc \in [Slots -> Process]  BY DEF SessionInv, Basics, TypeOK
<1>i. ~At("idle") /\ ~stopped /\ stopped' = stopped /\ doomed' = doomed
  <2>1. ~At("idle")
    BY DEF HandlerStep, HandlerStart, HandlerSpawn, Check, Look, Arm, Write, Broken, Apologise, At
  <2>2. stopped' = stopped /\ doomed' = doomed
    BY DEF HandlerStep, HandlerStart, HandlerSpawn, Check, Look, Arm, Write, Broken, Apologise, userVars
  <2>3. QED  BY <2>1, <2>2 DEF StopInv, Rests
<1>g. ASSUME NEW pc, Goes(pc) PROVE handler'.pc # "idle" => handler'.s = handler.s
  BY <1>g, <1>h DEF Goes, HandlerIdle, TypeOK
<1>s. ASSUME NEW then, NEW fresh, StartsAndGoes(handler.s, then, fresh)
      PROVE  handler'.pc # "idle" => handler'.s = handler.s
  BY <1>s DEF StartsAndGoes
<1>1. CASE HandlerStart \/ Check \/ Look \/ Arm \/ Apologise
  <2>1. UNCHANGED <<registry, proc, lost>>
    BY <1>1 DEF HandlerStart, Check, Look, Arm, Apologise, userVars
  <2>2. handler'.pc # "idle" => handler'.s = handler.s
    <3>1. CASE HandlerStart  BY <3>1, <1>g DEF HandlerStart
    <3>2. CASE Check  BY <3>2, <1>g, <1>s DEF Check
    <3>3. CASE Look  BY <3>3, <1>h DEF Look, TypeOK
    <3>4. CASE Arm  BY <3>4, <1>g DEF Arm
    <3>5. CASE Apologise  BY <3>5, <1>g DEF Apologise
    <3>6. QED  BY <1>1, <3>1, <3>2, <3>3, <3>4, <3>5
  <2>3. Calm' /\ NoBegin  BY <2>1 DEF StopInv, Calm, NoBegin
  <2>4. QED  BY <1>i, <2>1, <2>2, <2>3, StopBusy
<1>2. CASE Write
  <2>1. UNCHANGED <<registry, lost>>  BY <1>2 DEF Write, userVars
  <2>2. handler'.pc # "idle" => handler'.s = handler.s  BY <1>2, <1>g DEF Write
  <2>3. PICK c : c = sess[handler.s].cmd  OBVIOUS
  <2>4. Calm' /\ NoBegin
    <3>1. CASE proc' = proc  BY <3>1 DEF StopInv, Calm, NoBegin
    <3>2. CASE c # NoSlot /\ proc' = [proc EXCEPT ![c].work = @ + 1]
      <4>1. c \in Slots
        <5>1. handler.s \in Sessions  BY <1>i DEF SessionInv, Basics, Held
        <5>2. QED  BY <5>1, <3>2, <2>3, <1>h DEF TypeOK, Session
      <4>2. PICK r : r = [proc[c] EXCEPT !.work = @ + 1]  OBVIOUS
      <4>3. proc[c] \in Process /\ CalmSlot(proc[c])  BY <4>1, <1>h DEF StopInv, Calm, CalmSlot
      <4>4. CalmSlot(r) /\ r.owner = proc[c].owner /\ r.run = proc[c].run
        BY <4>2, <4>3 DEF CalmSlot, Process
      <4>5. proc' = [proc EXCEPT ![c] = r]  BY <3>2, <4>2
      <4>6. QED  BY <4>1, <4>4, <4>5, SlotCalm
    <3>3. QED  BY <1>2, <2>3, <3>1, <3>2 DEF Write
  <2>5. QED  BY <1>i, <2>1, <2>2, <2>4, StopBusy
<1>3. CASE Broken
  <2>1. UNCHANGED <<registry, lost>> /\ proc' = KillProc(handler.s)  BY <1>3 DEF Broken, userVars
  <2>2. handler'.pc # "idle" => handler'.s = handler.s  BY <1>3, <1>s DEF Broken
  <2>3. Calm' /\ NoBegin  BY <2>1, KillCalm
  <2>4. QED  BY <1>i, <2>1, <2>2, <2>3, StopBusy
<1>4. CASE HandlerSpawn
  <2>s. PICK s : s = handler.s  OBVIOUS
  <2>1. handler'.pc # "idle" => handler'.s = s  BY <1>4, <1>g, <2>s DEF HandlerSpawn
  <2>2. s \in {registry} \cup lost  BY <1>i, <2>s DEF StopInv, HandlerAt
  <2>3. CASE /\ proc' = proc
             /\ IF handler.fresh /\ registry = s
                THEN registry' = NoSession /\ lost' = lost \cup {s}
                ELSE UNCHANGED <<registry, lost>>
    <3>1. Calm'  BY <2>3 DEF StopInv, Calm
    <3>2. HandlerAt'  BY <2>1, <2>2, <2>3 DEF HandlerAt, At
    <3>3. Known'  BY <1>i, <2>3 DEF StopInv, Known, Own
    <3>4. QED  BY <1>i, <3>1, <3>2, <3>3 DEF StopInv, Rests, StopIsFinal
  <2>4. CASE UNCHANGED <<registry, lost>> /\ \E p \in Free : proc' = [proc EXCEPT ![p] = Child(s)]
    <3>1. PICK p \in Slots : proc' = [proc EXCEPT ![p] = Child(s)]  BY <2>4 DEF Free
    <3>2. proc'[p] = Child(s) /\ \A q \in Slots \ {p} : proc'[q] = proc[q]  BY <3>1, <1>h
    <3>3. s \in Sessions  BY <1>i, <2>s DEF SessionInv, Basics, Held
    <3>4. Child(s).owner = s /\ CalmSlot(Child(s))  BY <3>3, ProcessKeeps DEF CalmSlot
    <3>5. Calm'
      <4>1. \A q \in Slots \ {p} : CalmSlot(proc'[q])  BY <3>2 DEF StopInv, Calm, CalmSlot
      <4>2. QED  BY <3>2, <3>4, <4>1 DEF Calm, CalmSlot
    <3>6. Known'
      <4>1. \A q \in Slots \ {p} : proc'[q].run => proc'[q].owner \in {registry} \cup doomed \cup lost
        BY <3>2 DEF StopInv, Known, Own
      <4>2. QED  BY <1>i, <2>2, <2>4, <3>2, <3>4, <4>1 DEF Known, Own
    <3>7. HandlerAt'  BY <2>1, <2>2, <2>4 DEF HandlerAt, At
    <3>8. QED  BY <1>i, <3>5, <3>6, <3>7 DEF StopInv, Rests, StopIsFinal
  <2>5. QED  BY <1>4, <2>s, <2>3, <2>4 DEF HandlerSpawn
<1>5. QED  BY <1>1, <1>2, <1>3, <1>4 DEF HandlerStep

(* Once the user has said /stop or /clear, no process of the chat runs     *)
(* until he wants one, but for those on their way to be killed and those   *)
(* of the sessions that left the registry while the handler was at work on *)
(* them.  The hypothesis leaves out the recoveries, which do break it.     *)
THEOREM StopHolds ==
  ASSUME Answers \subseteq {"ok", "other"}
  PROVE  Spec => []StopIsFinal
<1>1. Init => StopInv
  <2>. SUFFICES ASSUME Init PROVE StopInv  OBVIOUS
  <2>1. Calm /\ \A p \in Slots : ~proc[p].run  BY DEF Init, NoProcess, Calm
  <2>2. At("idle")  BY DEF Init, HandlerIdle, At
  <2>3. QED  BY <2>1, <2>2 DEF Init, StopInv, HandlerAt, Rests, Known, StopIsFinal
<1>2. SessionInv /\ StopInv /\ [Next]_vars => StopInv'
  <2>. SUFFICES ASSUME SessionInv, StopInv, [Next]_vars PROVE StopInv'  OBVIOUS
  <2>1. CASE UNCHANGED vars
    BY <2>1 DEF vars, userVars, StopInv, Calm, HandlerAt, Rests, Known, StopIsFinal, Own, At
  <2>2. ASSUME NEW p \in Slots, AgentStep(p) \/ ReaderStep(p) \/ Wait(p) PROVE StopInv'
    BY <2>2, StopAgent, StopReader
  <2>3. ASSUME NEW s \in Sessions, KillDoomed(s) \/ Judge(s) \/ Watchdog(s) PROVE StopInv'
    BY <2>3, StopKills, StopJudge
  <2>4. QED  BY <2>1, <2>2, <2>3, StopUser, StopHandler, StopAdmin DEF Next
<1>3. StopInv => StopIsFinal  BY DEF StopInv
<1>4. QED  BY <1>1, <1>2, <1>3, SessionAlways, PTL DEF Spec

=============================================================================
