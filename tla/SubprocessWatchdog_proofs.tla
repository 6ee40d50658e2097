--------------------- MODULE SubprocessWatchdog_proofs ---------------------
(***************************************************************************)
(* Proofs about SubprocessWatchdog, for any process identifiers, any       *)
(* number of sessions and any grace period.                                *)
(*                                                                         *)
(* That the grace period is observed rests on one inequality: the time     *)
(* noted for a PID never exceeds the time for which it was found stopped   *)
(* without a break.  That only own processes die rests on a set of         *)
(* foreigners, fixed for the length of a scan: the processes that were     *)
(* alive and foreign when it began.  What is read of a foreigner names a   *)
(* foreigner as its parent, and no foreigner is a root, so a walk along    *)
(* the parents meets none of them, however old the entries are.            *)
(***************************************************************************)
EXTENDS SubprocessWatchdog, TLAPS

Entry == [stopped : BOOLEAN, ppid : Pids \cup {Top}]

(* The shape of the two functions whose domain changes, and of the record. *)
Shapes ==
  /\ scan = [pc |-> scan.pc, roots |-> scan.roots, left |-> scan.left, procs |-> scan.procs]
  /\ scan.procs = [p \in DOMAIN scan.procs |-> scan.procs[p]]
  /\ since = [p \in DOMAIN since |-> since[p]]

Typed == TypeOK /\ Shapes

(* What is noted against a PID was observed. *)
NotedIsObserved == \A p \in DOMAIN since : since[p] <= quiet[p]

(* What the kernel guarantees: a process that has ended has no parent and  *)
(* is nobody's, a parent is alive, and children are their parent's kind.   *)
KernelInv ==
  /\ \A p \in Pids : state[p] = "none" => parent[p] = Top /\ p \notin own
  /\ \A p \in Pids : parent[p] # Top =>
       /\ state[parent[p]] # "none"
       /\ p \in own <=> parent[p] \in own
  /\ \A p \in roots : state[p] # "none" => p \in own

(* A set N of processes that hides the rest of the foreign ones from the   *)
(* picture of a scan.                                                      *)
Foreigners(N) ==
  /\ Alive \ own \subseteq N
  /\ N \cap own = {} /\ N \cap scan.roots = {}
  /\ \A p \in N \cap DOMAIN scan.procs : scan.procs[p].ppid \in N \cup {Top}

PictureInv == scan.pc = "read" => \E N \in SUBSET Pids : Foreigners(N)

-----------------------------------------------------------------------------
(* Types. *)

LEMMA OlderFits ==
  ASSUME NEW n \in 0 .. Grace, NEW m \in 0 .. Grace, n <= m
  PROVE  Older(n) \in 0 .. Grace /\ Older(n) <= Older(m)
PROOF
  BY WatchdogAssumption DEF Older, WatchdogAssumption

(* Who is found is in the picture, and so has a PID.                       *)
LEMMA FoundArePids ==
  ASSUME Typed
  PROVE  Victims \subseteq Found /\ Found \subseteq DOMAIN scan.procs /\ Found \subseteq Pids
PROOF
  BY DEF Victims, Found, InTree, Typed, TypeOK

LEMMA AgeFits ==
  ASSUME Typed, NEW p
  PROVE  Age(p) \in 0 .. Grace
PROOF
  BY WatchdogAssumption DEF WatchdogAssumption, Age, Typed, TypeOK

LEMMA InitTyped == Init => Typed
PROOF
  BY WatchdogAssumption
     DEF WatchdogAssumption, Init, Typed, TypeOK, Shapes, Idle, NoPicture, Forgotten

(* A birth and a death keep the types of what the kernel knows.            *)
KernelTyped ==
  /\ state \in [Pids -> {"none", "running", "stopped"}]
  /\ parent \in [Pids -> Pids \cup {Top}]
  /\ own \subseteq Pids

LEMMA BornTyped ==
  ASSUME KernelTyped, NEW p \in Pids, NEW q \in Pids \cup {Top}, NEW mine, Born(p, q, mine)
  PROVE  KernelTyped'
PROOF
  BY DEF KernelTyped, Born

LEMMA GoneTyped ==
  ASSUME KernelTyped, NEW ps \in SUBSET Pids, Gone(ps)
  PROVE  KernelTyped'
PROOF
  BY DEF KernelTyped, Gone

LEMMA NextTyped == Typed /\ [Next]_vars => Typed'
PROOF
  <1> SUFFICES ASSUME Typed, [Next]_vars PROVE Typed'
    OBVIOUS
  <1>0. KernelTyped /\ roots \subseteq Pids
    BY DEF Typed, TypeOK, KernelTyped
  <1>k. ASSUME KernelTyped', roots' \subseteq Pids, UNCHANGED <<scan, since, quiet>>
        PROVE  Typed'
    BY <1>k DEF Typed, TypeOK, Shapes, KernelTyped
  <1>1. CASE Processes
    <2>1. ASSUME NEW p \in Pids, StartSession(p) PROVE Typed'
      BY <1>0, <1>k, <2>1, BornTyped DEF StartSession
    <2>2. ASSUME NEW p \in Pids, Stranger(p) PROVE Typed'
      BY <1>0, <1>k, <2>2, BornTyped DEF Stranger
    <2>3. ASSUME NEW p \in Pids, NEW q \in Pids, Fork(p, q) PROVE Typed'
      BY <1>0, <1>k, <2>3, BornTyped DEF Fork
    <2>4. ASSUME NEW p \in Pids, Signal(p) PROVE Typed'
      BY <1>0, <1>k, <2>4 DEF Signal, KernelTyped
    <2>5. ASSUME NEW p \in Pids, Exit(p) PROVE Typed'
      BY <1>0, <1>k, <2>5, GoneTyped DEF Exit
    <2>6. ASSUME NEW p \in Pids, EndSession(p) PROVE Typed'
      BY <1>0, <1>k, <2>6 DEF EndSession, kernelVars, KernelTyped
    <2>. QED
      BY <1>1, <2>1, <2>2, <2>3, <2>4, <2>5, <2>6 DEF Processes
  <1>2. CASE Collect
    <2>1. CASE roots = {}
      BY <1>2, <2>1, WatchdogAssumption
         DEF Collect, Typed, TypeOK, Shapes, kernelVars, Forgotten, WatchdogAssumption
    <2>2. CASE roots # {}
      BY <1>2, <2>2 DEF Collect, Typed, TypeOK, Shapes, kernelVars, Scan, NoPicture, Alive
    <2>. QED
      BY <2>1, <2>2
  <1>3. ASSUME NEW p \in Pids, Read(p) PROVE Typed'
    <2> DEFINE seen == IF state[p] = "none" THEN scan.procs
                       ELSE [q \in DOMAIN scan.procs \cup {p} |->
                               IF q = p THEN Stat(p) ELSE scan.procs[q]]
    <2>1. scan' = [pc |-> scan.pc, roots |-> scan.roots, left |-> scan.left \ {p}, procs |-> seen]
      BY <1>3 DEF Read, Typed, Shapes
    <2>2. Stat(p) \in Entry
      BY DEF Stat, Entry, Typed, TypeOK
    <2>3. /\ DOMAIN seen \subseteq Pids
          /\ seen = [q \in DOMAIN seen |-> seen[q]]
          /\ \A q \in DOMAIN seen : seen[q] \in Entry
      BY <2>2 DEF Typed, TypeOK, Shapes, Entry
    <2> HIDE DEF seen
    <2>4. /\ scan'.pc = scan.pc /\ scan'.roots = scan.roots
          /\ scan'.left = scan.left \ {p} /\ scan'.procs = seen
      BY <2>1
    <2>5. UNCHANGED <<state, parent, own, roots, since, quiet>>
      BY <1>3 DEF Read, kernelVars
    <2>6. TypeOK'
      BY <2>3, <2>4, <2>5 DEF Typed, TypeOK, Entry
    <2>7. Shapes'
      BY <2>1, <2>3, <2>4, <2>5 DEF Typed, Shapes
    <2>. QED
      BY <2>6, <2>7 DEF Typed
  <1>4. CASE Reap
    <2>1. KernelTyped'
      BY <1>0, <1>4, FoundArePids, GoneTyped DEF Reap, Killed
    <2>2. DOMAIN since' \subseteq Pids /\ \A p \in DOMAIN since' : since'[p] \in 0 .. Grace
      BY <1>4, FoundArePids, AgeFits DEF Reap
    <2>3. since' = [p \in DOMAIN since' |-> since'[p]]
      BY <1>4 DEF Reap
    <2>4. quiet' \in [Pids -> 0 .. Grace]
      BY <1>4, WatchdogAssumption DEF Reap, Killed, Typed, TypeOK, WatchdogAssumption
    <2>. QED
      BY <1>0, <1>4, <2>1, <2>2, <2>3, <2>4
         DEF Reap, Killed, Idle, NoPicture, Typed, TypeOK, Shapes, KernelTyped
  <1>5. CASE Tick
    <2>1. \A n \in 0 .. Grace : Older(n) \in 0 .. Grace
      BY OlderFits
    <2>. QED
      BY <1>0, <1>5, <2>1 DEF Tick, Typed, TypeOK, Shapes, kernelVars
  <1>6. CASE UNCHANGED vars
    BY <1>6 DEF vars, kernelVars, Typed, TypeOK, Shapes
  <1>. QED
    BY <1>1, <1>2, <1>3, <1>4, <1>5, <1>6 DEF Next, Worker

LEMMA AlwaysTyped == Spec => []Typed
PROOF
  BY InitTyped, NextTyped, PTL DEF Spec

(* Every variable keeps its type. *)
THEOREM TypeCorrect == Spec => []TypeOK
PROOF
  BY AlwaysTyped, PTL DEF Typed

-----------------------------------------------------------------------------
(* The grace period. *)

LEMMA NotedInit == Init => NotedIsObserved
PROOF
  BY DEF Init, NotedIsObserved, Forgotten

LEMMA NotedNext == Typed /\ NotedIsObserved /\ [Next]_vars => NotedIsObserved'
PROOF
  <1> SUFFICES ASSUME Typed, NotedIsObserved, [Next]_vars PROVE NotedIsObserved'
    OBVIOUS
  <1>1. CASE UNCHANGED <<since, quiet>>
    BY <1>1 DEF NotedIsObserved
  <1>2. CASE Collect
    BY <1>1, <1>2 DEF Collect, NotedIsObserved, Forgotten
  <1>3. CASE Reap
    <2>1. \A p \in DOMAIN since' : p \in Found \ Victims /\ since'[p] = Age(p)
      BY <1>3 DEF Reap
    <2>2. \A p \in Found \ Victims : quiet'[p] = quiet[p]
      BY <1>3, FoundArePids DEF Reap, Killed
    <2>3. \A p \in Found : Age(p) <= quiet[p]
      BY FoundArePids DEF Age, NotedIsObserved, Typed, TypeOK
    <2>. QED
      BY <2>1, <2>2, <2>3 DEF NotedIsObserved
  <1>4. CASE Tick
    BY <1>4, OlderFits DEF Tick, NotedIsObserved, Typed, TypeOK
  <1>5. CASE Processes \/ \E p \in Pids : Read(p)
    BY <1>1, <1>5 DEF Processes, StartSession, Stranger, Signal, Exit, EndSession, Fork, Read
  <1>. QED
    BY <1>1, <1>2, <1>3, <1>4, <1>5 DEF Next, Worker, vars

(* A PID is killed only if every look at /proc in the whole grace period   *)
(* found it stopped under a session, whichever processes have had it.      *)
THEOREM GraceObserved == Spec => GraceIsObserved
PROOF
  <1>1. ASSUME Typed, NotedIsObserved
        PROVE  \A p \in Victims : quiet[p] >= Grace
    <2> SUFFICES ASSUME NEW p \in Victims PROVE quiet[p] >= Grace
      OBVIOUS
    <2>1. Age(p) >= Grace /\ p \in Pids
      BY <1>1, FoundArePids DEF Victims
    <2>2. p \in DOMAIN since
      BY <2>1, WatchdogAssumption DEF Age, WatchdogAssumption
    <2>. QED
      BY <1>1, <2>1, <2>2, WatchdogAssumption
         DEF Age, NotedIsObserved, Typed, TypeOK, WatchdogAssumption
  <1>2. Typed /\ NotedIsObserved /\ [Next]_vars
          => [Reap => \A p \in Victims : quiet[p] >= Grace]_vars
    BY <1>1
  <1>. QED
    BY <1>2, NotedInit, NotedNext, AlwaysTyped, PTL DEF Spec, GraceIsObserved

-----------------------------------------------------------------------------
(* Whose processes die. *)

LEMMA KernelInit == Init => KernelInv
PROOF
  BY WatchdogAssumption DEF Init, KernelInv

LEMMA BornKernel ==
  ASSUME Typed, KernelInv, NEW p \in Pids, NEW q \in Pids \cup {Top}, NEW mine \in BOOLEAN,
         Born(p, q, mine), q # Top => state[q] # "none" /\ (mine <=> q \in own),
         roots' = roots \/ (mine /\ roots' = roots \cup {p})
  PROVE  KernelInv'
PROOF
  <1>1. state[p] = "none" /\ p \notin roots /\ p \notin own /\ parent[p] = Top
    BY DEF Born, Fresh, KernelInv
  <1>2. \A o \in Pids : parent[o] # p
    BY <1>1, WatchdogAssumption DEF KernelInv, WatchdogAssumption
  <1>3. \A o \in Pids : /\ state'[o] = IF o = p THEN "running" ELSE state[o]
                        /\ parent'[o] = IF o = p THEN q ELSE parent[o]
                        /\ o \in own' <=> IF o = p THEN mine ELSE o \in own
    BY DEF Born, Typed, TypeOK
  <1>4. q # p
    BY <1>1, WatchdogAssumption DEF WatchdogAssumption
  <1>5. \A o \in Pids : parent[o] \in Pids \cup {Top}
    BY DEF Typed, TypeOK
  <1>6. \A o \in Pids : state'[o] = "none" => parent'[o] = Top /\ o \notin own'
    BY <1>3 DEF KernelInv
  <1>7. \A o \in Pids : parent'[o] # Top =>
          state'[parent'[o]] # "none" /\ (o \in own' <=> parent'[o] \in own')
    BY <1>2, <1>3, <1>4, <1>5 DEF KernelInv
  <1>8. \A o \in roots' : state'[o] # "none" => o \in own'
    BY <1>1, <1>3 DEF KernelInv, Typed, TypeOK
  <1>. QED
    BY <1>6, <1>7, <1>8 DEF KernelInv

LEMMA GoneKernel ==
  ASSUME Typed, KernelInv, NEW ps \in SUBSET Pids, Gone(ps), UNCHANGED roots
  PROVE  KernelInv'
PROOF
  <1>1. \A o \in Pids :
          /\ state'[o] = IF o \in ps THEN "none" ELSE state[o]
          /\ parent'[o] = IF o \in ps \/ parent[o] \in ps THEN Top ELSE parent[o]
          /\ o \in own' <=> o \in own /\ o \notin ps
    BY DEF Gone
  <1>2. \A o \in Pids : parent[o] \in Pids \cup {Top}
    BY DEF Typed, TypeOK
  <1>. QED
    BY <1>1, <1>2 DEF KernelInv, Typed, TypeOK

LEMMA KernelNext == Typed /\ KernelInv /\ [Next]_vars => KernelInv'
PROOF
  <1> SUFFICES ASSUME Typed, KernelInv, [Next]_vars PROVE KernelInv'
    OBVIOUS
  <1>1. CASE UNCHANGED <<kernelVars, roots>>
    BY <1>1 DEF KernelInv, kernelVars
  <1>2. ASSUME NEW p \in Pids, StartSession(p) PROVE KernelInv'
    BY <1>2, BornKernel DEF StartSession
  <1>3. ASSUME NEW p \in Pids, Stranger(p) PROVE KernelInv'
    BY <1>3, BornKernel DEF Stranger
  <1>4. ASSUME NEW p \in Pids, NEW q \in Pids, Fork(p, q) PROVE KernelInv'
    <2>1. state[q] # "none" /\ roots' = roots
      BY <1>4 DEF Fork
    <2>2. CASE q \in own
      <3>1. Born(p, q, TRUE)
        BY <1>4, <2>2 DEF Fork, Born
      <3>. QED
        BY <2>1, <2>2, <3>1, BornKernel
    <2>3. CASE q \notin own
      <3>1. Born(p, q, FALSE)
        BY <1>4, <2>3 DEF Fork, Born
      <3>. QED
        BY <2>1, <2>3, <3>1, BornKernel
    <2>. QED
      BY <2>2, <2>3
  <1>5. ASSUME NEW p \in Pids, Signal(p) PROVE KernelInv'
    <2>1. \A o \in Pids : state'[o] = "none" <=> state[o] = "none"
      BY <1>5 DEF Signal, Typed, TypeOK
    <2>2. \A o \in Pids : parent[o] \in Pids \cup {Top}
      BY DEF Typed, TypeOK
    <2>. QED
      BY <1>5, <2>1, <2>2 DEF Signal, KernelInv, Typed, TypeOK
  <1>6. ASSUME NEW p \in Pids, Exit(p) PROVE KernelInv'
    BY <1>6, GoneKernel DEF Exit
  <1>7. ASSUME NEW p \in Pids, EndSession(p) PROVE KernelInv'
    BY <1>7 DEF EndSession, kernelVars, KernelInv
  <1>8. CASE Reap
    BY <1>8, FoundArePids, GoneKernel DEF Reap, Killed
  <1>9. CASE Collect \/ Tick \/ \E p \in Pids : Read(p)
    BY <1>1, <1>9 DEF Collect, Tick, Read
  <1>. QED
    BY <1>1, <1>2, <1>3, <1>4, <1>5, <1>6, <1>7, <1>8, <1>9 DEF Next, Processes, Worker, vars

LEMMA PictureInit == Init => PictureInv
PROOF
  BY DEF Init, PictureInv, Idle

(* While a scan goes on no process is born, so the foreigners stay.        *)
LEMMA PictureNext == Typed /\ KernelInv /\ PictureInv /\ [Next]_vars => PictureInv'
PROOF
  <1> SUFFICES ASSUME Typed, KernelInv, PictureInv, [Next]_vars PROVE PictureInv'
    OBVIOUS
  <1>1. CASE scan'.pc # "read"
    BY <1>1 DEF PictureInv
  <1>2. ASSUME scan.pc = "read", UNCHANGED scan, Alive' \ own' \subseteq Alive \ own, own' \subseteq own
        PROVE  PictureInv'
    BY <1>2 DEF PictureInv, Foreigners
  <1>3. CASE Processes
    <2>1. ASSUME NEW p \in Pids, NEW q, NEW mine, Born(p, q, mine), UNCHANGED scan
          PROVE  PictureInv'
      BY <1>1, <2>1 DEF Born, Fresh
    <2>2. ASSUME NEW p \in Pids, Signal(p) PROVE PictureInv'
      <3>1. UNCHANGED <<scan, own>> /\ \A o \in Pids : state'[o] = "none" <=> state[o] = "none"
        BY <2>2 DEF Signal, Typed, TypeOK
      <3>. QED
        BY <1>1, <1>2, <3>1 DEF Alive, Typed, TypeOK
    <2>3. ASSUME NEW p \in Pids, Exit(p) PROVE PictureInv'
      BY <1>1, <1>2, <2>3 DEF Exit, Gone, Alive, Typed, TypeOK
    <2>4. ASSUME NEW p \in Pids, EndSession(p) PROVE PictureInv'
      BY <1>1, <1>2, <2>4 DEF EndSession, kernelVars, Alive, Typed, TypeOK
    <2>. QED
      BY <1>3, <2>1, <2>2, <2>3, <2>4 DEF Processes, StartSession, Stranger, Fork
  <1>4. CASE Collect
    <2>1. CASE roots = {}
      BY <1>1, <1>4, <2>1 DEF Collect
    <2>2. CASE roots # {}
      <3>1. scan' = Scan /\ UNCHANGED <<state, own>>
        BY <1>4, <2>2 DEF Collect, kernelVars
      <3>2. Foreigners(Alive \ own)'
        BY <3>1 DEF Foreigners, Scan, NoPicture, KernelInv, Alive, Typed, TypeOK
      <3>3. (Alive \ own)' \in SUBSET Pids
        BY DEF Alive
      <3>. QED
        BY <3>2, <3>3 DEF PictureInv
    <2>. QED
      BY <2>1, <2>2
  <1>5. ASSUME NEW p \in Pids, Read(p) PROVE PictureInv'
    <2>1. PICK N \in SUBSET Pids : Foreigners(N)
      BY <1>5 DEF Read, PictureInv
    <2>2. UNCHANGED <<state, own>> /\ scan'.roots = scan.roots
      BY <1>5 DEF Read, kernelVars, Typed, Shapes
    <2>3. scan'.procs = IF state[p] = "none" THEN scan.procs
                        ELSE [q \in DOMAIN scan.procs \cup {p} |->
                                IF q = p THEN Stat(p) ELSE scan.procs[q]]
      BY <1>5 DEF Read, Typed, Shapes
    <2>4. ASSUME p \in N, state[p] # "none"
          PROVE  parent[p] \in N \cup {Top}
      <3>1. p \notin own
        BY <2>1, <2>4 DEF Foreigners
      <3>2. CASE parent[p] # Top
        <4>1. parent[p] \in Alive \ own
          BY <3>1, <3>2 DEF KernelInv, Alive, Typed, TypeOK
        <4>. QED
          BY <2>1, <4>1 DEF Foreigners
      <3>. QED
        BY <3>2
    <2>5. \A q \in N \cap DOMAIN scan'.procs : scan'.procs[q].ppid \in N \cup {Top}
      BY <2>1, <2>3, <2>4 DEF Foreigners, Stat
    <2>6. Foreigners(N)'
      BY <2>1, <2>2, <2>5 DEF Foreigners, Alive
    <2>. QED
      BY <2>6 DEF PictureInv
  <1>6. CASE Reap
    BY <1>1, <1>6 DEF Reap, Killed, Idle
  <1>7. CASE Tick \/ UNCHANGED vars
    BY <1>1, <1>2, <1>7 DEF Tick, vars, kernelVars, Alive, Typed, TypeOK
  <1>. QED
    BY <1>3, <1>4, <1>5, <1>6, <1>7 DEF Next, Worker

(* A walk along the parents leads into no set but the roots' if that set's *)
(* members have their parents in it.                                       *)
LEMMA LeadToAvoids ==
  ASSUME NEW rs, NEW up, NEW N, rs \cap N = {},
         \A p \in N \cap DOMAIN up : up[p] \notin rs \cup (DOMAIN up \ N)
  PROVE  LeadTo(rs, up) \cap N = {}
PROOF
  <1> DEFINE C == (rs \cup DOMAIN up) \ N
  <1>1. C \in SUBSET (rs \cup DOMAIN up) /\ rs \subseteq C
    OBVIOUS
  <1>2. \A p \in DOMAIN up : up[p] \in C => p \in C
    OBVIOUS
  <1> HIDE DEF C
  <1>3. LeadTo(rs, up) \subseteq C
    BY <1>1, <1>2 DEF LeadTo
  <1>. QED
    BY <1>3 DEF C

(* Only processes that a session started are killed, although sessions     *)
(* end, parents die and PIDs come back while /proc is read.                *)
THEOREM OnlyOwnDie == Spec => OnlyOwnTree
PROOF
  <1>1. ASSUME Typed, KernelInv, PictureInv, Reap
        PROVE  Victims \cap Alive \subseteq own
    <2> DEFINE up == [p \in DOMAIN scan.procs |-> scan.procs[p].ppid]
    <2>1. PICK N \in SUBSET Pids : Foreigners(N)
      BY <1>1 DEF Reap, PictureInv
    <2>2. \A p \in N \cap DOMAIN up : up[p] \notin scan.roots \cup (DOMAIN up \ N)
      BY <1>1, <2>1, WatchdogAssumption DEF Foreigners, Typed, TypeOK, WatchdogAssumption
    <2>3. scan.roots \cap N = {}
      BY <2>1 DEF Foreigners
    <2>4. InTree = LeadTo(scan.roots, up) \cap DOMAIN scan.procs
      BY DEF InTree
    <2> HIDE DEF up
    <2>5. InTree \cap N = {}
      BY <2>2, <2>3, <2>4, LeadToAvoids
    <2>6. Victims \subseteq InTree
      BY DEF Victims, Found
    <2>. QED
      BY <2>1, <2>5, <2>6 DEF Foreigners
  <1>2. Typed /\ KernelInv /\ PictureInv /\ [Next]_vars
          => [Reap => Victims \cap Alive \subseteq own]_vars
    BY <1>1
  <1>. QED
    BY <1>2, KernelInit, KernelNext, PictureInit, PictureNext, AlwaysTyped, PTL
       DEF Spec, OnlyOwnTree
=============================================================================
