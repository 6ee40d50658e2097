------------------------- MODULE SubprocessWatchdog -------------------------
(***************************************************************************)
(* The subprocess watchdog (subprocess_watchdog.go): a worker that looks   *)
(* through /proc every two seconds for suspended descendants of the agy    *)
(* processes of live sessions and kills those it has found suspended for   *)
(* a grace period.                                                         *)
(*                                                                         *)
(* Processes fork, stop, continue, exit and lose their parents while the   *)
(* worker reads /proc entry by entry; a freed process identifier is given  *)
(* to another process.  Processes are the kernel's: external.              *)
(***************************************************************************)
EXTENDS Naturals, FiniteSets

CONSTANTS
  Pids,    (* process identifiers; os.ReadDir lists them in a fixed order  *)
  Top,     (* a parent outside every session: process 1 or the bot itself  *)
  Grace,   (* the grace period, in ticks                                   *)
  MaxSessions  (* bound on the number of live sessions                     *)

ASSUME WatchdogAssumption ==
  /\ IsFiniteSet(Pids) /\ Pids \subseteq Nat
  /\ Top \notin Pids
  /\ Grace \in Nat \ {0} /\ MaxSessions \in Nat

VARIABLES
  state,    (* what the kernel says of a PID                               *)
  parent,
  own,      (* the processes a session started, directly or not            *)
  roots,    (* the agy process of each live session                        *)
  scan,     (* how far the worker is, and what it has copied               *)
  since,    (* stoppedProcSince: ticks since a PID was first seen stopped  *)
  quiet     (* history: ticks since a scan did not find the PID, or killed *)

kernelVars == <<state, parent, own>>
vars == <<kernelVars, roots, scan, since, quiet>>

Alive == {p \in Pids : state[p] # "none"}
NoPicture == [p \in {} |-> [stopped |-> FALSE, ppid |-> Top]]
Idle == [pc |-> "idle", roots |-> {}, left |-> {}, procs |-> NoPicture]

-----------------------------------------------------------------------------
(* The processes.  Identifiers are handed out in turn, so one that is      *)
(* freed comes back between two scans, never within the few milliseconds   *)
(* of one, and never before the supervisor has waited for the process.     *)
Fresh(p) == state[p] = "none" /\ p \notin roots /\ scan.pc = "idle"

Born(p, q, mine) ==
  /\ Fresh(p)
  /\ state' = [state EXCEPT ![p] = "running"]
  /\ parent' = [parent EXCEPT ![p] = q]
  /\ own' = IF mine THEN own \cup {p} ELSE own \ {p}

StartSession(p) ==
  /\ Cardinality(roots) < MaxSessions
  /\ Born(p, Top, TRUE)
  /\ roots' = roots \cup {p}
  /\ UNCHANGED <<scan, since, quiet>>

Fork(p, q) ==
  /\ state[q] = "running"
  /\ Born(p, q, q \in own)
  /\ UNCHANGED <<roots, scan, since, quiet>>

Stranger(p) ==
  /\ Born(p, Top, FALSE)
  /\ UNCHANGED <<roots, scan, since, quiet>>

(* SIGTTIN and SIGTTOU stop a process, SIGCONT lets it go on. *)
Signal(p) ==
  /\ state[p] # "none"
  /\ state' = [state EXCEPT ![p] = IF @ = "running" THEN "stopped" ELSE "running"]
  /\ UNCHANGED <<parent, own, roots, scan, since, quiet>>

(* The children of a process that ends go to process 1. *)
Gone(ps) ==
  /\ state' = [p \in Pids |-> IF p \in ps THEN "none" ELSE state[p]]
  /\ parent' = [p \in Pids |-> IF p \in ps \/ parent[p] \in ps THEN Top ELSE parent[p]]
  /\ own' = own \ ps

Exit(p) ==
  /\ state[p] = "running"
  /\ Gone({p})
  /\ UNCHANGED <<roots, scan, since, quiet>>

(* A session is killed or its process is found dead. *)
EndSession(p) ==
  /\ p \in roots
  /\ roots' = roots \ {p}
  /\ UNCHANGED <<kernelVars, scan, since, quiet>>

-----------------------------------------------------------------------------
(* The worker. *)

(* getLinuxProcessMap lists /proc right after the roots are known, and     *)
(* reads the entries one by one; a list it cannot get leaves it idle.      *)
Scan == [pc |-> "read", roots |-> roots, left |-> Alive, procs |-> NoPicture]

Forgotten == [p \in {} |-> 0]

(* Mutant of Collect: without sessions nothing is forgotten. *)
CollectKeepingTimes ==
  /\ scan.pc = "idle"
  /\ scan' = IF roots = {} THEN scan ELSE Scan
  /\ quiet' = IF roots = {} THEN [p \in Pids |-> 0] ELSE quiet
  /\ UNCHANGED <<kernelVars, roots, since>>

(* Under sessionMu: the processes of the live sessions.  Without one there *)
(* is nothing to look for, and the times are forgotten.                    *)
Collect ==
  /\ scan.pc = "idle"
  /\ \/ /\ roots = {}
        /\ since' = Forgotten
        /\ quiet' = [p \in Pids |-> 0]
        /\ UNCHANGED scan
     \/ /\ roots # {}
        /\ scan' = Scan
        /\ UNCHANGED <<since, quiet>>
  /\ UNCHANGED <<kernelVars, roots>>

(* Mutant of Stat: a field that is no number counts as 0. *)
StatUnparsed(p) == [stopped |-> state[p] = "stopped", ppid |-> 0]

(* readProcStat of the next entry; a process that has ended is left out. *)
Stat(p) == [stopped |-> state[p] = "stopped", ppid |-> parent[p]]

Read(p) ==
  /\ scan.pc = "read" /\ p \in scan.left /\ \A q \in scan.left : p <= q
  /\ scan' = [scan EXCEPT !.left = @ \ {p},
                !.procs = IF state[p] = "none" THEN @
                          ELSE [q \in DOMAIN @ \cup {p} |-> IF q = p THEN Stat(p) ELSE @[q]]]
  /\ UNCHANGED <<kernelVars, roots, since, quiet>>

(* The processes whose parents lead into rs: the least set with rs that    *)
(* has every process whose parent it has.  A walk along the parents up,    *)
(* with its set of visited processes, finds that out for one process.      *)
LeadTo(rs, up) ==
  LET Closed(C) == rs \subseteq C /\ \A p \in DOMAIN up : up[p] \in C => p \in C
  IN  {p \in rs \cup DOMAIN up : \A C \in SUBSET (rs \cup DOMAIN up) : Closed(C) => p \in C}

InTree == LeadTo(scan.roots, [p \in DOMAIN scan.procs |-> scan.procs[p].ppid])
             \cap DOMAIN scan.procs

(* Mutants of Found: a stopped agy is overlooked; every stopped process. *)
FoundBelow == {p \in InTree \ scan.roots : scan.procs[p].stopped}
FoundAnywhere == {p \in DOMAIN scan.procs : scan.procs[p].stopped}

(* findStoppedDescendants *)
Found == {p \in InTree : scan.procs[p].stopped}

Age(p) == IF p \in DOMAIN since THEN since[p] ELSE 0
Victims == {p \in Found : Age(p) >= Grace}

Killed ==
  /\ Gone(Victims)
  /\ LET spared == Found \ Victims
     IN  quiet' = [p \in Pids |-> IF p \in spared THEN quiet[p] ELSE 0]
  /\ scan' = Idle

(* Mutants of Reap: a time is kept for a PID no longer found; for one that *)
(* was killed.                                                             *)
ReapWithoutPruning ==
  /\ scan.pc = "read" /\ scan.left = {}
  /\ since' = [p \in (DOMAIN since \cup Found) \ Victims |-> Age(p)]
  /\ Killed
  /\ UNCHANGED roots

ReapKeepingEntry ==
  /\ scan.pc = "read" /\ scan.left = {}
  /\ since' = [p \in Found |-> Age(p)]
  /\ Killed
  /\ UNCHANGED roots

(* Under watchdogMu: note who is found for the first time, send SIGCONT    *)
(* and SIGKILL to those found for the whole grace period, and keep the     *)
(* times of the others that are found, and of no one else.                 *)
Reap ==
  /\ scan.pc = "read" /\ scan.left = {}
  /\ since' = [p \in Found \ Victims |-> Age(p)]
  /\ Killed
  /\ UNCHANGED roots

Older(n) == IF n < Grace THEN n + 1 ELSE n

Tick ==
  /\ since' = [p \in DOMAIN since |-> Older(since[p])]
  /\ quiet' = [p \in Pids |-> Older(quiet[p])]
  /\ <<since, quiet>>' # <<since, quiet>>
  /\ UNCHANGED <<kernelVars, roots, scan>>

-----------------------------------------------------------------------------
Init ==
  /\ state = [p \in Pids |-> "none"]
  /\ parent = [p \in Pids |-> Top]
  /\ own = {} /\ roots = {}
  /\ scan = Idle
  /\ since = Forgotten
  /\ quiet = [p \in Pids |-> 0]

Processes ==
  \/ \E p \in Pids : StartSession(p) \/ Stranger(p) \/ Signal(p) \/ Exit(p) \/ EndSession(p)
  \/ \E p, q \in Pids : Fork(p, q)
Worker == Collect \/ Reap \/ \E p \in Pids : Read(p)

Next == Processes \/ Worker \/ Tick

Spec == Init /\ [][Next]_vars

(* The worker is one goroutine whose ticker goes on, and so does the clock; *)
(* /proc is not unreadable for ever.                                       *)
FairSpec == Spec /\ WF_vars(Worker) /\ WF_vars(Tick)

-----------------------------------------------------------------------------
(* Properties. *)

(* Every variable has its type. *)
TypeOK ==
  /\ state \in [Pids -> {"none", "running", "stopped"}]
  /\ parent \in [Pids -> Pids \cup {Top}]
  /\ own \subseteq Pids
  /\ roots \subseteq Pids
  /\ scan.pc \in {"idle", "read"}
  /\ scan.roots \subseteq Pids /\ scan.left \subseteq Pids
  /\ DOMAIN scan.procs \subseteq Pids
  /\ \A p \in DOMAIN scan.procs :
       scan.procs[p] \in [stopped : BOOLEAN, ppid : Pids \cup {Top}]
  /\ DOMAIN since \subseteq Pids
  /\ \A p \in DOMAIN since : since[p] \in 0 .. Grace
  /\ quiet \in [Pids -> 0 .. Grace]

(* A PID is killed only if every look at /proc in the whole grace period   *)
(* found it stopped under a session: a time noted for an earlier process   *)
(* of that PID, before a look at which there was none, a session was       *)
(* missing or the earlier one was killed, is never held against it.        *)
GraceIsObserved == [][Reap => \A p \in Victims : quiet[p] >= Grace]_vars

(* Only processes that a session started are killed, although sessions     *)
(* end, parents die and PIDs come back while /proc is read.                *)
OnlyOwnTree == [][Reap => Victims \cap Alive \subseteq own]_vars

(* A process that stays suspended below the agy process of a live session  *)
(* is killed in the end, unless its parents die before it.                 *)
Below(p) == p \in LeadTo(roots, [q \in Alive |-> parent[q]])

StuckIsReaped == \A p \in Pids : []<>~(state[p] = "stopped" /\ Below(p))
=============================================================================
