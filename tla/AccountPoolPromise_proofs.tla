--------------------- MODULE AccountPoolPromise_proofs ---------------------
(***************************************************************************)
(* AccountPool implements AdminHold, and serves every rest in full.        *)
(*                                                                         *)
(* Most steps of the pool are stutters of AdminHold: they change neither   *)
(* who is in the pool, nor who is frozen, nor which chat an account serves *)
(* (SameView).  What is left are the grants and the decisions of an        *)
(* administrator, one lemma for each kind of abstract step, and a restart, *)
(* which may only forget accounts that were never saved.                   *)
(***************************************************************************)
EXTENDS AccountPool_proofs

Known == {a \in AccountIds : Registered(a)}
Held == {a \in AccountIds : accounts[a].state = "Frozen"}

(* The step is none of AdminHold's. *)
SameView == UNCHANGED <<Known, Held, activeChat>>

PromiseStep == [Promise!Next]_(Promise!vars)

(* A step that leaves every account in the pool, or out of it, and frozen, *)
(* or not frozen, leaves the view of AdminHold as it is.                   *)
LEMMA StatesKept ==
  ASSUME UNCHANGED activeChat,
         \A a \in AccountIds :
           /\ (accounts'[a].state = "Frozen") <=> (accounts[a].state = "Frozen")
           /\ (accounts'[a].state = "Absent") <=> (accounts[a].state = "Absent")
  PROVE  SameView
PROOF
  BY DEF SameView, Known, Held, Registered

LEMMA SameViewStep == SameView => PromiseStep
PROOF
  BY DEF SameView, PromiseStep, Promise!vars, Known, Held

(* A chat gets an account that is in the pool and not frozen.              *)
LEMMA AssignStep ==
  ASSUME UNCHANGED <<Known, Held>>, NEW k \in Keys, NEW a \in Known \ Held,
         activeChat' = [activeChat EXCEPT ![k] = a]
  PROVE  PromiseStep
PROOF
  <1>1. Promise!Assign(k, a)
    BY DEF Promise!Assign, Known, Held
  <1>. QED
    BY <1>1 DEF PromiseStep, Promise!Next, Known, Held

(* An account is frozen and its chats are dropped.                         *)
LEMMA HoldStep ==
  ASSUME UNCHANGED Known, NEW a \in Known, Held' = Held \cup {a},
         activeChat' = Without(activeChat, a)
  PROVE  PromiseStep
PROOF
  <1>1. Promise!Hold(a)
    BY DEF Promise!Hold, Promise!Dropped, Without, Known, Held
  <1>. QED
    BY <1>1 DEF PromiseStep, Promise!Next, Known

(* A freeze is lifted. *)
LEMMA LiftStep ==
  ASSUME UNCHANGED <<Known, activeChat>>, NEW a \in Held, Held' = Held \ {a}
  PROVE  PromiseStep
PROOF
  <1>1. Promise!Lift(a)
    BY DEF Promise!Lift, Known, Held
  <1>. QED
    BY <1>1 DEF PromiseStep, Promise!Next, Held

(* The owner of an account logs in. *)
LEMMA EnrolStep ==
  ASSUME UNCHANGED activeChat, NEW a \in AccountIds,
         Known' = Known \cup {a}, Held' = Held \ {a}
  PROVE  PromiseStep
PROOF
  <1>1. Promise!Enrol(a)
    BY DEF Promise!Enrol, Known, Held
  <1>. QED
    BY <1>1 DEF PromiseStep, Promise!Next

(* Accounts leave the pool. *)
LEMMA ForgetStep ==
  ASSUME NEW S \in SUBSET Known, Known' = Known \ S, Held' = Held \ S,
         activeChat' = [k \in Keys |-> IF activeChat[k] \in S THEN NoAccount ELSE activeChat[k]]
  PROVE  PromiseStep
PROOF
  <1>1. Promise!Forget(S)
    BY DEF Promise!Forget, Promise!Dropped, Known, Held
  <1>. QED
    BY <1>1 DEF PromiseStep, Promise!Next, Known

-----------------------------------------------------------------------------
(* The steps of the pool, seen by AdminHold.                               *)

(* A step that replaces one account changes the view of that account only. *)
LEMMA ReplacedView ==
  ASSUME MemoryInv, NEW a \in AccountIds, NEW acc, accounts' = [accounts EXCEPT ![a] = acc]
  PROVE  /\ Known' = IF acc.state = "Absent" THEN Known \ {a} ELSE Known \cup {a}
         /\ Held' = IF acc.state = "Frozen" THEN Held \cup {a} ELSE Held \ {a}
PROOF
  <1>1. \A o \in AccountIds : accounts'[o] = IF o = a THEN acc ELSE accounts[o]
    BY DEF MemoryInv, PoolInv, Registry
  <1>. QED
    BY <1>1 DEF Known, Held, Registered

LEMMA ReplacedSameView ==
  ASSUME MemoryInv, NEW a \in AccountIds, NEW acc, accounts' = [accounts EXCEPT ![a] = acc],
         UNCHANGED activeChat,
         acc.state = "Absent" <=> accounts[a].state = "Absent",
         acc.state = "Frozen" <=> accounts[a].state = "Frozen"
  PROVE  SameView
PROOF
  BY ReplacedView DEF SameView, Known, Held, Registered

(* The sweep is not seen. *)
LEMMA SweptStates ==
  ASSUME NEW accs, NEW pinned, NEW active, PoolInv(accs, pinned, active), NEW a \in AccountIds
  PROVE  /\ (Recovered(accs)[a].state = "Frozen") <=> (accs[a].state = "Frozen")
         /\ (Recovered(accs)[a].state = "Absent") <=> (accs[a].state = "Absent")
PROOF
  <1>1. accs[a] \in Account
    BY Fields DEF PoolInv
  <1>2. Recovered(accs)[a] = IF Overdue(accs[a]) THEN Activated(accs[a]) ELSE accs[a]
    BY DEF Recovered
  <1>. QED
    BY <1>1, <1>2, ActivatedFits DEF Overdue

(* What an acquisition does: nothing but the sweep, or a turn for an       *)
(* account that after the sweep is neither frozen nor resting.             *)
LEMMA AcquireOutcomes ==
  ASSUME MemoryInv, NEW b \in Bots, NEW c \in Chats, AcquireAccount(b, c)
  PROVE  \/ Refuse(Recovered(accounts))
         \/ \E a \in AccountIds :
              /\ Recovered(accounts)[a].state \notin {"Absent", "Frozen"}
              /\ ~(/\ Recovered(accounts)[a].state = "Cooldown"
                   /\ Before(Recovered(accounts)[a].cooldownUntil))
              /\ Grant(Recovered(accounts), a, b, c)
PROOF
  <1> DEFINE accs == Recovered(accounts)
             pinned == Lookup(pinnedChat, b, c)
             current == Lookup(activeChat, b, c)
  <1>1. pinned \in AccountIds \cup {NoAccount} /\ current \in AccountIds \cup {NoAccount}
    BY ChatKeys DEF Lookup, MemoryInv, PoolInv, ChatMap
  <1> HIDE DEF accs, pinned, current
  <1>2. CASE pinned # NoAccount /\ accs[pinned].state # "Absent"
    <2>1. pinned \in AccountIds /\ AcquirePinned(accs, pinned, b, c)
      BY <1>1, <1>2 DEF AcquireAccount, accs, pinned
    <2>. QED
      BY <1>2, <2>1 DEF AcquirePinned, accs
  <1>3. CASE AcquireFromPool(accs, b, c)
    <2>1. CASE current # NoAccount /\ accs[current].state = "Active" /\ Grant(accs, current, b, c)
      BY <1>1, <2>1 DEF accs
    <2>2. CASE \E a \in Selectable(accs) : Grant(accs, a, b, c)
      BY <2>2 DEF Selectable, Candidates, accs
    <2>3. CASE Refuse(accs)
      BY <2>3 DEF accs
    <2>. QED
      BY <1>3, <2>1, <2>2, <2>3 DEF AcquireFromPool, current
  <1>. QED
    BY <1>2, <1>3 DEF AcquireAccount, accs, pinned

(* The accounts after a grant: the one that serves is in use, the others   *)
(* are as the sweep left them, but for their rank.                         *)
LEMMA GrantedAccounts ==
  ASSUME NEW accs, Registry(accs), NEW a \in AccountIds, NEW b \in Bots, NEW c \in Chats,
         Grant(accs, a, b, c)
  PROVE  /\ accounts'[a].state = "InUse"
         /\ \A o \in AccountIds \ {a} :
              /\ accounts'[o].state = accs[o].state
              /\ accounts'[o].cooldownUntil = accs[o].cooldownUntil
PROOF
  <1> DEFINE touched == Touched(accs, a)
  <1>1. Registry(touched) /\ \A o \in AccountIds : /\ touched[o].state = accs[o].state
                                                   /\ touched[o].cooldownUntil = accs[o].cooldownUntil
    BY TouchedFits
  <1>2. accounts' = [touched EXCEPT ![a] = Occupied(touched[a])]
    BY DEF Grant
  <1> HIDE DEF touched
  <1>3. \A o \in AccountIds : accounts'[o] = IF o = a THEN Occupied(touched[a]) ELSE touched[o]
    BY <1>1, <1>2 DEF Registry
  <1>4. Occupied(touched[a]).state = "InUse"
    BY <1>1 DEF Registry, Occupied, Account
  <1>. QED
    BY <1>1, <1>3, <1>4

(* A turn is given to an account AdminHold may assign, or nothing is seen. *)
LEMMA AcquireSeen ==
  ASSUME MemoryInv, NEW b \in Bots, NEW c \in Chats, AcquireAccount(b, c)
  PROVE  PromiseStep
PROOF
  <1> DEFINE accs == Recovered(accounts)
  <1>1. PoolInv(accounts, pinnedChat, activeChat)
    BY DEF MemoryInv
  <1>2. \A a \in AccountIds :
          /\ (accs[a].state = "Frozen") <=> (accounts[a].state = "Frozen")
          /\ (accs[a].state = "Absent") <=> (accounts[a].state = "Absent")
    BY <1>1, SweptStates
  <1>3. Registry(accs)
    BY <1>1, RecoveredFits DEF PoolInv
  <1> HIDE DEF accs
  <1>4. CASE Refuse(accs)
    BY <1>2, <1>4, StatesKept, SameViewStep DEF Refuse
  <1>5. ASSUME NEW a \in AccountIds, accs[a].state \notin {"Absent", "Frozen"},
               Grant(accs, a, b, c)
        PROVE  PromiseStep
    <2>1. \A o \in AccountIds :
            /\ (accounts'[o].state = "Frozen") <=> (accounts[o].state = "Frozen")
            /\ (accounts'[o].state = "Absent") <=> (accounts[o].state = "Absent")
      BY <1>2, <1>3, <1>5, GrantedAccounts
    <2>2. UNCHANGED <<Known, Held>> /\ a \in Known \ Held
      BY <1>2, <1>5, <2>1 DEF Known, Held, Registered
    <2>3. activeChat' = [activeChat EXCEPT ![<<b, c>>] = a]
      BY <1>5 DEF Grant
    <2>. QED
      BY <2>2, <2>3, ChatKeys, AssignStep
  <1>. QED
    BY <1>4, <1>5, AcquireOutcomes DEF accs

(* A release changes no more than whether the account is in use.           *)
LEMMA ReleasedState ==
  ASSUME NEW acc \in Account
  PROVE  Released(acc).state = acc.state \/ (acc.state = "InUse" /\ Released(acc).state = "Active")
PROOF
  <1> DEFINE turns == OneLess(acc.activeTurns)
             state == Freed(acc.state, OneLess(acc.activeTurns))
  <1>1. state = acc.state \/ (acc.state = "InUse" /\ state = "Active")
    BY DEF Freed
  <1>2. Released(acc) = [acc EXCEPT !.activeTurns = turns, !.state = state]
    BY DEF Released, Account
  <1> HIDE DEF turns, state
  <1>3. [acc EXCEPT !.activeTurns = turns, !.state = state].state = state
    BY DEF Account
  <1>. QED
    BY <1>1, <1>2, <1>3

(* What a report makes of an account: it goes to rest, or comes back if it *)
(* rested and the report has plenty, or stays as it is.  A frozen account  *)
(* only gets the figures.                                                  *)
LEMMA ProbedAccount ==
  ASSUME MemoryInv, NEW a \in AccountIds, NEW report \in UsageAnswers, ProbeEnd(a, report)
  PROVE  \E acc : /\ accounts' = [accounts EXCEPT ![a] = acc]
                  /\ \/ acc.state = accounts[a].state
                     \/ accounts[a].state \notin {"Absent", "Frozen"} /\ acc.state = "Cooldown"
                     \/ /\ accounts[a].state = "Cooldown" /\ acc.state = "Active"
                        /\ Plenty(Parsed(report))
PROOF
  <1> DEFINE r == Parsed(report)
             probed == [accounts[a] EXCEPT !.quota = StoredQuota(r)]
             new == IF probed.state = "Frozen" THEN probed ELSE Judged(probed, r)
  <1>1. r \in Report /\ StoredQuota(r) \in Quota
    BY ParsedFits, PoolAssumption DEF PoolAssumption
  <1>2. accounts[a] \in Account /\ accounts[a].state # "Absent"
    BY Fields DEF MemoryInv, PoolInv, ProbeEnd, Registered
  <1>3. accounts' = [accounts EXCEPT ![a] = new]
    BY DEF ProbeEnd, Verdict
  <1> HIDE DEF r
  <1>4. probed \in Account /\ probed.state = accounts[a].state
    BY <1>1, <1>2 DEF Account
  <1> HIDE DEF probed
  <1>5. r.h5.reset \in Time /\ r.weekly.reset \in Time /\ MaxRest \in Time
    BY <1>1, Numbers DEF Report, Bucket
  <1>6. \/ \E t \in Time : Judged(probed, r) = Resting(probed, t)
        \/ Judged(probed, r) = Activated(probed) /\ probed.state = "Cooldown" /\ Plenty(r)
        \/ Judged(probed, r) = probed
    BY <1>5 DEF Judged
  <1>7. \/ new.state = accounts[a].state
        \/ accounts[a].state # "Frozen" /\ new.state = "Cooldown"
        \/ accounts[a].state = "Cooldown" /\ new.state = "Active" /\ Plenty(r)
    BY <1>4, <1>6, RestingFits, ActivatedFits
  <1> HIDE DEF new
  <1>. QED
    BY <1>2, <1>3, <1>7 DEF r

(* A login registers its account and touches no other but for the rank.    *)
LEMMA EnrolledAccounts ==
  ASSUME MemoryInv, NEW a \in AccountIds, ~Registered(a)
  PROVE  /\ Registry(Enrolled(a)) /\ Enrolled(a)[a].state = "Active"
         /\ \A o \in AccountIds \ {a} :
              /\ Enrolled(a)[o].state = accounts[o].state
              /\ Enrolled(a)[o].cooldownUntil = accounts[o].cooldownUntil
PROOF
  <1> DEFINE acc == [accounts[a] EXCEPT !.state = "Active"]
             joined == [accounts EXCEPT ![a] = acc]
  <1>1. Registry(accounts) /\ accounts[a] \in Account
    BY DEF MemoryInv, PoolInv, Registry
  <1>2. acc \in Account /\ acc.state = "Active"
    BY <1>1 DEF Account, AccountState
  <1>3. Enrolled(a) = Touched(joined, a)
    BY DEF Enrolled
  <1> HIDE DEF acc
  <1>4. Registry(joined) /\ \A o \in AccountIds : joined[o] = IF o = a THEN acc ELSE accounts[o]
    BY <1>1, <1>2 DEF Registry
  <1> HIDE DEF joined
  <1>. QED
    BY <1>2, <1>3, <1>4, TouchedFits

LEMMA IngestSeen ==
  ASSUME MemoryInv, NEW a \in AccountIds, IngestCurrentAccount(a) \/ IngestFails(a)
  PROVE  PromiseStep
PROOF
  <1>1. UNCHANGED activeChat
    BY DEF IngestCurrentAccount, IngestFails
  <1>2. ASSUME \A o \in AccountIds \ {a} : accounts'[o].state = accounts[o].state,
               accounts'[a].state = "Active"
        PROVE  PromiseStep
    <2>1. Known' = Known \cup {a} /\ Held' = Held \ {a}
      BY <1>2 DEF Known, Held, Registered
    <2>. QED
      BY <1>1, <2>1, EnrolStep
  <1>3. CASE IngestFails(a)
    BY <1>2, <1>3, EnrolledAccounts DEF IngestFails
  <1>4. CASE IngestCurrentAccount(a)
    <2> DEFINE accs == Enrolled(a)
    <2>1. Registry(accs) /\ \A o \in AccountIds \ {a} : accs[o].state = accounts[o].state
      BY EnrolledAccounts DEF Enrolled, MemoryInv, PoolInv
    <2>2. accounts' = [accs EXCEPT ![a] = Activated(accs[a])]
      BY <1>4 DEF IngestCurrentAccount
    <2> HIDE DEF accs
    <2>3. Activated(accs[a]).state = "Active"
      BY <2>1, Fields, ActivatedFits
    <2>4. \A o \in AccountIds : accounts'[o] = IF o = a THEN Activated(accs[a]) ELSE accs[o]
      BY <2>1, <2>2 DEF Registry
    <2>. QED
      BY <1>2, <2>1, <2>3, <2>4
  <1>. QED
    BY <1>3, <1>4

(* A restart forgets the accounts that are not in the file, none of which  *)
(* is frozen or serves a chat while the file tells what was decided.       *)
LEMMA RestartSeen ==
  ASSUME IInv, Durable, Restart
  PROVE  PromiseStep
PROOF
  <1> DEFINE S == {a \in Known : disk.accounts[a].state = "Absent"}
  <1>1. PoolInv(disk.accounts, disk.pinnedChat, disk.activeChat)
    BY DEF IInv, FileInv
  <1>2. \A a \in AccountIds :
          /\ (accounts'[a].state = "Frozen") <=> (disk.accounts[a].state = "Frozen")
          /\ (accounts'[a].state = "Absent") <=> (disk.accounts[a].state = "Absent")
    BY <1>1, SweptStates DEF Restart
  <1>3. Known' = Known \ S
    BY <1>2 DEF Known, Registered, Durable
  <1>4. Held' = Held \ S
    BY <1>2 DEF Held, Durable
  <1>5. activeChat' = activeChat /\ activeChat = disk.activeChat
    BY DEF Restart, Durable
  <1>6. \A k \in Keys : activeChat[k] \notin S
    BY <1>1, <1>5, PoolAssumption DEF PoolInv, BindingsValid, PoolAssumption, Known
  <1>7. activeChat = [k \in Keys |-> IF activeChat[k] \in S THEN NoAccount ELSE activeChat[k]]
    BY <1>6 DEF IInv, MemoryInv, PoolInv, ChatMap
  <1>8. S \in SUBSET Known
    OBVIOUS
  <1> HIDE DEF S
  <1>. QED
    BY <1>3, <1>4, <1>5, <1>7, <1>8, ForgetStep

(* Every step of the pool is a step of AdminHold, or a stutter.            *)
LEMMA StepSeen ==
  ASSUME IInv, Durable, [Next]_vars
  PROVE  PromiseStep
PROOF
  <1>0. MemoryInv /\ \A a \in AccountIds : accounts[a] \in Account
    BY Fields DEF IInv, MemoryInv, PoolInv
  <1>1. CASE AcquireStep
    BY <1>0, <1>1, AcquireSeen DEF AcquireStep
  <1>2. CASE ReleaseStep
    <2>1. PICK a \in AccountIds : ReleaseAccount(a)
      BY <1>2 DEF ReleaseStep
    <2>2. accounts[a].state \in {"Absent", "Frozen"} <=> Released(accounts[a]).state \in {"Absent", "Frozen"}
      BY <1>0, ReleasedState
    <2>. QED
      BY <1>0, <2>1, ReleasedState, ReplacedSameView, SameViewStep DEF ReleaseAccount
  <1>3. CASE MarkStep
    <2>1. PICK a \in AccountIds, rest \in 1 .. MaxRest : MarkCooldown(a, rest)
      BY <1>3 DEF MarkStep
    <2>2. rest \in Time
      BY PoolAssumption DEF PoolAssumption, Time, Zero
    <2>3. [Resting(accounts[a], rest) EXCEPT !.activeTurns = 0].state = "Cooldown"
      BY <1>0, <2>2, RestingFits
    <2>. QED
      BY <1>0, <2>1, <2>3, ReplacedSameView, SameViewStep DEF MarkCooldown, Registered
  <1>4. CASE ClearStep
    BY <1>0, <1>4, ActivatedFits, ReplacedSameView, SameViewStep
       DEF ClearStep, ClearCooldown, Registered
  <1>5. CASE FreezeStep
    <2>1. PICK a \in AccountIds : FreezeAccount(a)
      BY <1>5 DEF FreezeStep
    <2>2. Suspended(accounts[a]).state = "Frozen"
      BY <1>0, SuspendedFits
    <2>3. Known' = Known \cup {a} /\ Held' = Held \cup {a} /\ a \in Known
      BY <1>0, <2>1, <2>2, ReplacedView DEF FreezeAccount, Known
    <2>. QED
      BY <2>1, <2>3, HoldStep DEF FreezeAccount
  <1>6. CASE UnfreezeStep
    <2>1. PICK a \in AccountIds : UnfreezeAccount(a)
      BY <1>6 DEF UnfreezeStep
    <2>2. PICK acc : accounts' = [accounts EXCEPT ![a] = acc] /\ acc.state \in {"Cooldown", "Active"}
      <3>1. Activated(accounts[a]).state = "Active"
        BY <1>0, ActivatedFits
      <3>2. [accounts[a] EXCEPT !.state = "Cooldown"].state = "Cooldown"
        BY <1>0 DEF Account
      <3>. QED
        BY <2>1, <3>1, <3>2 DEF UnfreezeAccount
    <2>3. Known' = Known \cup {a} /\ Held' = Held \ {a}
      BY <1>0, <2>2, ReplacedView
    <2>4. a \in Known /\ a \in Held
      BY <2>1 DEF UnfreezeAccount, Known, Held, Registered
    <2>. QED
      BY <2>1, <2>3, <2>4, LiftStep DEF UnfreezeAccount
  <1>7. CASE DeleteStep
    <2>1. PICK a \in AccountIds : DeleteAccount(a)
      BY <1>7 DEF DeleteStep
    <2>2. [Blank EXCEPT !.lastUsed = accounts[a].lastUsed].state = "Absent"
      BY DEF Blank
    <2>3. Known' = Known \ {a} /\ Held' = Held \ {a} /\ {a} \in SUBSET Known
      BY <1>0, <2>1, <2>2, ReplacedView DEF DeleteAccount, Known
    <2>4. activeChat' = [k \in Keys |-> IF activeChat[k] \in {a} THEN NoAccount ELSE activeChat[k]]
      BY <2>1 DEF DeleteAccount, Without
    <2>. QED
      BY <2>3, <2>4, ForgetStep
  <1>8. CASE PinStep \/ SwitchStep
    <2>1. PICK b \in Bots, c \in Chats, a \in AccountIds : PinAccount(b, c, a) \/ SwitchAccount(b, c, a)
      BY <1>8 DEF PinStep, SwitchStep
    <2>2. a \in Known \ Held /\ UNCHANGED <<Known, Held>>
      BY <2>1 DEF PinAccount, SwitchAccount, Assignable, Known, Held, Registered
    <2>3. activeChat' = [activeChat EXCEPT ![<<b, c>>] = a]
      BY <2>1 DEF PinAccount, SwitchAccount
    <2>. QED
      BY <2>2, <2>3, ChatKeys, AssignStep
  <1>9. CASE UnpinStep
    BY <1>9, SameViewStep DEF UnpinStep, UnpinAccount, SameView, Known, Held, Registered
  <1>10. CASE IngestStep
    BY <1>0, <1>10, IngestSeen DEF IngestStep
  <1>11. CASE ProbeStep
    <2>1. PICK a \in AccountIds :
            ProbeBegin(a) \/ (\E r \in UsageAnswers : ProbeEnd(a, r)) \/ ProbeFails(a)
      BY <1>11 DEF ProbeStep
    <2>2. CASE ProbeBegin(a) \/ ProbeFails(a)
      BY <2>2, SameViewStep DEF ProbeBegin, ProbeFails, SameView, Known, Held, Registered
    <2>3. ASSUME NEW r \in UsageAnswers, ProbeEnd(a, r)
          PROVE  PromiseStep
      <3>1. UNCHANGED activeChat
        BY <2>3 DEF ProbeEnd
      <3>. QED
        BY <1>0, <2>3, <3>1, ProbedAccount, ReplacedSameView, SameViewStep
    <2>. QED
      BY <2>1, <2>2, <2>3
  <1>12. CASE Reap
    BY <1>0, <1>12, SweptStates, StatesKept, SameViewStep DEF Reap, MemoryInv
  <1>13. CASE Tick
    <2>1. \A a \in AccountIds : Aged(accounts)[a].state = accounts[a].state
      BY <1>0 DEF Aged, Account
    <2>. QED
      BY <1>13, <2>1, StatesKept, SameViewStep DEF Tick
  <1>14. CASE Restart
    BY <1>14, RestartSeen
  <1>15. CASE UNCHANGED vars
    BY <1>15, SameViewStep DEF vars, SameView, Known, Held, Registered
  <1>. QED
    BY <1>1, <1>2, <1>3, <1>4, <1>5, <1>6, <1>7, <1>8, <1>9, <1>10, <1>11, <1>12, <1>13,
       <1>14, <1>15 DEF Next, NoThaw, Routine

(* The pool implements AdminHold while its file can be written: with all   *)
(* its timers, turns, probes, restarts and files, an account on hold       *)
(* serves no chat until the hold is lifted or its owner logs in, and only  *)
(* a grant or an administrator changes which chat an account serves.       *)
THEOREM PromiseKept ==
  ASSUME SaveOutcomes = {TRUE}
  PROVE  Spec => KeepsPromise
PROOF
  <1>1. Init => Promise!Init
    <2> SUFFICES ASSUME Init PROVE Promise!Init
      OBVIOUS
    <2>1. IInv
      BY InitInv
    <2>2. activeChat \in [Keys -> AccountIds \cup {NoAccount}]
      BY <2>1 DEF IInv, MemoryInv, PoolInv, ChatMap
    <2>3. \A k \in Keys : activeChat[k] # NoAccount => activeChat[k] \in Known
      BY <2>1, <2>2 DEF IInv, MemoryInv, PoolInv, BindingsValid, Known, Registered
    <2>4. \A a \in AccountIds : accounts[a].state # "Frozen"
      BY DEF Init, Fresh, Blank
    <2>. QED
      BY <2>2, <2>3, <2>4 DEF Promise!Init, Known
  <1>2. IInv /\ Durable /\ [Next]_vars => PromiseStep
    BY StepSeen
  <1>. QED
    BY <1>1, <1>2, Invariance, SavesAreDurable, PTL
       DEF Spec, KeepsPromise, Promise!Spec, PromiseStep

-----------------------------------------------------------------------------
(* Rests.  The file knows the deadline of every account that rests in      *)
(* memory: what is not saved only ends rests.                              *)

RestsFiled ==
  \A a \in AccountIds :
    accounts[a].state = "Cooldown" =>
      /\ disk.accounts[a].state = "Cooldown"
      /\ disk.accounts[a].cooldownUntil = accounts[a].cooldownUntil

(* A step that saves nothing and begins no rest.                           *)
RestsOnlyEnd ==
  /\ UNCHANGED disk
  /\ \A a \in AccountIds :
       accounts'[a].state = "Cooldown" =>
         /\ accounts[a].state = "Cooldown"
         /\ accounts'[a].cooldownUntil = accounts[a].cooldownUntil

(* The sweep of any registry only ends rests whose time has come.          *)
LEMMA SweptRests ==
  ASSUME NEW accs, Registry(accs), NEW a \in AccountIds
  PROVE  /\ Recovered(accs)[a].state = "Cooldown" => Recovered(accs)[a] = accs[a]
         /\ accs[a].state = "Cooldown" /\ Before(accs[a].cooldownUntil)
              => Recovered(accs)[a] = accs[a]
PROOF
  <1>1. accs[a] \in Account /\ accs[a].cooldownUntil \in Int
    BY Fields, Numbers
  <1>2. Recovered(accs)[a] = IF Overdue(accs[a]) THEN Activated(accs[a]) ELSE accs[a]
    BY DEF Recovered
  <1>. QED
    BY <1>1, <1>2, ActivatedFits DEF Overdue, After, Before

LEMMA RestsFiledNext ==
  ASSUME SaveOutcomes = {TRUE}, IInv, RestsFiled, [Next]_vars
  PROVE  RestsFiled'
PROOF
  <1>0. MemoryInv /\ Registry(accounts) /\ Registry(disk.accounts)
    BY DEF IInv, MemoryInv, FileInv, PoolInv
  <1>1. CASE SaveState
    BY <1>1 DEF SaveState, RestsFiled
  <1>2. CASE RestsOnlyEnd
    BY <1>2 DEF RestsOnlyEnd, RestsFiled
  <1>3. CASE AcquireStep
    <2>1. PICK b \in Bots, c \in Chats : AcquireAccount(b, c)
      BY <1>3 DEF AcquireStep
    <2>2. Refuse(Recovered(accounts)) \/ SaveState
      BY <1>0, <2>1, AcquireOutcomes DEF Grant
    <2>3. CASE Refuse(Recovered(accounts))
      BY <1>0, <1>2, <2>3, SweptRests DEF Refuse, RestsOnlyEnd
    <2>. QED
      BY <1>1, <2>2, <2>3
  <1>4. CASE IngestStep
    <2>1. PICK a \in AccountIds : IngestCurrentAccount(a) \/ IngestFails(a)
      BY <1>4 DEF IngestStep
    <2>2. CASE IngestFails(a)
      BY <1>0, <1>2, <2>2, EnrolledAccounts DEF IngestFails, RestsOnlyEnd
    <2>. QED
      BY <1>1, <2>1, <2>2 DEF IngestCurrentAccount
  <1>5. CASE ProbeStep
    BY <1>1, <1>2, <1>5 DEF ProbeStep, ProbeBegin, ProbeEnd, ProbeFails, RestsOnlyEnd
  <1>6. CASE \/ ReleaseStep \/ MarkStep \/ ClearStep \/ FreezeStep \/ UnfreezeStep
             \/ DeleteStep \/ PinStep \/ UnpinStep \/ SwitchStep \/ Reap
    BY <1>1, <1>6 DEF ReleaseStep, MarkStep, ClearStep, FreezeStep, UnfreezeStep, DeleteStep,
                PinStep, UnpinStep, SwitchStep, ReleaseAccount, MarkCooldown, ClearCooldown,
                FreezeAccount, UnfreezeAccount, DeleteAccount, PinAccount, UnpinAccount,
                SwitchAccount, Reap
  <1>7. CASE Tick
    <2>1. disk'.accounts = Aged(disk.accounts)
      BY <1>7 DEF Tick, IInv, FileInv
    <2>2. ASSUME NEW acc \in Account
          PROVE  LET new == [acc EXCEPT !.cooldownUntil = Older(@), !.quota.weeklyReset = Older(@)]
                 IN  new.state = acc.state /\ new.cooldownUntil = Older(acc.cooldownUntil)
      BY DEF Account
    <2>3. \A a \in AccountIds :
            /\ Aged(accounts)[a].state = accounts[a].state
            /\ Aged(accounts)[a].cooldownUntil = Older(accounts[a].cooldownUntil)
            /\ Aged(disk.accounts)[a].state = disk.accounts[a].state
            /\ Aged(disk.accounts)[a].cooldownUntil = Older(disk.accounts[a].cooldownUntil)
      BY <1>0, <2>2, Fields DEF Aged
    <2>. QED
      BY <1>7, <2>1, <2>3 DEF Tick, RestsFiled
  <1>8. CASE Restart
    BY <1>0, <1>8, SweptRests DEF Restart, RestsFiled
  <1>9. CASE UNCHANGED vars
    BY <1>2, <1>9 DEF vars, RestsOnlyEnd
  <1>. QED
    BY <1>3, <1>4, <1>5, <1>6, <1>7, <1>8, <1>9 DEF Next, NoThaw, Routine

(* A step that replaces one account puts no other back to work.            *)
LEMMA ReplacedRestsOn ==
  ASSUME MemoryInv, NEW a \in AccountIds, NEW acc, accounts' = [accounts EXCEPT ![a] = acc],
         accounts[a].state = "Cooldown" => acc.state \notin {"Active", "InUse"}
  PROVE  RestsOn
PROOF
  <1>1. \A o \in AccountIds : accounts'[o] = IF o = a THEN acc ELSE accounts[o]
    BY DEF MemoryInv, PoolInv, Registry
  <1>. QED
    BY <1>1 DEF RestsOn

(* No routine step ends a rest early, but for a probe that reports quota.  *)
LEMMA RoutineRestsOn ==
  ASSUME IInv, RestsFiled, Routine
  PROVE  RestsOn
PROOF
  <1>0. /\ MemoryInv /\ Registry(accounts) /\ Registry(disk.accounts)
        /\ \A a \in AccountIds : accounts[a] \in Account
    BY Fields DEF IInv, MemoryInv, FileInv, PoolInv
  <1>1. CASE AcquireStep
    <2>1. PICK b \in Bots, c \in Chats : AcquireAccount(b, c)
      BY <1>1 DEF AcquireStep
    <2> DEFINE accs == Recovered(accounts)
    <2>2. Registry(accs)
      BY <1>0, RecoveredFits DEF MemoryInv, PoolInv
    <2>3. \A o \in AccountIds : accounts[o].state = "Cooldown" /\ Before(accounts[o].cooldownUntil)
                                  => accs[o] = accounts[o]
      BY <1>0, SweptRests
    <2>4. \/ Refuse(accs)
          \/ \E a \in AccountIds : /\ ~(accs[a].state = "Cooldown" /\ Before(accs[a].cooldownUntil))
                                   /\ Grant(accs, a, b, c)
      BY <1>0, <2>1, AcquireOutcomes
    <2> HIDE DEF accs
    <2>5. CASE Refuse(accs)
      BY <2>3, <2>5 DEF Refuse, RestsOn
    <2>6. ASSUME NEW a \in AccountIds, Grant(accs, a, b, c),
                 ~(accs[a].state = "Cooldown" /\ Before(accs[a].cooldownUntil))
          PROVE  RestsOn
      BY <2>2, <2>3, <2>6, GrantedAccounts DEF RestsOn
    <2>. QED
      BY <2>4, <2>5, <2>6
  <1>2. CASE ReleaseStep
    BY <1>0, <1>2, ReleasedState, ReplacedRestsOn DEF ReleaseStep, ReleaseAccount
  <1>3. CASE MarkStep
    <2>1. PICK a \in AccountIds, rest \in 1 .. MaxRest : MarkCooldown(a, rest)
      BY <1>3 DEF MarkStep
    <2>2. rest \in Time
      BY PoolAssumption DEF PoolAssumption, Time, Zero
    <2>3. [Resting(accounts[a], rest) EXCEPT !.activeTurns = 0].state = "Cooldown"
      BY <1>0, <2>2, RestingFits
    <2>. QED
      BY <1>0, <2>1, <2>3, ReplacedRestsOn DEF MarkCooldown
  <1>4. CASE PinStep \/ UnpinStep \/ SwitchStep
    BY <1>4 DEF PinStep, UnpinStep, SwitchStep, PinAccount, UnpinAccount, SwitchAccount, RestsOn
  <1>5. CASE ProbeStep
    <2>1. PICK a \in AccountIds :
            ProbeBegin(a) \/ (\E r \in UsageAnswers : ProbeEnd(a, r)) \/ ProbeFails(a)
      BY <1>5 DEF ProbeStep
    <2>2. CASE ProbeBegin(a) \/ ProbeFails(a)
      BY <2>2 DEF ProbeBegin, ProbeFails, RestsOn
    <2>3. ASSUME NEW r \in UsageAnswers, ProbeEnd(a, r)
          PROVE  RestsOn
      <3>1. PICK acc : /\ accounts' = [accounts EXCEPT ![a] = acc]
                       /\ \/ acc.state = accounts[a].state
                          \/ accounts[a].state \notin {"Absent", "Frozen"} /\ acc.state = "Cooldown"
                          \/ /\ accounts[a].state = "Cooldown" /\ acc.state = "Active"
                             /\ Plenty(Parsed(r))
        BY <1>0, <2>3, ProbedAccount
      <3>2. CASE acc.state \notin {"Active", "InUse"} \/ accounts[a].state # "Cooldown"
        BY <1>0, <3>1, <3>2, ReplacedRestsOn
      <3>3. CASE Plenty(Parsed(r))
        <4>1. \A o \in AccountIds \ {a} : accounts'[o] = accounts[o]
          BY <1>0, <3>1 DEF Registry
        <4>. QED
          BY <2>3, <3>3, <4>1 DEF RestsOn, Plenty
      <3>. QED
        BY <3>1, <3>2, <3>3
    <2>. QED
      BY <2>1, <2>2, <2>3
  <1>6. CASE Reap
    BY <1>0, <1>6, SweptRests DEF Reap, RestsOn
  <1>7. CASE Tick
    <2>1. \A a \in AccountIds : Aged(accounts)[a].state = accounts[a].state
      BY <1>0 DEF Aged, Account
    <2>. QED
      BY <1>7, <2>1 DEF Tick, RestsOn
  <1>8. CASE Restart
    BY <1>0, <1>8, SweptRests DEF Restart, RestsFiled, RestsOn
  <1>. QED
    BY <1>1, <1>2, <1>3, <1>4, <1>5, <1>6, <1>7, <1>8 DEF Routine

(* A rest is served in full while the file can be written: no release, no  *)
(* acquisition, no restart, no sweep and no late report of little quota    *)
(* puts a resting account back to work.                                    *)
THEOREM RestsAreServed ==
  ASSUME SaveOutcomes = {TRUE}
  PROVE  Spec => RestIsServed
PROOF
  <1>1. Init => RestsFiled
    BY DEF Init, RestsFiled
  <1>2. IInv /\ RestsFiled /\ [Next]_vars => RestsFiled'
    BY RestsFiledNext
  <1>3. IInv /\ RestsFiled /\ [Next]_vars => [~RestsOn => ~Routine]_vars
    BY RoutineRestsOn
  <1>. QED
    BY <1>1, <1>2, <1>3, Invariance, PTL DEF Spec, RestIsServed
=============================================================================
