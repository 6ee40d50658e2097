---------------------------- MODULE AccountPool ----------------------------
(***************************************************************************)
(* The multi-account supervisor of account_pool.go: which account serves   *)
(* which chat, the cooldown timers, the administrative freeze, the quota   *)
(* probes and the registry file accounts.json.                             *)
(*                                                                         *)
(* Every operation of the pool holds p.mu from its first read to its last  *)
(* write, so each is one action; a quota probe is the exception (it runs   *)
(* the agy CLI between two lock sections) and is two actions.              *)
(*                                                                         *)
(* Time is relative.  A timestamp is the number of ticks until it is       *)
(* reached: positive lies ahead, 0 is this very instant, -1 has passed,    *)
(* and Zero is Go's zero time.  Tick ages every timestamp, those in the    *)
(* file too.  No clock is needed, so time is not bounded.                  *)
(***************************************************************************)
EXTENDS Integers, FiniteSets

CONSTANTS
  AccountIds,     (* identifiers an account profile may get                *)
  NoAccount,      (* a missing entry of the chat maps                      *)
  Bots,           (* bot names                                             *)
  NoBot,          (* the empty bot name of the legacy, unscoped chat keys  *)
  Chats,          (* Telegram chat ids                                     *)
  MaxTurns,       (* bound on activeTurns of one account                   *)
  MaxRest,        (* longest rest, in ticks; stands for one hour or more   *)
  UsageAnswers,   (* answers of the agy usage command                      *)
  SaveOutcomes    (* whether SaveState may fail: {TRUE} or BOOLEAN         *)

Zero == -2
Time == Zero .. MaxRest
Fraction == 0 .. 2      (* nothing left, at most 5% left, more than 5% left *)

(* One window of the usage report, as the CLI prints it. *)
Bucket == [present : BOOLEAN, fraction : Fraction, reset : Time, disabled : BOOLEAN]
Report == [h5 : Bucket, weekly : Bucket]

ASSUME PoolAssumption ==
  /\ IsFiniteSet(AccountIds)
  /\ NoAccount \notin AccountIds
  /\ NoBot \notin Bots
  /\ MaxTurns \in Nat \ {0}
  /\ MaxRest \in Nat \ {0}
  /\ UsageAnswers \subseteq Report
  /\ SaveOutcomes \subseteq BOOLEAN
  /\ TRUE \in SaveOutcomes

VARIABLES
  accounts,     (* p.accounts; an identifier that is no key is "Absent"    *)
  pinnedChat,   (* p.pinnedChat, the sticky lock of a chat                 *)
  activeChat,   (* p.activeChat, the account last assigned to a chat       *)
  disk,         (* accounts.json, the last successful SaveState            *)
  probing       (* accounts with a usage command in flight                 *)

vars == <<accounts, pinnedChat, activeChat, disk, probing>>

Keys == (Bots \cup {NoBot}) \X Chats
AccountState == {"Absent", "Active", "InUse", "Cooldown", "Frozen"}

(* What the pool reads of a stored AccountQuota.  disabled stands for      *)
(* Gemini5h.Disabled || GeminiWeekly.Disabled, which is how every reader   *)
(* combines them; the Claude windows are only displayed.                   *)
Quota == [fetched : BOOLEAN, disabled : BOOLEAN, fraction : Fraction, weeklyReset : Time]

(* lastUsed is the rank of LastUsed among the accounts, oldest first; an   *)
(* absent identifier keeps a rank nobody reads.                            *)
Account == [state : AccountState, cooldownUntil : Time, activeTurns : Nat,
            lastUsed : 0 .. Cardinality(AccountIds), quota : Quota]

NoQuota == [fetched |-> FALSE, disabled |-> FALSE, fraction |-> 0, weeklyReset |-> Zero]
Blank == [state |-> "Absent", cooldownUntil |-> Zero, activeTurns |-> 0,
          lastUsed |-> 0, quota |-> NoQuota]

After(t)  == t < 0          (* now.After(t)  *)
Before(t) == t > 0          (* now.Before(t) *)
Older(t)  == IF t >= 0 THEN t - 1 ELSE t

Registered(a) == accounts[a].state # "Absent"
(* Mutant of Overdue: the sweep forgets to look at the state. *)
OverdueWhateverState(acc) == acc.state # "Absent" /\ After(acc.cooldownUntil)

Overdue(acc) == acc.state = "Cooldown" /\ After(acc.cooldownUntil)

(* Back to work, as every recovery, clearing and login leaves an account. *)
Activated(acc) == [acc EXCEPT !.state = "Active", !.cooldownUntil = Zero]

(* The sweep that AcquireAccount, the reaper and LoadState all run. *)
Recovered(accs) ==
  [a \in AccountIds |-> IF Overdue(accs[a]) THEN Activated(accs[a]) ELSE accs[a]]

(* Mutant of SaveState: the chat maps are left out of the file. *)
SaveAccountsOnly == disk' = [disk EXCEPT !.accounts = accounts']

(* SaveState: the file gets the new registry, or keeps the old one. *)
SaveState ==
  \E saved \in SaveOutcomes :
    disk' = IF saved
            THEN [accounts |-> accounts', pinnedChat |-> pinnedChat', activeChat |-> activeChat']
            ELSE disk

-----------------------------------------------------------------------------
(* Serving a turn. *)

(* A scoped key falls back to the key without a bot name. *)
Lookup(map, b, c) == IF map[<<b, c>>] # NoAccount THEN map[<<b, c>>] ELSE map[<<NoBot, c>>]

Exhausted(q) == q.fetched /\ q.disabled /\ (q.weeklyReset = Zero \/ Before(q.weeklyReset))

Candidates(accs) ==
  {a \in AccountIds : accs[a].state \in {"Active", "InUse"} /\ ~Exhausted(accs[a].quota)}

(* The comparator of AcquireAccount, as the tuple it compares in turn:     *)
(* disabled last, fewest turns (so free ones first), most quota, LRU.      *)
Rank(acc) == <<IF acc.quota.fetched /\ acc.quota.disabled THEN 1 ELSE 0,
               acc.activeTurns, 2 - acc.quota.fraction, acc.lastUsed>>
Preferred(x, y) ==
  \E i \in 1 .. 4 : Rank(x)[i] < Rank(y)[i] /\ \A j \in 1 .. (i - 1) : Rank(x)[j] = Rank(y)[j]

(* sort.Slice is not stable and the map is walked in any order: any        *)
(* candidate that no other precedes may come first.                        *)
Selectable(accs) ==
  {a \in Candidates(accs) : \A o \in Candidates(accs) : ~Preferred(accs[o], accs[a])}

(* LastUsed = now makes a the most recently used account. *)
Touched(accs, a) ==
  [o \in AccountIds |->
     IF o = a THEN [accs[a] EXCEPT !.lastUsed = Cardinality(AccountIds)]
     ELSE IF accs[o].lastUsed > accs[a].lastUsed
          THEN [accs[o] EXCEPT !.lastUsed = @ - 1]
          ELSE accs[o]]

Occupied(acc) == [acc EXCEPT !.activeTurns = @ + 1, !.state = "InUse"]

Grant(accs, a, b, c) ==
  /\ accs[a].activeTurns < MaxTurns
  /\ accounts' = [Touched(accs, a) EXCEPT ![a] = Occupied(@)]
  /\ activeChat' = [activeChat EXCEPT ![<<b, c>>] = a]
  /\ UNCHANGED <<pinnedChat, probing>>
  /\ SaveState

(* The error returns keep the sweep but do not save it. *)
Refuse(accs) == accounts' = accs /\ UNCHANGED <<pinnedChat, activeChat, disk, probing>>

AcquirePinned(accs, p, b, c) ==
  IF accs[p].state = "Frozen" \/ (accs[p].state = "Cooldown" /\ Before(accs[p].cooldownUntil))
  THEN Refuse(accs)
  ELSE Grant(accs, p, b, c)

AcquireFromPool(accs, b, c) ==
  LET current == Lookup(activeChat, b, c)
      retained == /\ current # NoAccount
                  /\ accs[current].state = "Active"
                  /\ ~Exhausted(accs[current].quota)
  IN  \/ retained /\ Grant(accs, current, b, c)
      \/ ~retained /\ \E a \in Selectable(accs) : Grant(accs, a, b, c)
      \/ ~retained /\ Candidates(accs) = {} /\ Refuse(accs)

AcquireAccount(b, c) ==
  LET accs == Recovered(accounts)
      pinned == Lookup(pinnedChat, b, c)
  IN  /\ \E a \in AccountIds : Registered(a)
      /\ IF pinned # NoAccount /\ accs[pinned].state # "Absent"
         THEN AcquirePinned(accs, pinned, b, c)
         ELSE AcquireFromPool(accs, b, c)

(* Mutants of OneLess and Freed: the floor, the state and the reset forgotten. *)
OneLessUnguarded(n) == n - 1
FreedFromAnyState(state, turns) == IF turns = 0 THEN "Active" ELSE state
NeverFreed(state, turns) == state

OneLess(n) == IF n > 0 THEN n - 1 ELSE n
Freed(state, turns) == IF turns = 0 /\ state = "InUse" THEN "Active" ELSE state

Released(acc) ==
  [acc EXCEPT !.activeTurns = OneLess(@), !.state = Freed(@, OneLess(acc.activeTurns))]

ReleaseAccount(a) ==
  /\ Registered(a)
  /\ accounts' = [accounts EXCEPT ![a] = Released(@)]
  /\ UNCHANGED <<pinnedChat, activeChat, probing>>
  /\ SaveState

-----------------------------------------------------------------------------
(* Cooldowns. *)

(* Mutant of Resting: the state is forgotten. *)
RestingInPlace(acc, deadline) == [acc EXCEPT !.cooldownUntil = deadline]

Resting(acc, deadline) == [acc EXCEPT !.state = "Cooldown", !.cooldownUntil = deadline]

MarkCooldown(a, rest) ==
  /\ Registered(a)
  /\ accounts[a].state # "Frozen"
  /\ accounts' = [accounts EXCEPT ![a] = [Resting(@, rest) EXCEPT !.activeTurns = 0]]
  /\ UNCHANGED <<pinnedChat, activeChat, probing>>
  /\ SaveState

ClearCooldown(a) ==
  /\ Registered(a)
  /\ accounts[a].state # "Frozen"
  /\ accounts' = [accounts EXCEPT ![a] = Activated(@)]
  /\ UNCHANGED <<pinnedChat, activeChat, probing>>
  /\ SaveState

(* Mutant of Reap: a frozen account ends the loop instead of being skipped. *)
ReapUnlessFrozen ==
  /\ \E a \in AccountIds : Overdue(accounts[a])
  /\ \A a \in AccountIds : accounts[a].state # "Frozen"
  /\ accounts' = Recovered(accounts)
  /\ UNCHANGED <<pinnedChat, activeChat, probing>>
  /\ SaveState

(* One tick of StartBackgroundReaper that finds something to recover. *)
Reap ==
  /\ \E a \in AccountIds : Overdue(accounts[a])
  /\ accounts' = Recovered(accounts)
  /\ UNCHANGED <<pinnedChat, activeChat, probing>>
  /\ SaveState

-----------------------------------------------------------------------------
(* Administration. *)

(* Mutant of Without: the references survive. *)
StillBound(map, a) == map

Without(map, a) == [k \in Keys |-> IF map[k] = a THEN NoAccount ELSE map[k]]

Suspended(acc) == [acc EXCEPT !.state = "Frozen", !.activeTurns = 0, !.cooldownUntil = Zero]

FreezeAccount(a) ==
  /\ Registered(a)
  /\ accounts' = [accounts EXCEPT ![a] = Suspended(@)]
  /\ activeChat' = Without(activeChat, a)
  /\ UNCHANGED <<pinnedChat, probing>>
  /\ SaveState

UnfreezeAccount(a) ==
  /\ accounts[a].state = "Frozen"
  /\ accounts' = [accounts EXCEPT ![a] =
       IF @.cooldownUntil # Zero /\ Before(@.cooldownUntil)
       THEN [@ EXCEPT !.state = "Cooldown"]
       ELSE Activated(@)]
  /\ UNCHANGED <<pinnedChat, activeChat, probing>>
  /\ SaveState

DeleteAccount(a) ==
  /\ Registered(a)
  /\ accounts[a].state # "InUse"
  /\ accounts' = [accounts EXCEPT ![a] = [Blank EXCEPT !.lastUsed = accounts[a].lastUsed]]
  /\ pinnedChat' = Without(pinnedChat, a)
  /\ activeChat' = Without(activeChat, a)
  /\ UNCHANGED probing
  /\ SaveState

(* Mutant of Assignable: a frozen account may be chosen by hand. *)
AssignableEvenFrozen(a) == Registered(a)

Assignable(a) == Registered(a) /\ accounts[a].state # "Frozen"

PinAccount(b, c, a) ==
  /\ Assignable(a)
  /\ pinnedChat' = [pinnedChat EXCEPT ![<<b, c>>] = a]
  /\ activeChat' = [activeChat EXCEPT ![<<b, c>>] = a]
  /\ UNCHANGED <<accounts, probing>>
  /\ SaveState

UnpinAccount(b, c) ==
  /\ pinnedChat' = [pinnedChat EXCEPT ![<<b, c>>] = NoAccount, ![<<NoBot, c>>] = NoAccount]
  /\ UNCHANGED <<accounts, activeChat, probing>>
  /\ SaveState

SwitchAccount(b, c, a) ==
  /\ Assignable(a)
  /\ ~(accounts[a].state = "Cooldown" /\ Before(accounts[a].cooldownUntil))
  /\ activeChat' = [activeChat EXCEPT ![<<b, c>>] = a]
  /\ UNCHANGED <<accounts, pinnedChat, probing>>
  /\ SaveState

(* IngestCurrentAccount: a login whose email is known refreshes that       *)
(* account, whatever its state; an unknown one gets a free identifier.     *)
Enrolled(a) ==
  IF Registered(a) THEN accounts
  ELSE Touched([accounts EXCEPT ![a] = [@ EXCEPT !.state = "Active"]], a)

IngestCurrentAccount(a) ==
  /\ accounts' = [Enrolled(a) EXCEPT ![a] = Activated(@)]
  /\ UNCHANGED <<pinnedChat, activeChat, probing>>
  /\ SaveState

(* The profile directory or the token cannot be written: the error return  *)
(* leaves a new account in the registry, unsaved.                          *)
IngestFails(a) ==
  /\ ~Registered(a)
  /\ accounts' = Enrolled(a)
  /\ UNCHANGED <<pinnedChat, activeChat, disk, probing>>

-----------------------------------------------------------------------------
(* Quota probes. *)

(* ParseUsageJSON: the stored windows of a report.  A spent or disabled    *)
(* weekly window disables the 5-hour one.                                  *)
Parsed(report) ==
  LET window(w) == IF w.disabled THEN [w EXCEPT !.fraction = 0] ELSE w
      weekly == window(report.weekly)
      h5 == window(report.h5)
  IN  IF weekly.present /\ (weekly.fraction = 0 \/ weekly.disabled)
      THEN [weekly |-> weekly,
            h5 |-> [h5 EXCEPT !.disabled = TRUE, !.fraction = 0,
                              !.reset = IF @ = Zero THEN weekly.reset ELSE @]]
      ELSE [weekly |-> weekly, h5 |-> h5]

StoredQuota(r) == [fetched |-> TRUE, disabled |-> r.h5.disabled \/ r.weekly.disabled,
                   fraction |-> r.h5.fraction, weeklyReset |-> r.weekly.reset]

(* Mutant of Plenty: the threshold of 5% is forgotten. *)
PlentyIfAny(r) == r.h5.fraction > 0

Plenty(r) == r.h5.fraction = 2

(* The verdict of FetchAccountQuotas on an account that is not frozen: the *)
(* first window that forbids a turn decides how long it rests.             *)
Judged(acc, r) ==
  LET h5Spent == ~r.h5.disabled /\ r.h5.fraction = 0 /\ Before(r.h5.reset)
      weeklySpent == (r.weekly.disabled \/ r.weekly.fraction = 0) /\ Before(r.weekly.reset)
      disabled == r.h5.disabled \/ r.weekly.disabled
  IN  IF h5Spent THEN Resting(acc, r.h5.reset)
      ELSE IF weeklySpent THEN Resting(acc, r.weekly.reset)
      ELSE IF disabled
           THEN Resting(acc, IF Before(r.weekly.reset) THEN r.weekly.reset ELSE MaxRest)
      ELSE IF acc.state = "Cooldown" /\ Plenty(r)
           THEN Activated(acc)
      ELSE acc

(* Mutant of Verdict: a frozen account is judged as well. *)
VerdictOnAll(acc, r) == Judged(acc, r)

Verdict(acc, r) == IF acc.state = "Frozen" THEN acc ELSE Judged(acc, r)

ProbeBegin(a) ==
  /\ Registered(a)
  /\ probing' = probing \cup {a}
  /\ UNCHANGED <<accounts, pinnedChat, activeChat, disk>>

(* The second lock section looks the identifier up again. *)
ProbeEnd(a, report) ==
  /\ a \in probing
  /\ probing' = probing \ {a}
  /\ Registered(a)
  /\ LET r == Parsed(report)
         acc == [accounts[a] EXCEPT !.quota = StoredQuota(r)]
     IN  accounts' = [accounts EXCEPT ![a] = Verdict(acc, r)]
  /\ UNCHANGED <<pinnedChat, activeChat>>
  /\ SaveState

(* The command failed or timed out, or the account is gone. *)
ProbeFails(a) ==
  /\ a \in probing
  /\ probing' = probing \ {a}
  /\ UNCHANGED <<accounts, pinnedChat, activeChat, disk>>

-----------------------------------------------------------------------------
(* Time and restarts. *)

Aged(accs) ==
  [a \in AccountIds |-> [accs[a] EXCEPT !.cooldownUntil = Older(@), !.quota.weeklyReset = Older(@)]]

Tick ==
  /\ accounts' = Aged(accounts)
  /\ disk' = [disk EXCEPT !.accounts = Aged(@)]
  /\ UNCHANGED <<pinnedChat, activeChat, probing>>

(* The daemon dies at any moment and LoadState reads the file back. *)
Restart ==
  /\ accounts' = Recovered(disk.accounts)
  /\ pinnedChat' = disk.pinnedChat
  /\ activeChat' = disk.activeChat
  /\ probing' = {}
  /\ UNCHANGED disk

Fresh == [Blank EXCEPT !.state = "Active"]

(* A file left by an earlier version: accounts nobody uses, and chats that *)
(* may be bound under a key without a bot name.                            *)
Init ==
  /\ \E present \in SUBSET AccountIds :
       accounts = [a \in AccountIds |-> IF a \in present THEN Fresh ELSE Blank]
  /\ \E map \in [Chats -> {a \in AccountIds : Registered(a)} \cup {NoAccount}] :
       /\ activeChat = [k \in Keys |-> IF k[1] = NoBot THEN map[k[2]] ELSE NoAccount]
       /\ pinnedChat \in {activeChat, [k \in Keys |-> NoAccount]}
  /\ disk = [accounts |-> accounts, pinnedChat |-> pinnedChat, activeChat |-> activeChat]
  /\ probing = {}

AcquireStep == \E b \in Bots, c \in Chats : AcquireAccount(b, c)
ReleaseStep == \E a \in AccountIds : ReleaseAccount(a)
MarkStep    == \E a \in AccountIds, rest \in 1 .. MaxRest : MarkCooldown(a, rest)
ClearStep   == \E a \in AccountIds : ClearCooldown(a)
FreezeStep  == \E a \in AccountIds : FreezeAccount(a)
UnfreezeStep == \E a \in AccountIds : UnfreezeAccount(a)
DeleteStep  == \E a \in AccountIds : DeleteAccount(a)
PinStep     == \E b \in Bots, c \in Chats, a \in AccountIds : PinAccount(b, c, a)
UnpinStep   == \E b \in Bots, c \in Chats : UnpinAccount(b, c)
SwitchStep  == \E b \in Bots, c \in Chats, a \in AccountIds : SwitchAccount(b, c, a)
IngestStep  == \E a \in AccountIds : IngestCurrentAccount(a) \/ IngestFails(a)
ProbeStep   == \E a \in AccountIds :
                 \/ ProbeBegin(a)
                 \/ \E r \in UsageAnswers : ProbeEnd(a, r)
                 \/ ProbeFails(a)

(* What happens by itself or on behalf of a user's turn. *)
Routine ==
  \/ AcquireStep \/ ReleaseStep \/ MarkStep \/ PinStep \/ UnpinStep \/ SwitchStep
  \/ ProbeStep \/ Reap \/ Tick \/ Restart

(* Everything that is neither an unfreeze nor a login. *)
NoThaw == Routine \/ ClearStep \/ FreezeStep \/ DeleteStep

Next == NoThaw \/ UnfreezeStep \/ IngestStep

Spec == Init /\ [][Next]_vars

(* The reaper's ticker and the clock keep running. *)
FairSpec == Spec /\ WF_vars(Reap) /\ WF_vars(Tick)

(* Behaviours in which no administrator lifts a freeze and nobody logs in. *)
NeverThawed == Init /\ [][NoThaw]_vars

-----------------------------------------------------------------------------
(* Properties. *)

Registry(accs) == accs \in [AccountIds -> Account]
ChatMap(map) == map \in [Keys -> AccountIds \cup {NoAccount}]

(* Every variable has its type; the number of turns never drops below 0. *)
TypeOK ==
  /\ Registry(accounts)
  /\ ChatMap(pinnedChat)
  /\ ChatMap(activeChat)
  /\ disk \in [accounts : [AccountIds -> Account],
               pinnedChat : [Keys -> AccountIds \cup {NoAccount}],
               activeChat : [Keys -> AccountIds \cup {NoAccount}]]
  /\ probing \subseteq AccountIds

BindingsValid(accs, pinned, active) ==
  \A k \in Keys :
    /\ pinned[k] # NoAccount => accs[pinned[k]].state # "Absent"
    /\ active[k] # NoAccount => accs[active[k]].state \notin {"Absent", "Frozen"}

(* No chat is assigned an account that is frozen or deleted, and none is   *)
(* pinned to a deleted one: in memory, and in the file a restart reads.    *)
NoDanglingBinding ==
  /\ BindingsValid(accounts, pinnedChat, activeChat)
  /\ BindingsValid(disk.accounts, disk.pinnedChat, disk.activeChat)

Consistent(acc) ==
  /\ acc.state = "InUse" => acc.activeTurns > 0
  /\ acc.state \in {"Frozen", "Absent"} => acc.activeTurns = 0 /\ acc.cooldownUntil = Zero
  /\ acc.state # "Cooldown" => ~Before(acc.cooldownUntil)

(* The fields of an account agree whatever order releases, cooldowns,      *)
(* freezes and probes arrive in: an account in use counts a turn, so it    *)
(* can be freed; a frozen one counts none and rests for nothing; only a    *)
(* resting one has a deadline ahead.                                       *)
FieldsAgree == \A a \in AccountIds : Consistent(accounts[a]) /\ Consistent(disk.accounts[a])

(* What an administrator decided survives a crash: the file binds the same *)
(* chats, freezes the same accounts and has none that was deleted.         *)
Durable ==
  /\ disk.pinnedChat = pinnedChat
  /\ disk.activeChat = activeChat
  /\ \A a \in AccountIds :
       /\ (disk.accounts[a].state = "Frozen") <=> (accounts[a].state = "Frozen")
       /\ disk.accounts[a].state # "Absent" => Registered(a)

StaysFrozen ==
  \A a \in AccountIds :
    accounts[a].state = "Frozen" => accounts'[a].state \in {"Frozen", "Absent"}

(* Administrative immunity: an account leaves the freezer only by an       *)
(* unfreeze, a deletion or a new login of its owner; no release, cooldown, *)
(* late probe answer, reaper, manual clearing or restart thaws it.         *)
FreezeHolds == [][~StaysFrozen => ~NoThaw]_vars

(* The immunity the architecture document states: while UnfreezeAccount is *)
(* not executed, an account that stays in the pool stays frozen.           *)
OnlyUnfreezeThaws == [][StaysFrozen]_vars

RestsOn ==
  \A a \in AccountIds :
    (/\ accounts[a].state = "Cooldown"
     /\ Before(accounts[a].cooldownUntil)
     /\ accounts'[a].state \in {"Active", "InUse"})
      => \E r \in UsageAnswers : Parsed(r).h5.fraction = 2 /\ ProbeEnd(a, r)

(* A rest is served in full unless somebody clears it, the owner logs in   *)
(* again or a probe reports quota: a late release, a retry of a turn or a  *)
(* restart puts no resting account back to work.                           *)
RestIsServed == [][~RestsOn => ~Routine]_vars

(* No eternal rest: an account whose deadline is not pushed back for ever  *)
(* comes back to the pool, whatever happens to the others.                 *)
RestEnds ==
  \A a \in AccountIds :
    <>[][accounts'[a].cooldownUntil <= accounts[a].cooldownUntil]_vars
      => []<>(accounts[a].state # "Cooldown")

(* The pool keeps the promise of AdminHold: timers, turns, probes and      *)
(* restarts are steps that module does not see.                            *)
Promise == INSTANCE AdminHold WITH
  Accounts <- AccountIds, Clients <- Keys, None <- NoAccount,
  known <- {a \in AccountIds : Registered(a)},
  held <- {a \in AccountIds : accounts[a].state = "Frozen"},
  assigned <- activeChat
KeepsPromise == Promise!Spec
=============================================================================
