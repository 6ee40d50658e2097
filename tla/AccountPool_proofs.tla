------------------------ MODULE AccountPool_proofs ------------------------
(***************************************************************************)
(* Proofs about AccountPool, for any number of accounts, chats and bots    *)
(* and any usage reports.                                                  *)
(*                                                                         *)
(* The registry in memory and the one in the file satisfy the same         *)
(* predicate PoolInv, so an action that saves has to be looked at once:    *)
(* it keeps PoolInv in memory, and the file holds either that or what it   *)
(* held before.                                                            *)
(***************************************************************************)
EXTENDS AccountPool, FiniteSetTheorems, TLAPS

PoolInv(accs, pinned, active) ==
  /\ Registry(accs) /\ ChatMap(pinned) /\ ChatMap(active)
  /\ \A a \in AccountIds : Consistent(accs[a])
  /\ BindingsValid(accs, pinned, active)

MemoryInv == PoolInv(accounts, pinnedChat, activeChat)

FileInv ==
  /\ disk = [accounts |-> disk.accounts, pinnedChat |-> disk.pinnedChat, activeChat |-> disk.activeChat]
  /\ PoolInv(disk.accounts, disk.pinnedChat, disk.activeChat)

(* An account that chats are bound to may be replaced by one they may      *)
(* still be bound to.                                                      *)
KeepsUses(acc, new) ==
  /\ acc.state # "Absent" => new.state # "Absent"
  /\ acc.state \notin {"Absent", "Frozen"} => new.state \notin {"Absent", "Frozen"}

(* The inductive invariant. *)
IInv == MemoryInv /\ FileInv /\ probing \subseteq AccountIds

-----------------------------------------------------------------------------
(* Lemmas about the helpers. *)

(* The constants of the types are numbers. *)
LEMMA Numbers ==
  /\ Cardinality(AccountIds) \in Nat
  /\ Zero = -2 /\ Zero \in Time /\ MaxRest \in Time /\ MaxRest > 0
  /\ Time \subseteq Int /\ 0 \in Time
PROOF
  BY PoolAssumption, FS_CardinalityType DEF PoolAssumption, Zero, Time

(* Every field of an account of a registry has its type. *)
LEMMA Fields ==
  ASSUME NEW accs, Registry(accs), NEW a \in AccountIds
  PROVE  /\ accs[a] \in Account
         /\ accs[a].state \in AccountState
         /\ accs[a].cooldownUntil \in Time
         /\ accs[a].activeTurns \in Nat
         /\ accs[a].lastUsed \in 0 .. Cardinality(AccountIds)
         /\ accs[a].quota \in Quota
PROOF
  BY DEF Registry, Account

(* A step after which every account that had a use still has it keeps the  *)
(* bindings.                                                               *)
LEMMA SameBindings ==
  ASSUME NEW accs, NEW new, NEW pinned, NEW active,
         PoolInv(accs, pinned, active), Registry(new),
         \A a \in AccountIds : Consistent(new[a]),
         \A a \in AccountIds : KeepsUses(accs[a], new[a])
  PROVE  PoolInv(new, pinned, active)
PROOF
  BY DEF PoolInv, BindingsValid, ChatMap, KeepsUses

(* The same for a step that replaces one account.                          *)
LEMMA OneReplaced ==
  ASSUME NEW accs, NEW pinned, NEW active, PoolInv(accs, pinned, active),
         NEW a \in AccountIds, NEW acc \in Account, Consistent(acc), KeepsUses(accs[a], acc)
  PROVE  PoolInv([accs EXCEPT ![a] = acc], pinned, active)
PROOF
  <1> DEFINE new == [accs EXCEPT ![a] = acc]
  <1>1. Registry(accs) /\ \A o \in AccountIds : Consistent(accs[o])
    BY DEF PoolInv
  <1>2. Registry(new) /\ \A o \in AccountIds : new[o] = IF o = a THEN acc ELSE accs[o]
    BY <1>1 DEF Registry
  <1> HIDE DEF new
  <1>3. \A o \in AccountIds : Consistent(new[o]) /\ KeepsUses(accs[o], new[o])
    BY <1>1, <1>2 DEF KeepsUses
  <1>4. PoolInv(new, pinned, active)
    BY <1>2, <1>3, SameBindings
  <1>. QED
    BY <1>4 DEF new

(* A chat may be assigned any account that is there and not frozen.        *)
LEMMA OneAssigned ==
  ASSUME NEW accs, NEW pinned, NEW active, PoolInv(accs, pinned, active),
         NEW k \in Keys, NEW a \in AccountIds, accs[a].state \notin {"Absent", "Frozen"}
  PROVE  PoolInv(accs, pinned, [active EXCEPT ![k] = a])
PROOF
  BY DEF PoolInv, BindingsValid, ChatMap

-----------------------------------------------------------------------------
(* What the updates of one account do. *)

(* Activated ends any rest.                                                *)
LEMMA ActivatedFits ==
  ASSUME NEW acc \in Account
  PROVE  /\ Activated(acc) \in Account
         /\ Consistent(Activated(acc))
         /\ Activated(acc).state = "Active"
PROOF
  <1>1. /\ Activated(acc) \in Account
        /\ Activated(acc).state = "Active"
        /\ Activated(acc).cooldownUntil = Zero
    BY Numbers DEF Activated, Account, AccountState
  <1>. QED
    BY <1>1, Numbers DEF Consistent, Before

(* An account that rests for nothing can take one more turn.               *)
LEMMA OccupiedFits ==
  ASSUME NEW acc \in Account, ~Before(acc.cooldownUntil)
  PROVE  /\ Occupied(acc) \in Account
         /\ Consistent(Occupied(acc))
         /\ Occupied(acc).state = "InUse"
PROOF
  <1>1. acc.activeTurns + 1 \in Nat /\ acc.activeTurns + 1 > 0
    BY DEF Account
  <1>2. Occupied(acc) = [acc EXCEPT !.activeTurns = acc.activeTurns + 1, !.state = "InUse"]
    BY DEF Occupied, Account
  <1>3. /\ Occupied(acc) \in Account
        /\ Occupied(acc).state = "InUse"
        /\ Occupied(acc).activeTurns = acc.activeTurns + 1
        /\ Occupied(acc).cooldownUntil = acc.cooldownUntil
    BY <1>1, <1>2 DEF Account, AccountState
  <1>. QED
    BY <1>1, <1>3 DEF Consistent

(* A release leaves the account in use exactly while turns remain.         *)
LEMMA ReleasedFits ==
  ASSUME NEW acc \in Account, Consistent(acc)
  PROVE  /\ Released(acc) \in Account
         /\ Consistent(Released(acc))
         /\ KeepsUses(acc, Released(acc))
PROOF
  <1> DEFINE left == OneLess(acc.activeTurns)
             state == Freed(acc.state, left)
  <1>1. left \in Nat /\ (left = 0 \/ acc.activeTurns > 0)
    BY DEF OneLess, Account
  <1>2. state \in AccountState
    BY DEF Freed, Account, AccountState
  <1>3. /\ Released(acc) \in Account
        /\ Released(acc).state = state
        /\ Released(acc).activeTurns = left
        /\ Released(acc).cooldownUntil = acc.cooldownUntil
    <2> HIDE DEF left, state
    <2>1. Released(acc) = [acc EXCEPT !.activeTurns = left, !.state = state]
      BY DEF Released, left, state, Account
    <2>. QED
      BY <1>1, <1>2, <2>1 DEF Account
  <1>4. /\ state = "InUse" => left > 0
        /\ state # acc.state => acc.state = "InUse" /\ state = "Active"
    BY <1>1 DEF Freed
  <1>5. acc.activeTurns = 0 => left = 0
    BY DEF OneLess
  <1> HIDE DEF left, state
  <1>. QED
    BY <1>1, <1>3, <1>4, <1>5, Numbers DEF Consistent, KeepsUses, Account, Before

(* A resting account may have any deadline, and keeps its turns or not.    *)
LEMMA RestingFits ==
  ASSUME NEW acc \in Account, NEW t \in Time
  PROVE  /\ Resting(acc, t) \in Account
         /\ Consistent(Resting(acc, t))
         /\ Resting(acc, t).state = "Cooldown"
         /\ [Resting(acc, t) EXCEPT !.activeTurns = 0] \in Account
         /\ Consistent([Resting(acc, t) EXCEPT !.activeTurns = 0])
         /\ [Resting(acc, t) EXCEPT !.activeTurns = 0].state = "Cooldown"
PROOF
  <1> DEFINE rested == [acc EXCEPT !.state = "Cooldown", !.cooldownUntil = t]
  <1>1. rested \in Account /\ rested.state = "Cooldown"
    BY DEF Account, AccountState
  <1>2. \A x \in Account :
          [x EXCEPT !.activeTurns = 0] \in Account /\ [x EXCEPT !.activeTurns = 0].state = x.state
    BY DEF Account
  <1>3. Resting(acc, t) = rested
    BY DEF Resting
  <1> HIDE DEF rested
  <1>. QED
    BY <1>1, <1>2, <1>3 DEF Consistent

(* A frozen account counts no turn and rests for nothing.                  *)
LEMMA SuspendedFits ==
  ASSUME NEW acc \in Account
  PROVE  /\ Suspended(acc) \in Account
         /\ Consistent(Suspended(acc))
         /\ Suspended(acc).state = "Frozen"
PROOF
  <1>1. /\ Suspended(acc) \in Account
        /\ Suspended(acc).state = "Frozen"
        /\ Suspended(acc).activeTurns = 0
        /\ Suspended(acc).cooldownUntil = Zero
    BY Numbers DEF Suspended, Account, AccountState
  <1>. QED
    BY <1>1, Numbers DEF Consistent, Before

(* The sweep keeps types, consistency and uses, and touches no frozen      *)
(* account.                                                                *)
LEMMA RecoveredFits ==
  ASSUME NEW accs, NEW pinned, NEW active, PoolInv(accs, pinned, active)
  PROVE  /\ PoolInv(Recovered(accs), pinned, active)
         /\ \A a \in AccountIds :
              Recovered(accs)[a].state = accs[a].state \/ accs[a].state = "Cooldown"
PROOF
  <1>1. Registry(accs) /\ \A a \in AccountIds : accs[a] \in Account /\ Consistent(accs[a])
    BY Fields DEF PoolInv
  <1>2. \A a \in AccountIds :
          Recovered(accs)[a] = IF Overdue(accs[a]) THEN Activated(accs[a]) ELSE accs[a]
    BY DEF Recovered
  <1>3. \A a \in AccountIds :
          /\ Recovered(accs)[a] \in Account
          /\ Consistent(Recovered(accs)[a])
          /\ KeepsUses(accs[a], Recovered(accs)[a])
          /\ Recovered(accs)[a].state = accs[a].state \/ accs[a].state = "Cooldown"
    BY <1>1, <1>2, ActivatedFits DEF Overdue, KeepsUses
  <1>4. Registry(Recovered(accs))
    BY <1>3 DEF Registry, Recovered
  <1>. QED
    BY <1>3, <1>4, SameBindings

(* Using an account renumbers the others and changes nothing else.         *)
LEMMA TouchedFits ==
  ASSUME NEW accs, Registry(accs), NEW a \in AccountIds
  PROVE  /\ Registry(Touched(accs, a))
         /\ \A o \in AccountIds :
              /\ Touched(accs, a)[o].state = accs[o].state
              /\ Touched(accs, a)[o].cooldownUntil = accs[o].cooldownUntil
              /\ Touched(accs, a)[o].activeTurns = accs[o].activeTurns
PROOF
  <1>1. ASSUME NEW o \in AccountIds
        PROVE  /\ Touched(accs, a)[o] \in Account
               /\ Touched(accs, a)[o].state = accs[o].state
               /\ Touched(accs, a)[o].cooldownUntil = accs[o].cooldownUntil
               /\ Touched(accs, a)[o].activeTurns = accs[o].activeTurns
    <2>1. accs[o] \in Account /\ accs[a] \in Account
      BY DEF Registry
    <2>2. \A acc \in Account, n \in 0 .. Cardinality(AccountIds) :
            LET new == [acc EXCEPT !.lastUsed = n]
            IN  /\ new \in Account
                /\ new.state = acc.state
                /\ new.cooldownUntil = acc.cooldownUntil
                /\ new.activeTurns = acc.activeTurns
      BY DEF Account
    <2>3. /\ accs[o].lastUsed \in 0 .. Cardinality(AccountIds)
          /\ accs[a].lastUsed \in 0 .. Cardinality(AccountIds)
      BY <2>1 DEF Account
    <2>4. accs[o].lastUsed > accs[a].lastUsed
            => accs[o].lastUsed - 1 \in 0 .. Cardinality(AccountIds)
      BY <2>3, Numbers
    <2>5. Cardinality(AccountIds) \in 0 .. Cardinality(AccountIds)
      BY Numbers
    <2>6. Touched(accs, a)[o] =
            IF o = a THEN [accs[o] EXCEPT !.lastUsed = Cardinality(AccountIds)]
            ELSE IF accs[o].lastUsed > accs[a].lastUsed
                 THEN [accs[o] EXCEPT !.lastUsed = accs[o].lastUsed - 1]
                 ELSE accs[o]
      BY DEF Touched
    <2>. QED
      BY <2>1, <2>2, <2>4, <2>5, <2>6
  <1>2. Registry(Touched(accs, a))
    BY <1>1 DEF Registry, Touched
  <1>. QED
    BY <1>1, <1>2

(* So it keeps the invariant.                                              *)
LEMMA TouchedInv ==
  ASSUME NEW accs, NEW pinned, NEW active, PoolInv(accs, pinned, active), NEW a \in AccountIds
  PROVE  PoolInv(Touched(accs, a), pinned, active)
PROOF
  <1>1. Registry(accs) /\ \A o \in AccountIds : Consistent(accs[o])
    BY DEF PoolInv
  <1>2. \A o \in AccountIds :
          Consistent(Touched(accs, a)[o]) /\ KeepsUses(accs[o], Touched(accs, a)[o])
    BY <1>1, TouchedFits DEF Consistent, KeepsUses
  <1>. QED
    BY <1>1, <1>2, TouchedFits, SameBindings

(* Dropping the bindings of an account that nobody then needs.             *)
LEMMA WithoutFits ==
  ASSUME NEW map, ChatMap(map), NEW a \in AccountIds
  PROVE  /\ ChatMap(Without(map, a))
         /\ \A k \in Keys : Without(map, a)[k] # NoAccount
                              => Without(map, a)[k] = map[k] /\ map[k] # a
PROOF
  BY DEF ChatMap, Without

-----------------------------------------------------------------------------
(* One lemma per operation: it keeps the invariant in memory, and saves or *)
(* leaves the file alone.                                                  *)

(* What a step leaves in the file. *)
Filed == SaveState \/ UNCHANGED disk

(* A step that keeps the invariant in memory keeps it in the file.         *)
LEMMA FileKept ==
  ASSUME FileInv, MemoryInv', Filed
  PROVE  FileInv'
PROOF
  <1>1. CASE UNCHANGED disk
    BY <1>1 DEF FileInv
  <1>2. CASE SaveState
    <2>1. PICK saved \in SaveOutcomes :
            disk' = IF saved
                    THEN [accounts |-> accounts', pinnedChat |-> pinnedChat',
                          activeChat |-> activeChat']
                    ELSE disk
      BY <1>2 DEF SaveState
    <2>2. CASE saved
      <3>1. disk' = [accounts |-> accounts', pinnedChat |-> pinnedChat', activeChat |-> activeChat']
        BY <2>1, <2>2
      <3>. QED
        BY <3>1 DEF FileInv, MemoryInv
    <2>3. CASE ~saved
      BY <2>1, <2>3 DEF FileInv
    <2>. QED
      BY <2>2, <2>3
  <1>. QED
    BY <1>1, <1>2 DEF Filed

(* A step that replaces one account by one that fits.                      *)
LEMMA ReplaceStep ==
  ASSUME MemoryInv, NEW a \in AccountIds, NEW acc \in Account, Consistent(acc),
         KeepsUses(accounts[a], acc),
         accounts' = [accounts EXCEPT ![a] = acc], UNCHANGED <<pinnedChat, activeChat>>
  PROVE  MemoryInv'
PROOF
  BY OneReplaced DEF MemoryInv

(* The keys of a chat. *)
LEMMA ChatKeys ==
  ASSUME NEW b \in Bots, NEW c \in Chats
  PROVE  <<b, c>> \in Keys /\ <<NoBot, c>> \in Keys
PROOF
  BY DEF Keys

(* Granting an account that is neither absent nor frozen nor resting.      *)
LEMMA GrantInv ==
  ASSUME NEW accs, PoolInv(accs, pinnedChat, activeChat),
         NEW a \in AccountIds, NEW b \in Bots, NEW c \in Chats,
         accs[a].state \notin {"Absent", "Frozen"}, ~Before(accs[a].cooldownUntil),
         Grant(accs, a, b, c)
  PROVE  MemoryInv' /\ Filed /\ UNCHANGED probing
PROOF
  <1> DEFINE touched == Touched(accs, a)
             granted == [touched EXCEPT ![a] = Occupied(touched[a])]
  <1>1. PoolInv(touched, pinnedChat, activeChat)
    BY TouchedInv
  <1>2. /\ touched[a] \in Account
        /\ touched[a].state = accs[a].state
        /\ touched[a].cooldownUntil = accs[a].cooldownUntil
    BY <1>1, TouchedFits, Fields DEF PoolInv
  <1>3. /\ Occupied(touched[a]) \in Account
        /\ Consistent(Occupied(touched[a]))
        /\ Occupied(touched[a]).state = "InUse"
    BY <1>2, OccupiedFits
  <1>4. touched \in [AccountIds -> Account]
    BY <1>1 DEF PoolInv, Registry
  <1> HIDE DEF touched
  <1>5. PoolInv(granted, pinnedChat, activeChat)
    BY <1>1, <1>2, <1>3, OneReplaced DEF KeepsUses
  <1>6. granted[a].state = "InUse"
    BY <1>3, <1>4
  <1> HIDE DEF granted
  <1>7. PoolInv(granted, pinnedChat, [activeChat EXCEPT ![<<b, c>>] = a])
    BY <1>5, <1>6, ChatKeys, OneAssigned
  <1>8. /\ accounts' = granted
        /\ activeChat' = [activeChat EXCEPT ![<<b, c>>] = a]
        /\ pinnedChat' = pinnedChat /\ probing' = probing /\ SaveState
    BY DEF Grant, granted, touched
  <1>. QED
    BY <1>7, <1>8 DEF MemoryInv, Filed

(* A turn gets an account, or an error after the sweep.                    *)
LEMMA AcquireInv ==
  ASSUME MemoryInv, NEW b \in Bots, NEW c \in Chats, AcquireAccount(b, c)
  PROVE  MemoryInv' /\ Filed /\ UNCHANGED probing
PROOF
  <1> DEFINE accs == Recovered(accounts)
             pinned == Lookup(pinnedChat, b, c)
             current == Lookup(activeChat, b, c)
  <1>1. PoolInv(accs, pinnedChat, activeChat)
    BY RecoveredFits DEF MemoryInv
  <1>2. pinned \in AccountIds \cup {NoAccount} /\ current \in AccountIds \cup {NoAccount}
    BY ChatKeys DEF Lookup, MemoryInv, PoolInv, ChatMap
  <1>3. \A a \in AccountIds :
          accs[a].state \notin {"Absent", "Frozen", "Cooldown"} => ~Before(accs[a].cooldownUntil)
    BY <1>1 DEF PoolInv, Consistent
  <1> HIDE DEF accs, pinned, current
  <1>4. CASE Refuse(accs)
    BY <1>1, <1>4 DEF Refuse, MemoryInv, Filed
  <1>5. CASE pinned # NoAccount /\ accs[pinned].state # "Absent" /\ AcquirePinned(accs, pinned, b, c)
    <2>1. pinned \in AccountIds /\ accs[pinned].state # "Absent"
      BY <1>2, <1>5
    <2>2. CASE accs[pinned].state = "Frozen" \/ (accs[pinned].state = "Cooldown" /\ Before(accs[pinned].cooldownUntil))
      BY <1>4, <1>5, <2>2 DEF AcquirePinned
    <2>3. CASE ~(accs[pinned].state = "Frozen" \/ (accs[pinned].state = "Cooldown" /\ Before(accs[pinned].cooldownUntil)))
      <3>1. Grant(accs, pinned, b, c)
        BY <1>5, <2>3 DEF AcquirePinned
      <3>2. accs[pinned].state \notin {"Absent", "Frozen"} /\ ~Before(accs[pinned].cooldownUntil)
        BY <1>3, <2>1, <2>3
      <3>. QED
        BY <1>1, <2>1, <3>1, <3>2, GrantInv
    <2>. QED
      BY <2>2, <2>3
  <1>6. CASE AcquireFromPool(accs, b, c)
    <2>1. CASE current # NoAccount /\ accs[current].state = "Active" /\ Grant(accs, current, b, c)
      BY <1>1, <1>2, <1>3, <2>1, GrantInv
    <2>2. CASE \E a \in Selectable(accs) : Grant(accs, a, b, c)
      <3>1. PICK a \in Selectable(accs) : Grant(accs, a, b, c)
        BY <2>2
      <3>2. a \in AccountIds /\ accs[a].state \in {"Active", "InUse"}
        BY DEF Selectable, Candidates
      <3>. QED
        BY <1>1, <1>3, <3>1, <3>2, GrantInv
    <2>. QED
      BY <1>4, <1>6, <2>1, <2>2 DEF AcquireFromPool, current
  <1>. QED
    BY <1>4, <1>5, <1>6 DEF AcquireAccount, accs, pinned

(* A turn ends. *)
LEMMA ReleaseInv ==
  ASSUME MemoryInv, NEW a \in AccountIds, ReleaseAccount(a)
  PROVE  MemoryInv' /\ Filed /\ UNCHANGED probing
PROOF
  <1>1. accounts[a] \in Account /\ Consistent(accounts[a])
    BY Fields DEF MemoryInv, PoolInv
  <1>2. /\ Released(accounts[a]) \in Account
        /\ Consistent(Released(accounts[a]))
        /\ KeepsUses(accounts[a], Released(accounts[a]))
    BY <1>1, ReleasedFits
  <1>. QED
    BY <1>2, ReplaceStep DEF ReleaseAccount, Filed

(* An account is sent to rest, and brought back by hand.                   *)
LEMMA MarkInv ==
  ASSUME MemoryInv, NEW a \in AccountIds, NEW rest \in 1 .. MaxRest, MarkCooldown(a, rest)
  PROVE  MemoryInv' /\ Filed /\ UNCHANGED probing
PROOF
  <1> DEFINE rested == [Resting(accounts[a], rest) EXCEPT !.activeTurns = 0]
  <1>1. accounts[a] \in Account /\ rest \in Time
    BY Fields DEF MemoryInv, PoolInv, Time, Zero
  <1>2. rested \in Account /\ Consistent(rested) /\ rested.state = "Cooldown"
    BY <1>1, RestingFits
  <1>3. accounts' = [accounts EXCEPT ![a] = rested]
    BY DEF MarkCooldown
  <1> HIDE DEF rested
  <1>4. KeepsUses(accounts[a], rested)
    BY <1>2 DEF KeepsUses
  <1>. QED
    BY <1>2, <1>3, <1>4, ReplaceStep DEF MarkCooldown, Filed

LEMMA ClearInv ==
  ASSUME MemoryInv, NEW a \in AccountIds, ClearCooldown(a)
  PROVE  MemoryInv' /\ Filed /\ UNCHANGED probing
PROOF
  <1>1. accounts[a] \in Account
    BY Fields DEF MemoryInv, PoolInv
  <1>2. /\ Activated(accounts[a]) \in Account
        /\ Consistent(Activated(accounts[a]))
        /\ KeepsUses(accounts[a], Activated(accounts[a]))
    BY <1>1, ActivatedFits DEF KeepsUses
  <1>. QED
    BY <1>2, ReplaceStep DEF ClearCooldown, Filed

(* The reaper. *)
LEMMA ReapInv ==
  ASSUME MemoryInv, Reap
  PROVE  MemoryInv' /\ Filed /\ UNCHANGED probing
PROOF
  BY RecoveredFits DEF MemoryInv, Reap, Filed

(* A freeze suspends the account and drops every chat assigned to it.      *)
LEMMA FreezeInv ==
  ASSUME MemoryInv, NEW a \in AccountIds, FreezeAccount(a)
  PROVE  MemoryInv' /\ Filed /\ UNCHANGED probing
PROOF
  <1> DEFINE acc == Suspended(accounts[a])
  <1>1. PoolInv(accounts, pinnedChat, activeChat)
    BY DEF MemoryInv
  <1>2. acc \in Account /\ Consistent(acc) /\ acc.state = "Frozen"
    BY <1>1, Fields, SuspendedFits DEF PoolInv
  <1>3. /\ accounts' = [accounts EXCEPT ![a] = acc]
        /\ activeChat' = Without(activeChat, a)
        /\ pinnedChat' = pinnedChat /\ probing' = probing /\ SaveState
    BY DEF FreezeAccount
  <1> HIDE DEF acc
  <1>4. \A o \in AccountIds : accounts'[o] = IF o = a THEN acc ELSE accounts[o]
    BY <1>1, <1>3 DEF PoolInv, Registry
  <1>5. Registry(accounts') /\ \A o \in AccountIds : Consistent(accounts'[o])
    BY <1>1, <1>2, <1>3, <1>4 DEF PoolInv, Registry
  <1>6. /\ ChatMap(activeChat')
        /\ \A k \in Keys : activeChat'[k] # NoAccount
                             => activeChat'[k] = activeChat[k] /\ activeChat[k] # a
    BY <1>1, <1>3, WithoutFits DEF PoolInv
  <1>7. ChatMap(pinnedChat) /\ ChatMap(activeChat) /\ BindingsValid(accounts, pinnedChat, activeChat)
    BY <1>1 DEF PoolInv
  <1>8. BindingsValid(accounts', pinnedChat', activeChat')
    BY <1>2, <1>3, <1>4, <1>6, <1>7 DEF BindingsValid, ChatMap
  <1>. QED
    BY <1>3, <1>5, <1>6, <1>7, <1>8 DEF MemoryInv, PoolInv, Filed

(* An unfreeze. *)
LEMMA UnfreezeInv ==
  ASSUME MemoryInv, NEW a \in AccountIds, UnfreezeAccount(a)
  PROVE  MemoryInv' /\ Filed /\ UNCHANGED probing
PROOF
  <1>1. accounts[a] \in Account /\ Consistent(accounts[a]) /\ accounts[a].state = "Frozen"
    BY Fields DEF MemoryInv, PoolInv, UnfreezeAccount
  <1>2. accounts[a].cooldownUntil = Zero
    BY <1>1 DEF Consistent
  <1>3. /\ Activated(accounts[a]) \in Account
        /\ Consistent(Activated(accounts[a]))
        /\ KeepsUses(accounts[a], Activated(accounts[a]))
    BY <1>1, ActivatedFits DEF KeepsUses
  <1>4. accounts' = [accounts EXCEPT ![a] = Activated(accounts[a])]
    BY <1>2 DEF UnfreezeAccount
  <1>. QED
    BY <1>3, <1>4, ReplaceStep DEF UnfreezeAccount, Filed

(* A deletion drops the account and every binding to it.                   *)
LEMMA DeleteInv ==
  ASSUME MemoryInv, NEW a \in AccountIds, DeleteAccount(a)
  PROVE  MemoryInv' /\ Filed /\ UNCHANGED probing
PROOF
  <1> DEFINE acc == [Blank EXCEPT !.lastUsed = accounts[a].lastUsed]
  <1>1. PoolInv(accounts, pinnedChat, activeChat)
    BY DEF MemoryInv
  <1>2. acc \in Account /\ Consistent(acc)
    <2>1. accounts[a].lastUsed \in 0 .. Cardinality(AccountIds)
      BY <1>1, Fields DEF PoolInv
    <2>2. NoQuota \in Quota
      BY Numbers DEF NoQuota, Quota, Fraction
    <2>3. acc = [state |-> "Absent", cooldownUntil |-> Zero, activeTurns |-> 0,
                 lastUsed |-> accounts[a].lastUsed, quota |-> NoQuota]
      BY DEF Blank
    <2> HIDE DEF acc
    <2>. QED
      BY <2>1, <2>2, <2>3, Numbers DEF Account, AccountState, Consistent, Before
  <1>3. /\ accounts' = [accounts EXCEPT ![a] = acc]
        /\ activeChat' = Without(activeChat, a)
        /\ pinnedChat' = Without(pinnedChat, a)
        /\ probing' = probing /\ SaveState
    BY DEF DeleteAccount
  <1> HIDE DEF acc
  <1>4. \A o \in AccountIds : accounts'[o] = IF o = a THEN acc ELSE accounts[o]
    BY <1>1, <1>3 DEF PoolInv, Registry
  <1>5. Registry(accounts') /\ \A o \in AccountIds : Consistent(accounts'[o])
    BY <1>1, <1>2, <1>3, <1>4 DEF PoolInv, Registry
  <1>6. /\ ChatMap(activeChat')
        /\ \A k \in Keys : activeChat'[k] # NoAccount
                             => activeChat'[k] = activeChat[k] /\ activeChat[k] # a
    BY <1>1, <1>3, WithoutFits DEF PoolInv
  <1>7. /\ ChatMap(pinnedChat')
        /\ \A k \in Keys : pinnedChat'[k] # NoAccount
                             => pinnedChat'[k] = pinnedChat[k] /\ pinnedChat[k] # a
    BY <1>1, <1>3, WithoutFits DEF PoolInv
  <1>8. ChatMap(pinnedChat) /\ ChatMap(activeChat) /\ BindingsValid(accounts, pinnedChat, activeChat)
    BY <1>1 DEF PoolInv
  <1>9. BindingsValid(accounts', pinnedChat', activeChat')
    BY <1>4, <1>6, <1>7, <1>8 DEF BindingsValid, ChatMap
  <1>. QED
    BY <1>3, <1>5, <1>6, <1>7, <1>9 DEF MemoryInv, PoolInv, Filed

(* A chat is pinned to an account, unpinned, or moved by hand.             *)
LEMMA PinInv ==
  ASSUME MemoryInv, NEW b \in Bots, NEW c \in Chats, NEW a \in AccountIds, PinAccount(b, c, a)
  PROVE  MemoryInv' /\ Filed /\ UNCHANGED probing
PROOF
  <1>1. <<b, c>> \in Keys /\ PoolInv(accounts, pinnedChat, activeChat)
    BY ChatKeys DEF MemoryInv
  <1>2. accounts[a].state \notin {"Absent", "Frozen"}
    BY DEF PinAccount, Assignable, Registered
  <1>3. PoolInv(accounts, [pinnedChat EXCEPT ![<<b, c>>] = a], activeChat)
    BY <1>1, <1>2 DEF PoolInv, BindingsValid, ChatMap
  <1>4. PoolInv(accounts, [pinnedChat EXCEPT ![<<b, c>>] = a], [activeChat EXCEPT ![<<b, c>>] = a])
    BY <1>1, <1>2, <1>3, OneAssigned
  <1>. QED
    BY <1>4 DEF PinAccount, MemoryInv, Filed

LEMMA UnpinInv ==
  ASSUME MemoryInv, NEW b \in Bots, NEW c \in Chats, UnpinAccount(b, c)
  PROVE  MemoryInv' /\ Filed /\ UNCHANGED probing
PROOF
  <1>1. <<b, c>> \in Keys /\ <<NoBot, c>> \in Keys /\ PoolInv(accounts, pinnedChat, activeChat)
    BY ChatKeys DEF MemoryInv
  <1>2. /\ ChatMap(pinnedChat')
        /\ \A k \in Keys : pinnedChat'[k] # NoAccount => pinnedChat'[k] = pinnedChat[k]
    BY <1>1 DEF UnpinAccount, PoolInv, ChatMap
  <1>3. PoolInv(accounts, pinnedChat', activeChat)
    BY <1>1, <1>2 DEF PoolInv, BindingsValid
  <1>. QED
    BY <1>3 DEF UnpinAccount, MemoryInv, Filed

LEMMA SwitchInv ==
  ASSUME MemoryInv, NEW b \in Bots, NEW c \in Chats, NEW a \in AccountIds, SwitchAccount(b, c, a)
  PROVE  MemoryInv' /\ Filed /\ UNCHANGED probing
PROOF
  <1>1. <<b, c>> \in Keys /\ PoolInv(accounts, pinnedChat, activeChat)
    BY ChatKeys DEF MemoryInv
  <1>2. accounts[a].state \notin {"Absent", "Frozen"}
    BY DEF SwitchAccount, Assignable, Registered
  <1>. QED
    BY <1>1, <1>2, OneAssigned DEF SwitchAccount, MemoryInv, Filed

(* The account of a login, registered before its profile is written.       *)
LEMMA EnrolledFits ==
  ASSUME MemoryInv, NEW a \in AccountIds
  PROVE  PoolInv(Enrolled(a), pinnedChat, activeChat)
PROOF
  <1> DEFINE acc == [accounts[a] EXCEPT !.state = "Active"]
             joined == [accounts EXCEPT ![a] = acc]
  <1>1. PoolInv(accounts, pinnedChat, activeChat)
    BY DEF MemoryInv
  <1>2. CASE Registered(a)
    BY <1>1, <1>2 DEF Enrolled
  <1>3. CASE ~Registered(a)
    <2>1. accounts[a] \in Account /\ Consistent(accounts[a]) /\ accounts[a].state = "Absent"
      BY <1>1, <1>3, Fields DEF PoolInv, Registered
    <2>2. /\ acc \in Account /\ acc.state = "Active"
          /\ acc.cooldownUntil = accounts[a].cooldownUntil
      BY <2>1 DEF Account, AccountState
    <2>3. Enrolled(a) = Touched(joined, a)
      BY <1>3 DEF Enrolled
    <2> HIDE DEF acc
    <2>4. Consistent(acc) /\ KeepsUses(accounts[a], acc)
      BY <2>1, <2>2, Numbers DEF Consistent, KeepsUses, Before
    <2>5. PoolInv(joined, pinnedChat, activeChat)
      BY <1>1, <2>2, <2>4, OneReplaced
    <2> HIDE DEF joined
    <2>. QED
      BY <2>3, <2>5, TouchedInv
  <1>. QED
    BY <1>2, <1>3

LEMMA IngestInv ==
  ASSUME MemoryInv, NEW a \in AccountIds, IngestCurrentAccount(a) \/ IngestFails(a)
  PROVE  MemoryInv' /\ Filed /\ UNCHANGED probing
PROOF
  <1> DEFINE accs == Enrolled(a)
             acc == Activated(accs[a])
  <1>1. PoolInv(accs, pinnedChat, activeChat)
    BY EnrolledFits
  <1>2. CASE IngestFails(a)
    BY <1>1, <1>2 DEF IngestFails, MemoryInv, Filed
  <1>3. CASE IngestCurrentAccount(a)
    <2>1. accs[a] \in Account
      BY <1>1, Fields DEF PoolInv
    <2>2. acc \in Account /\ Consistent(acc) /\ KeepsUses(accs[a], acc)
      BY <2>1, ActivatedFits DEF KeepsUses
    <2>3. /\ accounts' = [accs EXCEPT ![a] = acc]
          /\ UNCHANGED <<pinnedChat, activeChat, probing>> /\ SaveState
      BY <1>3 DEF IngestCurrentAccount
    <2> HIDE DEF accs, acc
    <2>4. PoolInv([accs EXCEPT ![a] = acc], pinnedChat, activeChat)
      BY <1>1, <2>2, OneReplaced
    <2>. QED
      BY <2>3, <2>4 DEF MemoryInv, Filed
  <1>. QED
    BY <1>2, <1>3

(* What a usage report makes of an account.                                *)
LEMMA ParsedFits ==
  ASSUME NEW report \in Report
  PROVE  /\ Parsed(report) \in Report
         /\ StoredQuota(Parsed(report)) \in Quota
PROOF
  <1> DEFINE window(w) == IF w.disabled THEN [w EXCEPT !.fraction = 0] ELSE w
             weekly == window(report.weekly)
             h5 == window(report.h5)
             reset == IF h5.reset = Zero THEN weekly.reset ELSE h5.reset
             shut == [h5 EXCEPT !.disabled = TRUE, !.fraction = 0, !.reset = reset]
  <1>1. \A w \in Bucket : window(w) \in Bucket
    BY DEF Bucket, Fraction
  <1>2. report.weekly \in Bucket /\ report.h5 \in Bucket
    BY DEF Report
  <1>3. weekly \in Bucket /\ h5 \in Bucket
    BY <1>1, <1>2
  <1> HIDE DEF window, weekly, h5
  <1>4. reset \in Time
    BY <1>3 DEF Bucket
  <1> HIDE DEF reset
  <1>5. shut \in Bucket
    <2>1. 0 \in Fraction /\ TRUE \in BOOLEAN
      BY DEF Fraction
    <2>. QED
      BY <1>3, <1>4, <2>1 DEF Bucket
  <1>6. Parsed(report) = IF weekly.present /\ (weekly.fraction = 0 \/ weekly.disabled)
                         THEN [weekly |-> weekly, h5 |-> shut]
                         ELSE [weekly |-> weekly, h5 |-> h5]
    BY <1>3 DEF Parsed, weekly, h5, window, reset, Bucket
  <1> HIDE DEF shut
  <1>7. Parsed(report) \in Report
    BY <1>3, <1>5, <1>6 DEF Report
  <1>8. ASSUME NEW r \in Report
        PROVE  StoredQuota(r) \in Quota
    <2>1. r.h5 \in Bucket /\ r.weekly \in Bucket
      BY DEF Report
    <2>2. /\ r.h5.disabled \in BOOLEAN /\ r.weekly.disabled \in BOOLEAN
          /\ r.h5.fraction \in Fraction /\ r.weekly.reset \in Time
      BY <2>1 DEF Bucket
    <2>. QED
      BY <2>2 DEF StoredQuota, Quota
  <1>. QED
    BY <1>7, <1>8

LEMMA JudgedFits ==
  ASSUME NEW acc \in Account, Consistent(acc), acc.state \notin {"Absent", "Frozen"},
         NEW r \in Report
  PROVE  /\ Judged(acc, r) \in Account
         /\ Consistent(Judged(acc, r))
         /\ Judged(acc, r).state \notin {"Absent", "Frozen"}
PROOF
  <1>1. r.h5.reset \in Time /\ r.weekly.reset \in Time /\ MaxRest \in Time
    BY Numbers DEF Report, Bucket
  <1>2. \/ \E t \in Time : Judged(acc, r) = Resting(acc, t)
        \/ Judged(acc, r) = Activated(acc)
        \/ Judged(acc, r) = acc
    BY <1>1 DEF Judged
  <1>. QED
    BY <1>2, RestingFits, ActivatedFits

LEMMA ProbeEndInv ==
  ASSUME MemoryInv, NEW a \in AccountIds, NEW report \in UsageAnswers, ProbeEnd(a, report)
  PROVE  MemoryInv' /\ Filed /\ probing' = probing \ {a}
PROOF
  <1> DEFINE r == Parsed(report)
             acc == [accounts[a] EXCEPT !.quota = StoredQuota(r)]
             new == IF acc.state = "Frozen" THEN acc ELSE Judged(acc, r)
  <1>1. r \in Report /\ StoredQuota(r) \in Quota
    BY ParsedFits, PoolAssumption DEF PoolAssumption
  <1>2. accounts[a] \in Account /\ Consistent(accounts[a]) /\ accounts[a].state # "Absent"
    BY Fields DEF MemoryInv, PoolInv, ProbeEnd, Registered
  <1>3. /\ accounts' = [accounts EXCEPT ![a] = new]
        /\ UNCHANGED <<pinnedChat, activeChat>>
        /\ probing' = probing \ {a} /\ SaveState
    BY DEF ProbeEnd, Verdict
  <1> HIDE DEF r
  <1>4. /\ acc \in Account
        /\ acc.state = accounts[a].state
        /\ acc.activeTurns = accounts[a].activeTurns
        /\ acc.cooldownUntil = accounts[a].cooldownUntil
    BY <1>1, <1>2 DEF Account
  <1> HIDE DEF acc
  <1>5. Consistent(acc)
    BY <1>2, <1>4 DEF Consistent
  <1>6. new \in Account /\ Consistent(new) /\ KeepsUses(accounts[a], new)
    BY <1>1, <1>2, <1>4, <1>5, JudgedFits DEF KeepsUses
  <1> HIDE DEF new
  <1>. QED
    BY <1>3, <1>6, ReplaceStep DEF Filed

(* The passage of time. *)
LEMMA AgedFits ==
  ASSUME NEW accs, NEW pinned, NEW active, PoolInv(accs, pinned, active)
  PROVE  PoolInv(Aged(accs), pinned, active)
PROOF
  <1>1. \A t \in Time : Older(t) \in Time /\ (Before(Older(t)) => Before(t)) /\ Older(Zero) = Zero
    BY Numbers DEF Older, Time, Zero, Before
  <1>2. ASSUME NEW acc \in Account, Consistent(acc)
        PROVE  LET new == [acc EXCEPT !.cooldownUntil = Older(@), !.quota.weeklyReset = Older(@)]
               IN  new \in Account /\ Consistent(new) /\ new.state = acc.state
    <2> DEFINE t == Older(acc.cooldownUntil)
               q == [acc.quota EXCEPT !.weeklyReset = Older(acc.quota.weeklyReset)]
               new == [acc EXCEPT !.cooldownUntil = t, !.quota = q]
    <2>1. acc.cooldownUntil \in Time /\ acc.quota \in Quota /\ acc.quota.weeklyReset \in Time
      BY DEF Account, Quota
    <2>2. t \in Time /\ q \in Quota
      BY <1>1, <2>1 DEF Quota
    <2>3. (Before(t) => Before(acc.cooldownUntil)) /\ (acc.cooldownUntil = Zero => t = Zero)
      BY <1>1, <2>1
    <2>4. [acc EXCEPT !.cooldownUntil = Older(@), !.quota.weeklyReset = Older(@)] = new
      BY <2>1 DEF Account
    <2> HIDE DEF t, q
    <2>5. /\ new \in Account /\ new.state = acc.state
          /\ new.activeTurns = acc.activeTurns /\ new.cooldownUntil = t
      BY <2>2 DEF Account
    <2> HIDE DEF new
    <2>6. Consistent(new)
      BY <1>2, <2>3, <2>5 DEF Consistent
    <2>. QED
      BY <2>4, <2>5, <2>6
  <1>3. Registry(accs) /\ \A a \in AccountIds : accs[a] \in Account /\ Consistent(accs[a])
    BY Fields DEF PoolInv
  <1>4. \A a \in AccountIds :
          /\ Aged(accs)[a] \in Account
          /\ Consistent(Aged(accs)[a])
          /\ Aged(accs)[a].state = accs[a].state
    BY <1>2, <1>3 DEF Aged
  <1>5. Registry(Aged(accs))
    BY <1>4 DEF Registry, Aged
  <1>. QED
    BY <1>4, <1>5, SameBindings DEF KeepsUses

LEMMA TickInv ==
  ASSUME MemoryInv, FileInv, Tick
  PROVE  MemoryInv' /\ FileInv' /\ UNCHANGED probing
PROOF
  <1>1. MemoryInv' /\ UNCHANGED probing
    BY AgedFits DEF MemoryInv, Tick
  <1>2. disk' = [accounts |-> Aged(disk.accounts), pinnedChat |-> disk.pinnedChat,
                 activeChat |-> disk.activeChat]
    <2>1. disk' = [disk EXCEPT !.accounts = Aged(disk.accounts)]
      BY DEF Tick
    <2>2. disk = [accounts |-> disk.accounts, pinnedChat |-> disk.pinnedChat,
                  activeChat |-> disk.activeChat]
      BY DEF FileInv
    <2>. QED
      BY <2>1, <2>2
  <1>3. FileInv'
    BY <1>2, AgedFits DEF FileInv
  <1>. QED
    BY <1>1, <1>3

(* A restart reads the file. *)
LEMMA RestartInv ==
  ASSUME FileInv, Restart
  PROVE  MemoryInv' /\ FileInv' /\ probing' = {}
PROOF
  BY RecoveredFits DEF FileInv, MemoryInv, Restart

-----------------------------------------------------------------------------
(* The invariant. *)

(* A file of an earlier version binds chats to accounts it has.            *)
LEMMA InitInv == Init => IInv
PROOF
  <1> SUFFICES ASSUME Init PROVE IInv
    OBVIOUS
  <1>1. NoQuota \in Quota
    BY Numbers DEF NoQuota, Quota, Fraction
  <1>2. Blank \in Account /\ Blank.state = "Absent" /\ Consistent(Blank)
    BY <1>1, Numbers DEF Blank, Account, AccountState, Consistent, Before
  <1>3. Fresh \in Account /\ Fresh.state = "Active" /\ Consistent(Fresh)
    <2>1. Fresh = [state |-> "Active", cooldownUntil |-> Zero, activeTurns |-> 0,
                   lastUsed |-> 0, quota |-> NoQuota]
      BY DEF Fresh, Blank
    <2>. QED
      BY <1>1, <2>1, Numbers DEF Account, AccountState, Consistent, Before
  <1>4. /\ Registry(accounts)
        /\ \A a \in AccountIds : Consistent(accounts[a]) /\ accounts[a].state \in {"Absent", "Active"}
    <2>1. PICK present \in SUBSET AccountIds :
            accounts = [a \in AccountIds |-> IF a \in present THEN Fresh ELSE Blank]
      BY DEF Init
    <2>. QED
      BY <1>2, <1>3, <2>1 DEF Registry
  <1>5. PICK map \in [Chats -> {a \in AccountIds : Registered(a)} \cup {NoAccount}] :
          /\ activeChat = [k \in Keys |-> IF k[1] = NoBot THEN map[k[2]] ELSE NoAccount]
          /\ pinnedChat \in {activeChat, [k \in Keys |-> NoAccount]}
    BY DEF Init
  <1>6. \A k \in Keys : k[2] \in Chats
    BY DEF Keys
  <1>7. /\ ChatMap(activeChat)
        /\ \A k \in Keys : activeChat[k] # NoAccount => Registered(activeChat[k])
    BY <1>5, <1>6 DEF ChatMap
  <1>8. /\ ChatMap(pinnedChat)
        /\ \A k \in Keys : pinnedChat[k] # NoAccount => Registered(pinnedChat[k])
    BY <1>5, <1>7 DEF ChatMap
  <1>9. MemoryInv
    BY <1>4, <1>7, <1>8 DEF MemoryInv, PoolInv, BindingsValid, ChatMap, Registered
  <1>10. FileInv /\ probing \subseteq AccountIds
    BY <1>9 DEF Init, FileInv, MemoryInv
  <1>. QED
    BY <1>9, <1>10 DEF IInv

(* Every operation keeps it. *)
LEMMA NextInv == IInv /\ [Next]_vars => IInv'
PROOF
  <1> SUFFICES ASSUME IInv, [Next]_vars PROVE IInv'
    OBVIOUS
  <1>0. MemoryInv /\ FileInv /\ probing \subseteq AccountIds
    BY DEF IInv
  <1>a. ASSUME MemoryInv', Filed, probing' \subseteq AccountIds
        PROVE  IInv'
    BY <1>0, <1>a, FileKept DEF IInv
  <1>1. CASE AcquireStep
    BY <1>0, <1>1, <1>a, AcquireInv DEF AcquireStep
  <1>2. CASE ReleaseStep
    BY <1>0, <1>2, <1>a, ReleaseInv DEF ReleaseStep
  <1>3. CASE MarkStep
    BY <1>0, <1>3, <1>a, MarkInv DEF MarkStep
  <1>4. CASE ClearStep
    BY <1>0, <1>4, <1>a, ClearInv DEF ClearStep
  <1>5. CASE FreezeStep
    BY <1>0, <1>5, <1>a, FreezeInv DEF FreezeStep
  <1>6. CASE UnfreezeStep
    BY <1>0, <1>6, <1>a, UnfreezeInv DEF UnfreezeStep
  <1>7. CASE DeleteStep
    BY <1>0, <1>7, <1>a, DeleteInv DEF DeleteStep
  <1>8. CASE PinStep
    BY <1>0, <1>8, <1>a, PinInv DEF PinStep
  <1>9. CASE UnpinStep
    BY <1>0, <1>9, <1>a, UnpinInv DEF UnpinStep
  <1>10. CASE SwitchStep
    BY <1>0, <1>10, <1>a, SwitchInv DEF SwitchStep
  <1>11. CASE IngestStep
    BY <1>0, <1>11, <1>a, IngestInv DEF IngestStep
  <1>12. CASE ProbeStep
    <2>1. PICK a \in AccountIds :
            ProbeBegin(a) \/ (\E r \in UsageAnswers : ProbeEnd(a, r)) \/ ProbeFails(a)
      BY <1>12 DEF ProbeStep
    <2>2. CASE ProbeBegin(a) \/ ProbeFails(a)
      BY <1>0, <1>a, <2>2 DEF ProbeBegin, ProbeFails, MemoryInv, Filed
    <2>3. CASE \E r \in UsageAnswers : ProbeEnd(a, r)
      BY <1>0, <1>a, <2>3, ProbeEndInv
    <2>. QED
      BY <2>1, <2>2, <2>3
  <1>13. CASE Reap
    BY <1>0, <1>13, <1>a, ReapInv
  <1>14. CASE Tick
    BY <1>0, <1>14, TickInv DEF IInv
  <1>15. CASE Restart
    BY <1>0, <1>15, RestartInv DEF IInv
  <1>16. CASE UNCHANGED vars
    BY <1>0, <1>16 DEF vars, IInv, MemoryInv, FileInv
  <1>. QED
    BY <1>1, <1>2, <1>3, <1>4, <1>5, <1>6, <1>7, <1>8, <1>9, <1>10, <1>11, <1>12, <1>13,
       <1>14, <1>15, <1>16 DEF Next, NoThaw, Routine

(* The inductive invariant holds throughout. *)
THEOREM Invariance == Spec => []IInv
PROOF
  BY InitInv, NextInv, PTL DEF Spec

(* Every variable keeps its type; in particular the number of turns of an  *)
(* account never drops below 0, whatever releases arrive late.             *)
THEOREM TypeCorrect == Spec => []TypeOK
PROOF
  <1>1. IInv => TypeOK
    BY DEF IInv, MemoryInv, FileInv, PoolInv, Registry, ChatMap, TypeOK
  <1>. QED
    BY <1>1, Invariance, PTL

(* No chat is ever assigned a frozen or deleted account, nor pinned to a   *)
(* deleted one, in memory and in the file, also when saves fail.           *)
THEOREM BindingsSafe == Spec => []NoDanglingBinding
PROOF
  <1>1. IInv => NoDanglingBinding
    BY DEF IInv, MemoryInv, FileInv, PoolInv, NoDanglingBinding
  <1>. QED
    BY <1>1, Invariance, PTL

(* The state, the turn count and the deadline of an account always agree.  *)
THEOREM FieldsSafe == Spec => []FieldsAgree
PROOF
  <1>1. IInv => FieldsAgree
    BY DEF IInv, MemoryInv, FileInv, PoolInv, FieldsAgree
  <1>. QED
    BY <1>1, Invariance, PTL

-----------------------------------------------------------------------------
(* Freezes.  A step either saves, or changes nothing an administrator      *)
(* decided, and while saves succeed the file therefore always tells a      *)
(* restart who is frozen.                                                  *)

Undecided ==
  /\ UNCHANGED <<pinnedChat, activeChat>>
  /\ \A a \in AccountIds :
       /\ (accounts'[a].state = "Frozen") <=> (accounts[a].state = "Frozen")
       /\ Registered(a) => accounts'[a].state # "Absent"

Unsaved == UNCHANGED disk /\ Undecided

(* The step leaves every frozen account frozen or deletes it. *)
LEMMA ReplacedStays ==
  ASSUME MemoryInv, NEW a \in AccountIds, NEW acc,
         accounts' = [accounts EXCEPT ![a] = acc],
         accounts[a].state = "Frozen" => acc.state \in {"Frozen", "Absent"}
  PROVE  StaysFrozen
PROOF
  <1>1. accounts \in [AccountIds -> Account]
    BY DEF MemoryInv, PoolInv, Registry
  <1>2. \A o \in AccountIds : accounts'[o] = IF o = a THEN acc ELSE accounts[o]
    BY <1>1
  <1>. QED
    BY <1>2 DEF StaysFrozen

(* The sweep, alone or before an acquisition, decides nothing. *)
LEMMA SweepUndecided ==
  ASSUME MemoryInv, NEW a \in AccountIds
  PROVE  /\ (Recovered(accounts)[a].state = "Frozen") <=> (accounts[a].state = "Frozen")
         /\ Registered(a) => Recovered(accounts)[a].state # "Absent"
PROOF
  <1>1. accounts[a] \in Account
    BY Fields DEF MemoryInv, PoolInv
  <1>2. Recovered(accounts)[a] = IF Overdue(accounts[a]) THEN Activated(accounts[a]) ELSE accounts[a]
    BY DEF Recovered
  <1>. QED
    BY <1>1, <1>2, ActivatedFits DEF Overdue, Registered

(* Who gets a turn was not frozen. *)
LEMMA AcquireStays ==
  ASSUME MemoryInv, NEW b \in Bots, NEW c \in Chats, AcquireAccount(b, c)
  PROVE  StaysFrozen /\ (SaveState \/ Unsaved)
PROOF
  <1> DEFINE accs == Recovered(accounts)
  <1>1. PoolInv(accs, pinnedChat, activeChat) /\ Registry(accs)
    BY RecoveredFits DEF MemoryInv, PoolInv
  <1>2. \A a \in AccountIds :
          /\ (accs[a].state = "Frozen") <=> (accounts[a].state = "Frozen")
          /\ Registered(a) => accs[a].state # "Absent"
    BY SweepUndecided
  <1>3. Lookup(pinnedChat, b, c) \in AccountIds \cup {NoAccount}
        /\ Lookup(activeChat, b, c) \in AccountIds \cup {NoAccount}
    BY ChatKeys DEF Lookup, MemoryInv, PoolInv, ChatMap
  <1> HIDE DEF accs
  <1>4. CASE Refuse(accs)
    BY <1>2, <1>4 DEF Refuse, StaysFrozen, Unsaved, Undecided
  <1>5. ASSUME NEW a \in AccountIds, accs[a].state # "Frozen", Grant(accs, a, b, c)
        PROVE  StaysFrozen /\ SaveState
    <2>1. Touched(accs, a) \in [AccountIds -> Account]
      BY <1>1, TouchedFits DEF Registry
    <2>2. accounts' = [Touched(accs, a) EXCEPT ![a] = Occupied(Touched(accs, a)[a])]
      BY <1>5 DEF Grant
    <2>3. \A o \in AccountIds : o # a => accounts'[o].state = accs[o].state
      BY <1>1, <2>1, <2>2, TouchedFits
    <2>. QED
      BY <1>2, <1>5, <2>3 DEF StaysFrozen, Grant
  <1>6. CASE \E a \in AccountIds : accs[a].state # "Frozen" /\ Grant(accs, a, b, c)
    BY <1>5, <1>6
  <1>7. ASSUME NEW p \in AccountIds, AcquirePinned(accs, p, b, c)
        PROVE  Refuse(accs) \/ \E a \in AccountIds : accs[a].state # "Frozen" /\ Grant(accs, a, b, c)
    BY <1>7 DEF AcquirePinned
  <1>8. ASSUME AcquireFromPool(accs, b, c)
        PROVE  Refuse(accs) \/ \E a \in AccountIds : accs[a].state # "Frozen" /\ Grant(accs, a, b, c)
    <2>1. \A a \in Selectable(accs) : a \in AccountIds /\ accs[a].state # "Frozen"
      BY DEF Selectable, Candidates
    <2>. QED
      BY <1>3, <1>8, <2>1 DEF AcquireFromPool
  <1>9. \/ AcquireFromPool(accs, b, c)
        \/ \E p \in AccountIds : AcquirePinned(accs, p, b, c)
    BY <1>3 DEF AcquireAccount, accs
  <1>. QED
    BY <1>4, <1>6, <1>7, <1>8, <1>9

(* No step but an unfreeze or a login thaws an account; a restart reads    *)
(* what the file says.                                                     *)
LEMMA RoutineStays ==
  ASSUME MemoryInv, Durable, NoThaw
  PROVE  StaysFrozen
PROOF
  <1>1. \A a \in AccountIds : accounts[a] \in Account /\ Consistent(accounts[a])
    BY Fields DEF MemoryInv, PoolInv
  <1>2. CASE AcquireStep
    BY <1>2, AcquireStays DEF AcquireStep
  <1>3. CASE ReleaseStep
    <2>1. PICK a \in AccountIds : ReleaseAccount(a)
      BY <1>3 DEF ReleaseStep
    <2>2. accounts[a].state = "Frozen" => Released(accounts[a]).state = "Frozen"
      <3> DEFINE turns == OneLess(accounts[a].activeTurns)
                 state == Freed(accounts[a].state, OneLess(accounts[a].activeTurns))
      <3>1. accounts[a].state = "Frozen" => state = "Frozen"
        BY DEF Freed
      <3>2. Released(accounts[a]) = [accounts[a] EXCEPT !.activeTurns = turns, !.state = state]
        BY <1>1 DEF Released, Account
      <3> HIDE DEF turns, state
      <3>3. [accounts[a] EXCEPT !.activeTurns = turns, !.state = state].state = state
        BY <1>1 DEF Account
      <3>. QED
        BY <3>1, <3>2, <3>3
    <2>. QED
      BY <2>1, <2>2, ReplacedStays DEF ReleaseAccount
  <1>4. CASE MarkStep
    BY <1>4, ReplacedStays DEF MarkStep, MarkCooldown
  <1>5. CASE ClearStep
    BY <1>5, ReplacedStays DEF ClearStep, ClearCooldown
  <1>6. CASE FreezeStep
    BY <1>1, <1>6, SuspendedFits, ReplacedStays DEF FreezeStep, FreezeAccount
  <1>7. CASE DeleteStep
    <2>1. PICK a \in AccountIds : DeleteAccount(a)
      BY <1>7 DEF DeleteStep
    <2>2. [Blank EXCEPT !.lastUsed = accounts[a].lastUsed].state = "Absent"
      BY DEF Blank
    <2>. QED
      BY <2>1, <2>2, ReplacedStays DEF DeleteAccount
  <1>8. CASE PinStep \/ UnpinStep \/ SwitchStep
    BY <1>8 DEF PinStep, UnpinStep, SwitchStep, PinAccount, UnpinAccount, SwitchAccount, StaysFrozen
  <1>9. CASE ProbeStep
    <2>1. PICK a \in AccountIds :
            ProbeBegin(a) \/ (\E r \in UsageAnswers : ProbeEnd(a, r)) \/ ProbeFails(a)
      BY <1>9 DEF ProbeStep
    <2>2. CASE ProbeBegin(a) \/ ProbeFails(a)
      BY <2>2 DEF ProbeBegin, ProbeFails, StaysFrozen
    <2>3. ASSUME NEW report \in UsageAnswers, ProbeEnd(a, report)
          PROVE  StaysFrozen
      <3> DEFINE r == Parsed(report)
                 acc == [accounts[a] EXCEPT !.quota = StoredQuota(r)]
      <3>1. acc.state = accounts[a].state
        BY <1>1 DEF Account
      <3>2. accounts' = [accounts EXCEPT ![a] = IF acc.state = "Frozen" THEN acc ELSE Judged(acc, r)]
        BY <2>3 DEF ProbeEnd, Verdict
      <3> HIDE DEF acc, r
      <3>. QED
        BY <3>1, <3>2, ReplacedStays
    <2>. QED
      BY <2>1, <2>2, <2>3
  <1>10. CASE Reap
    BY <1>10, SweepUndecided DEF Reap, StaysFrozen
  <1>11. CASE Tick
    <2>1. \A a \in AccountIds : Aged(accounts)[a].state = accounts[a].state
      BY <1>1 DEF Aged, Account
    <2>. QED
      BY <1>11, <2>1 DEF Tick, StaysFrozen
  <1>12. CASE Restart
    <2>1. \A a \in AccountIds :
            accounts[a].state = "Frozen" => Recovered(disk.accounts)[a] = disk.accounts[a]
      BY DEF Durable, Recovered, Overdue
    <2>. QED
      BY <1>12, <2>1 DEF Restart, StaysFrozen, Durable
  <1>. QED
    BY <1>2, <1>3, <1>4, <1>5, <1>6, <1>7, <1>8, <1>9, <1>10, <1>11, <1>12 DEF NoThaw, Routine

(* Every step but the clock and a restart saves, or decides nothing. *)
LEMMA SavedOrUndecided ==
  ASSUME MemoryInv, [Next]_vars, ~Tick, ~Restart
  PROVE  SaveState \/ Unsaved
PROOF
  <1>1. CASE AcquireStep
    BY <1>1, AcquireStays DEF AcquireStep
  <1>2. CASE \/ ReleaseStep \/ MarkStep \/ ClearStep \/ FreezeStep \/ UnfreezeStep
             \/ DeleteStep \/ PinStep \/ UnpinStep \/ SwitchStep \/ Reap
    BY <1>2 DEF ReleaseStep, MarkStep, ClearStep, FreezeStep, UnfreezeStep, DeleteStep,
                PinStep, UnpinStep, SwitchStep, ReleaseAccount, MarkCooldown, ClearCooldown,
                FreezeAccount, UnfreezeAccount, DeleteAccount, PinAccount, UnpinAccount,
                SwitchAccount, Reap
  <1>3. CASE ProbeStep
    BY <1>3 DEF ProbeStep, ProbeBegin, ProbeEnd, ProbeFails, Unsaved, Undecided, Registered
  <1>4. CASE IngestStep
    <2>1. PICK a \in AccountIds : IngestCurrentAccount(a) \/ IngestFails(a)
      BY <1>4 DEF IngestStep
    <2>2. CASE IngestCurrentAccount(a)
      BY <2>2 DEF IngestCurrentAccount
    <2>3. CASE IngestFails(a)
      <3> DEFINE joined == [accounts EXCEPT ![a] = [accounts[a] EXCEPT !.state = "Active"]]
      <3>1. accounts \in [AccountIds -> Account] /\ accounts[a].state = "Absent"
        BY <2>3 DEF IngestFails, Registered, MemoryInv, PoolInv, Registry
      <3>2. accounts' = Touched(joined, a)
        BY <2>3 DEF IngestFails, Enrolled, Registered
      <3>3. [accounts[a] EXCEPT !.state = "Active"] \in Account
            /\ [accounts[a] EXCEPT !.state = "Active"].state = "Active"
        BY <3>1 DEF Account, AccountState
      <3>4. Registry(joined) /\ \A o \in AccountIds :
              joined[o].state = IF o = a THEN "Active" ELSE accounts[o].state
        BY <3>1, <3>3 DEF Registry
      <3> HIDE DEF joined
      <3>5. \A o \in AccountIds : accounts'[o].state = IF o = a THEN "Active" ELSE accounts[o].state
        BY <3>2, <3>4, TouchedFits
      <3>. QED
        BY <2>3, <3>1, <3>5 DEF IngestFails, Unsaved, Undecided, Registered
    <2>. QED
      BY <2>1, <2>2, <2>3
  <1>5. CASE UNCHANGED vars
    BY <1>5 DEF vars, Unsaved, Undecided, Registered
  <1>. QED
    BY <1>1, <1>2, <1>3, <1>4, <1>5 DEF Next, NoThaw, Routine

LEMMA DurableNext ==
  ASSUME SaveOutcomes = {TRUE}, IInv, IInv', Durable, [Next]_vars
  PROVE  Durable'
PROOF
  <1>1. MemoryInv /\ FileInv /\ Registry(accounts) /\ Registry(disk.accounts)
    BY DEF IInv, MemoryInv, FileInv, PoolInv
  <1>2. CASE SaveState
    <2>1. disk' = [accounts |-> accounts', pinnedChat |-> pinnedChat', activeChat |-> activeChat']
      BY <1>2 DEF SaveState
    <2>. QED
      BY <2>1 DEF Durable, Registered
  <1>3. CASE Unsaved
    BY <1>3 DEF Unsaved, Undecided, Durable, Registered
  <1>4. CASE Tick
    <2>1. /\ accounts' = Aged(accounts) /\ UNCHANGED <<pinnedChat, activeChat>>
          /\ disk' = [disk EXCEPT !.accounts = Aged(disk.accounts)]
      BY <1>4 DEF Tick
    <2>2. disk = [accounts |-> disk.accounts, pinnedChat |-> disk.pinnedChat,
                  activeChat |-> disk.activeChat]
      BY <1>1 DEF FileInv
    <2>3. /\ disk'.accounts = Aged(disk.accounts)
          /\ disk'.pinnedChat = disk.pinnedChat /\ disk'.activeChat = disk.activeChat
      BY <2>1, <2>2
    <2>4. \A a \in AccountIds : /\ Aged(accounts)[a].state = accounts[a].state
                                /\ Aged(disk.accounts)[a].state = disk.accounts[a].state
      BY <1>1, Fields DEF Aged, Account
    <2>. QED
      BY <2>1, <2>3, <2>4 DEF Durable, Registered
  <1>5. CASE Restart
    <2>1. \A a \in AccountIds :
            /\ (Recovered(disk.accounts)[a].state = "Frozen") <=> (disk.accounts[a].state = "Frozen")
            /\ disk.accounts[a].state # "Absent" => Recovered(disk.accounts)[a].state # "Absent"
      <3>1. \A a \in AccountIds : disk.accounts[a] \in Account
        BY <1>1, Fields
      <3>2. \A a \in AccountIds : Recovered(disk.accounts)[a] =
              IF Overdue(disk.accounts[a]) THEN Activated(disk.accounts[a]) ELSE disk.accounts[a]
        BY DEF Recovered
      <3>. QED
        BY <3>1, <3>2, ActivatedFits DEF Overdue
    <2>. QED
      BY <1>5, <2>1 DEF Restart, Durable, Registered
  <1>. QED
    BY <1>1, <1>2, <1>3, <1>4, <1>5, SavedOrUndecided

(* While the file can be written, a crash forgets no freeze, no deletion   *)
(* and no binding of a chat.                                               *)
THEOREM SavesAreDurable ==
  ASSUME SaveOutcomes = {TRUE}
  PROVE  Spec => []Durable
PROOF
  <1>1. Init => Durable
    BY DEF Init, Durable, Registered
  <1>2. IInv /\ IInv' /\ Durable /\ [Next]_vars => Durable'
    BY DurableNext
  <1>. QED
    BY <1>1, <1>2, Invariance, PTL DEF Spec

(* Administrative immunity: while the file can be written, nothing but an  *)
(* unfreeze or a login of its owner puts a frozen account back to work.    *)
THEOREM FreezesHold ==
  ASSUME SaveOutcomes = {TRUE}
  PROVE  Spec => FreezeHolds
PROOF
  <1>1. IInv /\ Durable /\ [Next]_vars => [~StaysFrozen => ~NoThaw]_vars
    BY RoutineStays DEF IInv
  <1>. QED
    BY <1>1, Invariance, SavesAreDurable, PTL DEF Spec, FreezeHolds
=============================================================================
