------------------------- MODULE UpdateIntake_proofs -------------------------
(***************************************************************************)
(* Proofs about UpdateIntake, for any bots, chats and updates, any sizes   *)
(* of the buffers and any number of crashes and webhooks.                  *)
(*                                                                         *)
(* One inductive invariant carries all of them.  The offset of a poller is *)
(* the frontier: what an administrator sent before it has left Telegram's  *)
(* care and must be found further down the way (KeepInv), what stands in a *)
(* channel, a queue or a handler is older, what is left of the batch is    *)
(* newer (OrderInv), and only what has passed the frontier in this life of *)
(* the process can have been begun in it (OnceInv).                        *)
(***************************************************************************)
EXTENDS UpdateIntake, SequenceTheorems, TLAPS

(* What waits at a chat or is being handled by its worker. *)
AtChat(c) == ToSet(queue[c]) \cup ({serving[c]} \ {Nobody})

(* Handled, lost, or in memory further down than the batch. *)
Safe(u) ==
  \/ u \in handled \cup lost \cup loose
  \/ \E b \in Bots : u \in ToSet(channel[b])
  \/ \E c \in Chats : u \in AtChat(c)

WorkerInv ==
  \A c \in Chats : /\ serving[c] # Nobody <=> worker[c] = "busy"
                   /\ queue[c] # <<>> => worker[c] # "none"

(* Updates arrive in order, and the poller is never ahead of them. *)
ArrivalInv ==
  /\ \A u \in arrived : \A o \in Of(BotOf[u]) : o < u => o \in arrived
  /\ \A b \in Bots : /\ ToSet(batch[b]) \subseteq arrived
                     /\ offset[b] = 0 \/ offset[b] - 1 \in arrived \cap Of(b)

(* What Telegram keeps of a bot is before the offset, in the batch, or     *)
(* newer than all of the batch.                                            *)
KeepInv ==
  /\ \A u \in arrived \cap Allowed : u \in telegram \/ Safe(u)
  /\ \A u \in arrived \cap Allowed : u < offset[BotOf[u]] => Safe(u)
  /\ \A b \in Bots : \A u \in telegram \cap Of(b) :
       u < offset[b] \/ u \in ToSet(batch[b]) \/ \A o \in ToSet(batch[b]) : o < u

OrderInv ==
  /\ \A b \in Bots :
       /\ Ascending(batch[b], Of(b)) /\ Ascending(channel[b], Of(b))
       /\ \A u \in ToSet(batch[b]) : offset[b] <= u
       /\ \A u \in ToSet(channel[b]) : u < offset[b]
  /\ \A c \in Chats :
       /\ \A b \in Bots : Ascending(queue[c], Of(b))
       /\ \A u \in AtChat(c) : u < offset[BotOf[u]]
       /\ serving[c] # Nobody =>
            \A v \in ToSet(queue[c]) : BotOf[v] = BotOf[serving[c]] => serving[c] < v
       /\ \A u \in AtChat(c) : \A v \in ToSet(channel[BotOf[u]]) : ChatOf[v] = c => u < v

(* Still to be begun in this life of the process. *)
Ahead(u) ==
  \/ offset[BotOf[u]] <= u
  \/ u \in ToSet(channel[BotOf[u]])
  \/ \E c \in Chats : u \in ToSet(queue[c])

OnceInv ==
  \A u \in Updates : begun[u] <= 1 + crashes /\ (Ahead(u) => begun[u] <= crashes)

IntakeInv == TypeOK /\ WorkerInv /\ ArrivalInv /\ KeepInv /\ OrderInv /\ OnceInv

-----------------------------------------------------------------------------
(* Sequences in order. *)

LEMMA SetOfHeadAndTail ==
  ASSUME NEW S, NEW s \in Seq(S), s # <<>>
  PROVE  /\ Head(s) \in S /\ Tail(s) \in Seq(S) /\ Len(Tail(s)) = Len(s) - 1
         /\ ToSet(s) = {Head(s)} \cup ToSet(Tail(s))
PROOF
  <1>1. /\ Head(s) = s[1] /\ Tail(s) \in Seq(S) /\ Len(Tail(s)) = Len(s) - 1
        /\ Len(s) \in Nat \ {0} /\ DOMAIN s = 1 .. Len(s)
        /\ \A i \in 1 .. Len(s) - 1 : Tail(s)[i] = s[i + 1]
        /\ DOMAIN Tail(s) = 1 .. Len(s) - 1
    BY HeadTailProperties, LenProperties, EmptySeq
  <1>2. ASSUME NEW i \in 1 .. Len(s), i # 1
        PROVE  i - 1 \in 1 .. Len(s) - 1 /\ s[i] = Tail(s)[i - 1]
    <2>1. i - 1 \in 1 .. Len(s) - 1 /\ (i - 1) + 1 = i
      BY <1>1, <1>2
    <2>. QED
      BY <1>1, <2>1
  <1>3. \A i \in 1 .. Len(s) : s[i] \in {Head(s)} \cup ToSet(Tail(s))
    BY <1>1, <1>2 DEF ToSet
  <1>4. \A i \in 1 .. Len(s) - 1 : Tail(s)[i] \in ToSet(s)
    BY <1>1 DEF ToSet
  <1>5. Head(s) \in ToSet(s) /\ Head(s) \in S
    BY <1>1, ElementOfSeq DEF ToSet
  <1>. QED
    BY <1>1, <1>3, <1>4, <1>5 DEF ToSet

LEMMA TailAscends ==
  ASSUME NEW S \in SUBSET Nat, NEW s \in Seq(S), s # <<>>, NEW H, Ascending(s, H)
  PROVE  /\ Ascending(Tail(s), H)
         /\ Head(s) \in H => \A u \in ToSet(Tail(s)) \cap H : Head(s) < u
PROOF
  <1>1. /\ Head(s) = s[1]
        /\ Len(s) \in Nat \ {0} /\ DOMAIN s = 1 .. Len(s)
        /\ \A i \in 1 .. Len(s) - 1 : Tail(s)[i] = s[i + 1]
        /\ DOMAIN Tail(s) = 1 .. Len(s) - 1
    BY HeadTailProperties, LenProperties, EmptySeq
  <1>. QED
    BY <1>1 DEF Ascending, ToSet

LEMMA SetOfAppend ==
  ASSUME NEW S, NEW s \in Seq(S), NEW u \in S
  PROVE  /\ Append(s, u) \in Seq(S) /\ Len(Append(s, u)) = Len(s) + 1
         /\ ToSet(Append(s, u)) = ToSet(s) \cup {u}
PROOF
  <1>1. /\ Append(s, u) \in Seq(S) /\ Len(Append(s, u)) = Len(s) + 1
        /\ \A i \in 1 .. Len(s) : Append(s, u)[i] = s[i]
        /\ Append(s, u)[Len(s) + 1] = u
        /\ DOMAIN Append(s, u) = 1 .. Len(s) + 1
        /\ Len(s) \in Nat /\ DOMAIN s = 1 .. Len(s)
    BY AppendProperties, LenProperties
  <1>2. \A i \in 1 .. Len(s) + 1 : i = Len(s) + 1 \/ i \in 1 .. Len(s)
    BY <1>1
  <1>3. 1 .. Len(s) \subseteq 1 .. Len(s) + 1 /\ Len(s) + 1 \in 1 .. Len(s) + 1
    BY <1>1
  <1>. QED
    BY <1>1, <1>2, <1>3 DEF ToSet

LEMMA AppendAscends ==
  ASSUME NEW S \in SUBSET Nat, NEW s \in Seq(S), NEW u \in S, NEW H, Ascending(s, H),
         u \in H => \A v \in ToSet(s) \cap H : v < u
  PROVE  Ascending(Append(s, u), H)
PROOF
  <1>1. /\ \A i \in 1 .. Len(s) : Append(s, u)[i] = s[i]
        /\ Append(s, u)[Len(s) + 1] = u
        /\ DOMAIN Append(s, u) = 1 .. Len(s) + 1
        /\ Len(s) \in Nat /\ DOMAIN s = 1 .. Len(s)
    BY AppendProperties, LenProperties
  <1> DEFINE t == Append(s, u)
  <1>2. SUFFICES ASSUME NEW i \in 1 .. Len(s) + 1, NEW j \in 1 .. Len(s) + 1, i < j,
                        {t[i], t[j]} \subseteq H
                 PROVE  t[i] < t[j]
    BY <1>1 DEF Ascending
  <1>3. i \in 1 .. Len(s) /\ t[i] = s[i] /\ s[i] \in ToSet(s)
    BY <1>1, <1>2 DEF ToSet
  <1>4. CASE j = Len(s) + 1
    BY <1>1, <1>2, <1>3, <1>4
  <1>5. CASE j \in 1 .. Len(s)
    BY <1>1, <1>2, <1>3, <1>5 DEF Ascending
  <1>. QED
    BY <1>1, <1>4, <1>5

LEMMA ConcatAscends ==
  ASSUME NEW S \in SUBSET Nat, NEW s \in Seq(S), NEW t \in Seq(S), NEW H,
         Ascending(s, H), Ascending(t, H),
         \A u \in ToSet(s) \cap H, v \in ToSet(t) \cap H : u < v
  PROVE  /\ s \o t \in Seq(S) /\ ToSet(s \o t) = ToSet(s) \cup ToSet(t)
         /\ Ascending(s \o t, H)
PROOF
  <1>1. /\ s \o t \in Seq(S) /\ DOMAIN (s \o t) = 1 .. Len(s) + Len(t)
        /\ \A i \in 1 .. Len(s) : (s \o t)[i] = s[i]
        /\ \A i \in 1 .. Len(t) : (s \o t)[Len(s) + i] = t[i]
        /\ Len(s) \in Nat /\ Len(t) \in Nat
        /\ DOMAIN s = 1 .. Len(s) /\ DOMAIN t = 1 .. Len(t)
    BY ConcatProperties, LenProperties
  <1> DEFINE r == s \o t
             n == Len(s)
             m == Len(t)
  <1>2. ASSUME NEW i \in 1 .. n + m
        PROVE  \/ i \in 1 .. n /\ r[i] = s[i] /\ r[i] \in ToSet(s)
               \/ i > n /\ i - n \in 1 .. m /\ r[i] = t[i - n] /\ r[i] \in ToSet(t)
    <2>1. CASE i <= n
      BY <1>1, <2>1 DEF ToSet
    <2>2. CASE i > n
      <3>1. i - n \in 1 .. m /\ n + (i - n) = i
        BY <1>1, <2>2
      <3>. QED
        BY <1>1, <2>2, <3>1 DEF ToSet
    <2>. QED
      BY <1>1, <2>1, <2>2
  <1>3. /\ \A i \in 1 .. n : s[i] \in ToSet(r)
        /\ \A i \in 1 .. m : t[i] \in ToSet(r)
    <2>1. \A i \in 1 .. n : i \in 1 .. n + m
      BY <1>1
    <2>2. \A i \in 1 .. m : n + i \in 1 .. n + m
      BY <1>1
    <2>. QED
      BY <1>1, <2>1, <2>2 DEF ToSet
  <1>4. ToSet(r) = ToSet(s) \cup ToSet(t)
    BY <1>1, <1>2, <1>3 DEF ToSet
  <1>5. ASSUME NEW i \in 1 .. n + m, NEW j \in 1 .. n + m, i < j, {r[i], r[j]} \subseteq H
        PROVE  r[i] < r[j]
    <2>1. CASE j <= n
      <3>1. i \in 1 .. n /\ j \in 1 .. n
        BY <1>1, <1>5, <2>1
      <3>. QED
        BY <1>1, <1>5, <3>1 DEF Ascending
    <2>2. CASE i <= n /\ n < j
      <3>1. i \in 1 .. n /\ ~(i > n) /\ j \notin 1 .. n
        BY <1>1, <1>5, <2>2
      <3>2. r[i] \in ToSet(s) \cap H /\ r[j] \in ToSet(t) \cap H
        BY <1>2, <1>5, <3>1
      <3>. QED
        BY <3>2
    <2>3. CASE n < i
      <3>1. i \notin 1 .. n /\ j \notin 1 .. n
        BY <1>1, <1>5, <2>3
      <3>2. /\ i - n \in DOMAIN t /\ j - n \in DOMAIN t /\ i - n < j - n
            /\ r[i] = t[i - n] /\ r[j] = t[j - n]
        BY <1>1, <1>2, <1>5, <3>1
      <3>. HIDE DEF r, n
      <3>. QED
        BY <1>5, <3>2 DEF Ascending
    <2>. QED
      BY <1>1, <2>1, <2>2, <2>3
  <1>. QED
    BY <1>1, <1>4, <1>5 DEF Ascending

LEMMA FewerAscend ==
  ASSUME NEW s, NEW H, NEW G, G \subseteq H, Ascending(s, H)
  PROVE  Ascending(s, G)
PROOF
  BY DEF Ascending

LEMMA EmptyAscends ==
  ASSUME NEW H
  PROVE  Ascending(<<>>, H) /\ ToSet(<<>>) = {}
PROOF
  BY DEF Ascending, ToSet

LEMMA OneAscends ==
  ASSUME NEW H, NEW u
  PROVE  Ascending(<<u>>, H) /\ ToSet(<<u>>) = {u}
PROOF
  BY DEF Ascending, ToSet

-----------------------------------------------------------------------------
(* The invariant. *)

(* Updates are numbers, and a chat is never NoChat. *)
LEMMA Numbers == Updates \subseteq Nat /\ Nobody \notin Updates
PROOF
  BY IntakeAssumption DEF IntakeAssumption

(* The shape of what is waiting, in one place for the steps below. *)
LEMMA WaitingTyped ==
  ASSUME TypeOK
  PROVE  /\ \A b \in Bots : /\ batch[b] \in Seq(Updates) /\ channel[b] \in Seq(Updates)
                            /\ offset[b] \in Nat
                            /\ ToSet(batch[b]) \cup ToSet(channel[b]) \subseteq Of(b)
         /\ \A c \in Chats : /\ queue[c] \in Seq(Updates)
                             /\ ToSet(queue[c]) \subseteq {u \in Updates : ChatOf[u] = c}
                             /\ AtChat(c) \subseteq Updates
         /\ \A u \in Updates : BotOf[u] \in Bots /\ u \in Of(BotOf[u])
         /\ \A b \in Bots : Of(b) \subseteq Updates
PROOF
  BY IntakeAssumption DEF IntakeAssumption, TypeOK, AtChat, Of

LEMMA InitInv == Init => IntakeInv
PROOF
  <1> SUFFICES ASSUME Init PROVE IntakeInv
    OBVIOUS
  <1>1. /\ \A b \in Bots : batch[b] = <<>> /\ channel[b] = <<>> /\ offset[b] = 0
        /\ \A c \in Chats : queue[c] = <<>> /\ serving[c] = Nobody /\ worker[c] = "none"
        /\ arrived = {} /\ telegram = {}
    BY DEF Init
  <1>2. TypeOK
    BY IntakeAssumption, EmptySeq, EmptyAscends DEF Init, TypeOK, IntakeAssumption
  <1>3. WorkerInv
    BY <1>1 DEF WorkerInv
  <1>4. ArrivalInv /\ KeepInv
    BY <1>1, EmptyAscends DEF ArrivalInv, KeepInv
  <1>5. OrderInv
    BY <1>1, EmptyAscends DEF OrderInv, AtChat
  <1>6. OnceInv
    BY DEF OnceInv, Init
  <1>. QED
    BY <1>2, <1>3, <1>4, <1>5, <1>6 DEF IntakeInv

(* The next update of a bot is newer than all the poller has met. *)
LEMMA ArriveKeeps ==
  ASSUME IntakeInv, NEW u \in Updates, Arrive(u)
  PROVE  IntakeInv'
PROOF
  <1>1. /\ arrived' = arrived \cup {u} /\ telegram' = telegram \cup {u}
        /\ u \notin arrived /\ \A o \in Of(BotOf[u]) : o < u => o \in arrived
        /\ UNCHANGED <<hook, hooks, offset, batch, channel, queue, worker, serving, loose,
                       begun, handled, lost, crashes>>
    BY DEF Arrive, pollVars, chatVars, history
  <1>2. TypeOK'
    BY <1>1 DEF IntakeInv, TypeOK
  <1>3. WorkerInv' /\ OrderInv' /\ OnceInv'
    BY <1>1 DEF IntakeInv, WorkerInv, OrderInv, OnceInv, AtChat, Ahead
  <1>4. ArrivalInv'
    <2>1. \A v \in arrived' : \A o \in Of(BotOf[v]) : o < v => o \in arrived'
      BY <1>1 DEF IntakeInv, ArrivalInv
    <2>2. \A b \in Bots : /\ ToSet(batch'[b]) \subseteq arrived'
                          /\ offset'[b] = 0 \/ offset'[b] - 1 \in arrived' \cap Of(b)
      BY <1>1 DEF IntakeInv, ArrivalInv
    <2>. QED
      BY <2>1, <2>2 DEF ArrivalInv
  <1>5. \A v \in Updates : Safe(v) => Safe(v)'
    BY <1>1 DEF Safe, AtChat
  <1>6. ~ (u < offset[BotOf[u]])
    <2>1. /\ offset[BotOf[u]] \in Nat /\ u \in Nat
          /\ \A o \in arrived \cap Of(BotOf[u]) : o \in Nat /\ (u = o \/ u < o => u \in arrived)
      BY Numbers, WaitingTyped, <1>1 DEF IntakeInv, ArrivalInv, TypeOK, Of
    <2>2. offset[BotOf[u]] = 0 \/ offset[BotOf[u]] - 1 \in arrived \cap Of(BotOf[u])
      BY WaitingTyped DEF IntakeInv, ArrivalInv
    <2>. QED
      BY <1>1, <2>1, <2>2
  <1>7. KeepInv'
    <2>1. \A v \in arrived' \cap Allowed : v \in telegram' \/ Safe(v)'
      BY <1>1, <1>5 DEF IntakeInv, KeepInv, TypeOK
    <2>2. \A v \in arrived' \cap Allowed : v < offset'[BotOf[v]] => Safe(v)'
      BY <1>1, <1>5, <1>6 DEF IntakeInv, KeepInv, TypeOK
    <2>3. ASSUME NEW b \in Bots, NEW v \in telegram' \cap Of(b)
          PROVE  v < offset[b] \/ v \in ToSet(batch[b]) \/ \A o \in ToSet(batch[b]) : o < v
      <3>1. CASE v \in telegram
        BY <2>3, <3>1 DEF IntakeInv, KeepInv
      <3>2. CASE v = u
        <4>1. \A o \in ToSet(batch[b]) : o \in arrived \cap Of(b) /\ o \in Nat
          BY WaitingTyped, Numbers DEF IntakeInv, ArrivalInv
        <4>2. u \in Nat /\ BotOf[u] = b /\ u \in Of(b)
          BY <2>3, <3>2, Numbers DEF Of
        <4>3. \A o \in ToSet(batch[b]) : BotOf[o] = b /\ ~(u < o) /\ u # o
          BY <1>1, <4>1, <4>2 DEF IntakeInv, ArrivalInv, Of
        <4>. QED
          BY <3>2, <4>1, <4>2, <4>3
      <3>. QED
        BY <1>1, <2>3, <3>1, <3>2
    <2>. QED
      BY <1>1, <2>1, <2>2, <2>3 DEF KeepInv
  <1>. QED
    BY <1>2, <1>3, <1>4, <1>7 DEF IntakeInv

LEMMA HijackKeeps ==
  ASSUME IntakeInv, NEW u \in Updates, Hijack(u)
  PROVE  IntakeInv'
PROOF
  <1>1. /\ telegram' = telegram \ {u} /\ lost' = lost \cup {u}
        /\ UNCHANGED <<arrived, hook, hooks, offset, batch, channel, queue, worker, serving,
                       loose, begun, handled, crashes>>
    BY DEF Hijack, pollVars, chatVars
  <1>2. TypeOK'
    BY <1>1 DEF IntakeInv, TypeOK
  <1>3. WorkerInv' /\ OrderInv' /\ OnceInv'
    BY <1>1 DEF IntakeInv, WorkerInv, OrderInv, OnceInv, AtChat, Ahead
  <1>4. ArrivalInv'
    BY <1>1 DEF IntakeInv, ArrivalInv
  <1>5. \A v \in Updates : Safe(v) => Safe(v)'
    BY <1>1 DEF Safe, AtChat
  <1>6. Safe(u)'
    BY <1>1 DEF Safe
  <1>7. KeepInv'
    BY <1>1, <1>5, <1>6 DEF IntakeInv, KeepInv, TypeOK
  <1>. QED
    BY <1>2, <1>3, <1>4, <1>7 DEF IntakeInv

(* A request makes Telegram forget what is before the offset, and what is  *)
(* there is safe.                                                          *)
LEMMA ForgettingIsSafe ==
  ASSUME IntakeInv, NEW b \in Bots, NEW u \in arrived \cap Allowed
  PROVE  u \in Kept(b) \/ Safe(u)
PROOF
  BY DEF IntakeInv, KeepInv, Kept, Of

LEMMA PollFailsKeeps ==
  ASSUME IntakeInv, NEW b \in Bots, PollFails(b)
  PROVE  IntakeInv'
PROOF
  <1>1. /\ telegram' = Kept(b)
        /\ UNCHANGED <<arrived, hook, hooks, offset, batch, channel, queue, worker, serving,
                       loose, begun, handled, lost, crashes>>
    BY DEF PollFails, pollVars, chatVars, history
  <1>2. TypeOK' /\ telegram' \subseteq telegram
    BY <1>1 DEF IntakeInv, TypeOK, Kept
  <1>3. WorkerInv' /\ OrderInv' /\ OnceInv'
    BY <1>1 DEF IntakeInv, WorkerInv, OrderInv, OnceInv, AtChat, Ahead
  <1>4. ArrivalInv'
    BY <1>1 DEF IntakeInv, ArrivalInv
  <1>5. \A v \in Updates : Safe(v) => Safe(v)'
    BY <1>1 DEF Safe, AtChat
  <1>6. \A v \in arrived \cap Allowed : v \in Updates /\ (v \in telegram' \/ Safe(v))
    BY <1>1, ForgettingIsSafe DEF IntakeInv, TypeOK
  <1>7. KeepInv'
    BY <1>1, <1>2, <1>5, <1>6 DEF IntakeInv, KeepInv
  <1>. QED
    BY <1>2, <1>3, <1>4, <1>7 DEF IntakeInv

(* The reply begins at the offset and leaves nothing older behind. *)
LEMMA PollKeeps ==
  ASSUME IntakeInv, NEW b \in Bots, Poll(b)
  PROVE  IntakeInv'
PROOF
  <1>1. PICK reply \in Reply(b) : batch' = [batch EXCEPT ![b] = reply]
    BY DEF Poll
  <1>2. /\ telegram' = Kept(b) /\ batch[b] = <<>>
        /\ UNCHANGED <<arrived, hook, hooks, offset, channel, queue, worker, serving,
                       loose, begun, handled, lost, crashes>>
    BY DEF Poll, chatVars, history
  <1>3. /\ reply \in Seq(Updates) /\ Len(reply) <= BatchSize
        /\ ToSet(reply) \subseteq Kept(b) \cap Of(b)
        /\ Ascending(reply, Of(b))
        /\ \A v \in (Kept(b) \cap Of(b)) \ ToSet(reply) : \A o \in ToSet(reply) : o < v
    <2>1. PICK m \in 0 .. BatchSize : reply \in [1 .. m -> Kept(b) \cap Of(b)]
      BY <1>1 DEF Reply, SeqOf
    <2>2. BatchSize \in Nat
      BY IntakeAssumption DEF IntakeAssumption
    <2>3. reply \in Seq(Kept(b) \cap Of(b)) /\ Len(reply) = m
      BY <2>1, <2>2, IsASeq
    <2>4. reply \in Seq(Updates)
      BY <2>3, SeqMonotonic DEF Of
    <2>5. ToSet(reply) \subseteq Kept(b) \cap Of(b)
      BY <2>1 DEF ToSet
    <2>6. Ascending(reply, Kept(b) \cap Of(b))
      BY <1>1 DEF Reply
    <2>7. Ascending(reply, Of(b))
      BY <2>5, <2>6 DEF Ascending, ToSet
    <2>8. \A v \in (Kept(b) \cap Of(b)) \ ToSet(reply) : \A o \in ToSet(reply) : o < v
      BY <1>1 DEF Reply
    <2>. QED
      BY <2>1, <2>2, <2>3, <2>4, <2>5, <2>7, <2>8
  <1>4. /\ batch'[b] = reply /\ \A d \in Bots : d # b => batch'[d] = batch[d]
        /\ batch' \in [Bots -> Seq(Updates)]
    BY <1>1, <1>3 DEF IntakeInv, TypeOK
  <1>5. Kept(b) \subseteq telegram /\ \A u \in Kept(b) \cap Of(b) : offset[b] <= u
    <2>1. offset[b] \in Nat /\ \A u \in Of(b) : u \in Nat
      BY Numbers, WaitingTyped DEF IntakeInv
    <2>. QED
      BY <2>1 DEF Kept
  <1>6. TypeOK'
    <2>1. \A d \in Bots : /\ ToSet(batch'[d]) \cup ToSet(channel'[d]) \subseteq Of(d)
                          /\ Len(batch'[d]) <= BatchSize /\ Len(channel'[d]) <= Buffer
      BY <1>2, <1>3, <1>4 DEF IntakeInv, TypeOK
    <2>. QED
      BY <1>2, <1>4, <1>5, <2>1 DEF IntakeInv, TypeOK
  <1>7. WorkerInv' /\ OnceInv'
    BY <1>2 DEF IntakeInv, WorkerInv, OnceInv, Ahead
  <1>8. OrderInv'
    <2>1. \A d \in Bots : /\ Ascending(batch'[d], Of(d))
                          /\ \A u \in ToSet(batch'[d]) : offset[d] <= u
      BY <1>3, <1>4, <1>5 DEF IntakeInv, OrderInv
    <2>. QED
      BY <1>2, <2>1 DEF IntakeInv, OrderInv, AtChat
  <1>9. ArrivalInv'
    BY <1>2, <1>3, <1>4, <1>5 DEF IntakeInv, ArrivalInv, TypeOK
  <1>10. KeepInv'
    <2>1. \A v \in Updates : Safe(v) => Safe(v)'
      BY <1>2 DEF Safe, AtChat
    <2>2. \A v \in arrived \cap Allowed : v \in Updates /\ (v \in telegram' \/ Safe(v))
      BY <1>2, ForgettingIsSafe DEF IntakeInv, TypeOK
    <2>3. ASSUME NEW d \in Bots, NEW v \in telegram' \cap Of(d)
          PROVE  v < offset[d] \/ v \in ToSet(batch'[d]) \/ \A o \in ToSet(batch'[d]) : o < v
      BY <1>2, <1>3, <1>4, <1>5, <2>3 DEF IntakeInv, KeepInv
    <2>. QED
      BY <1>2, <2>1, <2>2, <2>3 DEF IntakeInv, KeepInv
  <1>. QED
    BY <1>6, <1>7, <1>8, <1>9, <1>10 DEF IntakeInv

(* A webhook that is set or deleted moves nothing. *)
LEMMA HookKeeps ==
  ASSUME IntakeInv, NEW b \in Bots, SetHook(b) \/ Unhook(b)
  PROVE  IntakeInv'
PROOF
  <1>1. UNCHANGED <<arrived, telegram, offset, batch, channel, queue, worker, serving,
                    loose, begun, handled, lost, crashes>>
    BY DEF SetHook, Unhook, pollVars, chatVars, history
  <1>2. /\ hook' \subseteq Bots /\ hooks' \in Nat
        /\ crashes' + hooks' <= MaxTroubles
    BY IntakeAssumption DEF IntakeAssumption, SetHook, Unhook, IntakeInv, TypeOK, history
  <1>3. TypeOK'
    BY <1>1, <1>2 DEF IntakeInv, TypeOK
  <1>4. WorkerInv' /\ OrderInv' /\ OnceInv' /\ ArrivalInv'
    BY <1>1 DEF IntakeInv, WorkerInv, OrderInv, OnceInv, ArrivalInv, AtChat, Ahead
  <1>5. KeepInv'
    BY <1>1 DEF IntakeInv, KeepInv, Safe, AtChat
  <1>. QED
    BY <1>3, <1>4, <1>5 DEF IntakeInv

(* The frontier moves past the update that is handed over, and past those  *)
(* before it that Telegram need not keep.                                  *)
LEMMA PushKeeps ==
  ASSUME IntakeInv, NEW b \in Bots, Push(b)
  PROVE  IntakeInv'
PROOF
  <1>1. /\ batch[b] # <<>> /\ batch[b] \in Seq(Updates) /\ channel[b] \in Seq(Updates)
        /\ Len(channel[b]) < Buffer /\ Len(channel[b]) \in Nat /\ Len(batch[b]) \in Nat
        /\ Buffer \in Nat /\ BatchSize \in Nat
    BY IntakeAssumption, WaitingTyped, LenProperties DEF IntakeAssumption, Push, IntakeInv
  <1>u. PICK u \in Updates : u = Head(batch[b])
    BY <1>1, SetOfHeadAndTail
  <1>2. /\ u \in Updates /\ Tail(batch[b]) \in Seq(Updates)
        /\ Len(Tail(batch[b])) = Len(batch[b]) - 1
        /\ ToSet(batch[b]) = {u} \cup ToSet(Tail(batch[b]))
    BY <1>1, <1>u, SetOfHeadAndTail
  <1>3. /\ u \in Of(b) /\ BotOf[u] = b /\ u \in Nat /\ offset[b] <= u
        /\ ToSet(Tail(batch[b])) \subseteq Of(b)
    BY <1>2, Numbers, WaitingTyped DEF IntakeInv, OrderInv, Of
  <1>4. /\ Ascending(Tail(batch[b]), Of(b))
        /\ \A v \in ToSet(Tail(batch[b])) : v \in Nat /\ u < v
    <2>1. Ascending(batch[b], Of(b)) /\ Updates \in SUBSET Nat
      BY Numbers DEF IntakeInv, OrderInv
    <2>2. /\ Ascending(Tail(batch[b]), Of(b))
          /\ u \in Of(b) => \A v \in ToSet(Tail(batch[b])) \cap Of(b) : u < v
      BY <1>1, <1>u, <2>1, TailAscends
    <2>3. \A v \in ToSet(Tail(batch[b])) : v \in Of(b) /\ v \in Nat
      BY <1>3, Numbers DEF Of
    <2>. QED
      BY <1>3, <2>2, <2>3
  <1>5. /\ Append(channel[b], u) \in Seq(Updates)
        /\ Len(Append(channel[b], u)) = Len(channel[b]) + 1
        /\ ToSet(Append(channel[b], u)) = ToSet(channel[b]) \cup {u}
    BY <1>1, <1>2, SetOfAppend
  <1>6. \A v \in ToSet(channel[b]) : v \in Nat /\ v < u
    <2>1. offset[b] \in Nat /\ \A v \in ToSet(channel[b]) : v \in Nat
      BY Numbers, WaitingTyped DEF IntakeInv, Of
    <2>2. \A v \in ToSet(channel[b]) : v < offset[b]
      BY DEF IntakeInv, OrderInv
    <2>. QED
      BY <1>3, <2>1, <2>2
  <1>7. Ascending(Append(channel[b], u), Of(b))
    BY <1>1, <1>2, <1>6, Numbers, AppendAscends DEF IntakeInv, OrderInv
  <1>8. /\ offset' = [offset EXCEPT ![b] = u + 1]
        /\ channel' = [channel EXCEPT ![b] = Append(@, u)]
        /\ batch' = [batch EXCEPT ![b] = Tail(@)]
        /\ UNCHANGED <<arrived, telegram, hook, hooks, queue, worker, serving, loose,
                       begun, handled, lost, crashes>>
    <2>1. u >= offset[b]
      BY <1>3, WaitingTyped DEF IntakeInv
    <2>. QED
      BY <1>u, <2>1 DEF Push, telegramVars, chatVars, history
  <1> DEFINE rest == Tail(batch[b])
             more == Append(channel[b], u)
  <1>9. /\ offset'[b] = u + 1 /\ channel'[b] = more /\ batch'[b] = rest
        /\ \A d \in Bots : d # b => /\ offset'[d] = offset[d] /\ channel'[d] = channel[d]
                                    /\ batch'[d] = batch[d]
        /\ offset' \in [Bots -> Nat]
        /\ channel' \in [Bots -> Seq(Updates)] /\ batch' \in [Bots -> Seq(Updates)]
    BY <1>2, <1>3, <1>5, <1>8 DEF IntakeInv, TypeOK
  <1>10. \A d \in Bots : offset[d] \in Nat /\ offset'[d] \in Nat /\ offset[d] <= offset'[d]
    <2>1. \A d \in Bots : offset[d] \in Nat
      BY WaitingTyped DEF IntakeInv
    <2>2. u + 1 \in Nat /\ offset[b] <= u + 1
      BY <1>3, <2>1
    <2>. QED
      <3>1. \A d \in Bots : d # b => offset'[d] = offset[d]
        BY <1>9
      <3>2. offset'[b] = u + 1
        BY <1>9
      <3>3. ASSUME NEW d \in Bots PROVE offset'[d] \in Nat /\ offset[d] <= offset'[d]
        <4>1. CASE d = b
          BY <2>1, <2>2, <3>2, <4>1
        <4>2. CASE d # b
          BY <2>1, <3>1, <4>2
        <4>. QED
          BY <4>1, <4>2
      <3>. QED
        BY <2>1, <3>3
  <1> HIDE DEF rest, more
  <1>11. ToSet(more) = ToSet(channel[b]) \cup {u} /\ ToSet(batch[b]) = {u} \cup ToSet(rest)
    BY <1>2, <1>5 DEF more, rest
  <1>12. TypeOK'
    <2>1. Len(rest) <= BatchSize /\ Len(more) <= Buffer
      BY <1>1, <1>2, <1>5 DEF rest, more, IntakeInv, TypeOK
    <2>2. \A d \in Bots : /\ ToSet(batch'[d]) \cup ToSet(channel'[d]) \subseteq Of(d)
                          /\ Len(batch'[d]) <= BatchSize /\ Len(channel'[d]) <= Buffer
      BY <1>3, <1>9, <1>11, <2>1 DEF IntakeInv, TypeOK
    <2>. QED
      BY <1>8, <1>9, <2>2 DEF IntakeInv, TypeOK
  <1>13. WorkerInv'
    BY <1>8 DEF IntakeInv, WorkerInv
  <1>14. ArrivalInv'
    <2>1. u \in arrived
      BY <1>11 DEF IntakeInv, ArrivalInv
    <2>2. offset'[b] - 1 \in arrived \cap Of(b)
      BY <1>3, <1>9, <2>1
    <2>. QED
      BY <1>8, <1>9, <1>11, <2>2 DEF IntakeInv, ArrivalInv
  <1>15. \A v \in Updates : Safe(v) => Safe(v)'
    <2>1. \A d \in Bots : ToSet(channel[d]) \subseteq ToSet(channel'[d])
      BY <1>9, <1>11
    <2>2. \A c \in Chats : AtChat(c)' = AtChat(c)
      BY <1>8 DEF AtChat
    <2>. QED
      BY <1>8, <2>1, <2>2 DEF Safe
  <1>16. Safe(u)'
    BY <1>9, <1>11 DEF Safe
  <1>17. KeepInv'
    <2>1. \A v \in arrived' \cap Allowed : v \in telegram' \/ Safe(v)'
      BY <1>8, <1>15 DEF IntakeInv, KeepInv, TypeOK
    <2>2. ASSUME NEW v \in arrived \cap Allowed, v < offset'[BotOf[v]]
          PROVE  Safe(v)'
      <3>1. v \in Updates /\ v \in Nat /\ BotOf[v] \in Bots /\ v \in Of(BotOf[v])
        BY Numbers, WaitingTyped DEF IntakeInv, TypeOK
      <3>2. CASE BotOf[v] # b
        <4>1. v < offset[BotOf[v]]
          BY <1>9, <2>2, <3>1, <3>2
        <4>2. Safe(v)
          BY <4>1 DEF IntakeInv, KeepInv
        <4>. QED
          BY <1>15, <3>1, <4>2
      <3>3. CASE BotOf[v] = b /\ v = u
        BY <1>16, <3>3 DEF Safe
      <3>4. CASE BotOf[v] = b /\ v # u
        <4>1. v < u
          BY <1>3, <1>9, <2>2, <3>1, <3>4
        <4>2. CASE v \in telegram
          <5>1. v < offset[b] \/ v \in ToSet(batch[b]) \/ \A o \in ToSet(batch[b]) : o < v
            BY <3>1, <3>4, <4>2 DEF IntakeInv, KeepInv
          <5>2. v \notin ToSet(batch[b]) /\ ~ (u < v) /\ u \in ToSet(batch[b])
            BY <1>3, <1>4, <1>11, <3>1, <4>1 DEF rest
          <5>3. v < offset[b]
            BY <5>1, <5>2
          <5>. QED
            BY <1>15, <3>1, <3>4, <5>3 DEF IntakeInv, KeepInv
        <4>. QED
          BY <1>15, <3>1, <4>2 DEF IntakeInv, KeepInv
      <3>. QED
        BY <3>2, <3>3, <3>4
    <2>3. ASSUME NEW d \in Bots, NEW v \in telegram \cap Of(d)
          PROVE  v < offset'[d] \/ v \in ToSet(batch'[d]) \/ \A o \in ToSet(batch'[d]) : o < v
      <3>1. v < offset[d] \/ v \in ToSet(batch[d]) \/ \A o \in ToSet(batch[d]) : o < v
        BY <2>3 DEF IntakeInv, KeepInv
      <3>2. v \in Nat
        BY <2>3, Numbers DEF Of
      <3>3. CASE d # b
        BY <1>9, <3>1, <3>3
      <3>4. CASE d = b
        <4>1. v < offset[b] => v < u + 1
          BY <1>3, <1>9, <1>10, <3>2
        <4>. QED
          BY <1>3, <1>9, <1>11, <3>1, <3>2, <3>4, <4>1
      <3>. QED
        BY <3>3, <3>4
    <2>. QED
      BY <1>8, <2>1, <2>2, <2>3 DEF KeepInv
  <1>18. OrderInv'
    <2>1. ASSUME NEW d \in Bots
          PROVE  /\ Ascending(batch'[d], Of(d)) /\ Ascending(channel'[d], Of(d))
                 /\ \A v \in ToSet(batch'[d]) : offset'[d] <= v
                 /\ \A v \in ToSet(channel'[d]) : v < offset'[d]
      <3>1. CASE d # b
        BY <1>9, <3>1 DEF IntakeInv, OrderInv
      <3>2. CASE d = b
        <4>1. Ascending(rest, Of(b)) /\ Ascending(more, Of(b))
          BY <1>4, <1>7 DEF rest, more
        <4>2. \A v \in ToSet(rest) : u + 1 <= v
          BY <1>3, <1>4 DEF rest
        <4>3. \A v \in ToSet(more) : v < u + 1
          BY <1>3, <1>6, <1>11
        <4>. QED
          BY <1>9, <3>2, <4>1, <4>2, <4>3
      <3>. QED
        BY <3>1, <3>2
    <2>2. ASSUME NEW c \in Chats, NEW v \in AtChat(c)
          PROVE  /\ v < offset'[BotOf[v]]
                 /\ \A w \in ToSet(channel'[BotOf[v]]) : ChatOf[w] = c => v < w
      <3>1. v \in Updates /\ v \in Nat /\ BotOf[v] \in Bots
        BY Numbers, WaitingTyped DEF IntakeInv
      <3>2. v < offset[BotOf[v]]
        BY DEF IntakeInv, OrderInv
      <3>3. v < offset'[BotOf[v]]
        BY <1>10, <3>1, <3>2
      <3>4. BotOf[v] = b => v < u
        BY <1>3, <1>10, <3>1, <3>2
      <3>5. \A w \in ToSet(channel[BotOf[v]]) : ChatOf[w] = c => v < w
        BY DEF IntakeInv, OrderInv
      <3>. QED
        BY <1>9, <1>11, <3>1, <3>3, <3>4, <3>5
    <2>3. \A c \in Chats :
            /\ AtChat(c)' = AtChat(c)
            /\ \A d \in Bots : Ascending(queue'[c], Of(d))
            /\ serving'[c] # Nobody =>
                 \A v \in ToSet(queue'[c]) : BotOf[v] = BotOf[serving'[c]] => serving'[c] < v
      BY <1>8 DEF AtChat, IntakeInv, OrderInv
    <2>. QED
      BY <2>1, <2>2, <2>3 DEF OrderInv
  <1>19. OnceInv'
    <2>1. ASSUME NEW v \in Updates, Ahead(v)' PROVE Ahead(v)
      <3>1. BotOf[v] \in Bots /\ v \in Nat
        BY Numbers, WaitingTyped DEF IntakeInv
      <3>2. CASE offset'[BotOf[v]] <= v
        BY <1>10, <3>1, <3>2 DEF Ahead
      <3>3. CASE v \in ToSet(channel'[BotOf[v]])
        BY <1>3, <1>9, <1>11, <3>1, <3>3 DEF Ahead
      <3>4. CASE \E c \in Chats : v \in ToSet(queue'[c])
        BY <1>8, <3>4 DEF Ahead
      <3>. QED
        BY <2>1, <3>2, <3>3, <3>4 DEF Ahead
    <2>. QED
      BY <1>8, <2>1 DEF IntakeInv, OnceInv
  <1>. QED
    BY <1>12, <1>13, <1>14, <1>17, <1>18, <1>19 DEF IntakeInv

(* What happens to every chat's part of the order, whoever acts: the       *)
(* update at the head of a channel is newer than all that its chat holds   *)
(* of its bot, and in no queue.                                            *)
LEMMA HeadOfChannel ==
  ASSUME IntakeInv, NEW b \in Bots, channel[b] # <<>>
  PROVE  \E u \in Of(b) :
           /\ u = Head(channel[b]) /\ u \in Nat /\ BotOf[u] = b
           /\ ToSet(channel[b]) = {u} \cup ToSet(Tail(channel[b]))
           /\ Tail(channel[b]) \in Seq(Updates)
           /\ Len(Tail(channel[b])) <= Buffer
           /\ Ascending(Tail(channel[b]), Of(b))
           /\ \A v \in ToSet(Tail(channel[b])) : u < v
           /\ u < offset[b] /\ begun[u] <= crashes
           /\ \A c \in Chats : u \notin ToSet(queue[c])
           /\ \A c \in Chats : ChatOf[u] = c =>
                \A v \in AtChat(c) : BotOf[v] = b => v < u
PROOF
  <1>1. channel[b] \in Seq(Updates) /\ Updates \in SUBSET Nat
    BY Numbers, WaitingTyped DEF IntakeInv
  <1>2. PICK u \in Updates :
          /\ u = Head(channel[b]) /\ Tail(channel[b]) \in Seq(Updates)
          /\ Len(Tail(channel[b])) = Len(channel[b]) - 1
          /\ ToSet(channel[b]) = {u} \cup ToSet(Tail(channel[b]))
    BY <1>1, SetOfHeadAndTail
  <1>3. /\ u \in Of(b) /\ u \in Nat /\ BotOf[u] = b
        /\ \A v \in ToSet(Tail(channel[b])) : v \in Of(b)
    BY <1>1, <1>2, WaitingTyped DEF IntakeInv, Of
  <1>4. Len(Tail(channel[b])) <= Buffer
    BY <1>1, <1>2, IntakeAssumption, LenProperties DEF IntakeAssumption, IntakeInv, TypeOK
  <1>5. /\ Ascending(Tail(channel[b]), Of(b))
        /\ \A v \in ToSet(Tail(channel[b])) : u < v
    <2>1. Ascending(channel[b], Of(b))
      BY DEF IntakeInv, OrderInv
    <2>2. /\ Ascending(Tail(channel[b]), Of(b))
          /\ u \in Of(b) => \A v \in ToSet(Tail(channel[b])) \cap Of(b) : u < v
      BY <1>1, <1>2, <2>1, TailAscends
    <2>. QED
      BY <1>3, <2>2
  <1>6. u < offset[b] /\ begun[u] <= crashes
    BY <1>2, <1>3 DEF IntakeInv, OrderInv, OnceInv, Ahead
  <1>7. \A c \in Chats : \A v \in AtChat(c) : ChatOf[u] = c /\ BotOf[v] = b => v < u
    BY <1>2 DEF IntakeInv, OrderInv
  <1>8. \A c \in Chats : u \notin ToSet(queue[c])
    BY <1>3, <1>7, WaitingTyped DEF IntakeInv, AtChat
  <1>. QED
    BY <1>2, <1>3, <1>4, <1>5, <1>6, <1>7, <1>8

LEMMA DispatchKeeps ==
  ASSUME IntakeInv, NEW b \in Bots, Dispatch(b)
  PROVE  IntakeInv'
PROOF
  <1> DEFINE rest == Tail(channel[b])
  <1>1. channel[b] # <<>>
    BY DEF Dispatch
  <1>2. PICK u \in Of(b) :
           /\ u = Head(channel[b]) /\ u \in Nat /\ BotOf[u] = b
           /\ ToSet(channel[b]) = {u} \cup ToSet(rest)
           /\ rest \in Seq(Updates)
           /\ Len(rest) <= Buffer
           /\ Ascending(rest, Of(b))
           /\ \A v \in ToSet(rest) : u < v
           /\ u < offset[b] /\ begun[u] <= crashes
           /\ \A c \in Chats : u \notin ToSet(queue[c])
           /\ \A c \in Chats : ChatOf[u] = c =>
                \A v \in AtChat(c) : BotOf[v] = b => v < u
    BY <1>1, HeadOfChannel
  <1>3. /\ channel'[b] = rest /\ \A d \in Bots : d # b => channel'[d] = channel[d]
        /\ channel' \in [Bots -> Seq(Updates)]
        /\ UNCHANGED <<arrived, telegram, hook, hooks, offset, batch, serving, handled,
                       lost, crashes>>
    BY <1>2 DEF Dispatch, telegramVars, pollVars, IntakeInv, TypeOK
  <1> HIDE DEF rest
  <1>4. \A d \in Bots : ToSet(channel'[d]) \subseteq ToSet(channel[d])
    BY <1>2, <1>3
  <1>5. \A d \in Bots : /\ ToSet(channel'[d]) \subseteq Of(d) /\ Len(channel'[d]) <= Buffer
                        /\ Ascending(channel'[d], Of(d))
    <2>1. \A d \in Bots : /\ ToSet(channel[d]) \subseteq Of(d) /\ Len(channel[d]) <= Buffer
                          /\ Ascending(channel[d], Of(d))
      BY DEF IntakeInv, TypeOK, OrderInv
    <2>. QED
      BY <1>2, <1>3, <1>4, <2>1
  <1>t. ASSUME queue' \in [Chats -> Seq(Updates)],
               \A c \in Chats : /\ ToSet(queue'[c]) \subseteq {v \in Updates : ChatOf[v] = c}
                                /\ Len(queue'[c]) <= QueueCap,
               worker' \in [Chats -> {"none", "idle", "busy", "expired"}],
               loose' \subseteq Updates, begun' \in [Updates -> Nat]
        PROVE  TypeOK'
    BY <1>3, <1>5, <1>t DEF IntakeInv, TypeOK
  <1>a. ArrivalInv'
    BY <1>3 DEF IntakeInv, ArrivalInv
  <1>k. ASSUME \A v \in Updates : v \in Allowed /\ Safe(v) => Safe(v)'
        PROVE  KeepInv'
    <2>1. arrived \subseteq Updates
      BY DEF IntakeInv, TypeOK
    <2>2. \A v \in arrived \cap Allowed : Safe(v) => Safe(v)'
      BY <1>k, <2>1
    <2>. QED
      BY <1>3, <2>2 DEF IntakeInv, KeepInv
  <1>b. \A d \in Bots : /\ \A v \in ToSet(batch'[d]) : offset'[d] <= v
                        /\ Ascending(batch'[d], Of(d))
                        /\ \A v \in ToSet(channel'[d]) : v < offset'[d]
    BY <1>3, <1>4 DEF IntakeInv, OrderInv
  <1>o. ASSUME queue' = queue PROVE OrderInv'
    <2>1. \A c \in Chats : AtChat(c)' = AtChat(c)
      BY <1>3, <1>o DEF AtChat
    <2>2. ASSUME NEW c \in Chats, NEW v \in AtChat(c)
          PROVE  /\ v < offset'[BotOf[v]]
                 /\ \A w \in ToSet(channel'[BotOf[v]]) : ChatOf[w] = c => v < w
      <3>1. BotOf[v] \in Bots
        BY WaitingTyped DEF IntakeInv
      <3>. QED
        BY <1>3, <1>4, <3>1 DEF IntakeInv, OrderInv
    <2>3. \A c \in Chats :
            /\ \A d \in Bots : Ascending(queue'[c], Of(d))
            /\ serving'[c] # Nobody =>
                 \A v \in ToSet(queue'[c]) : BotOf[v] = BotOf[serving'[c]] => serving'[c] < v
      BY <1>3, <1>o DEF IntakeInv, OrderInv
    <2>. QED
      BY <1>5, <1>b, <2>1, <2>2, <2>3 DEF OrderInv
  <1>6. CASE u \notin Allowed /\ UNCHANGED <<queue, worker, loose, begun>>
    <2>1. TypeOK'
      BY <1>6, <1>t DEF IntakeInv, TypeOK
    <2>2. WorkerInv'
      BY <1>3, <1>6 DEF IntakeInv, WorkerInv
    <2>3. ASSUME NEW v \in Updates, v \in Allowed, Safe(v) PROVE Safe(v)'
      <3>1. \A d \in Bots : v \in ToSet(channel[d]) => v \in ToSet(channel'[d])
        BY <1>2, <1>3, <1>6, <2>3
      <3>. QED
        BY <1>3, <1>6, <2>3, <3>1 DEF Safe, AtChat
    <2>4. \A v \in Updates : Ahead(v)' => Ahead(v)
      BY <1>3, <1>4, <1>6, WaitingTyped DEF Ahead, IntakeInv
    <2>5. OnceInv'
      BY <1>3, <1>6, <2>4 DEF IntakeInv, OnceInv
    <2>. QED
      BY <1>6, <1>a, <1>k, <1>o, <2>1, <2>2, <2>3, <2>5 DEF IntakeInv
  <1>7. CASE RunLoose(u)
    <2>1. /\ loose' = loose \cup {u} /\ UNCHANGED <<queue, worker>>
          /\ begun' = [begun EXCEPT ![u] = @ + 1]
      BY <1>7 DEF RunLoose
    <2>2. /\ begun' \in [Updates -> Nat] /\ u \in Updates
          /\ begun'[u] = begun[u] + 1
          /\ \A v \in Updates : v # u => begun'[v] = begun[v]
      BY <2>1 DEF Of, IntakeInv, TypeOK
    <2>3. TypeOK'
      BY <1>t, <2>1, <2>2 DEF IntakeInv, TypeOK
    <2>4. WorkerInv'
      BY <1>3, <2>1 DEF IntakeInv, WorkerInv
    <2>5. ASSUME NEW v \in Updates, Safe(v) PROVE Safe(v)'
      <3>1. v \in loose' \/ \A d \in Bots : v \in ToSet(channel[d]) => v \in ToSet(channel'[d])
        BY <1>2, <1>3, <2>1
      <3>. QED
        BY <1>3, <2>1, <2>5, <3>1 DEF Safe, AtChat
    <2>6. \A v \in Updates : Ahead(v)' => Ahead(v)
      BY <1>3, <1>4, <2>1, WaitingTyped DEF Ahead, IntakeInv
    <2>7. ~ Ahead(u)'
      <3>1. u \notin ToSet(rest) /\ ~ (offset[b] <= u)
        BY <1>2, WaitingTyped DEF IntakeInv
      <3>. QED
        BY <1>2, <1>3, <2>1, <3>1 DEF Ahead
    <2>8. OnceInv'
      <3>1. begun[u] \in Nat /\ crashes \in Nat
        BY <2>2 DEF IntakeInv, TypeOK
      <3>2. begun'[u] <= 1 + crashes
        BY <1>2, <2>2, <3>1
      <3>3. ASSUME NEW v \in Updates
            PROVE  begun'[v] <= 1 + crashes' /\ (Ahead(v)' => begun'[v] <= crashes')
        <4>1. CASE v = u
          BY <1>3, <2>7, <3>2, <4>1 DEF Ahead
        <4>2. CASE v # u
          BY <1>3, <2>2, <2>6, <4>2 DEF IntakeInv, OnceInv
        <4>. QED
          BY <4>1, <4>2
      <3>. QED
        BY <3>3 DEF OnceInv
    <2>. QED
      BY <1>a, <1>k, <1>o, <2>1, <2>3, <2>4, <2>5, <2>8 DEF IntakeInv
  <1>8. ASSUME ChatOf[u] \in Chats, worker' \in [Chats -> {"none", "idle", "busy", "expired"}],
               worker'[ChatOf[u]] # "none",
               worker'[ChatOf[u]] = "busy" <=> worker[ChatOf[u]] = "busy",
               \A c \in Chats : c # ChatOf[u] => worker'[c] = worker[c],
               NEW q \in Seq(Updates), queue' = [queue EXCEPT ![ChatOf[u]] = q],
               ToSet(q) = ToSet(queue[ChatOf[u]]) \cup {u}, Len(q) <= QueueCap,
               \A d \in Bots : Ascending(q, Of(d)),
               UNCHANGED <<loose, begun>>
        PROVE  IntakeInv'
    <2> DEFINE c == ChatOf[u]
    <2>1. /\ queue'[c] = q /\ \A d \in Chats : d # c => queue'[d] = queue[d]
          /\ queue' \in [Chats -> Seq(Updates)]
      BY <1>8 DEF IntakeInv, TypeOK
    <2>2. u \in Updates
      BY DEF Of
    <2> HIDE DEF c
    <2>3. TypeOK'
      <3>1. \A d \in Chats : /\ ToSet(queue[d]) \subseteq {v \in Updates : ChatOf[v] = d}
                             /\ Len(queue[d]) <= QueueCap
        BY DEF IntakeInv, TypeOK
      <3>2. ASSUME NEW d \in Chats
            PROVE  /\ ToSet(queue'[d]) \subseteq {v \in Updates : ChatOf[v] = d}
                   /\ Len(queue'[d]) <= QueueCap
        <4>1. CASE d = c
          <5>1. ToSet(q) = ToSet(queue[d]) \cup {u} /\ Len(q) <= QueueCap /\ queue'[d] = q
            BY <1>8, <2>1, <4>1 DEF c
          <5>2. ChatOf[u] = d
            BY <4>1 DEF c
          <5>. QED
            BY <2>2, <3>1, <5>1, <5>2
        <4>2. CASE d # c
          BY <2>1, <3>1, <4>2
        <4>. QED
          BY <4>1, <4>2
      <3>. QED
        BY <1>8, <1>t, <2>1, <3>2 DEF IntakeInv, TypeOK
    <2>4. WorkerInv'
      BY <1>3, <1>8, <2>1 DEF c, IntakeInv, WorkerInv
    <2>5. \A d \in Chats : /\ d # c => AtChat(d)' = AtChat(d)
                           /\ d = c => AtChat(d)' = AtChat(d) \cup {u}
      <3>1. u # Nobody
        BY <2>2, Numbers
      <3>. QED
        BY <1>3, <1>8, <2>1, <3>1 DEF AtChat, c
    <2>6. ASSUME NEW v \in Updates, Safe(v) PROVE Safe(v)'
      <3>1. CASE v = u
        BY <1>8, <2>5, <3>1 DEF Safe, c
      <3>2. CASE v # u
        <4>1. \A d \in Bots : v \in ToSet(channel[d]) => v \in ToSet(channel'[d])
          BY <1>2, <1>3, <3>2
        <4>2. \A d \in Chats : v \in AtChat(d) => v \in AtChat(d)'
          BY <2>5
        <4>. QED
          BY <1>3, <1>8, <2>6, <4>1, <4>2 DEF Safe
      <3>. QED
        BY <3>1, <3>2
    <2>7. ASSUME NEW v \in Updates, Ahead(v)' PROVE Ahead(v)
      <3>1. BotOf[v] \in Bots
        BY WaitingTyped DEF IntakeInv
      <3>2. CASE v = u
        BY <1>2, <3>2 DEF Ahead
      <3>3. CASE v # u
        BY <1>3, <1>4, <1>8, <2>1, <2>7, <3>1, <3>3 DEF Ahead, c
      <3>. QED
        BY <3>2, <3>3
    <2>8. OnceInv'
      BY <1>3, <1>8, <2>7 DEF IntakeInv, OnceInv
    <2>9. OrderInv'
      <3>1. ASSUME NEW d \in Chats, NEW v \in AtChat(d)'
            PROVE  /\ v < offset'[BotOf[v]]
                   /\ \A w \in ToSet(channel'[BotOf[v]]) : ChatOf[w] = d => v < w
        <4>1. CASE v \in AtChat(d)
          <5>1. BotOf[v] \in Bots
            BY <4>1, WaitingTyped DEF IntakeInv
          <5>. QED
            BY <1>3, <1>4, <4>1, <5>1 DEF IntakeInv, OrderInv
        <4>2. CASE v = u
          BY <1>2, <1>3, <4>2
        <4>. QED
          BY <2>5, <3>1, <4>1, <4>2
      <3>2. ASSUME NEW d \in Chats, serving'[d] # Nobody, NEW v \in ToSet(queue'[d]),
                   BotOf[v] = BotOf[serving'[d]]
            PROVE  serving'[d] < v
        <4>1. CASE v \in ToSet(queue[d])
          BY <1>3, <3>2, <4>1 DEF IntakeInv, OrderInv
        <4>2. CASE v = u /\ d = c
          BY <1>2, <1>3, <3>2, <4>2 DEF AtChat, c
        <4>. QED
          BY <1>8, <2>1, <3>2, <4>1, <4>2 DEF c
      <3>3. \A d \in Chats, e \in Bots : Ascending(queue'[d], Of(e))
        BY <1>8, <2>1 DEF IntakeInv, OrderInv
      <3>. QED
        BY <1>5, <1>b, <3>1, <3>2, <3>3 DEF OrderInv
    <2>. QED
      BY <1>a, <1>k, <2>3, <2>4, <2>6, <2>8, <2>9 DEF IntakeInv
  <1>9. CASE ChatOf[u] # NoChat /\ Enqueue(u)
    <2> DEFINE c == ChatOf[u]
    <2>1. c \in Chats /\ u \in Updates
      BY <1>9 DEF Chats, Of
    <2>2. /\ queue[c] \in Seq(Updates) /\ QueueCap \in Nat \ {0}
          /\ worker \in [Chats -> {"none", "idle", "busy", "expired"}]
      BY <2>1, WaitingTyped, IntakeAssumption DEF IntakeInv, TypeOK, IntakeAssumption
    <2>3. CASE /\ worker[c] = "none"
               /\ queue' = [queue EXCEPT ![c] = <<u>>]
               /\ worker' = [worker EXCEPT ![c] = "idle"]
               /\ UNCHANGED <<loose, begun>>
      <3>1. queue[c] = <<>>
        BY <2>1, <2>3 DEF IntakeInv, WorkerInv
      <3>2. /\ <<u>> \in Seq(Updates) /\ Len(<<u>>) <= QueueCap
            /\ ToSet(<<u>>) = ToSet(queue[c]) \cup {u}
            /\ \A d \in Bots : Ascending(<<u>>, Of(d))
        BY <2>1, <2>2, <3>1, OneAscends, EmptyAscends
      <3>3. /\ worker' \in [Chats -> {"none", "idle", "busy", "expired"}]
            /\ worker'[c] = "idle" /\ \A d \in Chats : d # c => worker'[d] = worker[d]
        BY <2>1, <2>2, <2>3
      <3>. QED
        BY <1>8, <2>1, <2>3, <3>2, <3>3
    <2>4. CASE /\ worker[c] # "none" /\ Len(queue[c]) < QueueCap
               /\ queue' = [queue EXCEPT ![c] = Append(@, u)]
               /\ UNCHANGED <<worker, loose, begun>>
      <3> DEFINE q == Append(queue[c], u)
      <3>1. /\ q \in Seq(Updates) /\ Len(q) = Len(queue[c]) + 1
            /\ ToSet(q) = ToSet(queue[c]) \cup {u}
        BY <2>1, <2>2, SetOfAppend
      <3>2. Len(q) <= QueueCap
        BY <2>2, <2>4, <3>1, LenProperties
      <3>3. ASSUME NEW d \in Bots PROVE Ascending(q, Of(d))
        <4>1. Updates \in SUBSET Nat /\ Ascending(queue[c], Of(d))
          BY <2>1, Numbers DEF IntakeInv, OrderInv
        <4>2. u \in Of(d) => \A v \in ToSet(queue[c]) \cap Of(d) : v < u
          BY <1>2, <2>1 DEF AtChat, Of
        <4>. QED
          BY <2>1, <2>2, <4>1, <4>2, AppendAscends
      <3>4. /\ queue' = [queue EXCEPT ![c] = q]
            /\ worker' = worker /\ UNCHANGED <<loose, begun>>
        BY <2>1, <2>4
      <3> HIDE DEF q
      <3>. QED
        BY <1>8, <2>1, <2>2, <2>4, <3>1, <3>2, <3>3, <3>4
    <2>. QED
      BY <1>7, <1>9, <2>3, <2>4 DEF Enqueue
  <1>. QED
    BY <1>2, <1>6, <1>7, <1>9 DEF Dispatch

(* What is taken is the oldest of its chat, and nowhere else. *)
LEMMA WorkerTakesKeeps ==
  ASSUME IntakeInv, NEW c \in Chats, WorkerTakes(c)
  PROVE  IntakeInv'
PROOF
  <1> DEFINE rest == Tail(queue[c])
  <1>1. /\ queue[c] # <<>> /\ queue[c] \in Seq(Updates) /\ Updates \in SUBSET Nat
        /\ serving[c] = Nobody /\ worker[c] = "idle"
    BY Numbers, WaitingTyped DEF WorkerTakes, IntakeInv, WorkerInv
  <1>2. PICK u \in Updates :
          /\ u = Head(queue[c]) /\ rest \in Seq(Updates) /\ Len(rest) = Len(queue[c]) - 1
          /\ ToSet(queue[c]) = {u} \cup ToSet(rest)
    BY <1>1, SetOfHeadAndTail
  <1>3. /\ u \in Nat /\ u # Nobody /\ BotOf[u] \in Bots /\ u \in Of(BotOf[u])
        /\ ChatOf[u] = c /\ u \in ToSet(queue[c]) /\ u \in AtChat(c)
    BY <1>2, Numbers, WaitingTyped DEF IntakeInv, AtChat
  <1>4. /\ Len(rest) <= QueueCap
        /\ \A d \in Bots : Ascending(rest, Of(d))
        /\ \A v \in ToSet(rest) : BotOf[v] = BotOf[u] => u < v
    <2>1. Len(rest) <= QueueCap
      BY <1>1, <1>2, IntakeAssumption, LenProperties DEF IntakeAssumption, IntakeInv, TypeOK
    <2>2. \A d \in Bots : Ascending(queue[c], Of(d))
      BY DEF IntakeInv, OrderInv
    <2>3. \A d \in Bots : /\ Ascending(rest, Of(d))
                          /\ u \in Of(d) => \A v \in ToSet(rest) \cap Of(d) : u < v
      BY <1>1, <1>2, <2>2, TailAscends
    <2>4. \A v \in ToSet(rest) : v \in Updates
      BY <1>2, WaitingTyped DEF IntakeInv
    <2>. QED
      BY <1>3, <2>1, <2>3, <2>4 DEF Of
  <1>5. /\ queue'[c] = rest /\ \A d \in Chats : d # c => queue'[d] = queue[d]
        /\ serving'[c] = u /\ \A d \in Chats : d # c => serving'[d] = serving[d]
        /\ worker'[c] = "busy" /\ \A d \in Chats : d # c => worker'[d] = worker[d]
        /\ begun'[u] = begun[u] + 1 /\ \A v \in Updates : v # u => begun'[v] = begun[v]
        /\ queue' \in [Chats -> Seq(Updates)] /\ serving' \in [Chats -> Updates \cup {Nobody}]
        /\ worker' \in [Chats -> {"none", "idle", "busy", "expired"}]
        /\ begun' \in [Updates -> Nat]
    <2>1. /\ queue' = [queue EXCEPT ![c] = rest] /\ serving' = [serving EXCEPT ![c] = u]
          /\ worker' = [worker EXCEPT ![c] = "busy"]
          /\ begun' = [begun EXCEPT ![u] = @ + 1]
      BY <1>2 DEF WorkerTakes
    <2>. QED
      BY <1>2, <2>1 DEF IntakeInv, TypeOK
  <1>6. UNCHANGED <<arrived, telegram, hook, hooks, offset, batch, channel, loose, handled,
                    lost, crashes>>
    BY DEF WorkerTakes, telegramVars, pollVars
  <1> HIDE DEF rest
  <1>7. TypeOK'
    <2>1. \A d \in Chats : /\ ToSet(queue'[d]) \subseteq {v \in Updates : ChatOf[v] = d}
                           /\ Len(queue'[d]) <= QueueCap
      BY <1>2, <1>4, <1>5 DEF IntakeInv, TypeOK
    <2>. QED
      BY <1>5, <1>6, <2>1 DEF IntakeInv, TypeOK
  <1>8. WorkerInv'
    BY <1>3, <1>5 DEF IntakeInv, WorkerInv
  <1>9. ArrivalInv'
    BY <1>6 DEF IntakeInv, ArrivalInv
  <1>10. \A d \in Chats : AtChat(d)' = AtChat(d)
    BY <1>1, <1>2, <1>3, <1>5 DEF AtChat
  <1>11. KeepInv'
    <2>1. \A v \in Updates : Safe(v) => Safe(v)'
      BY <1>6, <1>10 DEF Safe
    <2>. QED
      BY <1>6, <2>1 DEF IntakeInv, KeepInv, TypeOK
  <1>12. OrderInv'
    <2>1. ASSUME NEW d \in Chats, serving'[d] # Nobody, NEW v \in ToSet(queue'[d]),
                 BotOf[v] = BotOf[serving'[d]]
          PROVE  serving'[d] < v
      <3>1. CASE d = c
        BY <1>4, <1>5, <2>1, <3>1
      <3>2. CASE d # c
        BY <1>5, <2>1, <3>2 DEF IntakeInv, OrderInv
      <3>. QED
        BY <3>1, <3>2
    <2>2. \A d \in Chats, e \in Bots : Ascending(queue'[d], Of(e))
      BY <1>4, <1>5 DEF IntakeInv, OrderInv
    <2>. QED
      BY <1>6, <1>10, <2>1, <2>2 DEF IntakeInv, OrderInv
  <1>13. OnceInv'
    <2>1. u \notin ToSet(rest) /\ u \notin ToSet(channel[BotOf[u]]) /\ u < offset[BotOf[u]]
      BY <1>2, <1>3, <1>4 DEF IntakeInv, OrderInv
    <2>2. ~ Ahead(u)'
      <3>1. \A d \in Chats : d # c => u \notin ToSet(queue'[d])
        BY <1>3, <1>5, WaitingTyped DEF IntakeInv
      <3>2. ~ (offset[BotOf[u]] <= u)
        BY <1>3, <2>1, WaitingTyped DEF IntakeInv
      <3>. QED
        BY <1>5, <1>6, <2>1, <3>1, <3>2 DEF Ahead
    <2>3. \A v \in Updates : Ahead(v)' => Ahead(v)
      BY <1>2, <1>5, <1>6 DEF Ahead
    <2>4. Ahead(u)
      BY <1>3 DEF Ahead
    <2>5. begun'[u] <= 1 + crashes
      <3>1. begun[u] \in Nat /\ crashes \in Nat /\ begun[u] <= crashes
        BY <2>4 DEF IntakeInv, TypeOK, OnceInv
      <3>. QED
        BY <1>5, <3>1
    <2>6. ASSUME NEW v \in Updates
          PROVE  begun'[v] <= 1 + crashes' /\ (Ahead(v)' => begun'[v] <= crashes')
      <3>1. CASE v = u
        BY <1>6, <2>2, <2>5, <3>1 DEF Ahead
      <3>2. CASE v # u
        BY <1>5, <1>6, <2>3, <3>2 DEF IntakeInv, OnceInv
      <3>. QED
        BY <3>1, <3>2
    <2>. QED
      BY <2>6 DEF OnceInv
  <1>. QED
    BY <1>7, <1>8, <1>9, <1>11, <1>12, <1>13 DEF IntakeInv

LEMMA WorkerDoneKeeps ==
  ASSUME IntakeInv, NEW c \in Chats, WorkerDone(c)
  PROVE  IntakeInv'
PROOF
  <1>1. /\ serving[c] # Nobody /\ serving[c] \in Updates
    BY DEF WorkerDone, IntakeInv, WorkerInv, TypeOK
  <1>2. /\ serving'[c] = Nobody /\ \A d \in Chats : d # c => serving'[d] = serving[d]
        /\ worker'[c] = "idle" /\ \A d \in Chats : d # c => worker'[d] = worker[d]
        /\ serving' \in [Chats -> Updates \cup {Nobody}]
        /\ worker' \in [Chats -> {"none", "idle", "busy", "expired"}]
    BY DEF WorkerDone, IntakeInv, TypeOK
  <1>3. /\ handled' = handled \cup {serving[c]}
        /\ UNCHANGED <<arrived, telegram, hook, hooks, offset, batch, channel, queue, loose,
                       begun, lost, crashes>>
    BY DEF WorkerDone, telegramVars, pollVars
  <1>4. TypeOK'
    BY <1>1, <1>2, <1>3 DEF IntakeInv, TypeOK
  <1>5. WorkerInv'
    BY <1>2, <1>3 DEF IntakeInv, WorkerInv
  <1>6. ArrivalInv'
    BY <1>3 DEF IntakeInv, ArrivalInv
  <1>7. \A d \in Chats : AtChat(d)' \subseteq AtChat(d)
    BY <1>2, <1>3 DEF AtChat
  <1>8. KeepInv'
    <2>1. \A d \in Chats : AtChat(d) \subseteq AtChat(d)' \cup handled'
      BY <1>2, <1>3 DEF AtChat
    <2>2. \A v \in Updates : Safe(v) => Safe(v)'
      BY <1>3, <2>1 DEF Safe
    <2>. QED
      BY <1>3, <2>2 DEF IntakeInv, KeepInv, TypeOK
  <1>9. OrderInv'
    BY <1>2, <1>3, <1>7 DEF IntakeInv, OrderInv
  <1>10. OnceInv'
    BY <1>3 DEF IntakeInv, OnceInv, Ahead
  <1>. QED
    BY <1>4, <1>5, <1>6, <1>8, <1>9, <1>10 DEF IntakeInv

(* The timer, and the worker's second look at the queue. *)
LEMMA TimerKeeps ==
  ASSUME IntakeInv, NEW c \in Chats, TimerFires(c) \/ Retire(c)
  PROVE  IntakeInv'
PROOF
  <1>1. UNCHANGED <<arrived, telegram, hook, hooks, offset, batch, channel, queue, serving,
                    loose, begun, handled, lost, crashes>>
    BY DEF TimerFires, Retire, telegramVars, pollVars, history
  <1>2. /\ worker' \in [Chats -> {"none", "idle", "busy", "expired"}]
        /\ \A d \in Chats : d # c => worker'[d] = worker[d]
        /\ worker'[c] # "busy" /\ worker[c] # "busy"
        /\ queue[c] # <<>> => worker'[c] # "none"
    BY DEF TimerFires, Retire, IntakeInv, TypeOK
  <1>3. TypeOK'
    BY <1>1, <1>2 DEF IntakeInv, TypeOK
  <1>4. WorkerInv'
    BY <1>1, <1>2 DEF IntakeInv, WorkerInv
  <1>5. ArrivalInv' /\ OrderInv' /\ OnceInv'
    BY <1>1 DEF IntakeInv, ArrivalInv, OrderInv, OnceInv, AtChat, Ahead
  <1>6. KeepInv'
    BY <1>1 DEF IntakeInv, KeepInv, Safe, AtChat
  <1>. QED
    BY <1>3, <1>4, <1>5, <1>6 DEF IntakeInv

LEMMA LooseDoneKeeps ==
  ASSUME IntakeInv, NEW u \in Updates, LooseDone(u)
  PROVE  IntakeInv'
PROOF
  <1>1. /\ loose' = loose \ {u} /\ handled' = handled \cup {u}
        /\ UNCHANGED <<arrived, telegram, hook, hooks, offset, batch, channel, queue, worker,
                       serving, begun, lost, crashes>>
    BY DEF LooseDone, telegramVars, pollVars, chatVars
  <1>2. TypeOK'
    BY <1>1 DEF IntakeInv, TypeOK
  <1>3. WorkerInv' /\ ArrivalInv' /\ OrderInv' /\ OnceInv'
    BY <1>1 DEF IntakeInv, WorkerInv, ArrivalInv, OrderInv, OnceInv, AtChat, Ahead
  <1>4. \A v \in Updates : Safe(v) => Safe(v)'
    BY <1>1 DEF Safe, AtChat
  <1>5. KeepInv'
    BY <1>1, <1>4 DEF IntakeInv, KeepInv, TypeOK
  <1>. QED
    BY <1>2, <1>3, <1>5 DEF IntakeInv

LEMMA SafeIsHeld ==
  ASSUME NEW u, Safe(u)
  PROVE  u \in handled \cup lost \cup InMemory
PROOF
  <1>1. ASSUME NEW b \in Bots, u \in ToSet(channel[b]) PROVE u \in InMemory
    <2>1. u \in ToSet(channel[b]) \cup ToSet(batch[b])
      BY <1>1
    <2>2. ToSet(channel[b]) \cup ToSet(batch[b])
            \in {ToSet(channel[d]) \cup ToSet(batch[d]) : d \in Bots}
      OBVIOUS
    <2>. QED
      BY <2>1, <2>2 DEF InMemory
  <1>2. ASSUME NEW c \in Chats, u \in AtChat(c) PROVE u \in InMemory
    <2>1. u \in UNION {ToSet(queue[d]) \cup ({serving[d]} \ {Nobody}) : d \in Chats}
      BY <1>2 DEF AtChat
    <2>. QED
      BY <2>1 DEF InMemory
  <1>3. u \in loose => u \in InMemory
    BY DEF InMemory
  <1>. QED
    BY <1>1, <1>2, <1>3 DEF Safe

(* What was safe in memory only is lost, and says so; the frontier is gone. *)
LEMMA CrashKeeps ==
  ASSUME IntakeInv, Crash
  PROVE  IntakeInv'
PROOF
  <1>1. /\ \A b \in Bots : offset'[b] = 0 /\ batch'[b] = <<>> /\ channel'[b] = <<>>
        /\ \A c \in Chats : queue'[c] = <<>> /\ worker'[c] = "none" /\ serving'[c] = Nobody
        /\ loose' = {} /\ crashes' = crashes + 1
        /\ lost' = lost \cup ((InMemory \cap Allowed) \ telegram)
        /\ UNCHANGED <<arrived, telegram, hooks, begun, handled>>
    BY DEF Crash
  <1>2. TypeOK'
    <2>1. /\ offset' \in [Bots -> Nat] /\ batch' \in [Bots -> Seq(Updates)]
          /\ channel' \in [Bots -> Seq(Updates)] /\ queue' \in [Chats -> Seq(Updates)]
          /\ worker' \in [Chats -> {"none", "idle", "busy", "expired"}]
          /\ serving' \in [Chats -> Updates \cup {Nobody}]
      BY EmptySeq DEF Crash
    <2>2. lost' \subseteq Updates
      BY <1>1, IntakeAssumption DEF IntakeAssumption, IntakeInv, TypeOK
    <2>3. hook' \subseteq Bots
      BY DEF Crash, ClearedAtStart, IntakeInv, TypeOK
    <2>4. crashes' \in Nat /\ crashes' + hooks' <= MaxTroubles
      BY IntakeAssumption DEF IntakeAssumption, Crash, IntakeInv, TypeOK
    <2>5. \A b \in Bots : /\ ToSet(batch'[b]) \cup ToSet(channel'[b]) \subseteq Of(b)
                          /\ Len(batch'[b]) <= BatchSize /\ Len(channel'[b]) <= Buffer
      BY <1>1, EmptyAscends, IntakeAssumption DEF IntakeAssumption
    <2>6. \A c \in Chats : /\ ToSet(queue'[c]) \subseteq {u \in Updates : ChatOf[u] = c}
                           /\ Len(queue'[c]) <= QueueCap
      BY <1>1, EmptyAscends, IntakeAssumption DEF IntakeAssumption
    <2>. QED
      BY <1>1, <2>1, <2>2, <2>3, <2>4, <2>5, <2>6 DEF IntakeInv, TypeOK
  <1>3. WorkerInv'
    BY <1>1 DEF WorkerInv
  <1>4. ArrivalInv'
    BY <1>1, EmptyAscends DEF IntakeInv, ArrivalInv
  <1>5. KeepInv'
    <2>1. ASSUME NEW v \in arrived \cap Allowed PROVE v \in telegram' \/ Safe(v)'
      <3>1. Safe(v) => v \in handled \cup lost \cup InMemory
        BY SafeIsHeld
      <3>2. v \in telegram \/ Safe(v)
        BY DEF IntakeInv, KeepInv
      <3>. QED
        BY <1>1, <3>1, <3>2 DEF Safe
    <2>2. \A v \in arrived \cap Allowed : ~ (v < offset'[BotOf[v]])
      BY <1>1, Numbers, WaitingTyped DEF IntakeInv, TypeOK
    <2>3. \A b \in Bots : ToSet(batch'[b]) = {}
      BY <1>1, EmptyAscends
    <2>. QED
      BY <1>1, <2>1, <2>2, <2>3 DEF KeepInv
  <1>6. OrderInv'
    BY <1>1, EmptyAscends DEF OrderInv, AtChat
  <1>7. OnceInv'
    <2>1. \A v \in Updates : begun[v] \in Nat /\ begun[v] <= 1 + crashes /\ crashes \in Nat
      BY DEF IntakeInv, OnceInv, TypeOK
    <2>. QED
      BY <1>1, <2>1 DEF OnceInv
  <1>. QED
    BY <1>2, <1>3, <1>4, <1>5, <1>6, <1>7 DEF IntakeInv

LEMMA NextKeeps == IntakeInv /\ [Next]_vars => IntakeInv'
PROOF
  <1> SUFFICES ASSUME IntakeInv, [Next]_vars PROVE IntakeInv'
    OBVIOUS
  <1>1. ASSUME NEW u \in Updates, Arrive(u) \/ Hijack(u) \/ LooseDone(u) PROVE IntakeInv'
    BY <1>1, ArriveKeeps, HijackKeeps, LooseDoneKeeps
  <1>2. ASSUME NEW b \in Bots, Poller(b) \/ PollFails(b) \/ SetHook(b) \/ Dispatch(b)
        PROVE  IntakeInv'
    BY <1>2, PollKeeps, HookKeeps, PushKeeps, PollFailsKeeps, DispatchKeeps DEF Poller
  <1>3. ASSUME NEW c \in Chats, WorkerTakes(c) \/ WorkerDone(c) \/ TimerFires(c) \/ Retire(c)
        PROVE  IntakeInv'
    BY <1>3, WorkerTakesKeeps, WorkerDoneKeeps, TimerKeeps
  <1>4. CASE Crash
    BY <1>4, CrashKeeps
  <1>5. CASE UNCHANGED vars
    BY <1>5 DEF vars, telegramVars, pollVars, chatVars, history, IntakeInv, TypeOK, WorkerInv,
                ArrivalInv, KeepInv, OrderInv, OnceInv, Safe, AtChat, Ahead
  <1>. QED
    BY <1>1, <1>2, <1>3, <1>4, <1>5 DEF Next, Polling, Working

LEMMA AlwaysIntakeInv == Spec => []IntakeInv
PROOF
  BY InitInv, NextKeeps, PTL DEF Spec

-----------------------------------------------------------------------------
(* The properties. *)

(* However the buffers fill, the variables keep their types and no channel *)
(* or queue of the dispatcher exceeds its capacity.                        *)
THEOREM TypeCorrect == Spec => []TypeOK
PROOF
  <1>1. IntakeInv => TypeOK
    BY DEF IntakeInv
  <1>. QED
    BY <1>1, AlwaysIntakeInv, PTL

(* A worker that retires leaves no update behind in the queue of its chat. *)
THEOREM NoStrandedQueue == Spec => []QueueHasWorker
PROOF
  <1>1. IntakeInv => QueueHasWorker
    BY DEF IntakeInv, WorkerInv, QueueHasWorker
  <1>. QED
    BY <1>1, AlwaysIntakeInv, PTL

(* What an administrator sent is with Telegram, in memory, handled, or     *)
(* accounted for as lost with the process or to a webhook: failed polls,   *)
(* moved offsets, full queues and retiring workers drop nothing.           *)
THEOREM NothingIsDropped == Spec => []NothingDropped
PROOF
  <1>1. IntakeInv => NothingDropped
    BY SafeIsHeld DEF IntakeInv, KeepInv, NothingDropped
  <1>. QED
    BY <1>1, AlwaysIntakeInv, PTL

(* An update enters handleUpdate once in each life of the process at most. *)
THEOREM OnceInALife == Spec => []HandledOnce
PROOF
  <1>1. IntakeInv => HandledOnce
    BY DEF IntakeInv, OnceInv, HandledOnce
  <1>. QED
    BY <1>1, AlwaysIntakeInv, PTL

(* From the reply of Telegram through the channel and the queue to the     *)
(* handler, the updates of a bot in a chat keep the order they were sent.  *)
THEOREM OrderIsKept == Spec => []WaitInOrder
PROOF
  <1>1. ASSUME IntakeInv, NEW b \in Bots, NEW c \in Chats
        PROVE  Ascending(Pending(b, c), {u \in Of(b) : ChatOf[u] = c})
    <2> DEFINE H == {u \in Of(b) : ChatOf[u] = c}
               first == IF serving[c] = Nobody THEN <<>> ELSE <<serving[c]>>
    <2>1. /\ Updates \in SUBSET Nat /\ H \subseteq Of(b)
          /\ \A u \in H : u \in Nat /\ BotOf[u] = b /\ ChatOf[u] = c
      BY Numbers DEF Of
    <2>2. /\ queue[c] \in Seq(Updates) /\ channel[b] \in Seq(Updates)
          /\ batch[b] \in Seq(Updates) /\ offset[b] \in Nat
      BY <1>1, WaitingTyped DEF IntakeInv
    <2>3. /\ Ascending(queue[c], H) /\ Ascending(channel[b], H) /\ Ascending(batch[b], H)
      BY <1>1, <2>1, FewerAscend DEF IntakeInv, OrderInv
    <2>4. /\ first \in Seq(Updates) /\ Ascending(first, H)
          /\ ToSet(first) = {serving[c]} \ {Nobody}
      <3>1. serving[c] \in Updates \cup {Nobody}
        BY <1>1 DEF IntakeInv, TypeOK
      <3>2. CASE serving[c] = Nobody
        BY <3>2, EmptySeq, EmptyAscends
      <3>3. CASE serving[c] # Nobody
        BY <3>1, <3>3, OneAscends
      <3>. QED
        BY <3>2, <3>3
    <2> HIDE DEF H, first
    <2>5. /\ \A u \in ToSet(first) \cap H, v \in ToSet(queue[c]) \cap H : u < v
          /\ \A u \in AtChat(c) \cap H, v \in ToSet(channel[b]) \cap H : u < v
          /\ \A u \in AtChat(c) \cap H : u < offset[b]
          /\ \A u \in ToSet(channel[b]) : u < offset[b]
          /\ \A v \in ToSet(batch[b]) : offset[b] <= v
      BY <1>1, <2>1, <2>4 DEF IntakeInv, OrderInv
    <2> DEFINE r == first \o queue[c]
               t == r \o channel[b]
    <2>6. r \in Seq(Updates) /\ Ascending(r, H) /\ ToSet(r) = AtChat(c)
      BY <2>1, <2>2, <2>3, <2>4, <2>5, ConcatAscends DEF AtChat
    <2> HIDE DEF r
    <2>7. t \in Seq(Updates) /\ Ascending(t, H) /\ ToSet(t) = AtChat(c) \cup ToSet(channel[b])
      BY <2>1, <2>2, <2>3, <2>5, <2>6, ConcatAscends
    <2> HIDE DEF t
    <2>8. \A u \in ToSet(t) \cap H, v \in ToSet(batch[b]) \cap H : u < v
      BY <2>1, <2>2, <2>5, <2>7
    <2>9. Ascending(t \o batch[b], H)
      BY <2>1, <2>2, <2>3, <2>7, <2>8, ConcatAscends
    <2>. QED
      BY <2>9 DEF Pending, H, first, r, t
  <1>2. IntakeInv => WaitInOrder
    BY <1>1 DEF WaitInOrder
  <1>. QED
    BY <1>2, AlwaysIntakeInv, PTL
=============================================================================
