-------------------------- MODULE TurnOutput_proofs --------------------------
(***************************************************************************)
(* Proofs about TurnOutput, for any number of prompts, pieces, processes   *)
(* and ends.                                                               *)
(*                                                                         *)
(* Each action is first restated as what it does to the one session, the   *)
(* one reader and the one taker it works on (DeltaMoves, ResultMoves, ...);*)
(* the invariants are then proved from these, one after the other: the     *)
(* types, who holds which message, which text is in the buffer.            *)
(***************************************************************************)
EXTENDS TurnOutput, SequenceTheorems, FiniteSetTheorems, TLAPS

Texts == Seq(Pairs)
Kinds == {"thinking", "draft", "answer", "cut", "gone"}
Messages == [kind : Kinds, turn : Turns \cup {0}, text : Texts, marked : BOOLEAN]
Objects == [alive : BOOLEAN, active : Nat, armed : BOOLEAN, buffer : Texts, truncated : BOOLEAN]
Readers ==
  [pc : {"none", "read", "send", "clean", "fail", "report", "ended"}, of : Nat, killed : BOOLEAN,
   prompts : Seq(Turns), at : 0 .. Pieces, id : Nat, turn : Turns \cup {0}, text : Texts,
   marked : BOOLEAN]
Edits == [id : Nat, text : Texts]
Workers == [pc : {"idle", "look", "post", "arm", "write", "stop"}, id : Nat, turn : Turns \cup {0}]
Takes == [pc : {"ready", "take", "kill", "send", "over"}, of : Nat, id : Nat, text : Texts]

Typed ==
  /\ chat \in Seq(Messages)
  /\ session \in Seq(Objects) /\ Len(session) >= 1
  /\ reader \in [Starts -> Readers]
  /\ throttle \in [Starts -> Edits]
  /\ worker \in Workers
  /\ taker \in [Takers -> Takes]
  /\ sent \in 0 .. Prompts /\ faults \in 0 .. MaxFaults
  /\ DOMAIN takenBy \subseteq DOMAIN chat
  /\ cut \subseteq Turns /\ haunted \subseteq Turns
  /\ given \subseteq Turns /\ guessed \subseteq Turns

(* Whatever is written down is there: messages in the chat, sessions, the  *)
(* turn a worker is at.                                                    *)
Shows(id) == id = NoMessage \/ id \in DOMAIN chat

There ==
  /\ \A s \in Sessions : Shows(session[s].active)
  /\ \A r \in Starts : /\ reader[r].of \in IF reader[r].pc = "none" THEN {0} ELSE Sessions
                       /\ Shows(reader[r].id) /\ Shows(throttle[r].id)
                       /\ reader[r].pc \in {"send", "fail", "report"} => reader[r].turn \in Turns
  /\ Shows(worker.id)
  /\ \A k \in Takers : Shows(taker[k].id) /\ (taker[k].pc # "ready" => taker[k].of \in Sessions)
  /\ worker.turn \in IF worker.pc \in {"idle", "stop"} THEN {0} ELSE Turns

Base == Typed /\ There

(* What a step does: to a reader, a session, a message, a taker.           *)
ReaderMoves(r, y) ==
  /\ reader' \in [Starts -> Readers] /\ reader'[r] = y
  /\ \A q \in Starts : q # r => reader'[q] = reader[q]

SessionMoves(s, x) ==
  /\ session' \in Seq(Objects) /\ Len(session') = Len(session) /\ Sessions' = Sessions
  /\ session'[s] = x /\ \A q \in Sessions : q # s => session'[q] = session[q]

TakerMoves(k, z) ==
  /\ taker' \in [Takers -> Takes] /\ taker'[k] = z
  /\ \A j \in Takers : j # k => taker'[j] = taker[j]

(* The chat is only added to; a message may change.                        *)
ChatGrows == chat' \in Seq(Messages) /\ DOMAIN chat \subseteq DOMAIN chat'

(* The part of a reader that says what its process is doing.               *)
SameProcess(a, b) == b.of = a.of /\ b.killed = a.killed
SameWork(a, b) == b.prompts = a.prompts /\ b.at = a.at
SameCopy(a, b) == b.id = a.id /\ b.turn = a.turn /\ b.text = a.text /\ b.marked = a.marked

-----------------------------------------------------------------------------
(* Types and shapes. *)

LEMMA Numbers ==
  /\ Prompts \in Nat \ {0} /\ Pieces \in Nat \ {0} /\ LongAt \in Nat \ {0} /\ MaxStarts \in Nat \ {0}
  /\ MaxFaults \in Nat /\ Turns \subseteq Nat \ {0} /\ 0 \notin Turns
PROOF
  BY OutputAssumption DEF OutputAssumption, Turns

LEMMA SizeIs ==
  ASSUME NEW t
  PROVE  /\ Size(t) \in 0 .. Pieces /\ Size(t) \in Nat
         /\ t \notin Silent => Size(t) = Pieces
         /\ Len(Whole(t)) = Size(t) /\ \A k \in 1 .. Size(t) : Whole(t)[k] = <<t, k>>
         /\ t \in Turns => Whole(t) \in Texts
PROOF
  <1>1. Size(t) \in 0 .. Pieces /\ Size(t) \in Nat /\ (t \notin Silent => Size(t) = Pieces)
    BY Numbers DEF Size
  <1>2. Len(Whole(t)) = Size(t) /\ \A k \in 1 .. Size(t) : Whole(t)[k] = <<t, k>>
    BY <1>1 DEF Whole
  <1>3. ASSUME t \in Turns
        PROVE  Whole(t) \in Texts
    <2>1. Whole(t) \in [1 .. Size(t) -> Pairs]
      BY <1>1, <1>3, Numbers DEF Whole, Pairs
    <2>. QED
      BY <1>1, <2>1, IsASeq DEF Texts
  <1>. QED
    BY <1>1, <1>2, <1>3

(* What the transcript may give: a tail of the answer to a prompt that was *)
(* given.                                                                  *)
LEMMA ResponseIs ==
  ASSUME NEW u \in Turns, u \notin Silent, NEW k \in 1 .. Pieces
  PROVE  /\ Response(u, k) \in Texts /\ Len(Response(u, k)) = Pieces - k + 1
         /\ Response(u, k)[1] = <<u, k>>
         /\ k = 1 => Response(u, k) = Whole(u)
PROOF
  <1>1. /\ Size(u) = Pieces /\ Pieces \in Nat \ {0} /\ Len(Whole(u)) = Pieces
        /\ Whole(u) \in Seq(Pairs) /\ \A i \in 1 .. Pieces : Whole(u)[i] = <<u, i>>
    BY SizeIs, Numbers DEF Texts
  <1>2. Response(u, k) = SubSeq(Whole(u), k, Pieces)
    BY <1>1 DEF Response
  <1>3. /\ Response(u, k) \in Seq(Pairs) /\ Len(Response(u, k)) = Pieces - k + 1
        /\ \A i \in 1 .. Pieces - k + 1 : Response(u, k)[i] = Whole(u)[k + i - 1]
    BY <1>1, <1>2, SubSeqProperties
  <1>4. Response(u, k)[1] = <<u, k>>
    BY <1>1, <1>3
  <1>5. ASSUME k = 1
        PROVE  Response(u, k) = Whole(u)
    <2>1. /\ Len(Response(u, k)) = Len(Whole(u))
          /\ \A i \in 1 .. Len(Whole(u)) : Response(u, k)[i] = Whole(u)[i]
      BY <1>1, <1>3, <1>5
    <2>. QED
      BY <1>1, <1>3, <2>1, SeqEqual
  <1>. QED
    BY <1>3, <1>4, <1>5 DEF Texts

LEMMA SessionsAre ==
  ASSUME Typed
  PROVE  /\ Sessions = 1 .. Len(session) /\ Len(session) \in Nat /\ session \in [Sessions -> Objects]
         /\ Registered \in Sessions /\ Registered \in Nat /\ Registered + 1 \notin Sessions
         /\ \A s \in Sessions : session[s] \in Objects /\ s \in Nat
         /\ DOMAIN chat = 1 .. Len(chat) /\ Len(chat) \in Nat /\ chat \in [DOMAIN chat -> Messages]
         /\ NoMessage \notin DOMAIN chat
PROOF
  <1>1. session \in Seq(Objects) /\ chat \in Seq(Messages) /\ Len(session) >= 1
    BY DEF Typed
  <1>2. /\ Sessions = 1 .. Len(session) /\ Len(session) \in Nat /\ session \in [Sessions -> Objects]
        /\ DOMAIN chat = 1 .. Len(chat) /\ Len(chat) \in Nat /\ chat \in [DOMAIN chat -> Messages]
    BY <1>1, LenProperties DEF Sessions
  <1>. QED
    BY <1>1, <1>2 DEF Registered, NoMessage

LEMMA ReaderSet ==
  ASSUME Typed, NEW r \in Starts, NEW y \in Readers, reader' = [reader EXCEPT ![r] = y]
  PROVE  ReaderMoves(r, y)
PROOF
  BY DEF Typed, ReaderMoves

LEMMA SessionSet ==
  ASSUME Typed, NEW s \in Sessions, NEW x \in Objects, session' = [session EXCEPT ![s] = x]
  PROVE  SessionMoves(s, x)
PROOF
  <1>1. session \in Seq(Objects) /\ Sessions = 1 .. Len(session)
    BY SessionsAre DEF Typed
  <1>2. session' \in Seq(Objects) /\ Len(session') = Len(session)
    BY <1>1, ExceptSeq
  <1>3. Sessions' = Sessions
    BY <1>1, <1>2, LenProperties DEF Sessions
  <1>. QED
    BY <1>1, <1>2, <1>3 DEF SessionMoves, Sessions

LEMMA TakerSet ==
  ASSUME Typed, NEW k \in Takers, NEW z \in Takes, taker' = [taker EXCEPT ![k] = z]
  PROVE  TakerMoves(k, z)
PROOF
  BY DEF Typed, TakerMoves

LEMMA SameSessions ==
  ASSUME Typed, UNCHANGED session
  PROVE  session' \in Seq(Objects) /\ Len(session') = Len(session) /\ Sessions' = Sessions
PROOF
  BY DEF Typed, Sessions

(* A session without a turn, and a dead one. *)
LEMMA DisarmedIs ==
  ASSUME NEW x \in Objects
  PROVE  /\ Disarmed(x) \in Objects /\ Disarmed(x).alive = x.alive /\ Disarmed(x).active = NoMessage
         /\ Disarmed(x).buffer = <<>> /\ Disarmed(x).truncated = FALSE
         /\ Dead(x) \in Objects /\ Dead(x).alive = FALSE /\ Dead(x).active = NoMessage
         /\ Dead(x).buffer = <<>> /\ Dead(x).truncated = FALSE
         /\ [Dead(x) EXCEPT !.alive = TRUE] \in Objects
         /\ [Dead(x) EXCEPT !.alive = TRUE].alive = TRUE
         /\ [Dead(x) EXCEPT !.alive = TRUE].active = NoMessage
         /\ [Dead(x) EXCEPT !.alive = TRUE].buffer = <<>>
PROOF
  <1>1. <<>> \in Texts
    BY EmptySeq DEF Texts
  <1>. QED
    BY <1>1 DEF Objects, Disarmed, Dead, NoMessage

LEMMA NewSessionIs ==
  /\ NewSession \in Objects /\ NewSession.alive = TRUE /\ NewSession.active = NoMessage
  /\ NewSession.buffer = <<>>
PROOF
  <1>1. <<>> \in Texts
    BY EmptySeq DEF Texts
  <1>. QED
    BY <1>1 DEF Objects, NewSession, NoMessage

LEMMA NoneIs ==
  /\ NoReader \in Readers /\ NoReader.pc = "none" /\ NoReader.of = 0 /\ NoReader.killed = FALSE
  /\ NoReader.prompts = <<>> /\ NoReader.at = 0 /\ NoReader.id = NoMessage /\ NoReader.text = <<>>
  /\ NoEdit \in Edits /\ NoEdit.id = NoMessage
  /\ NoTake \in Takes /\ NoTake.pc = "ready" /\ NoTake.id = NoMessage
  /\ IdleWorker \in Workers /\ IdleWorker.pc = "idle" /\ IdleWorker.id = NoMessage /\ IdleWorker.turn = 0
PROOF
  <1>1. <<>> \in Texts /\ <<>> \in Seq(Turns) /\ 0 \in 0 .. Pieces
    BY EmptySeq, Numbers DEF Texts
  <1>. QED
    BY <1>1 DEF Readers, NoReader, Edits, NoEdit, Takes, NoTake, Workers, IdleWorker, NoMessage

(* Processes are ended by telling them so. *)
LEMMA CancelledIs ==
  ASSUME NEW rs \in [Starts -> Readers], NEW s
  PROVE  /\ Cancelled(rs, s) \in [Starts -> Readers]
         /\ \A r \in Starts :
              /\ Cancelled(rs, s)[r].pc = rs[r].pc /\ Cancelled(rs, s)[r].of = rs[r].of
              /\ SameWork(rs[r], Cancelled(rs, s)[r]) /\ SameCopy(rs[r], Cancelled(rs, s)[r])
              /\ Cancelled(rs, s)[r].killed = (rs[r].killed \/ r \in Running(s))
              /\ r \notin Running(s) => Cancelled(rs, s)[r] = rs[r]
PROOF
  <1>1. ASSUME NEW r \in Starts
        PROVE  /\ [rs[r] EXCEPT !.killed = TRUE] \in Readers
               /\ [rs[r] EXCEPT !.killed = TRUE].pc = rs[r].pc
               /\ [rs[r] EXCEPT !.killed = TRUE].of = rs[r].of
               /\ SameWork(rs[r], [rs[r] EXCEPT !.killed = TRUE])
               /\ SameCopy(rs[r], [rs[r] EXCEPT !.killed = TRUE])
               /\ [rs[r] EXCEPT !.killed = TRUE].killed = TRUE
               /\ rs[r] \in Readers /\ rs[r].killed \in BOOLEAN
    BY DEF Readers, SameWork, SameCopy
  <1>2. ASSUME NEW r \in Starts, r \in Running(s)
        PROVE  Cancelled(rs, s)[r] = [rs[r] EXCEPT !.killed = TRUE]
    BY <1>2 DEF Cancelled
  <1>3. ASSUME NEW r \in Starts, r \notin Running(s)
        PROVE  Cancelled(rs, s)[r] = rs[r]
    BY <1>3 DEF Cancelled
  <1>4. Cancelled(rs, s) \in [Starts -> Readers]
    BY <1>1 DEF Cancelled
  <1>5. ASSUME NEW r \in Starts
        PROVE  /\ Cancelled(rs, s)[r].pc = rs[r].pc /\ Cancelled(rs, s)[r].of = rs[r].of
               /\ SameWork(rs[r], Cancelled(rs, s)[r]) /\ SameCopy(rs[r], Cancelled(rs, s)[r])
               /\ Cancelled(rs, s)[r].killed = (rs[r].killed \/ r \in Running(s))
               /\ r \notin Running(s) => Cancelled(rs, s)[r] = rs[r]
    <2>1. CASE r \in Running(s)
      BY <1>1, <1>2, <2>1
    <2>2. CASE r \notin Running(s)
      BY <1>1, <1>3, <2>2 DEF SameWork, SameCopy
    <2>. QED
      BY <2>1, <2>2
  <1>. QED
    BY <1>4, <1>5

-----------------------------------------------------------------------------
(* The chat. *)

LEMMA FirstChunkIs ==
  ASSUME NEW text \in Texts
  PROVE  /\ FirstChunk(text) \in Texts
         /\ Len(text) < LongAt => FirstChunk(text) = text
         /\ FirstChunk(text) = <<>> \/ Len(text) > 0
         /\ Len(FirstChunk(text)) = IF Len(text) < LongAt THEN Len(text) ELSE LongAt - 1
         /\ \A i \in DOMAIN FirstChunk(text) : i \in DOMAIN text /\ FirstChunk(text)[i] = text[i]
PROOF
  <1>1. text \in Seq(Pairs) /\ LongAt \in Nat \ {0} /\ Len(text) \in Nat /\ DOMAIN text = 1 .. Len(text)
    BY Numbers, LenProperties DEF Texts
  <1>2. CASE Len(text) < LongAt
    <2>1. FirstChunk(text) = text
      BY <1>2 DEF FirstChunk
    <2>. QED
      BY <1>1, <1>2, <2>1, EmptySeq DEF Texts
  <1>3. CASE ~ (Len(text) < LongAt)
    <2>1. FirstChunk(text) = SubSeq(text, 1, LongAt - 1)
      BY <1>3 DEF FirstChunk
    <2>2. LongAt - 1 \in 0 .. Len(text) /\ \A i \in 1 .. (LongAt - 1) : text[i] \in Pairs /\ i \in DOMAIN text
      BY <1>1, <1>3, ElementOfSeq
    <2>3. /\ FirstChunk(text) = [i \in 1 .. (LongAt - 1) |-> text[i]]
      BY <1>1, <2>1, <2>2, SubSeqProperties
    <2>4. FirstChunk(text) \in Seq(Pairs)
      BY <1>1, <2>2, <2>3, IsASeq
    <2>5. Len(FirstChunk(text)) = LongAt - 1 /\ DOMAIN FirstChunk(text) = 1 .. (LongAt - 1)
      BY <1>1, <2>3, <2>4, LenProperties
    <2>. QED
      BY <1>1, <1>3, <2>2, <2>3, <2>4, <2>5 DEF Texts
  <1>. QED
    BY <1>2, <1>3

(* A new message at the end. *)
LEMMA Posted ==
  ASSUME Typed, NEW m \in Messages, chat' = Append(chat, m)
  PROVE  /\ ChatGrows /\ DOMAIN chat' = DOMAIN chat \cup {Len(chat')}
         /\ Len(chat') \notin DOMAIN chat /\ Len(chat') \in Nat /\ Len(chat') # NoMessage
         /\ \A i \in DOMAIN chat : chat'[i] = chat[i]
         /\ chat'[Len(chat')] = m
PROOF
  <1>1. chat \in Seq(Messages) /\ DOMAIN chat = 1 .. Len(chat) /\ Len(chat) \in Nat
    BY SessionsAre DEF Typed
  <1>2. chat' \in Seq(Messages) /\ Len(chat') = Len(chat) + 1
        /\ \A i \in 1 .. Len(chat) : chat'[i] = chat[i]
        /\ chat'[Len(chat) + 1] = m
    BY <1>1, AppendProperties
  <1>3. DOMAIN chat' = 1 .. (Len(chat) + 1)
    BY <1>2, LenProperties
  <1>. QED
    BY <1>1, <1>2, <1>3 DEF ChatGrows, NoMessage

LEMMA EditedIs ==
  ASSUME Typed, NEW id \in DOMAIN chat, NEW m \in Messages, Edited(id, m)
  PROVE  /\ ChatGrows /\ faults' \in 0 .. MaxFaults
         /\ \E shown \in Messages :
              /\ shown.kind = m.kind /\ shown.turn = m.turn /\ shown.marked = m.marked
              /\ shown.text = FirstChunk(m.text)
              /\ \A i \in DOMAIN chat : chat'[i] = chat[i] \/ (i = id /\ chat'[i] = shown)
              /\ \A i \in DOMAIN chat' \ DOMAIN chat : chat'[i] = shown
PROOF
  <1>1. PICK shown : shown = [m EXCEPT !.text = FirstChunk(@)]
    OBVIOUS
  <1>2. /\ shown \in Messages /\ shown.kind = m.kind /\ shown.turn = m.turn /\ shown.marked = m.marked
        /\ shown.text = FirstChunk(m.text)
    <2>1. m.text \in Texts /\ FirstChunk(m.text) \in Texts
      BY FirstChunkIs DEF Messages
    <2>. QED
      BY <1>1, <2>1 DEF Messages
  <1>3. /\ chat \in Seq(Messages) /\ DOMAIN chat = 1 .. Len(chat) /\ faults \in 0 .. MaxFaults
        /\ MaxFaults \in Nat
    BY SessionsAre, Numbers DEF Typed
  <1>4. \/ UNCHANGED <<chat, faults>>
        \/ chat' = [chat EXCEPT ![id] = shown] /\ UNCHANGED faults
        \/ faults < MaxFaults /\ faults' = faults + 1 /\ chat' = Append(chat, shown)
    BY <1>1 DEF Edited
  <1>5. CASE UNCHANGED <<chat, faults>>
    BY <1>2, <1>3, <1>5 DEF ChatGrows
  <1>6. CASE chat' = [chat EXCEPT ![id] = shown] /\ UNCHANGED faults
    <2>1. chat' \in Seq(Messages) /\ DOMAIN chat' = DOMAIN chat
      BY <1>2, <1>3, <1>6, ExceptSeq
    <2>2. \A i \in DOMAIN chat : chat'[i] = chat[i] \/ (i = id /\ chat'[i] = shown)
      BY <1>6
    <2>. QED
      BY <1>2, <1>3, <1>6, <2>1, <2>2 DEF ChatGrows
  <1>7. CASE faults < MaxFaults /\ faults' = faults + 1 /\ chat' = Append(chat, shown)
    <2>1. /\ ChatGrows /\ DOMAIN chat' = DOMAIN chat \cup {Len(chat')}
          /\ \A i \in DOMAIN chat : chat'[i] = chat[i]
          /\ chat'[Len(chat')] = shown
      BY <1>2, <1>7, Posted
    <2>2. faults' \in 0 .. MaxFaults
      BY <1>3, <1>7
    <2>. QED
      BY <1>2, <2>1, <2>2
  <1>. QED
    BY <1>4, <1>5, <1>6, <1>7

LEMMA AnsweredIs ==
  ASSUME Typed, NEW id, Shows(id), NEW m \in Messages, Answered(id, m)
  PROVE  /\ ChatGrows /\ faults' \in 0 .. MaxFaults
         /\ \A i \in DOMAIN chat :
              \/ chat'[i] = chat[i]
              \/ i = id /\ chat'[i] = m /\ Len(m.text) < LongAt
              \/ i = id /\ chat'[i].kind = "gone" /\ chat'[i].turn = chat[i].turn
                        /\ chat'[i].text = chat[i].text
         /\ \A i \in DOMAIN chat' \ DOMAIN chat : chat'[i] = m
PROOF
  <1>1. CASE id # NoMessage /\ Len(m.text) < LongAt /\ Edited(id, m)
    <2>1. id \in DOMAIN chat
      BY <1>1 DEF Shows
    <2>2. PICK shown \in Messages :
              /\ shown.kind = m.kind /\ shown.turn = m.turn /\ shown.marked = m.marked
              /\ shown.text = FirstChunk(m.text)
              /\ \A i \in DOMAIN chat : chat'[i] = chat[i] \/ (i = id /\ chat'[i] = shown)
              /\ \A i \in DOMAIN chat' \ DOMAIN chat : chat'[i] = shown
      BY <1>1, <2>1, EditedIs
    <2>3. m.text \in Texts /\ shown.text = m.text
      BY <1>1, <2>2, FirstChunkIs DEF Messages
    <2>4. shown = m
      BY <2>2, <2>3 DEF Messages
    <2>. QED
      BY <1>1, <2>1, <2>2, <2>4, EditedIs
  <1>2. CASE /\ chat' = Append([i \in DOMAIN chat |-> IF i = id THEN [chat[i] EXCEPT !.kind = "gone"]
                                                     ELSE chat[i]], m)
             /\ UNCHANGED faults
    <2> DEFINE old == [i \in DOMAIN chat |-> IF i = id THEN [chat[i] EXCEPT !.kind = "gone"] ELSE chat[i]]
    <2>1. /\ chat \in [DOMAIN chat -> Messages] /\ DOMAIN chat = 1 .. Len(chat) /\ Len(chat) \in Nat
          /\ faults \in 0 .. MaxFaults
      BY SessionsAre DEF Typed
    <2>2. ASSUME NEW i \in DOMAIN chat
          PROVE  /\ old[i] \in Messages /\ (i # id => old[i] = chat[i])
                 /\ i = id => old[i].kind = "gone" /\ old[i].turn = chat[i].turn
                              /\ old[i].text = chat[i].text
      BY <2>1 DEF Messages, Kinds
    <2>3. old \in [1 .. Len(chat) -> Messages]
      BY <2>1, <2>2
    <2>4. old \in Seq(Messages) /\ Len(old) = Len(chat)
      BY <2>1, <2>3, IsASeq, LenProperties
    <2> HIDE DEF old
    <2>5. chat' = Append(old, m)
      BY <1>2 DEF old
    <2>6. /\ chat' \in Seq(Messages) /\ Len(chat') = Len(chat) + 1
          /\ \A i \in 1 .. Len(chat) : chat'[i] = old[i]
          /\ chat'[Len(chat) + 1] = m
      BY <2>1, <2>4, <2>5, AppendProperties
    <2>7. DOMAIN chat' = 1 .. (Len(chat) + 1)
      BY <2>6, LenProperties
    <2>8. DOMAIN chat \subseteq DOMAIN chat' /\ \A i \in DOMAIN chat' \ DOMAIN chat : i = Len(chat) + 1
      BY <2>1, <2>7
    <2>. QED
      BY <1>2, <2>1, <2>2, <2>6, <2>8 DEF ChatGrows
  <1>. QED
    BY <1>1, <1>2 DEF Answered

LEMMA TookIs ==
  ASSUME NEW who, NEW id
  PROVE  /\ id = NoMessage => Took(who, id) = takenBy
         /\ id # NoMessage => DOMAIN Took(who, id) = DOMAIN takenBy \cup {id}
         /\ \A i \in DOMAIN takenBy : i # id => Took(who, id)[i] = takenBy[i]
         /\ id # NoMessage /\ id \in DOMAIN takenBy => Took(who, id)[id] = takenBy[id] \cup {who}
         /\ id # NoMessage /\ id \notin DOMAIN takenBy => Took(who, id)[id] = {who}
PROOF
  <1>1. CASE id = NoMessage
    BY <1>1 DEF Took
  <1>2. CASE id # NoMessage
    <2>1. Took(who, id) = [i \in DOMAIN takenBy \cup {id} |->
                         (IF i \in DOMAIN takenBy THEN takenBy[i] ELSE {})
                           \cup (IF i = id THEN {who} ELSE {})]
      BY <1>2 DEF Took
    <2>. QED
      BY <1>2, <2>1
  <1>. QED
    BY <1>1, <1>2

-----------------------------------------------------------------------------
(* The actions of a reader. *)

LEMMA ReaderIs ==
  ASSUME Base, NEW r \in Starts
  PROVE  /\ reader[r] \in Readers /\ Shows(reader[r].id)
         /\ reader[r].pc # "none" => /\ reader[r].of \in Sessions /\ session[reader[r].of] \in Objects
                                     /\ Shows(session[reader[r].of].active)
         /\ reader[r].prompts \in Seq(Turns)
         /\ reader[r].prompts # <<>> => /\ Head(reader[r].prompts) \in Turns
                                        /\ Tail(reader[r].prompts) \in Seq(Turns)
PROOF
  <1>1. reader[r] \in Readers /\ reader[r].prompts \in Seq(Turns)
    BY DEF Base, Typed, Readers
  <1>2. reader[r].prompts # <<>> => /\ Head(reader[r].prompts) \in Turns
                                    /\ Tail(reader[r].prompts) \in Seq(Turns)
    BY <1>1, HeadTailProperties
  <1>. QED
    BY <1>1, <1>2, SessionsAre DEF Base, There

DeltaDoes(r, y, x) ==
  /\ reader[r].pc = "read" /\ reader[r].prompts # <<>>
  /\ reader[r].at < Size(Head(reader[r].prompts))
  /\ ReaderMoves(r, y) /\ SessionMoves(reader[r].of, x)
  /\ y.pc = "read" /\ SameProcess(reader[r], y) /\ SameCopy(reader[r], y)
  /\ y.prompts = reader[r].prompts /\ y.at = reader[r].at + 1
  /\ x.alive = session[reader[r].of].alive /\ x.active = session[reader[r].of].active
  /\ <<Head(reader[r].prompts), reader[r].at + 1>> \in Pairs
  /\ \/ /\ x.truncated = session[reader[r].of].truncated
        /\ x.buffer = Append(session[reader[r].of].buffer,
                             <<Head(reader[r].prompts), reader[r].at + 1>>)
     \/ /\ x.truncated = TRUE /\ x.buffer = session[reader[r].of].buffer
  /\ faults' \in 0 .. MaxFaults
  /\ UNCHANGED <<chat, throttle, worker, taker, sent, given, takenBy, cut, haunted, guessed>>

LEMMA DeltaMoves ==
  ASSUME Base, NEW r \in Starts, Delta(r)
  PROVE  \E y \in Readers, x \in Objects : DeltaDoes(r, y, x)
PROOF
  <1> USE DEF DeltaDoes
  <1> DEFINE s == reader[r].of
             p == <<Head(reader[r].prompts), reader[r].at + 1>>
  <1>1. /\ reader[r].pc = "read" /\ reader[r].prompts # <<>>
        /\ reader[r].at < Size(Head(reader[r].prompts))
        /\ reader' = [reader EXCEPT ![r].at = reader[r].at + 1]
        /\ \/ session' = [session EXCEPT ![s] = Fits(@, p)] /\ UNCHANGED faults
           \/ /\ faults < MaxFaults /\ faults' = faults + 1
              /\ session' = [session EXCEPT ![s] = Overflows(@)]
        /\ UNCHANGED <<chat, throttle, worker, taker, sent, given, takenBy, cut, haunted, guessed>>
    BY DEF Delta, history
  <1>2. /\ Typed /\ reader[r] \in Readers /\ s \in Sessions /\ session[s] \in Objects
        /\ Head(reader[r].prompts) \in Turns
    BY <1>1, ReaderIs DEF Base
  <1>3. reader[r].at \in 0 .. Pieces /\ reader[r].at + 1 \in 1 .. Pieces /\ p \in Pairs
    <2>1. reader[r].at \in 0 .. Pieces /\ Pieces \in Nat
      BY <1>2, Numbers DEF Readers
    <2>2. reader[r].at < Size(Head(reader[r].prompts)) /\ Size(Head(reader[r].prompts)) \in 0 .. Pieces
      BY <1>1, SizeIs
    <2>. QED
      BY <1>2, <2>1, <2>2 DEF Pairs
  <1>4. PICK y : y = [reader[r] EXCEPT !.at = reader[r].at + 1]
    OBVIOUS
  <1>5. /\ y \in Readers /\ y.pc = "read" /\ SameProcess(reader[r], y) /\ SameCopy(reader[r], y)
        /\ y.prompts = reader[r].prompts /\ y.at = reader[r].at + 1
    <2>1. reader[r].at + 1 \in 0 .. Pieces
      BY <1>3, Numbers
    <2>. QED
      BY <1>1, <1>2, <1>4, <2>1 DEF Readers, SameProcess, SameCopy
  <1>6. ReaderMoves(r, y)
    BY <1>1, <1>2, <1>4, <1>5, ReaderSet
  <1>7. faults' \in 0 .. MaxFaults
    BY <1>1, <1>2, Numbers DEF Typed
  <1>8. CASE session' = [session EXCEPT ![s] = Fits(@, p)]
    <2>1. PICK x : x = Fits(session[s], p)
      OBVIOUS
    <2>2. Append(session[s].buffer, p) \in Texts
      BY <1>2, <1>3, AppendProperties DEF Objects, Texts
    <2>3. /\ x \in Objects /\ x.alive = session[s].alive /\ x.active = session[s].active
          /\ x.truncated = session[s].truncated /\ x.buffer = Append(session[s].buffer, p)
      BY <1>2, <2>1, <2>2 DEF Fits, Objects
    <2>4. SessionMoves(s, x)
      BY <1>2, <1>8, <2>1, <2>3, SessionSet
    <2>. QED
      BY <1>1, <1>3, <1>5, <1>6, <1>7, <2>3, <2>4
  <1>9. CASE session' = [session EXCEPT ![s] = Overflows(@)]
    <2>1. PICK x : x = Overflows(session[s])
      OBVIOUS
    <2>2. /\ x \in Objects /\ x.alive = session[s].alive /\ x.active = session[s].active
          /\ x.truncated = TRUE /\ x.buffer = session[s].buffer
      BY <1>2, <2>1 DEF Overflows, Objects
    <2>3. SessionMoves(s, x)
      BY <1>2, <1>9, <2>1, <2>2, SessionSet
    <2>. QED
      BY <1>1, <1>3, <1>5, <1>6, <1>7, <2>2, <2>3
  <1>. QED
    BY <1>1, <1>8, <1>9

(* What a reader copies before it sends, and that its turn is over. *)
LEMMA SendingIs ==
  ASSUME Base, NEW r \in Starts, NEW pc \in {"send", "fail", "report"},
         NEW id, Shows(id), NEW t \in Turns \cup {0}, NEW text \in Texts, NEW marked \in BOOLEAN
  PROVE  \E y \in Readers :
           /\ Sending(r, pc, id, t, text, marked) = [reader EXCEPT ![r] = y]
           /\ Sending(r, pc, id, t, text, marked) \in [Starts -> Readers]
           /\ y.pc = pc /\ SameProcess(reader[r], y) /\ SameWork(reader[r], y)
           /\ y.id = id /\ y.turn = t /\ y.text = text /\ y.marked = marked
PROOF
  <1>1. PICK y : y = [[[[[reader[r] EXCEPT !.pc = pc] EXCEPT !.id = id] EXCEPT !.turn = t]
                        EXCEPT !.text = text] EXCEPT !.marked = marked]
    OBVIOUS
  <1>2. reader[r] \in Readers /\ reader \in [Starts -> Readers] /\ id \in Nat
    BY ReaderIs, SessionsAre DEF Base, Typed, Shows, NoMessage
  <1>3. /\ y \in Readers /\ y.pc = pc /\ SameProcess(reader[r], y) /\ SameWork(reader[r], y)
        /\ y.id = id /\ y.turn = t /\ y.text = text /\ y.marked = marked
    BY <1>1, <1>2 DEF Readers, SameProcess, SameWork
  <1>4. Sending(r, pc, id, t, text, marked) = [reader EXCEPT ![r] = y]
    BY <1>1, <1>2 DEF Sending
  <1>. QED
    BY <1>2, <1>3, <1>4

LEMMA TurnOverIs ==
  ASSUME NEW rs \in [Starts -> Readers], NEW r \in Starts, rs[r].prompts # <<>>
  PROVE  \E y \in Readers :
           /\ TurnOver(rs, r) = [rs EXCEPT ![r] = y]
           /\ y.pc = rs[r].pc /\ SameProcess(rs[r], y) /\ SameCopy(rs[r], y)
           /\ y.prompts = Tail(rs[r].prompts) /\ y.at = 0
PROOF
  <1>1. PICK y : y = [[rs[r] EXCEPT !.prompts = Tail(rs[r].prompts)] EXCEPT !.at = 0]
    OBVIOUS
  <1>2. rs[r] \in Readers /\ Tail(rs[r].prompts) \in Seq(Turns) /\ 0 \in 0 .. Pieces
    <2>1. rs[r] \in Readers /\ rs[r].prompts \in Seq(Turns)
      BY DEF Readers
    <2>. QED
      BY <2>1, HeadTailProperties, Numbers
  <1>3. /\ y \in Readers /\ y.pc = rs[r].pc /\ SameProcess(rs[r], y) /\ SameCopy(rs[r], y)
        /\ y.prompts = Tail(rs[r].prompts) /\ y.at = 0
    BY <1>1, <1>2 DEF Readers, SameProcess, SameCopy
  <1>4. TurnOver(rs, r) = [rs EXCEPT ![r] = y]
    BY <1>1, <1>2 DEF TurnOver
  <1>. QED
    BY <1>3, <1>4

LEMMA OverSending ==
  ASSUME Base, NEW r \in Starts, NEW pc \in {"send", "fail"},
         NEW id, Shows(id), NEW t \in Turns, NEW text \in Texts, NEW marked \in BOOLEAN,
         reader[r].prompts # <<>>, reader' = TurnOver(Sending(r, pc, id, t, text, marked), r)
  PROVE  \E y \in Readers :
           /\ ReaderMoves(r, y) /\ y.pc = pc /\ SameProcess(reader[r], y)
           /\ y.prompts = Tail(reader[r].prompts) /\ y.at = 0
           /\ y.id = id /\ y.turn = t /\ y.text = text /\ y.marked = marked
PROOF
  <1>1. PICK z \in Readers :
           /\ Sending(r, pc, id, t, text, marked) = [reader EXCEPT ![r] = z]
           /\ Sending(r, pc, id, t, text, marked) \in [Starts -> Readers]
           /\ z.pc = pc /\ SameProcess(reader[r], z) /\ SameWork(reader[r], z)
           /\ z.id = id /\ z.turn = t /\ z.text = text /\ z.marked = marked
    BY SendingIs
  <1>2. PICK rs : rs = Sending(r, pc, id, t, text, marked)
    OBVIOUS
  <1>3. Typed /\ reader \in [Starts -> Readers] /\ rs = [reader EXCEPT ![r] = z] /\ rs[r] = z
    BY <1>1, <1>2 DEF Base, Typed
  <1>4. rs[r].prompts # <<>> /\ rs \in [Starts -> Readers]
    BY <1>1, <1>2, <1>3 DEF SameWork
  <1>5. PICK y \in Readers :
           /\ TurnOver(rs, r) = [rs EXCEPT ![r] = y]
           /\ y.pc = rs[r].pc /\ SameProcess(rs[r], y) /\ SameCopy(rs[r], y)
           /\ y.prompts = Tail(rs[r].prompts) /\ y.at = 0
    BY <1>4, TurnOverIs
  <1>6. reader' = [reader EXCEPT ![r] = y]
    BY <1>2, <1>3, <1>5
  <1>7. ReaderMoves(r, y)
    BY <1>3, <1>6, ReaderSet
  <1>. QED
    BY <1>1, <1>3, <1>5, <1>7 DEF SameProcess, SameWork, SameCopy

ResultDoes(r, y, x) ==
  /\ reader[r].pc = "read" /\ reader[r].prompts # <<>>
  /\ reader[r].at = Size(Head(reader[r].prompts))
  /\ ReaderMoves(r, y) /\ SessionMoves(reader[r].of, x)
  /\ y.pc = "send" /\ SameProcess(reader[r], y)
  /\ y.prompts = Tail(reader[r].prompts) /\ y.at = 0
  /\ y.id = session[reader[r].of].active /\ y.turn = Head(reader[r].prompts)
  /\ \/ /\ y.text = session[reader[r].of].buffer /\ y.marked = session[reader[r].of].truncated
        /\ guessed' = guessed
     \/ \E last \in LastResponses :
          /\ Recovers(session[reader[r].of].buffer, last)
          /\ y.text = last /\ y.marked = FALSE
          /\ guessed' = IF Begun(session[reader[r].of].buffer, Head(reader[r].prompts)) THEN guessed
                        ELSE guessed \cup {Head(reader[r].prompts)}
  /\ guessed' \subseteq Turns
  /\ x.alive = session[reader[r].of].alive /\ x.active = NoMessage
  /\ x.buffer = session[reader[r].of].buffer
  /\ x.truncated = session[reader[r].of].truncated
  /\ takenBy' = Took(<<"result", r, Head(reader[r].prompts)>>, session[reader[r].of].active)
  /\ UNCHANGED <<chat, faults, throttle, worker, taker, sent, given, cut, haunted>>

LEMMA ResultMoves ==
  ASSUME Base, NEW r \in Starts, Result(r)
  PROVE  \E y \in Readers, x \in Objects : ResultDoes(r, y, x)
PROOF
  <1> USE DEF ResultDoes
  <1> DEFINE s == reader[r].of
             t == Head(reader[r].prompts)
  <1>1. /\ reader[r].pc = "read" /\ reader[r].prompts # <<>> /\ reader[r].at = Size(t)
        /\ session' = [session EXCEPT ![s].active = NoMessage]
        /\ takenBy' = Took(<<"result", r, t>>, session[s].active)
        /\ \/ /\ reader' = TurnOver(Sending(r, "send", session[s].active, t, session[s].buffer,
                                            session[s].truncated), r)
              /\ guessed' = guessed
           \/ \E last \in LastResponses :
                /\ Recovers(session[s].buffer, last)
                /\ reader' = TurnOver(Sending(r, "send", session[s].active, t, last, FALSE), r)
                /\ guessed' = IF Begun(session[s].buffer, t) THEN guessed ELSE guessed \cup {t}
        /\ UNCHANGED <<chat, faults, throttle, worker, taker, sent, given, cut, haunted>>
    BY DEF Result, Disarm, telegramVars
  <1>2. /\ Typed /\ s \in Sessions /\ session[s] \in Objects /\ Shows(session[s].active) /\ t \in Turns
    BY <1>1, ReaderIs DEF Base
  <1>3. session[s].buffer \in Texts /\ session[s].truncated \in BOOLEAN
    BY <1>2 DEF Objects
  <1>4. LastResponses \subseteq Texts /\ guessed' \subseteq Turns
    <2>1. given \subseteq Turns /\ guessed \subseteq Turns
      BY <1>2 DEF Typed
    <2>2. LastResponses \subseteq Texts
      BY <2>1, ResponseIs DEF LastResponses
    <2>. QED
      BY <1>1, <1>2, <2>1, <2>2
  <1>5. PICK x : x = [session[s] EXCEPT !.active = NoMessage]
    OBVIOUS
  <1>6. /\ x \in Objects /\ x.alive = session[s].alive /\ x.active = NoMessage
        /\ x.buffer = session[s].buffer /\ x.truncated = session[s].truncated
    BY <1>2, <1>5 DEF Objects, NoMessage
  <1>7. SessionMoves(s, x)
    BY <1>1, <1>2, <1>5, <1>6, SessionSet
  <1>8. CASE /\ reader' = TurnOver(Sending(r, "send", session[s].active, t, session[s].buffer,
                                           session[s].truncated), r)
             /\ guessed' = guessed
    <2>1. PICK id, u, text, marked :
            id = session[s].active /\ u = t /\ text = session[s].buffer /\ marked = session[s].truncated
      OBVIOUS
    <2>2. /\ Base /\ "send" \in {"send", "fail"} /\ Shows(id) /\ u \in Turns /\ text \in Texts
          /\ marked \in BOOLEAN /\ reader[r].prompts # <<>>
          /\ reader' = TurnOver(Sending(r, "send", id, u, text, marked), r)
      BY <1>1, <1>2, <1>3, <1>8, <2>1
    <2>3. PICK y \in Readers :
           /\ ReaderMoves(r, y) /\ y.pc = "send" /\ SameProcess(reader[r], y)
           /\ y.prompts = Tail(reader[r].prompts) /\ y.at = 0
           /\ y.id = id /\ y.turn = u /\ y.text = text /\ y.marked = marked
      BY <2>2, OverSending
    <2>. QED
      BY <1>1, <1>4, <1>6, <1>7, <1>8, <2>1, <2>3
  <1>9. ASSUME NEW last \in LastResponses, Recovers(session[s].buffer, last),
               reader' = TurnOver(Sending(r, "send", session[s].active, t, last, FALSE), r),
               guessed' = IF Begun(session[s].buffer, t) THEN guessed ELSE guessed \cup {t}
        PROVE  \E y \in Readers, z \in Objects : ResultDoes(r, y, z)
    <2>1. PICK id, u, text, marked :
            id = session[s].active /\ u = t /\ text = last /\ marked = FALSE
      OBVIOUS
    <2>2. /\ Base /\ "send" \in {"send", "fail"} /\ Shows(id) /\ u \in Turns /\ text \in Texts
          /\ marked \in BOOLEAN /\ reader[r].prompts # <<>>
          /\ reader' = TurnOver(Sending(r, "send", id, u, text, marked), r)
      BY <1>1, <1>2, <1>4, <1>9, <2>1
    <2>3. PICK y \in Readers :
           /\ ReaderMoves(r, y) /\ y.pc = "send" /\ SameProcess(reader[r], y)
           /\ y.prompts = Tail(reader[r].prompts) /\ y.at = 0
           /\ y.id = id /\ y.turn = u /\ y.text = text /\ y.marked = marked
      BY <2>2, OverSending
    <2>. QED
      BY <1>1, <1>4, <1>6, <1>7, <1>9, <2>1, <2>3
  <1>. QED
    BY <1>1, <1>8, <1>9

SendAnswerDoes(r, y, m) ==
  /\ reader[r].pc = "send" /\ ReaderMoves(r, y) /\ y.pc = "clean"
  /\ SameProcess(reader[r], y) /\ SameWork(reader[r], y) /\ SameCopy(reader[r], y)
  /\ m.kind = "answer" /\ m.turn = reader[r].turn /\ m.text = reader[r].text
  /\ m.marked = reader[r].marked
  /\ ChatGrows /\ faults' \in 0 .. MaxFaults
  /\ \A i \in DOMAIN chat :
       \/ chat'[i] = chat[i]
       \/ i = reader[r].id /\ chat'[i] = m /\ Len(m.text) < LongAt
       \/ i = reader[r].id /\ chat'[i].kind = "gone" /\ chat'[i].turn = chat[i].turn
                           /\ chat'[i].text = chat[i].text
  /\ \A i \in DOMAIN chat' \ DOMAIN chat : chat'[i] = m
  /\ UNCHANGED <<session, throttle, worker, taker, sent, given, takenBy, cut, haunted, guessed>>

LEMMA SendAnswerMoves ==
  ASSUME Base, NEW r \in Starts, SendAnswer(r)
  PROVE  \E y \in Readers, m \in Messages : SendAnswerDoes(r, y, m)
PROOF
  <1> USE DEF SendAnswerDoes
  <1>1. PICK m : m = Message("answer", reader[r].turn, reader[r].text, reader[r].marked)
    OBVIOUS
  <1>2. /\ reader[r].pc = "send" /\ Answered(reader[r].id, m)
        /\ reader' = [reader EXCEPT ![r].pc = "clean"]
        /\ UNCHANGED <<session, throttle, worker, taker, sent, given, takenBy, cut, haunted, guessed>>
    BY <1>1 DEF SendAnswer, history
  <1>3. Typed /\ reader[r] \in Readers /\ Shows(reader[r].id)
    BY ReaderIs DEF Base
  <1>4. /\ m \in Messages /\ m.kind = "answer" /\ m.turn = reader[r].turn /\ m.text = reader[r].text
        /\ m.marked = reader[r].marked
    BY <1>1, <1>3 DEF Message, Messages, Kinds, Readers
  <1>5. PICK y : y = [reader[r] EXCEPT !.pc = "clean"]
    OBVIOUS
  <1>6. /\ y \in Readers /\ y.pc = "clean"
        /\ SameProcess(reader[r], y) /\ SameWork(reader[r], y) /\ SameCopy(reader[r], y)
    BY <1>3, <1>5 DEF Readers, SameProcess, SameWork, SameCopy
  <1>7. ReaderMoves(r, y)
    BY <1>2, <1>3, <1>5, <1>6, ReaderSet
  <1>. QED
    BY <1>2, <1>3, <1>4, <1>6, <1>7, AnsweredIs

CleanDoes(r, y, x) ==
  /\ reader[r].pc = "clean" /\ ReaderMoves(r, y) /\ SessionMoves(reader[r].of, x)
  /\ y.pc = "read"
  /\ SameProcess(reader[r], y) /\ SameWork(reader[r], y) /\ SameCopy(reader[r], y)
  /\ x.alive = session[reader[r].of].alive /\ x.active = session[reader[r].of].active
  /\ x.buffer = <<>>
  /\ UNCHANGED <<chat, faults, throttle, worker, taker, sent, given, takenBy, cut, haunted, guessed>>

LEMMA CleanMoves ==
  ASSUME Base, NEW r \in Starts, Clean(r)
  PROVE  \E y \in Readers, x \in Objects : CleanDoes(r, y, x)
PROOF
  <1> USE DEF CleanDoes
  <1> DEFINE s == reader[r].of
  <1>1. /\ reader[r].pc = "clean" /\ reader' = [reader EXCEPT ![r].pc = "read"]
        /\ session' = [session EXCEPT ![s].armed = FALSE, ![s].buffer = <<>>]
        /\ UNCHANGED <<chat, faults, throttle, worker, taker, sent, given, takenBy, cut, haunted, guessed>>
    BY DEF Clean, telegramVars, history
  <1>2. Typed /\ reader[r] \in Readers /\ s \in Sessions /\ session[s] \in Objects
    BY <1>1, ReaderIs DEF Base
  <1>3. PICK y : y = [reader[r] EXCEPT !.pc = "read"]
    OBVIOUS
  <1>4. /\ y \in Readers /\ y.pc = "read"
        /\ SameProcess(reader[r], y) /\ SameWork(reader[r], y) /\ SameCopy(reader[r], y)
    BY <1>2, <1>3 DEF Readers, SameProcess, SameWork, SameCopy
  <1>5. ReaderMoves(r, y)
    BY <1>1, <1>2, <1>3, <1>4, ReaderSet
  <1>6. PICK x : x = [[session[s] EXCEPT !.armed = FALSE] EXCEPT !.buffer = <<>>]
    OBVIOUS
  <1>7. x \in Objects /\ x.alive = session[s].alive /\ x.active = session[s].active /\ x.buffer = <<>>
    BY <1>2, <1>6, EmptySeq DEF Objects, Texts
  <1>8. SessionMoves(s, x)
    BY <1>1, <1>2, <1>6, <1>7, SessionSet
  <1>. QED
    BY <1>1, <1>4, <1>5, <1>7, <1>8

ErrorDoes(r, y) ==
  /\ reader[r].pc = "read" /\ reader[r].prompts # <<>> /\ ReaderMoves(r, y)
  /\ SameProcess(reader[r], y) /\ y.prompts = Tail(reader[r].prompts) /\ y.at = 0
  /\ \/ Ignored(session[reader[r].of]) /\ y.pc = "read" /\ SameCopy(reader[r], y)
     \/ /\ y.pc = "fail" /\ y.id = session[reader[r].of].active
        /\ y.turn = Head(reader[r].prompts) /\ y.text = <<>>
  /\ faults' \in 0 .. MaxFaults
  /\ UNCHANGED <<chat, session, throttle, worker, taker, sent, given, takenBy, cut, haunted, guessed>>

LEMMA ErrorMoves ==
  ASSUME Base, NEW r \in Starts, Error(r)
  PROVE  \E y \in Readers : ErrorDoes(r, y)
PROOF
  <1> USE DEF ErrorDoes
  <1> DEFINE x == session[reader[r].of]
             t == Head(reader[r].prompts)
  <1>1. /\ reader[r].pc = "read" /\ reader[r].prompts # <<>>
        /\ \/ Ignored(x) /\ reader' = TurnOver(reader, r)
           \/ reader' = TurnOver(Sending(r, "fail", x.active, t, <<>>, FALSE), r)
        /\ faults < MaxFaults /\ faults' = faults + 1
        /\ UNCHANGED <<chat, session, throttle, worker, taker, sent, given, takenBy, cut, haunted, guessed>>
    BY DEF Error, history
  <1>2. /\ Typed /\ reader \in [Starts -> Readers] /\ Shows(x.active) /\ t \in Turns
        /\ faults \in 0 .. MaxFaults
    BY <1>1, ReaderIs DEF Base, Typed
  <1>3. faults' \in 0 .. MaxFaults
    BY <1>1, <1>2, Numbers
  <1>4. CASE Ignored(x) /\ reader' = TurnOver(reader, r)
    <2>1. PICK y \in Readers :
           /\ TurnOver(reader, r) = [reader EXCEPT ![r] = y]
           /\ y.pc = reader[r].pc /\ SameProcess(reader[r], y) /\ SameCopy(reader[r], y)
           /\ y.prompts = Tail(reader[r].prompts) /\ y.at = 0
      BY <1>1, <1>2, TurnOverIs
    <2>2. ReaderMoves(r, y)
      BY <1>2, <1>4, <2>1, ReaderSet
    <2>. QED
      BY <1>1, <1>3, <1>4, <2>1, <2>2
  <1>5. CASE reader' = TurnOver(Sending(r, "fail", x.active, t, <<>>, FALSE), r)
    <2>1. PICK id, u, text, marked : id = x.active /\ u = t /\ text = <<>> /\ marked = FALSE
      OBVIOUS
    <2>2. /\ Base /\ "fail" \in {"send", "fail"} /\ Shows(id) /\ u \in Turns /\ text \in Texts
          /\ marked \in BOOLEAN /\ reader[r].prompts # <<>>
          /\ reader' = TurnOver(Sending(r, "fail", id, u, text, marked), r)
      BY <1>1, <1>2, <1>5, <2>1, EmptySeq DEF Texts
    <2>3. PICK y \in Readers :
           /\ ReaderMoves(r, y) /\ y.pc = "fail" /\ SameProcess(reader[r], y)
           /\ y.prompts = Tail(reader[r].prompts) /\ y.at = 0
           /\ y.id = id /\ y.turn = u /\ y.text = text /\ y.marked = marked
      BY <2>2, OverSending
    <2>. QED
      BY <1>1, <1>3, <2>1, <2>3
  <1>. QED
    BY <1>1, <1>4, <1>5

(* The processes of session s are told to end. *)
Told(q, s) ==
  /\ reader'[q].of = reader[q].of /\ SameWork(reader[q], reader'[q])
  /\ reader'[q].killed = (reader[q].killed \/ q \in Running(s))

LEMMA AskedIs ==
  ASSUME Typed, NEW s
  PROVE  Asked(s) \subseteq Turns
PROOF
  <1>1. ASSUME NEW r \in Starts
        PROVE  {reader[r].prompts[i] : i \in DOMAIN reader[r].prompts} \subseteq Turns
    <2>1. reader[r].prompts \in Seq(Turns)
      BY DEF Typed, Readers
    <2>. QED
      BY <2>1, ElementOfSeq, LenProperties
  <1>. QED
    BY <1>1 DEF Asked, Running

FailDoes(r, x) ==
  /\ reader[r].pc = "fail" /\ reader' \in [Starts -> Readers] /\ SessionMoves(reader[r].of, x)
  /\ \A q \in Starts : Told(q, reader[r].of)
  /\ \A q \in Starts : q # r => reader'[q].pc = reader[q].pc /\ SameCopy(reader[q], reader'[q])
  /\ reader'[r].pc = "report" /\ reader'[r].id = reader[r].id
  /\ reader'[r].turn = reader[r].turn /\ reader'[r].text = session[reader[r].of].buffer
  /\ x.alive = FALSE /\ x.active = NoMessage /\ x.buffer = <<>>
  /\ cut' = cut \cup Asked(reader[r].of) /\ cut' \subseteq Turns
  /\ takenBy' = Took(<<"error", r, reader[r].turn>>, reader[r].id)
  /\ UNCHANGED <<chat, faults, throttle, worker, taker, sent, given, haunted, guessed>>

LEMMA FailMoves ==
  ASSUME Base, NEW r \in Starts, Fail(r)
  PROVE  \E x \in Objects : FailDoes(r, x)
PROOF
  <1> USE DEF FailDoes
  <1>1. PICK s : s = reader[r].of
    OBVIOUS
  <1>2. PICK id, t, text, marked :
          /\ id = reader[r].id /\ t = reader[r].turn /\ text = session[s].buffer
          /\ marked = session[s].truncated
    OBVIOUS
  <1>3. /\ reader[r].pc = "fail" /\ reader' = Cancelled(Sending(r, "report", id, t, text, marked), s)
        /\ session' = [session EXCEPT ![s] = Dead(session[s])] /\ cut' = cut \cup Asked(s)
        /\ takenBy' = Took(<<"error", r, reader[r].turn>>, reader[r].id)
        /\ UNCHANGED <<chat, faults, throttle, worker, taker, sent, given, haunted, guessed>>
    BY <1>1, <1>2 DEF Fail, telegramVars
  <1>4. /\ Typed /\ s \in Sessions /\ session[s] \in Objects /\ Shows(id) /\ t \in Turns \cup {0}
        /\ text \in Texts /\ marked \in BOOLEAN /\ reader \in [Starts -> Readers] /\ cut \subseteq Turns
        /\ reader[r] \in Readers
    BY <1>1, <1>2, <1>3, ReaderIs DEF Base, Typed, Objects, Readers
  <1>5. "report" \in {"send", "fail", "report"}
    OBVIOUS
  <1>6. PICK y \in Readers :
           /\ Sending(r, "report", id, t, text, marked) = [reader EXCEPT ![r] = y]
           /\ Sending(r, "report", id, t, text, marked) \in [Starts -> Readers]
           /\ y.pc = "report" /\ SameProcess(reader[r], y) /\ SameWork(reader[r], y)
           /\ y.id = id /\ y.turn = t /\ y.text = text /\ y.marked = marked
    BY <1>4, <1>5, SendingIs
  <1>7. PICK rs : rs = Sending(r, "report", id, t, text, marked)
    OBVIOUS
  <1>8. rs \in [Starts -> Readers] /\ rs[r] = y /\ \A q \in Starts : q # r => rs[q] = reader[q]
    BY <1>4, <1>6, <1>7
  <1>9. /\ reader' \in [Starts -> Readers]
        /\ \A q \in Starts :
              /\ reader'[q].pc = rs[q].pc /\ reader'[q].of = rs[q].of
              /\ SameWork(rs[q], reader'[q]) /\ SameCopy(rs[q], reader'[q])
              /\ reader'[q].killed = (rs[q].killed \/ q \in Running(s))
    BY <1>3, <1>7, <1>8, CancelledIs
  <1>10. ASSUME NEW q \in Starts
         PROVE  /\ Told(q, s)
                /\ q # r => reader'[q].pc = reader[q].pc /\ SameCopy(reader[q], reader'[q])
    BY <1>6, <1>8, <1>9 DEF Told, SameProcess, SameWork, SameCopy
  <1>11. reader'[r].pc = "report" /\ reader'[r].id = id /\ reader'[r].turn = t /\ reader'[r].text = text
    BY <1>6, <1>8, <1>9 DEF SameCopy
  <1>12. PICK x : x = Dead(session[s])
    OBVIOUS
  <1>13. x \in Objects /\ x.alive = FALSE /\ x.active = NoMessage /\ x.buffer = <<>>
    BY <1>4, <1>12, DisarmedIs
  <1>14. SessionMoves(s, x)
    BY <1>3, <1>4, <1>12, <1>13, SessionSet
  <1>15. cut' \subseteq Turns
    BY <1>3, <1>4, AskedIs
  <1>. QED
    BY <1>1, <1>2, <1>3, <1>9, <1>10, <1>11, <1>13, <1>14, <1>15

SendErrorDoes(r, y) ==
  /\ reader[r].pc = "report" /\ ReaderMoves(r, y) /\ y.pc = "read"
  /\ SameProcess(reader[r], y) /\ SameWork(reader[r], y) /\ SameCopy(reader[r], y)
  /\ ChatGrows /\ faults' \in 0 .. MaxFaults
  /\ \A i \in DOMAIN chat :
       \/ chat'[i] = chat[i]
       \/ /\ i = reader[r].id /\ chat'[i].kind = "cut" /\ chat'[i].turn = reader[r].turn
          /\ chat'[i].text = FirstChunk(reader[r].text)
  /\ \A i \in DOMAIN chat' \ DOMAIN chat :
       /\ chat'[i].kind = "cut" /\ chat'[i].turn = reader[r].turn
       /\ \/ chat'[i].text = reader[r].text /\ reader[r].id = NoMessage
          \/ chat'[i].text = FirstChunk(reader[r].text)
  /\ UNCHANGED <<session, throttle, worker, taker, sent, given, takenBy, cut, haunted, guessed>>

LEMMA SendErrorMoves ==
  ASSUME Base, NEW r \in Starts, SendError(r)
  PROVE  \E y \in Readers : SendErrorDoes(r, y)
PROOF
  <1> USE DEF SendErrorDoes
  <1>1. PICK m : m = Message("cut", reader[r].turn, reader[r].text, reader[r].marked)
    OBVIOUS
  <1>2. /\ reader[r].pc = "report" /\ reader' = [reader EXCEPT ![r].pc = "read"]
        /\ \/ reader[r].id = NoMessage /\ chat' = Append(chat, m) /\ UNCHANGED faults
           \/ reader[r].id # NoMessage /\ Edited(reader[r].id, m)
        /\ UNCHANGED <<session, throttle, worker, taker, sent, given, takenBy, cut, haunted, guessed>>
    BY <1>1 DEF SendError, history
  <1>3. Typed /\ reader[r] \in Readers /\ Shows(reader[r].id) /\ faults \in 0 .. MaxFaults
    BY ReaderIs DEF Base, Typed
  <1>4. m \in Messages /\ m.kind = "cut" /\ m.turn = reader[r].turn /\ m.text = reader[r].text
    BY <1>1, <1>3 DEF Message, Messages, Kinds, Readers
  <1>5. PICK y : y = [reader[r] EXCEPT !.pc = "read"]
    OBVIOUS
  <1>6. /\ y \in Readers /\ y.pc = "read"
        /\ SameProcess(reader[r], y) /\ SameWork(reader[r], y) /\ SameCopy(reader[r], y)
    BY <1>3, <1>5 DEF Readers, SameProcess, SameWork, SameCopy
  <1>7. ReaderMoves(r, y)
    BY <1>2, <1>3, <1>5, <1>6, ReaderSet
  <1>8. CASE reader[r].id = NoMessage /\ chat' = Append(chat, m) /\ UNCHANGED faults
    <2>1. /\ ChatGrows /\ DOMAIN chat' = DOMAIN chat \cup {Len(chat')}
          /\ \A i \in DOMAIN chat : chat'[i] = chat[i]
          /\ chat'[Len(chat')] = m
      BY <1>3, <1>4, <1>8, Posted
    <2>. QED
      BY <1>2, <1>3, <1>4, <1>6, <1>7, <1>8, <2>1
  <1>9. CASE reader[r].id # NoMessage /\ Edited(reader[r].id, m)
    <2>1. reader[r].id \in DOMAIN chat
      BY <1>3, <1>9 DEF Shows
    <2>2. /\ ChatGrows /\ faults' \in 0 .. MaxFaults
          /\ \E shown \in Messages :
              /\ shown.kind = m.kind /\ shown.turn = m.turn /\ shown.marked = m.marked
              /\ shown.text = FirstChunk(m.text)
              /\ \A i \in DOMAIN chat : chat'[i] = chat[i] \/ (i = reader[r].id /\ chat'[i] = shown)
              /\ \A i \in DOMAIN chat' \ DOMAIN chat : chat'[i] = shown
      BY <1>3, <1>4, <1>9, <2>1, EditedIs
    <2>. QED
      BY <1>2, <1>4, <1>6, <1>7, <2>2
  <1>. QED
    BY <1>2, <1>8, <1>9

ReaderEndsDoes(r, y, x) ==
  /\ reader[r].pc = "read" /\ reader[r].killed /\ ReaderMoves(r, y)
  /\ SessionMoves(reader[r].of, x)
  /\ y.pc = "ended" /\ SameProcess(reader[r], y) /\ y.prompts = <<>> /\ y.at = 0
  /\ y.id = NoMessage /\ y.text = <<>>
  /\ x.alive = session[reader[r].of].alive /\ x.active = session[reader[r].of].active
  /\ x.truncated = session[reader[r].of].truncated
  /\ x.buffer = IF x.active = NoMessage THEN <<>> ELSE session[reader[r].of].buffer
  /\ UNCHANGED <<chat, faults, throttle, worker, taker, sent, given, takenBy, cut, haunted, guessed>>

LEMMA ReaderEndsMoves ==
  ASSUME Base, NEW r \in Starts, ReaderEnds(r)
  PROVE  \E y \in Readers, x \in Objects : ReaderEndsDoes(r, y, x)
PROOF
  <1> USE DEF ReaderEndsDoes
  <1>1. PICK s : s = reader[r].of
    OBVIOUS
  <1>2. PICK y : y = [[[NoReader EXCEPT !.pc = "ended"] EXCEPT !.of = s] EXCEPT !.killed = TRUE]
    OBVIOUS
  <1>3. /\ reader[r].pc = "read" /\ reader[r].killed /\ reader' = [reader EXCEPT ![r] = y]
        /\ session' = IF session[s].active = NoMessage THEN [session EXCEPT ![s].buffer = <<>>]
                      ELSE session
        /\ UNCHANGED <<chat, faults, throttle, worker, taker, sent, given, takenBy, cut, haunted, guessed>>
    BY <1>1, <1>2 DEF ReaderEnds, telegramVars, history
  <1>4. /\ Typed /\ s \in Sessions /\ s \in Nat /\ session[s] \in Objects /\ reader[r] \in Readers
    BY <1>1, <1>3, ReaderIs, SessionsAre DEF Base
  <1>5. reader[r].killed = TRUE
    BY <1>3, <1>4 DEF Readers
  <1>6. /\ y \in Readers /\ y.pc = "ended" /\ SameProcess(reader[r], y) /\ y.prompts = <<>> /\ y.at = 0
        /\ y.id = NoMessage /\ y.text = <<>>
    BY <1>1, <1>2, <1>4, <1>5, NoneIs DEF Readers, SameProcess
  <1>7. ReaderMoves(r, y)
    BY <1>3, <1>4, <1>6, ReaderSet
  <1>8. PICK x : x = IF session[s].active = NoMessage THEN [session[s] EXCEPT !.buffer = <<>>]
                     ELSE session[s]
    OBVIOUS
  <1>9. /\ x \in Objects /\ x.alive = session[s].alive /\ x.active = session[s].active
        /\ x.truncated = session[s].truncated
        /\ x.buffer = IF x.active = NoMessage THEN <<>> ELSE session[s].buffer
    BY <1>4, <1>8, EmptySeq DEF Objects, Texts
  <1>10. session' = [session EXCEPT ![s] = x]
    <2>1. CASE session[s].active = NoMessage
      BY <1>3, <1>8, <2>1
    <2>2. CASE session[s].active # NoMessage
      BY <1>3, <1>4, <1>8, <2>2, SessionsAre
    <2>. QED
      BY <2>1, <2>2
  <1>11. SessionMoves(s, x)
    BY <1>4, <1>9, <1>10, SessionSet
  <1>. QED
    BY <1>1, <1>3, <1>6, <1>7, <1>9, <1>11

-----------------------------------------------------------------------------
(* The throttler, the worker. *)

TickDoes(r, e) ==
  /\ reader[r].pc # "none" /\ ~ reader[r].killed /\ throttle[r].id = NoMessage
  /\ session[reader[r].of].active # NoMessage
  /\ throttle' \in [Starts -> Edits] /\ throttle'[r] = e
  /\ \A q \in Starts : q # r => throttle'[q] = throttle[q]
  /\ e.id = session[reader[r].of].active /\ e.text = session[reader[r].of].buffer
  /\ UNCHANGED <<chat, faults, session, reader, worker, taker, sent, given, takenBy, cut, haunted, guessed>>

LEMMA TickMoves ==
  ASSUME Base, NEW r \in Starts, Tick(r)
  PROVE  \E e \in Edits : TickDoes(r, e)
PROOF
  <1> USE DEF TickDoes
  <1>1. PICK e : e = [id |-> session[reader[r].of].active, text |-> session[reader[r].of].buffer]
    OBVIOUS
  <1>2. /\ reader[r].pc # "none" /\ ~ reader[r].killed /\ throttle[r].id = NoMessage
        /\ session[reader[r].of].active # NoMessage /\ throttle' = [throttle EXCEPT ![r] = e]
        /\ UNCHANGED <<chat, faults, session, reader, worker, taker, sent, given, takenBy, cut, haunted, guessed>>
    BY <1>1 DEF Tick, telegramVars, history
  <1>3. session[reader[r].of] \in Objects /\ throttle \in [Starts -> Edits]
    BY <1>2, ReaderIs DEF Base, Typed
  <1>4. e \in Edits /\ e.id = session[reader[r].of].active /\ e.text = session[reader[r].of].buffer
    BY <1>1, <1>3 DEF Edits, Objects
  <1>. QED
    BY <1>2, <1>3, <1>4

DraftDoes(r) ==
  /\ throttle[r].id \in DOMAIN chat
  /\ throttle' \in [Starts -> Edits] /\ throttle'[r] = NoEdit
  /\ \A q \in Starts : q # r => throttle'[q] = throttle[q]
  /\ ChatGrows /\ faults' \in 0 .. MaxFaults
  /\ \A i \in DOMAIN chat :
       \/ chat'[i] = chat[i]
       \/ /\ i = throttle[r].id /\ chat'[i].kind = "draft" /\ chat'[i].turn = chat[i].turn
          /\ chat'[i].text = FirstChunk(throttle[r].text)
  /\ \A i \in DOMAIN chat' \ DOMAIN chat :
       /\ chat'[i].kind = "draft" /\ chat'[i].turn = chat[throttle[r].id].turn
       /\ chat'[i].text = FirstChunk(throttle[r].text)
  /\ UNCHANGED <<session, reader, worker, taker, sent, given, takenBy, cut, haunted, guessed>>

LEMMA DraftMoves ==
  ASSUME Base, NEW r \in Starts, Draft(r)
  PROVE  DraftDoes(r)
PROOF
  <1> USE DEF DraftDoes
  <1>1. PICK id : id = throttle[r].id
    OBVIOUS
  <1>2. PICK m : m = Message("draft", chat[id].turn, throttle[r].text, FALSE)
    OBVIOUS
  <1>3. /\ id # NoMessage /\ Edited(id, m) /\ throttle' = [throttle EXCEPT ![r] = NoEdit]
        /\ UNCHANGED <<session, reader, worker, taker, sent, given, takenBy, cut, haunted, guessed>>
    BY <1>1, <1>2 DEF Draft, history
  <1>4. /\ Typed /\ throttle \in [Starts -> Edits] /\ id \in DOMAIN chat /\ throttle[r] \in Edits
        /\ chat[id] \in Messages
    BY <1>1, <1>3, SessionsAre DEF Base, There, Shows, Typed
  <1>5. m \in Messages /\ m.kind = "draft" /\ m.turn = chat[id].turn /\ m.text = throttle[r].text
    BY <1>2, <1>4 DEF Message, Messages, Kinds, Edits
  <1>6. /\ ChatGrows /\ faults' \in 0 .. MaxFaults
        /\ \E shown \in Messages :
            /\ shown.kind = m.kind /\ shown.turn = m.turn /\ shown.marked = m.marked
            /\ shown.text = FirstChunk(m.text)
            /\ \A i \in DOMAIN chat : chat'[i] = chat[i] \/ (i = id /\ chat'[i] = shown)
            /\ \A i \in DOMAIN chat' \ DOMAIN chat : chat'[i] = shown
    BY <1>3, <1>4, <1>5, EditedIs
  <1>7. throttle' \in [Starts -> Edits] /\ throttle'[r] = NoEdit
        /\ \A q \in Starts : q # r => throttle'[q] = throttle[q]
    BY <1>3, <1>4, NoneIs
  <1>. QED
    BY <1>1, <1>3, <1>4, <1>5, <1>6, <1>7

(* A process of session s is started in slot n. *)
Started(n, s) ==
  /\ n \in Starts /\ reader[n].pc = "none" /\ reader' \in [Starts -> Readers]
  /\ reader'[n].pc = "read" /\ reader'[n].of = s /\ reader'[n].killed = FALSE
  /\ reader'[n].prompts = <<>> /\ reader'[n].at = 0 /\ reader'[n].id = NoMessage
  /\ reader'[n].text = <<>>

LEMMA StartedIs ==
  ASSUME Unused # {}, NEW rs \in [Starts -> Readers], NEW s \in Nat, reader' = Launched(rs, s)
  PROVE  \E n \in Starts : Started(n, s) /\ \A q \in Starts : q # n => reader'[q] = rs[q]
PROOF
  <1>1. PICK n : n = Next1
    OBVIOUS
  <1>2. n \in Starts /\ reader[n].pc = "none"
    BY <1>1 DEF Next1, Unused
  <1>3. PICK y : y = [[NoReader EXCEPT !.pc = "read"] EXCEPT !.of = s]
    OBVIOUS
  <1>4. /\ y \in Readers /\ y.pc = "read" /\ y.of = s /\ y.killed = FALSE /\ y.prompts = <<>>
        /\ y.at = 0 /\ y.id = NoMessage /\ y.text = <<>>
    BY <1>3, NoneIs DEF Readers
  <1>5. reader' = [rs EXCEPT ![n] = y]
    BY <1>1, <1>3 DEF Launched
  <1>. QED
    BY <1>2, <1>4, <1>5 DEF Started

BeginDoes ==
  /\ worker.pc = "idle" /\ sent < Prompts /\ sent' = sent + 1 /\ sent' \in 0 .. Prompts
  /\ worker' \in Workers /\ worker'.pc = "look" /\ worker'.id = NoMessage
  /\ worker'.turn = sent' /\ worker'.turn \in Turns
  /\ \/ session[Registered].alive /\ UNCHANGED <<session, reader>>
     \/ /\ ~ session[Registered].alive
        /\ session' \in Seq(Objects) /\ Len(session') = Registered + 1
        /\ Sessions' = Sessions \cup {Registered + 1} /\ Registered + 1 \notin Sessions
        /\ session'[Registered + 1] = NewSession
        /\ \A s \in Sessions : session'[s] = session[s]
        /\ \E n \in Starts :
             /\ Started(n, Registered + 1)
             /\ \A q \in Starts : q # n => /\ Told(q, Registered) /\ reader'[q].pc = reader[q].pc
                                           /\ SameCopy(reader[q], reader'[q])
  /\ UNCHANGED <<chat, faults, throttle, taker, given, takenBy, cut, haunted, guessed>>

LEMMA BeginMoves ==
  ASSUME Base, Begin
  PROVE  BeginDoes
PROOF
  <1> USE DEF BeginDoes
  <1>1. /\ worker.pc = "idle" /\ sent < Prompts /\ sent' = sent + 1
        /\ worker' = [pc |-> "look", id |-> NoMessage, turn |-> sent']
        /\ UNCHANGED <<chat, faults, throttle, taker, given, takenBy, cut, haunted, guessed>>
        /\ \/ session[Registered].alive /\ UNCHANGED <<session, reader>>
           \/ /\ ~ session[Registered].alive /\ Unused # {}
              /\ session' = Append(session, NewSession)
              /\ reader' = Launched(Cancelled(reader, Registered), Registered + 1)
    BY DEF Begin, telegramVars, history
  <1>2. /\ Typed /\ reader \in [Starts -> Readers] /\ Registered \in Nat /\ session \in Seq(Objects)
        /\ sent \in 0 .. Prompts
    BY SessionsAre DEF Base, Typed
  <1>3. sent' \in 0 .. Prompts /\ sent' \in Turns
    BY <1>1, <1>2, Numbers DEF Turns
  <1>4. worker' \in Workers /\ worker'.pc = "look" /\ worker'.id = NoMessage /\ worker'.turn = sent'
    BY <1>1, <1>3 DEF Workers, NoMessage
  <1>5. CASE session[Registered].alive /\ UNCHANGED <<session, reader>>
    BY <1>1, <1>3, <1>4, <1>5
  <1>6. CASE /\ ~ session[Registered].alive /\ Unused # {}
             /\ session' = Append(session, NewSession)
             /\ reader' = Launched(Cancelled(reader, Registered), Registered + 1)
    <2>1. /\ Cancelled(reader, Registered) \in [Starts -> Readers]
          /\ \A q \in Starts : /\ Cancelled(reader, Registered)[q].pc = reader[q].pc
                               /\ Cancelled(reader, Registered)[q].of = reader[q].of
                               /\ SameWork(reader[q], Cancelled(reader, Registered)[q])
                               /\ SameCopy(reader[q], Cancelled(reader, Registered)[q])
                               /\ Cancelled(reader, Registered)[q].killed =
                                    (reader[q].killed \/ q \in Running(Registered))
      BY <1>2, CancelledIs
    <2>2. Registered + 1 \in Nat
      BY <1>2
    <2>3. PICK n \in Starts : /\ Started(n, Registered + 1)
                              /\ \A q \in Starts : q # n => reader'[q] = Cancelled(reader, Registered)[q]
      BY <1>6, <2>1, <2>2, StartedIs
    <2>4. \A q \in Starts : q # n => /\ Told(q, Registered) /\ reader'[q].pc = reader[q].pc
                                     /\ SameCopy(reader[q], reader'[q])
      BY <2>1, <2>3 DEF Told
    <2>5. /\ session' \in Seq(Objects) /\ Len(session') = Len(session) + 1
          /\ \A s \in 1 .. Len(session) : session'[s] = session[s]
          /\ session'[Len(session) + 1] = NewSession
      BY <1>2, <1>6, NewSessionIs, AppendProperties
    <2>6. /\ Sessions = 1 .. Registered /\ Sessions' = 1 .. (Registered + 1)
          /\ Len(session) = Registered
      BY <1>2, <2>5, LenProperties, SessionsAre DEF Sessions, Registered
    <2>7. Sessions' = Sessions \cup {Registered + 1} /\ Registered + 1 \notin Sessions
      BY <1>2, <2>6
    <2>. QED
      BY <1>1, <1>3, <1>4, <1>6, <2>3, <2>4, <2>5, <2>6, <2>7
  <1>. QED
    BY <1>1, <1>5, <1>6

LookDoes ==
  /\ worker.pc = "look" /\ worker' \in Workers /\ worker'.id = worker.id
  /\ worker'.turn = worker.turn /\ worker.turn \in Turns
  /\ worker'.pc = IF session'[Registered].active = NoMessage THEN "post" ELSE "write"
  /\ haunted' = (IF Lingering(Registered) = {} THEN haunted ELSE haunted \cup {worker.turn})
  /\ haunted' \subseteq Turns
  /\ \/ session[Registered].alive /\ UNCHANGED <<session, reader>>
     \/ /\ ~ session[Registered].alive
        /\ \E x \in Objects : /\ SessionMoves(Registered, x) /\ x.alive = TRUE
                              /\ x.active = NoMessage /\ x.buffer = <<>>
        /\ \E n \in Starts : /\ Started(n, Registered)
                             /\ \A q \in Starts : q # n => reader'[q] = reader[q]
  /\ UNCHANGED <<chat, faults, throttle, taker, sent, given, takenBy, cut, guessed>>

LEMMA LookMoves ==
  ASSUME Base, Look
  PROVE  LookDoes
PROOF
  <1> USE DEF LookDoes
  <1>1. /\ worker.pc = "look"
        /\ worker' = [worker EXCEPT !.pc = IF session'[Registered].active = NoMessage
                                           THEN "post" ELSE "write"]
        /\ haunted' = (IF Lingering(Registered) = {} THEN haunted ELSE haunted \cup {worker.turn})
        /\ UNCHANGED <<chat, faults, throttle, taker, sent, given, takenBy, cut, guessed>>
        /\ \/ session[Registered].alive /\ UNCHANGED <<session, reader>>
           \/ /\ ~ session[Registered].alive /\ Unused # {}
              /\ session' = [session EXCEPT ![Registered] =
                   [session[Registered] EXCEPT !.alive = TRUE, !.active = NoMessage, !.buffer = <<>>]]
              /\ reader' = Launched(reader, Registered)
    BY DEF Look, telegramVars
  <1>2. /\ Typed /\ reader \in [Starts -> Readers] /\ Registered \in Sessions /\ Registered \in Nat
        /\ session[Registered] \in Objects /\ worker \in Workers /\ haunted \subseteq Turns
    BY SessionsAre DEF Base, Typed
  <1>3. worker.turn \in Turns
    BY <1>1 DEF Base, There
  <1>4. haunted' \subseteq Turns
    BY <1>1, <1>2, <1>3
  <1>5. /\ worker' \in Workers /\ worker'.id = worker.id /\ worker'.turn = worker.turn
        /\ worker'.pc = IF session'[Registered].active = NoMessage THEN "post" ELSE "write"
    BY <1>1, <1>2 DEF Workers
  <1>6. CASE session[Registered].alive /\ UNCHANGED <<session, reader>>
    BY <1>1, <1>3, <1>4, <1>5, <1>6
  <1>7. CASE /\ ~ session[Registered].alive /\ Unused # {}
             /\ session' = [session EXCEPT ![Registered] =
                   [session[Registered] EXCEPT !.alive = TRUE, !.active = NoMessage, !.buffer = <<>>]]
             /\ reader' = Launched(reader, Registered)
    <2>1. PICK n \in Starts : /\ Started(n, Registered)
                              /\ \A q \in Starts : q # n => reader'[q] = reader[q]
      BY <1>2, <1>7, StartedIs
    <2>2. PICK x : x = [session[Registered] EXCEPT !.alive = TRUE, !.active = NoMessage, !.buffer = <<>>]
      OBVIOUS
    <2>3. x \in Objects /\ x.alive = TRUE /\ x.active = NoMessage /\ x.buffer = <<>>
      BY <1>2, <2>2, EmptySeq DEF Objects, Texts, NoMessage
    <2>4. SessionMoves(Registered, x)
      BY <1>2, <1>7, <2>2, <2>3, SessionSet
    <2>. QED
      BY <1>1, <1>3, <1>4, <1>5, <1>7, <2>1, <2>3, <2>4
  <1>. QED
    BY <1>1, <1>6, <1>7

PostDoes ==
  /\ worker.pc = "post" /\ ChatGrows /\ DOMAIN chat' = DOMAIN chat \cup {worker'.id}
  /\ worker'.id \notin DOMAIN chat /\ worker'.id # NoMessage
  /\ \A i \in DOMAIN chat : chat'[i] = chat[i]
  /\ chat'[worker'.id].kind = "thinking" /\ chat'[worker'.id].turn = worker.turn
  /\ chat'[worker'.id].text = <<>>
  /\ worker' \in Workers /\ worker'.pc = "arm" /\ worker'.turn = worker.turn
  /\ worker.turn \in Turns
  /\ UNCHANGED <<faults, session, reader, throttle, taker, sent, given, takenBy, cut, haunted, guessed>>

LEMMA PostMoves ==
  ASSUME Base, Post
  PROVE  PostDoes
PROOF
  <1> USE DEF PostDoes
  <1>1. PICK m : m = Message("thinking", worker.turn, <<>>, FALSE)
    OBVIOUS
  <1>2. /\ worker.pc = "post" /\ chat' = Append(chat, m)
        /\ worker' = [[worker EXCEPT !.pc = "arm"] EXCEPT !.id = Len(chat')]
        /\ UNCHANGED <<faults, session, reader, throttle, taker, sent, given, takenBy, cut, haunted, guessed>>
    BY <1>1 DEF Post, history
  <1>3. Typed /\ worker \in Workers /\ worker.turn \in Turns
    BY <1>2 DEF Base, There, Typed
  <1>4. m \in Messages /\ m.kind = "thinking" /\ m.turn = worker.turn /\ m.text = <<>>
    BY <1>1, <1>3, EmptySeq DEF Message, Messages, Kinds, Texts
  <1>5. /\ ChatGrows /\ DOMAIN chat' = DOMAIN chat \cup {Len(chat')}
        /\ Len(chat') \notin DOMAIN chat /\ Len(chat') \in Nat /\ Len(chat') # NoMessage
        /\ \A i \in DOMAIN chat : chat'[i] = chat[i]
        /\ chat'[Len(chat')] = m
    BY <1>2, <1>3, <1>4, Posted
  <1>6. worker' \in Workers /\ worker'.pc = "arm" /\ worker'.id = Len(chat') /\ worker'.turn = worker.turn
    BY <1>2, <1>3, <1>5 DEF Workers
  <1>. QED
    BY <1>2, <1>3, <1>4, <1>5, <1>6

ArmDoes ==
  /\ worker.pc = "arm" /\ worker' \in Workers /\ worker'.pc = "write"
  /\ worker'.id = worker.id /\ worker'.turn = worker.turn /\ worker.turn \in Turns
  /\ \/ session[Registered].active # NoMessage /\ UNCHANGED session
     \/ /\ session[Registered].active = NoMessage
        /\ \E x \in Objects :
             /\ SessionMoves(Registered, x) /\ x.alive = session[Registered].alive
             /\ x.active = worker.id /\ x.buffer = session[Registered].buffer
             /\ x.truncated = session[Registered].truncated
  /\ UNCHANGED <<chat, faults, reader, throttle, taker, sent, given, takenBy, cut, haunted, guessed>>

LEMMA ArmMoves ==
  ASSUME Base, Arm
  PROVE  ArmDoes
PROOF
  <1> USE DEF ArmDoes
  <1>1. /\ worker.pc = "arm" /\ worker' = [worker EXCEPT !.pc = "write"]
        /\ session' = IF session[Registered].active # NoMessage THEN session
                      ELSE [session EXCEPT ![Registered].active = worker.id, ![Registered].armed = TRUE]
        /\ UNCHANGED <<chat, faults, reader, throttle, taker, sent, given, takenBy, cut, haunted, guessed>>
    BY DEF Arm, telegramVars, history
  <1>2. /\ Typed /\ Registered \in Sessions /\ session[Registered] \in Objects /\ worker \in Workers
        /\ worker.turn \in Turns
    BY <1>1, SessionsAre DEF Base, There, Typed
  <1>3. worker' \in Workers /\ worker'.pc = "write" /\ worker'.id = worker.id /\ worker'.turn = worker.turn
    BY <1>1, <1>2 DEF Workers
  <1>4. CASE session[Registered].active # NoMessage
    BY <1>1, <1>2, <1>3, <1>4
  <1>5. CASE session[Registered].active = NoMessage
    <2>1. PICK x : x = [[session[Registered] EXCEPT !.active = worker.id] EXCEPT !.armed = TRUE]
      OBVIOUS
    <2>2. /\ x \in Objects /\ x.alive = session[Registered].alive /\ x.active = worker.id
          /\ x.buffer = session[Registered].buffer /\ x.truncated = session[Registered].truncated
      BY <1>2, <2>1 DEF Objects, Workers
    <2>3. session' = [session EXCEPT ![Registered] = x]
      BY <1>1, <1>2, <1>5, <2>1
    <2>4. SessionMoves(Registered, x)
      BY <1>2, <2>2, <2>3, SessionSet
    <2>. QED
      BY <1>1, <1>2, <1>3, <1>5, <2>2, <2>4
  <1>. QED
    BY <1>4, <1>5

WriteDoes ==
  /\ worker.pc = "write" /\ worker' = IdleWorker /\ worker.turn \in Turns /\ given' \subseteq Turns
  /\ \/ /\ session[Registered].alive /\ UNCHANGED session /\ reader' \in [Starts -> Readers]
        /\ \A r \in Starts :
             \/ r \notin Running(Registered) /\ reader'[r] = reader[r]
             \/ /\ r \in Running(Registered) /\ reader'[r].pc = reader[r].pc
                /\ SameProcess(reader[r], reader'[r]) /\ SameCopy(reader[r], reader'[r])
                /\ reader'[r].at = reader[r].at
                /\ reader'[r].prompts = Append(reader[r].prompts, worker.turn)
     \/ /\ ~ session[Registered].alive
        /\ \E x \in Objects : /\ SessionMoves(Registered, x) /\ x.alive = TRUE
                              /\ x.active = NoMessage /\ x.buffer = <<>>
        /\ \E n \in Starts : /\ Started(n, Registered)
                             /\ \A q \in Starts : q # n => reader'[q] = reader[q]
  /\ UNCHANGED <<chat, faults, throttle, taker, sent, takenBy, cut, haunted, guessed>>

LEMMA WriteMoves ==
  ASSUME Base, Write
  PROVE  WriteDoes
PROOF
  <1> USE DEF WriteDoes
  <1>1. /\ worker.pc = "write" /\ worker' = IdleWorker
        /\ UNCHANGED <<chat, faults, throttle, taker, sent, takenBy, cut, haunted, guessed>>
        /\ \/ /\ session[Registered].alive
              /\ reader' = [r \in Starts |->
                   IF r \in Running(Registered)
                   THEN [reader[r] EXCEPT !.prompts = Append(@, worker.turn)] ELSE reader[r]]
              /\ UNCHANGED session
              /\ given' = given \cup {worker.turn}
           \/ /\ ~ session[Registered].alive /\ Unused # {}
              /\ reader' = Launched(reader, Registered)
              /\ session' = [session EXCEPT ![Registered] = [Dead(session[Registered]) EXCEPT !.alive = TRUE]]
              /\ UNCHANGED given
    BY DEF Write, telegramVars, history
  <1>2. /\ Typed /\ reader \in [Starts -> Readers] /\ Registered \in Sessions /\ Registered \in Nat
        /\ session[Registered] \in Objects /\ worker.turn \in Turns /\ given' \subseteq Turns
    BY <1>1, SessionsAre DEF Base, There, Typed
  <1>3. CASE /\ session[Registered].alive
             /\ reader' = [r \in Starts |->
                   IF r \in Running(Registered)
                   THEN [reader[r] EXCEPT !.prompts = Append(@, worker.turn)] ELSE reader[r]]
             /\ UNCHANGED session
    <2>1. ASSUME NEW r \in Starts, r \in Running(Registered)
          PROVE  /\ reader'[r] \in Readers /\ reader'[r].pc = reader[r].pc
                 /\ SameProcess(reader[r], reader'[r]) /\ SameCopy(reader[r], reader'[r])
                 /\ reader'[r].at = reader[r].at
                 /\ reader'[r].prompts = Append(reader[r].prompts, worker.turn)
      <3>1. PICK y : y = [reader[r] EXCEPT !.prompts = Append(@, worker.turn)]
        OBVIOUS
      <3>2. reader[r] \in Readers /\ Append(reader[r].prompts, worker.turn) \in Seq(Turns)
        BY <1>2, AppendProperties DEF Readers
      <3>3. /\ y \in Readers /\ y.pc = reader[r].pc /\ SameProcess(reader[r], y) /\ SameCopy(reader[r], y)
            /\ y.at = reader[r].at /\ y.prompts = Append(reader[r].prompts, worker.turn)
        BY <3>1, <3>2 DEF Readers, SameProcess, SameCopy
      <3>4. reader'[r] = y
        BY <1>3, <2>1, <3>1
      <3>. QED
        BY <3>3, <3>4
    <2>2. ASSUME NEW r \in Starts, r \notin Running(Registered)
          PROVE  reader'[r] = reader[r] /\ reader'[r] \in Readers
      BY <1>2, <1>3, <2>2
    <2>3. reader' \in [Starts -> Readers]
      <3>1. \A r \in Starts : reader'[r] \in Readers
        BY <2>1, <2>2
      <3>2. /\ DOMAIN reader' = Starts
            /\ reader' = [r \in Starts |-> reader'[r]]
        BY <1>3
      <3>. QED
        BY <3>1, <3>2
    <2>. QED
      BY <1>1, <1>2, <1>3, <2>1, <2>2, <2>3
  <1>4. CASE /\ ~ session[Registered].alive /\ Unused # {}
             /\ reader' = Launched(reader, Registered)
             /\ session' = [session EXCEPT ![Registered] = [Dead(session[Registered]) EXCEPT !.alive = TRUE]]
    <2>1. PICK n \in Starts : /\ Started(n, Registered)
                              /\ \A q \in Starts : q # n => reader'[q] = reader[q]
      BY <1>2, <1>4, StartedIs
    <2>2. PICK x : x = [Dead(session[Registered]) EXCEPT !.alive = TRUE]
      OBVIOUS
    <2>3. x \in Objects /\ x.alive = TRUE /\ x.active = NoMessage /\ x.buffer = <<>>
      BY <1>2, <2>2, DisarmedIs
    <2>4. SessionMoves(Registered, x)
      BY <1>2, <1>4, <2>2, <2>3, SessionSet
    <2>. QED
      BY <1>1, <1>2, <1>4, <2>1, <2>3, <2>4
  <1>. QED
    BY <1>1, <1>3, <1>4

-----------------------------------------------------------------------------
(* The other ends of a turn, and the user's deletions. *)

LEMMA TakerIs ==
  ASSUME Base, NEW k \in Takers
  PROVE  /\ taker[k] \in Takes /\ Shows(taker[k].id)
         /\ taker[k].pc # "ready" => /\ taker[k].of \in Sessions /\ session[taker[k].of] \in Objects
                                     /\ Shows(session[taker[k].of].active)
PROOF
  BY SessionsAre DEF Base, Typed, There

CommandDoes(k, z) ==
  /\ k # "stall" /\ taker[k].pc = "ready" /\ TakerMoves(k, z) /\ z.pc = "take"
  /\ z.of = Registered /\ z.id = taker[k].id /\ z.text = taker[k].text
  /\ \/ k # "stop" /\ UNCHANGED worker
     \/ /\ k = "stop" /\ worker.pc = "idle" /\ worker' \in Workers /\ worker'.pc = "stop"
        /\ worker'.id = NoMessage /\ worker'.turn = 0
  /\ UNCHANGED <<chat, faults, session, reader, throttle, sent, given, takenBy, cut, haunted, guessed>>

LEMMA CommandMoves ==
  ASSUME Base, NEW k \in Takers, Command(k)
  PROVE  \E z \in Takes : CommandDoes(k, z)
PROOF
  <1> USE DEF CommandDoes
  <1>1. PICK z : z = [[taker[k] EXCEPT !.pc = "take"] EXCEPT !.of = Registered]
    OBVIOUS
  <1>2. /\ k # "stall" /\ taker[k].pc = "ready"
        /\ k = "stop" => worker.pc = "idle"
        /\ worker' = (IF k = "stop" THEN [IdleWorker EXCEPT !.pc = "stop"] ELSE worker)
        /\ taker' = [taker EXCEPT ![k] = z]
        /\ UNCHANGED <<chat, faults, session, reader, throttle, sent, given, takenBy, cut, haunted, guessed>>
    BY <1>1 DEF Command, MayEnd, telegramVars, history
  <1>3. Typed /\ taker[k] \in Takes /\ Registered \in Nat
    BY TakerIs, SessionsAre DEF Base
  <1>4. z \in Takes /\ z.pc = "take" /\ z.of = Registered /\ z.id = taker[k].id /\ z.text = taker[k].text
    BY <1>1, <1>3 DEF Takes
  <1>5. TakerMoves(k, z)
    BY <1>2, <1>3, <1>4, TakerSet
  <1>6. \/ k # "stop" /\ UNCHANGED worker
        \/ /\ k = "stop" /\ worker.pc = "idle" /\ worker' \in Workers /\ worker'.pc = "stop"
           /\ worker'.id = NoMessage /\ worker'.turn = 0
    BY <1>2, NoneIs DEF Workers, IdleWorker, NoMessage
  <1>. QED
    BY <1>2, <1>4, <1>5, <1>6

StalledDoes(s, z) ==
  /\ taker["stall"].pc = "ready" /\ TakerMoves("stall", z) /\ z.pc = "take"
  /\ z.of = s /\ z.id = session[s].active /\ z.text = taker["stall"].text
  /\ UNCHANGED <<chat, faults, session, reader, throttle, worker, sent, given, takenBy, cut, haunted, guessed>>

LEMMA StalledMoves ==
  ASSUME Base, NEW s \in Sessions, Stalled(s)
  PROVE  \E z \in Takes : StalledDoes(s, z)
PROOF
  <1> USE DEF StalledDoes
  <1>1. PICK z : z = [[[taker["stall"] EXCEPT !.pc = "take"] EXCEPT !.of = s]
                        EXCEPT !.id = session[s].active]
    OBVIOUS
  <1>2. /\ taker["stall"].pc = "ready" /\ taker' = [taker EXCEPT !["stall"] = z]
        /\ UNCHANGED <<chat, faults, session, reader, throttle, worker, sent, given, takenBy, cut, haunted, guessed>>
    BY <1>1 DEF Stalled, MayEnd, telegramVars, history
  <1>3. /\ Typed /\ "stall" \in Takers /\ taker["stall"] \in Takes /\ s \in Nat
        /\ session[s] \in Objects
    BY TakerIs, SessionsAre DEF Base, Takers
  <1>4. /\ z \in Takes /\ z.pc = "take" /\ z.of = s /\ z.id = session[s].active
        /\ z.text = taker["stall"].text
    BY <1>1, <1>3 DEF Takes, Objects
  <1>5. TakerMoves("stall", z)
    BY <1>2, <1>3, <1>4, TakerSet
  <1>. QED
    BY <1>2, <1>4, <1>5

TakeDoes(k, z, x) ==
  /\ taker[k].pc = "take" /\ TakerMoves(k, z) /\ SessionMoves(taker[k].of, x)
  /\ z.pc = (IF k = "shutdown" THEN "send" ELSE "kill") /\ z.of = taker[k].of
  /\ z.id = session[taker[k].of].active /\ z.text = session[taker[k].of].buffer
  /\ x.alive = session[taker[k].of].alive /\ x.active = NoMessage /\ x.buffer = <<>>
  /\ takenBy' = Took(<<k>>, session[taker[k].of].active)
  /\ cut' = cut \cup Asked(taker[k].of) \cup ({worker.turn} \ {0}) /\ cut' \subseteq Turns
  /\ UNCHANGED <<chat, faults, reader, throttle, worker, sent, given, haunted, guessed>>

LEMMA TakeMoves ==
  ASSUME Base, NEW k \in Takers, Take(k)
  PROVE  \E z \in Takes, x \in Objects : TakeDoes(k, z, x)
PROOF
  <1> USE DEF TakeDoes
  <1>1. PICK s : s = taker[k].of
    OBVIOUS
  <1>2. PICK z : z = [[[taker[k] EXCEPT !.pc = IF k = "shutdown" THEN "send" ELSE "kill"]
                        EXCEPT !.id = session[s].active] EXCEPT !.text = session[s].buffer]
    OBVIOUS
  <1>3. PICK x : x = IF k = "shutdown" THEN [session[s] EXCEPT !.active = NoMessage, !.buffer = <<>>]
                     ELSE Disarmed(session[s])
    OBVIOUS
  <1>4. /\ taker[k].pc = "take" /\ taker' = [taker EXCEPT ![k] = z]
        /\ session' = [session EXCEPT ![s] =
             IF k = "shutdown" THEN [session[s] EXCEPT !.active = NoMessage, !.buffer = <<>>]
             ELSE Disarmed(session[s])]
        /\ takenBy' = Took(<<k>>, session[s].active)
        /\ cut' = cut \cup Asked(s) \cup ({worker.turn} \ {0})
        /\ UNCHANGED <<chat, faults, reader, throttle, worker, sent, given, haunted, guessed>>
    BY <1>1, <1>2 DEF Take, TakenAs, Its, telegramVars
  <1>5. /\ Typed /\ taker[k] \in Takes /\ s \in Sessions /\ session[s] \in Objects
        /\ worker.turn \in Turns \cup {0} /\ cut \subseteq Turns
    BY <1>1, <1>4, TakerIs DEF Base, Typed, Workers
  <1>6. /\ z \in Takes /\ z.pc = (IF k = "shutdown" THEN "send" ELSE "kill") /\ z.of = s
        /\ z.id = session[s].active /\ z.text = session[s].buffer
    BY <1>1, <1>2, <1>5 DEF Takes, Objects
  <1>7. TakerMoves(k, z)
    BY <1>4, <1>5, <1>6, TakerSet
  <1>8. x \in Objects /\ x.alive = session[s].alive /\ x.active = NoMessage /\ x.buffer = <<>>
    <2>1. CASE k = "shutdown"
      <3>1. x = [session[s] EXCEPT !.active = NoMessage, !.buffer = <<>>]
        BY <1>3, <2>1
      <3>. QED
        BY <1>5, <3>1, EmptySeq DEF Objects, Texts, NoMessage
    <2>2. CASE k # "shutdown"
      BY <1>3, <1>5, <2>2, DisarmedIs
    <2>. QED
      BY <2>1, <2>2
  <1>9. session' = [session EXCEPT ![s] = x]
    BY <1>3, <1>4
  <1>10. SessionMoves(s, x)
    BY <1>5, <1>8, <1>9, SessionSet
  <1>11. cut' \subseteq Turns
    BY <1>4, <1>5, AskedIs
  <1>. QED
    BY <1>1, <1>4, <1>6, <1>7, <1>8, <1>10, <1>11

KillTakenDoes(k, z, x) ==
  /\ taker[k].pc = "kill" /\ TakerMoves(k, z) /\ SessionMoves(taker[k].of, x)
  /\ z.pc = (IF k = "shutdown" THEN "over" ELSE "send") /\ z.of = taker[k].of
  /\ z.id = taker[k].id /\ z.text = taker[k].text
  /\ x.alive = FALSE /\ x.active = NoMessage /\ x.buffer = <<>>
  /\ reader' \in [Starts -> Readers]
  /\ \A q \in Starts : /\ Told(q, taker[k].of) /\ reader'[q].pc = reader[q].pc
                       /\ SameCopy(reader[q], reader'[q])
  /\ cut' = cut \cup Asked(taker[k].of) /\ cut' \subseteq Turns
  /\ UNCHANGED <<chat, faults, throttle, worker, sent, given, takenBy, haunted, guessed>>

LEMMA KillTakenMoves ==
  ASSUME Base, NEW k \in Takers, KillTaken(k)
  PROVE  \E z \in Takes, x \in Objects : KillTakenDoes(k, z, x)
PROOF
  <1> USE DEF KillTakenDoes
  <1>1. PICK s : s = taker[k].of
    OBVIOUS
  <1>2. PICK z : z = [taker[k] EXCEPT !.pc = IF k = "shutdown" THEN "over" ELSE "send"]
    OBVIOUS
  <1>3. /\ taker[k].pc = "kill" /\ taker' = [taker EXCEPT ![k] = z]
        /\ session' = [session EXCEPT ![s] = Dead(session[s])] /\ reader' = Cancelled(reader, s)
        /\ cut' = cut \cup Asked(s)
        /\ UNCHANGED <<chat, faults, throttle, worker, sent, given, takenBy, haunted, guessed>>
    BY <1>1, <1>2 DEF KillTaken, telegramVars
  <1>4. /\ Typed /\ taker[k] \in Takes /\ s \in Sessions /\ session[s] \in Objects
        /\ reader \in [Starts -> Readers] /\ cut \subseteq Turns
    BY <1>1, <1>3, TakerIs DEF Base, Typed
  <1>5. /\ z \in Takes /\ z.pc = (IF k = "shutdown" THEN "over" ELSE "send") /\ z.of = s
        /\ z.id = taker[k].id /\ z.text = taker[k].text
    BY <1>1, <1>2, <1>4 DEF Takes
  <1>6. TakerMoves(k, z)
    BY <1>3, <1>4, <1>5, TakerSet
  <1>7. PICK x : x = Dead(session[s])
    OBVIOUS
  <1>8. x \in Objects /\ x.alive = FALSE /\ x.active = NoMessage /\ x.buffer = <<>>
    BY <1>4, <1>7, DisarmedIs
  <1>9. SessionMoves(s, x)
    BY <1>3, <1>4, <1>7, <1>8, SessionSet
  <1>10. /\ reader' \in [Starts -> Readers]
         /\ \A q \in Starts : /\ reader'[q].pc = reader[q].pc /\ reader'[q].of = reader[q].of
                              /\ SameWork(reader[q], reader'[q]) /\ SameCopy(reader[q], reader'[q])
                              /\ reader'[q].killed = (reader[q].killed \/ q \in Running(s))
    BY <1>3, <1>4, CancelledIs
  <1>11. cut' \subseteq Turns
    BY <1>3, <1>4, AskedIs
  <1>. QED
    BY <1>1, <1>3, <1>5, <1>6, <1>8, <1>9, <1>10, <1>11 DEF Told

SendTakenDoes(k, z) ==
  /\ taker[k].pc = "send" /\ TakerMoves(k, z)
  /\ z.pc = (IF k = "shutdown" THEN "kill" ELSE "over") /\ z.of = taker[k].of
  /\ z.id = NoMessage /\ z.text = <<>>
  /\ worker' = (IF k = "stop" THEN IdleWorker ELSE worker)
  /\ ChatGrows /\ faults' \in 0 .. MaxFaults
  /\ \A i \in DOMAIN chat :
       \/ chat'[i] = chat[i]
       \/ /\ i = taker[k].id /\ chat'[i].turn = chat[i].turn
          /\ \/ chat'[i].kind = "gone" /\ chat'[i].text = chat[i].text
             \/ chat'[i].kind = "cut" /\ chat'[i].text = FirstChunk(taker[k].text)
                /\ (k = "stop" => Len(taker[k].text) < LongAt)
  /\ \A i \in DOMAIN chat' \ DOMAIN chat :
       /\ chat'[i].kind = "cut"
       /\ \/ chat'[i].text = taker[k].text
          \/ chat'[i].text = FirstChunk(taker[k].text)
  /\ UNCHANGED <<session, reader, throttle, sent, given, takenBy, cut, haunted, guessed>>

LEMMA SendTakenMoves ==
  ASSUME Base, NEW k \in Takers, SendTaken(k)
  PROVE  \E z \in Takes : SendTakenDoes(k, z)
PROOF
  <1> USE DEF SendTakenDoes
  <1>1. PICK id : id = taker[k].id
    OBVIOUS
  <1>2. PICK m : m = Message("cut", IF id = NoMessage THEN 0 ELSE chat[id].turn, taker[k].text, FALSE)
    OBVIOUS
  <1>3. PICK z : z = [[NoTake EXCEPT !.pc = IF k = "shutdown" THEN "kill" ELSE "over"]
                        EXCEPT !.of = taker[k].of]
    OBVIOUS
  <1>4. /\ taker[k].pc = "send" /\ taker' = [taker EXCEPT ![k] = z]
        /\ worker' = (IF k = "stop" THEN IdleWorker ELSE worker)
        /\ \/ UNCHANGED <<chat, faults>>
           \/ k = "stop" /\ Answered(id, m)
           \/ k # "stop" /\ id # NoMessage /\ Edited(id, m)
        /\ UNCHANGED <<session, reader, throttle, sent, given, takenBy, cut, haunted, guessed>>
    BY <1>1, <1>2, <1>3 DEF SendTaken, telegramVars, history
  <1>5. /\ Typed /\ taker[k] \in Takes /\ Shows(id) /\ taker[k].of \in Nat /\ chat \in Seq(Messages)
        /\ faults \in 0 .. MaxFaults
    BY <1>1, TakerIs DEF Base, Typed, Takes
  <1>6. id # NoMessage => id \in DOMAIN chat /\ chat[id] \in Messages
    BY <1>5, SessionsAre DEF Shows
  <1>7. /\ m \in Messages /\ m.kind = "cut" /\ m.text = taker[k].text
        /\ id # NoMessage => m.turn = chat[id].turn
    BY <1>2, <1>5, <1>6 DEF Message, Messages, Kinds, Takes
  <1>8. /\ z \in Takes /\ z.pc = (IF k = "shutdown" THEN "kill" ELSE "over") /\ z.of = taker[k].of
        /\ z.id = NoMessage /\ z.text = <<>>
    BY <1>3, <1>5, EmptySeq DEF Takes, NoTake, NoMessage, Texts
  <1>9. TakerMoves(k, z)
    BY <1>4, <1>5, <1>8, TakerSet
  <1>10. CASE UNCHANGED <<chat, faults>>
    BY <1>4, <1>5, <1>8, <1>9, <1>10 DEF ChatGrows
  <1>11. CASE k = "stop" /\ Answered(id, m)
    <2>1. /\ ChatGrows /\ faults' \in 0 .. MaxFaults
          /\ \A i \in DOMAIN chat :
               \/ chat'[i] = chat[i]
               \/ i = id /\ chat'[i] = m /\ Len(m.text) < LongAt
               \/ i = id /\ chat'[i].kind = "gone" /\ chat'[i].turn = chat[i].turn
                         /\ chat'[i].text = chat[i].text
          /\ \A i \in DOMAIN chat' \ DOMAIN chat : chat'[i] = m
      BY <1>5, <1>7, <1>11, AnsweredIs
    <2>2. m.text \in Texts /\ (Len(m.text) < LongAt => FirstChunk(m.text) = m.text)
      BY <1>7, FirstChunkIs DEF Messages
    <2>3. \A i \in DOMAIN chat : i = id => id # NoMessage
      BY <1>5, SessionsAre
    <2>. QED
      BY <1>1, <1>4, <1>7, <1>8, <1>9, <2>1, <2>2, <2>3
  <1>12. CASE k # "stop" /\ id # NoMessage /\ Edited(id, m)
    <2>1. id \in DOMAIN chat
      BY <1>6, <1>12
    <2>2. /\ ChatGrows /\ faults' \in 0 .. MaxFaults
          /\ \E shown \in Messages :
              /\ shown.kind = m.kind /\ shown.turn = m.turn /\ shown.marked = m.marked
              /\ shown.text = FirstChunk(m.text)
              /\ \A i \in DOMAIN chat : chat'[i] = chat[i] \/ (i = id /\ chat'[i] = shown)
              /\ \A i \in DOMAIN chat' \ DOMAIN chat : chat'[i] = shown
      BY <1>5, <1>7, <1>12, <2>1, EditedIs
    <2>. QED
      BY <1>1, <1>4, <1>7, <1>8, <1>9, <1>12, <2>2
  <1>. QED
    BY <1>4, <1>10, <1>11, <1>12

DeleteDoes(id) ==
  /\ ChatGrows /\ DOMAIN chat' = DOMAIN chat /\ faults' \in 0 .. MaxFaults
  /\ chat[id].kind \in {"thinking", "draft"} /\ chat'[id].kind = "gone"
  /\ chat'[id].turn = chat[id].turn /\ chat'[id].text = chat[id].text
  /\ \A i \in DOMAIN chat : i # id => chat'[i] = chat[i]
  /\ UNCHANGED <<session, reader, throttle, worker, taker, sent, given, takenBy, cut, haunted, guessed>>

LEMMA DeleteMoves ==
  ASSUME Base, NEW id \in DOMAIN chat, Delete(id)
  PROVE  DeleteDoes(id)
PROOF
  <1> USE DEF DeleteDoes
  <1>1. PICK m : m = [chat[id] EXCEPT !.kind = "gone"]
    OBVIOUS
  <1>2. /\ faults < MaxFaults /\ faults' = faults + 1 /\ chat' = [chat EXCEPT ![id] = m]
        /\ chat[id].kind \in {"thinking", "draft"}
        /\ UNCHANGED <<session, reader, throttle, worker, taker, sent, given, takenBy, cut, haunted, guessed>>
    BY <1>1 DEF Delete, history
  <1>3. /\ chat \in Seq(Messages) /\ DOMAIN chat = 1 .. Len(chat) /\ chat[id] \in Messages
        /\ faults \in 0 .. MaxFaults
    BY SessionsAre DEF Base, Typed
  <1>4. m \in Messages /\ m.kind = "gone" /\ m.turn = chat[id].turn /\ m.text = chat[id].text
    BY <1>1, <1>3 DEF Messages, Kinds
  <1>5. chat' \in Seq(Messages) /\ DOMAIN chat' = DOMAIN chat
    BY <1>2, <1>3, <1>4, ExceptSeq
  <1>6. chat'[id] = m /\ \A i \in DOMAIN chat : i # id => chat'[i] = chat[i]
    BY <1>2
  <1>7. faults' \in 0 .. MaxFaults
    BY <1>2, <1>3, Numbers
  <1>. QED
    BY <1>2, <1>4, <1>5, <1>6, <1>7 DEF ChatGrows

(* Every step is one of these. *)
Step ==
  \/ \E r \in Starts :
       \/ \E y \in Readers, x \in Objects :
            DeltaDoes(r, y, x) \/ ResultDoes(r, y, x) \/ CleanDoes(r, y, x) \/ ReaderEndsDoes(r, y, x)
       \/ \E y \in Readers, m \in Messages : SendAnswerDoes(r, y, m)
       \/ \E y \in Readers : ErrorDoes(r, y) \/ SendErrorDoes(r, y)
       \/ \E x \in Objects : FailDoes(r, x)
       \/ \E e \in Edits : TickDoes(r, e)
       \/ DraftDoes(r)
  \/ BeginDoes \/ LookDoes \/ PostDoes \/ ArmDoes \/ WriteDoes
  \/ \E k \in Takers, z \in Takes :
       \/ CommandDoes(k, z) \/ SendTakenDoes(k, z)
       \/ \E x \in Objects : TakeDoes(k, z, x) \/ KillTakenDoes(k, z, x)
  \/ \E s \in Sessions, z \in Takes : StalledDoes(s, z)
  \/ \E id \in DOMAIN chat : DeleteDoes(id)
  \/ UNCHANGED vars

LEMMA NextIsStep ==
  ASSUME Base, [Next]_vars
  PROVE  Step
PROOF
  <1>1. CASE UNCHANGED vars
    BY <1>1 DEF Step
  <1>2. ASSUME NEW r \in Starts, Reading(r)
        PROVE  Step
    <2>1. CASE Delta(r)
      BY <2>1, DeltaMoves DEF Step
    <2>2. CASE Result(r)
      BY <2>2, ResultMoves DEF Step
    <2>3. CASE SendAnswer(r)
      BY <2>3, SendAnswerMoves DEF Step
    <2>4. CASE Clean(r)
      BY <2>4, CleanMoves DEF Step
    <2>5. CASE Error(r)
      BY <2>5, ErrorMoves DEF Step
    <2>6. CASE Fail(r)
      BY <2>6, FailMoves DEF Step
    <2>7. CASE SendError(r)
      BY <2>7, SendErrorMoves DEF Step
    <2>8. CASE ReaderEnds(r)
      BY <2>8, ReaderEndsMoves DEF Step
    <2>. QED
      BY <1>2, <2>1, <2>2, <2>3, <2>4, <2>5, <2>6, <2>7, <2>8 DEF Reading
  <1>3. ASSUME NEW r \in Starts, Tick(r) \/ Draft(r)
        PROVE  Step
    BY <1>3, TickMoves, DraftMoves DEF Step
  <1>4. CASE Working
    BY <1>4, BeginMoves, LookMoves, PostMoves, ArmMoves, WriteMoves DEF Step, Working
  <1>5. ASSUME NEW k \in Takers, Taking(k)
        PROVE  Step
    <2>1. CASE Command(k)
      BY <2>1, CommandMoves DEF Step
    <2>2. CASE Take(k)
      BY <2>2, TakeMoves DEF Step
    <2>3. CASE KillTaken(k)
      BY <2>3, KillTakenMoves DEF Step
    <2>4. CASE SendTaken(k)
      BY <2>4, SendTakenMoves DEF Step
    <2>. QED
      BY <1>5, <2>1, <2>2, <2>3, <2>4 DEF Taking
  <1>6. ASSUME NEW s \in Sessions, Stalled(s)
        PROVE  Step
    BY <1>6, StalledMoves DEF Step
  <1>7. ASSUME NEW id \in DOMAIN chat, Delete(id)
        PROVE  Step
    BY <1>7, DeleteMoves DEF Step
  <1>. QED
    BY <1>1, <1>2, <1>3, <1>4, <1>5, <1>6, <1>7 DEF Next

-----------------------------------------------------------------------------
(* The types. *)

LEMMA BaseInit ==
  ASSUME Init
  PROVE  Base
PROOF
  <1>1. /\ chat = <<>> /\ session = <<NewSession>>
        /\ reader = [[r \in Starts |-> NoReader] EXCEPT ![1].pc = "read", ![1].of = 1]
        /\ throttle = [r \in Starts |-> NoEdit] /\ worker = IdleWorker
        /\ taker = [k \in Takers |-> NoTake] /\ sent = 0 /\ faults = 0
        /\ takenBy = [i \in {} |-> {}] /\ cut = {} /\ haunted = {} /\ given = {} /\ guessed = {}
    BY DEF Init
  <1>2. PICK y : y = [[NoReader EXCEPT !.pc = "read"] EXCEPT !.of = 1]
    OBVIOUS
  <1>3. y \in Readers /\ y.pc = "read" /\ y.of = 1 /\ y.id = NoMessage
    BY <1>2, NoneIs DEF Readers
  <1>4. 1 \in Starts
    BY Numbers DEF Starts
  <1>5. reader = [[r \in Starts |-> NoReader] EXCEPT ![1] = y]
    BY <1>1, <1>2, <1>4
  <1>6. reader \in [Starts -> Readers] /\ reader[1] = y /\ \A r \in Starts : r # 1 => reader[r] = NoReader
    BY <1>3, <1>4, <1>5, NoneIs
  <1>7. session \in Seq(Objects) /\ Len(session) = 1 /\ Sessions = {1} /\ session[1] = NewSession
    <2>1. session = <<NewSession>>
      BY <1>1
    <2>2. session \in Seq(Objects) /\ Len(session) = 1 /\ session[1] = NewSession
      BY <2>1, NewSessionIs
    <2>3. Sessions = 1 .. 1
      BY <2>2, LenProperties DEF Sessions
    <2>. QED
      BY <2>2, <2>3
  <1>8. Typed
    <2>1. chat \in Seq(Messages) /\ DOMAIN takenBy \subseteq DOMAIN chat
      BY <1>1, EmptySeq
    <2>2. sent \in 0 .. Prompts /\ faults \in 0 .. MaxFaults
      BY <1>1, Numbers
    <2>3. throttle \in [Starts -> Edits] /\ worker \in Workers /\ taker \in [Takers -> Takes]
      BY <1>1, NoneIs
    <2>. QED
      BY <1>1, <1>6, <1>7, <2>1, <2>2, <2>3 DEF Typed
  <1>9. There
    <2>1. \A s \in Sessions : Shows(session[s].active)
      BY <1>7, NewSessionIs DEF Shows
    <2>2. ASSUME NEW r \in Starts
          PROVE  /\ reader[r].of \in IF reader[r].pc = "none" THEN {0} ELSE Sessions
                 /\ Shows(reader[r].id) /\ Shows(throttle[r].id)
                 /\ reader[r].pc \in {"send", "fail", "report"} => reader[r].turn \in Turns
      BY <1>1, <1>3, <1>6, <1>7, NoneIs DEF Shows
    <2>3. Shows(worker.id) /\ worker.turn \in IF worker.pc \in {"idle", "stop"} THEN {0} ELSE Turns
      BY <1>1, NoneIs DEF Shows
    <2>4. \A k \in Takers : Shows(taker[k].id) /\ (taker[k].pc # "ready" => taker[k].of \in Sessions)
      BY <1>1, NoneIs DEF Shows
    <2>. QED
      BY <2>1, <2>2, <2>3, <2>4 DEF There
  <1>. QED
    BY <1>8, <1>9 DEF Base

LEMMA ShowsKept ==
  ASSUME DOMAIN chat \subseteq DOMAIN chat', NEW id, Shows(id)
  PROVE  Shows(id)'
PROOF
  BY DEF Shows

LEMMA HeldThere ==
  ASSUME Base, NEW who, NEW id, Shows(id)
  PROVE  DOMAIN Took(who, id) \subseteq DOMAIN chat
PROOF
  <1>1. DOMAIN takenBy \subseteq DOMAIN chat /\ (id # NoMessage => id \in DOMAIN chat)
    BY DEF Base, Typed, Shows
  <1>2. CASE id = NoMessage
    BY <1>1, <1>2, TookIs
  <1>3. CASE id # NoMessage
    <2>1. DOMAIN Took(who, id) = DOMAIN takenBy \cup {id}
      BY <1>3 DEF Took
    <2>. QED
      BY <1>1, <1>3, <2>1
  <1>. QED
    BY <1>2, <1>3

LEMMA BaseKept ==
  ASSUME Base, Step
  PROVE  Base'
PROOF
  <1>1. ASSUME NEW r \in Starts, NEW y \in Readers, NEW x \in Objects, DeltaDoes(r, y, x)
        PROVE  Base'
    <2>1. Typed'
      BY <1>1 DEF Base, Typed, DeltaDoes, ReaderMoves, SessionMoves
    <2>2. There'
      <3>1. /\ SessionMoves(reader[r].of, x) /\ x.active = session[reader[r].of].active
            /\ ReaderMoves(r, y) /\ y.pc = "read" /\ reader[r].pc = "read" /\ y.of = reader[r].of
            /\ y.id = reader[r].id /\ UNCHANGED <<chat, throttle, worker, taker>>
        BY <1>1 DEF DeltaDoes, SameProcess, SameCopy
      <3>. QED
        BY <3>1 DEF Base, There, Shows, ReaderMoves, SessionMoves
    <2>. QED
      BY <2>1, <2>2 DEF Base
  <1>2. ASSUME NEW r \in Starts, NEW y \in Readers, NEW x \in Objects, ResultDoes(r, y, x)
        PROVE  Base'
    <2>1. /\ Shows(session[reader[r].of].active) /\ y.turn \in Turns
      BY <1>2, ReaderIs DEF ResultDoes
    <2>2. DOMAIN takenBy' \subseteq DOMAIN chat
      BY <1>2, <2>1, HeldThere DEF ResultDoes
    <2>3. Typed'
      BY <1>2, <2>2 DEF Base, Typed, ResultDoes, ReaderMoves, SessionMoves
    <2>4. There'
      BY <1>2, <2>1 DEF Base, There, Shows, ResultDoes, ReaderMoves, SessionMoves, SameProcess, SameCopy
    <2>. QED
      BY <2>3, <2>4 DEF Base
  <1>3. ASSUME NEW r \in Starts, NEW y \in Readers, NEW x \in Objects, CleanDoes(r, y, x)
        PROVE  Base'
    <2>1. Typed'
      BY <1>3 DEF Base, Typed, CleanDoes, ReaderMoves, SessionMoves
    <2>2. There'
      BY <1>3 DEF Base, There, Shows, CleanDoes, ReaderMoves, SessionMoves, SameProcess, SameCopy
    <2>. QED
      BY <2>1, <2>2 DEF Base
  <1>4. ASSUME NEW r \in Starts, NEW y \in Readers, NEW x \in Objects, ReaderEndsDoes(r, y, x)
        PROVE  Base'
    <2>1. Typed'
      BY <1>4 DEF Base, Typed, ReaderEndsDoes, ReaderMoves, SessionMoves
    <2>2. There'
      BY <1>4 DEF Base, There, Shows, ReaderEndsDoes, ReaderMoves, SessionMoves, SameProcess
    <2>. QED
      BY <2>1, <2>2 DEF Base
  <1>5. ASSUME NEW r \in Starts, NEW y \in Readers, NEW m \in Messages, SendAnswerDoes(r, y, m)
        PROVE  Base'
    <2>1. Sessions' = Sessions
      BY <1>5, SameSessions DEF Base, SendAnswerDoes
    <2>2. Typed'
      BY <1>5 DEF Base, Typed, SendAnswerDoes, ReaderMoves, ChatGrows
    <2>3. There'
      BY <1>5, <2>1 DEF Base, There, Shows, SendAnswerDoes, ReaderMoves, SameProcess, SameCopy, ChatGrows
    <2>. QED
      BY <2>2, <2>3 DEF Base
  <1>6. ASSUME NEW r \in Starts, NEW y \in Readers, ErrorDoes(r, y)
        PROVE  Base'
    <2>1. /\ Sessions' = Sessions /\ Shows(session[reader[r].of].active)
          /\ Head(reader[r].prompts) \in Turns
      BY <1>6, SameSessions, ReaderIs DEF Base, ErrorDoes
    <2>2. Typed'
      BY <1>6 DEF Base, Typed, ErrorDoes, ReaderMoves
    <2>3. There'
      BY <1>6, <2>1 DEF Base, There, Shows, ErrorDoes, ReaderMoves, SameProcess, SameCopy
    <2>. QED
      BY <2>2, <2>3 DEF Base
  <1>7. ASSUME NEW r \in Starts, NEW y \in Readers, SendErrorDoes(r, y)
        PROVE  Base'
    <2>1. Sessions' = Sessions
      BY <1>7, SameSessions DEF Base, SendErrorDoes
    <2>2. Typed'
      BY <1>7 DEF Base, Typed, SendErrorDoes, ReaderMoves, ChatGrows
    <2>3. There'
      BY <1>7, <2>1 DEF Base, There, Shows, SendErrorDoes, ReaderMoves, SameProcess, SameCopy, ChatGrows
    <2>. QED
      BY <2>2, <2>3 DEF Base
  <1>8. ASSUME NEW r \in Starts, NEW x \in Objects, FailDoes(r, x)
        PROVE  Base'
    <2>1. Shows(reader[r].id)
      BY ReaderIs
    <2>2. DOMAIN takenBy' \subseteq DOMAIN chat
      BY <1>8, <2>1, HeldThere DEF FailDoes
    <2>3. Typed'
      BY <1>8, <2>2 DEF Base, Typed, FailDoes, SessionMoves
    <2>4. ASSUME NEW q \in Starts
          PROVE  /\ reader'[q].of = reader[q].of /\ reader'[q].id = reader[q].id
                 /\ reader'[q].turn = reader[q].turn
                 /\ q # r => reader'[q].pc = reader[q].pc
      BY <1>8 DEF FailDoes, Told, SameCopy
    <2>5. There'
      BY <1>8, <2>4 DEF Base, There, Shows, FailDoes, SessionMoves
    <2>. QED
      BY <2>3, <2>5 DEF Base
  <1>9. ASSUME NEW r \in Starts, NEW e \in Edits, TickDoes(r, e)
        PROVE  Base'
    <2>1. /\ Sessions' = Sessions /\ Shows(session[reader[r].of].active)
      BY <1>9, SameSessions, ReaderIs DEF Base, TickDoes
    <2>2. Typed'
      BY <1>9 DEF Base, Typed, TickDoes
    <2>3. There'
      BY <1>9, <2>1 DEF Base, There, Shows, TickDoes
    <2>. QED
      BY <2>2, <2>3 DEF Base
  <1>10. ASSUME NEW r \in Starts, DraftDoes(r)
         PROVE  Base'
    <2>1. Sessions' = Sessions
      BY <1>10, SameSessions DEF Base, DraftDoes
    <2>2. Typed'
      BY <1>10 DEF Base, Typed, DraftDoes, ChatGrows
    <2>3. There'
      BY <1>10, <2>1, NoneIs DEF Base, There, Shows, DraftDoes, ChatGrows
    <2>. QED
      BY <2>2, <2>3 DEF Base
  <1>11. CASE BeginDoes
    <2>1. CASE UNCHANGED <<session, reader>>
      <3>1. Sessions' = Sessions
        BY <2>1, SameSessions DEF Base
      <3>2. Typed'
        BY <1>11, <2>1 DEF Base, Typed, BeginDoes
      <3>3. There'
        BY <1>11, <2>1, <3>1 DEF Base, There, Shows, BeginDoes
      <3>. QED
        BY <3>2, <3>3 DEF Base
    <2>2. CASE ~ session[Registered].alive
      <3>1. /\ session' \in Seq(Objects) /\ Len(session') = Registered + 1
            /\ Sessions' = Sessions \cup {Registered + 1}
            /\ session'[Registered + 1] = NewSession
            /\ \A s \in Sessions : session'[s] = session[s]
        BY <1>11, <2>2 DEF BeginDoes
      <3>2. PICK n \in Starts :
              /\ Started(n, Registered + 1)
              /\ \A q \in Starts : q # n => /\ Told(q, Registered) /\ reader'[q].pc = reader[q].pc
                                            /\ SameCopy(reader[q], reader'[q])
        BY <1>11, <2>2 DEF BeginDoes
      <3>3. Len(session') >= 1
        BY <3>1, SessionsAre DEF Base
      <3>4. Typed'
        BY <1>11, <3>1, <3>2, <3>3 DEF Base, Typed, BeginDoes, Started
      <3>5. \A s \in Sessions' : Shows(session'[s].active)
        BY <3>1, NewSessionIs DEF Base, There, Shows
      <3>6. ASSUME NEW q \in Starts
            PROVE  /\ reader'[q].of \in IF reader'[q].pc = "none" THEN {0} ELSE Sessions'
                   /\ Shows(reader'[q].id)
                   /\ reader'[q].pc \in {"send", "fail", "report"} => reader'[q].turn \in Turns
        BY <3>1, <3>2 DEF Base, There, Shows, Told, SameCopy, Started
      <3>7. There'
        BY <1>11, <3>1, <3>5, <3>6 DEF Base, There, Shows, BeginDoes
      <3>. QED
        BY <3>4, <3>7 DEF Base
    <2>. QED
      BY <1>11, <2>1, <2>2 DEF BeginDoes
  <1>12. CASE LookDoes
    <2>1. CASE UNCHANGED <<session, reader>>
      <3>1. Sessions' = Sessions
        BY <2>1, SameSessions DEF Base
      <3>2. Typed'
        BY <1>12, <2>1 DEF Base, Typed, LookDoes
      <3>3. There'
        BY <1>12, <2>1, <3>1 DEF Base, There, Shows, LookDoes
      <3>. QED
        BY <3>2, <3>3 DEF Base
    <2>2. CASE ~ session[Registered].alive
      <3>1. PICK x \in Objects : /\ SessionMoves(Registered, x) /\ x.alive = TRUE
                                 /\ x.active = NoMessage /\ x.buffer = <<>>
        BY <1>12, <2>2 DEF LookDoes
      <3>2. PICK n \in Starts : Started(n, Registered) /\ \A q \in Starts : q # n => reader'[q] = reader[q]
        BY <1>12, <2>2 DEF LookDoes
      <3>3. Registered \in Sessions
        BY SessionsAre DEF Base
      <3>4. Typed'
        BY <1>12, <3>1, <3>2 DEF Base, Typed, LookDoes, SessionMoves, Started
      <3>5. There'
        BY <1>12, <3>1, <3>2, <3>3 DEF Base, There, Shows, LookDoes, SessionMoves, Started
      <3>. QED
        BY <3>4, <3>5 DEF Base
    <2>. QED
      BY <1>12, <2>1, <2>2 DEF LookDoes
  <1>13. CASE PostDoes
    <2>1. Sessions' = Sessions
      BY <1>13, SameSessions DEF Base, PostDoes
    <2>2. Typed'
      BY <1>13 DEF Base, Typed, PostDoes, ChatGrows
    <2>3. There'
      BY <1>13, <2>1 DEF Base, There, Shows, PostDoes
    <2>. QED
      BY <2>2, <2>3 DEF Base
  <1>14. CASE ArmDoes
    <2>1. CASE UNCHANGED session
      <3>1. Sessions' = Sessions
        BY <2>1, SameSessions DEF Base
      <3>2. Typed'
        BY <1>14, <2>1 DEF Base, Typed, ArmDoes
      <3>3. There'
        BY <1>14, <2>1, <3>1 DEF Base, There, Shows, ArmDoes
      <3>. QED
        BY <3>2, <3>3 DEF Base
    <2>2. CASE session[Registered].active = NoMessage
      <3>1. PICK x \in Objects : SessionMoves(Registered, x) /\ (x.active = worker.id \/ session' = session)
        BY <1>14, <2>2 DEF ArmDoes
      <3>2. Typed'
        BY <1>14, <3>1 DEF Base, Typed, ArmDoes, SessionMoves
      <3>3. There'
        BY <1>14, <3>1 DEF Base, There, Shows, ArmDoes, SessionMoves
      <3>. QED
        BY <3>2, <3>3 DEF Base
    <2>. QED
      BY <1>14, <2>1, <2>2 DEF ArmDoes
  <1>15. CASE WriteDoes
    <2>1. CASE session[Registered].alive
      <3>1. UNCHANGED session /\ Sessions' = Sessions
        BY <1>15, <2>1, SameSessions DEF Base, WriteDoes
      <3>2. /\ reader' \in [Starts -> Readers]
            /\ \A q \in Starts : /\ reader'[q].pc = reader[q].pc /\ reader'[q].of = reader[q].of
                                 /\ SameCopy(reader[q], reader'[q])
        BY <1>15, <2>1 DEF WriteDoes, SameProcess, SameCopy
      <3>3. Typed'
        BY <1>15, <3>1, <3>2, NoneIs DEF Base, Typed, WriteDoes
      <3>4. There'
        BY <1>15, <3>1, <3>2, NoneIs DEF Base, There, Shows, WriteDoes, SameCopy
      <3>. QED
        BY <3>3, <3>4 DEF Base
    <2>2. CASE ~ session[Registered].alive
      <3>1. PICK x \in Objects : /\ SessionMoves(Registered, x) /\ x.alive = TRUE
                                 /\ x.active = NoMessage /\ x.buffer = <<>>
        BY <1>15, <2>2 DEF WriteDoes
      <3>2. PICK n \in Starts : Started(n, Registered) /\ \A q \in Starts : q # n => reader'[q] = reader[q]
        BY <1>15, <2>2 DEF WriteDoes
      <3>3. Registered \in Sessions
        BY SessionsAre DEF Base
      <3>4. Typed'
        BY <1>15, <3>1, <3>2, NoneIs DEF Base, Typed, WriteDoes, SessionMoves, Started
      <3>5. There'
        BY <1>15, <3>1, <3>2, <3>3, NoneIs DEF Base, There, Shows, WriteDoes, SessionMoves, Started
      <3>. QED
        BY <3>4, <3>5 DEF Base
    <2>. QED
      BY <2>1, <2>2
  <1>16. ASSUME NEW k \in Takers, NEW z \in Takes, CommandDoes(k, z)
         PROVE  Base'
    <2>1. Sessions' = Sessions /\ Registered \in Sessions
      BY <1>16, SameSessions, SessionsAre DEF Base, CommandDoes
    <2>2. Typed'
      BY <1>16 DEF Base, Typed, CommandDoes, TakerMoves
    <2>3. There'
      BY <1>16, <2>1 DEF Base, There, Shows, CommandDoes, TakerMoves
    <2>. QED
      BY <2>2, <2>3 DEF Base
  <1>17. ASSUME NEW k \in Takers, NEW z \in Takes, SendTakenDoes(k, z)
         PROVE  Base'
    <2>1. Sessions' = Sessions
      BY <1>17, SameSessions DEF Base, SendTakenDoes
    <2>2. Typed'
      BY <1>17, NoneIs DEF Base, Typed, SendTakenDoes, TakerMoves, ChatGrows
    <2>3. There'
      BY <1>17, <2>1, NoneIs DEF Base, There, Shows, SendTakenDoes, TakerMoves, ChatGrows
    <2>. QED
      BY <2>2, <2>3 DEF Base
  <1>18. ASSUME NEW k \in Takers, NEW z \in Takes, NEW x \in Objects, TakeDoes(k, z, x)
         PROVE  Base'
    <2>1. Shows(session[taker[k].of].active) /\ taker[k].of \in Sessions
      BY <1>18, TakerIs DEF TakeDoes
    <2>2. DOMAIN takenBy' \subseteq DOMAIN chat
      BY <1>18, <2>1, HeldThere DEF TakeDoes
    <2>3. Typed'
      BY <1>18, <2>2 DEF Base, Typed, TakeDoes, TakerMoves, SessionMoves
    <2>4. There'
      BY <1>18, <2>1 DEF Base, There, Shows, TakeDoes, TakerMoves, SessionMoves
    <2>. QED
      BY <2>3, <2>4 DEF Base
  <1>19. ASSUME NEW k \in Takers, NEW z \in Takes, NEW x \in Objects, KillTakenDoes(k, z, x)
         PROVE  Base'
    <2>1. taker[k].of \in Sessions
      BY <1>19, TakerIs DEF KillTakenDoes
    <2>2. Typed'
      BY <1>19 DEF Base, Typed, KillTakenDoes, TakerMoves, SessionMoves
    <2>3. ASSUME NEW q \in Starts
          PROVE  /\ reader'[q].of = reader[q].of /\ reader'[q].id = reader[q].id
                 /\ reader'[q].turn = reader[q].turn /\ reader'[q].pc = reader[q].pc
      BY <1>19 DEF KillTakenDoes, Told, SameCopy
    <2>4. There'
      BY <1>19, <2>1, <2>3 DEF Base, There, Shows, KillTakenDoes, TakerMoves, SessionMoves
    <2>. QED
      BY <2>2, <2>4 DEF Base
  <1>20. ASSUME NEW s \in Sessions, NEW z \in Takes, StalledDoes(s, z)
         PROVE  Base'
    <2>1. Sessions' = Sessions
      BY <1>20, SameSessions DEF Base, StalledDoes
    <2>2. Typed'
      BY <1>20 DEF Base, Typed, StalledDoes, TakerMoves
    <2>3. There'
      BY <1>20, <2>1 DEF Base, There, Shows, StalledDoes, TakerMoves
    <2>. QED
      BY <2>2, <2>3 DEF Base
  <1>21. ASSUME NEW id \in DOMAIN chat, DeleteDoes(id)
         PROVE  Base'
    <2>1. Sessions' = Sessions
      BY <1>21, SameSessions DEF Base, DeleteDoes
    <2>2. Typed'
      BY <1>21 DEF Base, Typed, DeleteDoes, ChatGrows
    <2>3. There'
      BY <1>21, <2>1 DEF Base, There, Shows, DeleteDoes
    <2>. QED
      BY <2>2, <2>3 DEF Base
  <1>22. CASE UNCHANGED vars
    <2>1. Sessions' = Sessions
      BY <1>22, SameSessions DEF Base, vars
    <2>2. Typed'
      BY <1>22 DEF Base, Typed, vars, telegramVars, history
    <2>3. There'
      BY <1>22, <2>1 DEF Base, There, Shows, vars, telegramVars, history
    <2>. QED
      BY <2>2, <2>3 DEF Base
  <1>. QED
    BY <1>1, <1>2, <1>3, <1>4, <1>5, <1>6, <1>7, <1>8, <1>9, <1>10, <1>11, <1>12, <1>13, <1>14,
       <1>15, <1>16, <1>17, <1>18, <1>19, <1>20, <1>21, <1>22 DEF Step

LEMMA BaseAlways == Spec => []Base
PROOF
  <1>1. Init => Base
    BY BaseInit
  <1>2. Base /\ [Next]_vars => Base'
    BY NextIsStep, BaseKept
  <1>. QED
    BY <1>1, <1>2, PTL DEF Spec

LEMMA TextIs ==
  ASSUME NEW text \in Texts
  PROVE  IsText(text)
PROOF
  BY LenProperties, ElementOfSeq DEF Texts, IsText

(* Every variable has its type, the identifiers of messages and sessions   *)
(* included: no part of the program ever holds a message that was not sent *)
(* or a session that was not opened.                                       *)
THEOREM TypeCorrect == Spec => []TypeOK
PROOF
  <1>1. Base => TypeOK
    <2> SUFFICES ASSUME Base PROVE TypeOK
      OBVIOUS
    <2>1. ASSUME NEW i \in DOMAIN chat
          PROVE  /\ chat[i].kind \in {"thinking", "draft", "answer", "cut", "gone"}
                 /\ chat[i].turn \in Turns \cup {0} /\ IsText(chat[i].text)
      <3>1. chat[i] \in Messages
        BY SessionsAre DEF Base
      <3>. QED
        BY <3>1, TextIs DEF Messages, Kinds
    <2>2. ASSUME NEW s \in Sessions
          PROVE  session[s].active \in {NoMessage} \cup DOMAIN chat /\ IsText(session[s].buffer)
      <3>1. session[s] \in Objects /\ Shows(session[s].active)
        BY SessionsAre DEF Base, There
      <3>. QED
        BY <3>1, TextIs DEF Objects, Shows
    <2>3. ASSUME NEW r \in Starts
          PROVE  /\ reader[r].pc \in {"none", "read", "send", "clean", "fail", "report", "ended"}
                 /\ reader[r].of \in {0} \cup Sessions /\ reader[r].at \in 0 .. Pieces
                 /\ throttle[r].id \in {NoMessage} \cup DOMAIN chat
      <3>1. reader[r] \in Readers /\ Shows(throttle[r].id)
        BY DEF Base, Typed, There
      <3>2. reader[r].of \in {0} \cup Sessions
        BY DEF Base, There
      <3>. QED
        BY <3>1, <3>2 DEF Readers, Shows
    <2>4. worker.pc \in {"idle", "look", "post", "arm", "write", "stop"}
      BY DEF Base, Typed, Workers
    <2>5. \A k \in Takers : taker[k].pc \in {"ready", "take", "kill", "send", "over"}
      BY DEF Base, Typed, Takes
    <2>6. sent \in 0 .. Prompts /\ faults \in 0 .. MaxFaults
          /\ given \cup cut \cup haunted \cup guessed \subseteq Turns
      BY DEF Base, Typed
    <2>. QED
      BY <2>1, <2>2, <2>3, <2>4, <2>5, <2>6 DEF TypeOK
  <1>. QED
    BY <1>1, BaseAlways, PTL

-----------------------------------------------------------------------------
(* Who holds which message.  The message of a running turn was taken by    *)
(* nobody, and is shown by one session only; so is the placeholder a       *)
(* worker has just sent.  A reader that goes to report an error has a      *)
(* message without having taken it: only its own session may show it.      *)
Untaken ==
  \A s \in Sessions : session[s].active # NoMessage => session[s].active \notin DOMAIN takenBy
Apart ==
  \A s, q \in Sessions :
    s # q /\ session[s].active = session[q].active => session[s].active = NoMessage
Fresh ==
  worker.pc = "arm" =>
    /\ worker.id # NoMessage /\ worker.id \notin DOMAIN takenBy
    /\ \A s \in Sessions : session[s].active # worker.id
    /\ \A r \in Starts : reader[r].pc = "fail" => reader[r].id # worker.id
Failing ==
  \A r \in Starts : reader[r].pc = "fail" /\ reader[r].id # NoMessage =>
    \A s \in Sessions : session[s].active = reader[r].id => s = reader[r].of
Single ==
  \A id \in DOMAIN takenBy :
    \E w \in takenBy[id] \cup {<<"none">>} : \A v \in takenBy[id] : v[1] = "error" \/ v = w

Held == Untaken /\ Apart /\ Fresh /\ Failing /\ Single

(* No session begins to show a message, no reader to report one. *)
ShowsLess ==
  \A s \in Sessions' : session'[s].active # NoMessage =>
    s \in Sessions /\ session'[s].active = session[s].active
ArmsLess == worker'.pc = "arm" => worker.pc = "arm" /\ worker'.id = worker.id
FailsLess ==
  \A r \in Starts : reader'[r].pc = "fail" =>
    reader[r].pc = "fail" /\ reader'[r].id = reader[r].id /\ reader'[r].of = reader[r].of

LEMMA HeldQuietly ==
  ASSUME Held, takenBy' = takenBy, ShowsLess, ArmsLess, FailsLess
  PROVE  Held'
PROOF
  <1>1. Untaken'
    BY DEF Held, Untaken, ShowsLess
  <1>2. Apart'
    BY DEF Held, Apart, ShowsLess
  <1>3. Fresh'
    <2> SUFFICES ASSUME worker'.pc = "arm"
                 PROVE  /\ worker'.id # NoMessage /\ worker'.id \notin DOMAIN takenBy'
                        /\ \A s \in Sessions' : session'[s].active # worker'.id
                        /\ \A r \in Starts : reader'[r].pc = "fail" => reader'[r].id # worker'.id
      BY DEF Fresh
    <2>1. worker.pc = "arm" /\ worker'.id = worker.id
      BY DEF ArmsLess
    <2>2. /\ worker.id # NoMessage /\ worker.id \notin DOMAIN takenBy
          /\ \A s \in Sessions : session[s].active # worker.id
          /\ \A r \in Starts : reader[r].pc = "fail" => reader[r].id # worker.id
      BY <2>1 DEF Held, Fresh
    <2>3. \A s \in Sessions' : session'[s].active # worker'.id
      BY <2>1, <2>2 DEF ShowsLess
    <2>4. \A r \in Starts : reader'[r].pc = "fail" => reader'[r].id # worker'.id
      BY <2>1, <2>2 DEF FailsLess
    <2>. QED
      BY <2>1, <2>2, <2>3, <2>4
  <1>4. Failing'
    BY DEF Held, Failing, ShowsLess, FailsLess
  <1>5. Single'
    BY DEF Held, Single
  <1>. QED
    BY <1>1, <1>2, <1>3, <1>4, <1>5 DEF Held

(* The message that session s shows is taken from it. *)
LEMMA HeldTaken ==
  ASSUME Held, NEW s \in Sessions, NEW who, NEW id, id = session[s].active,
         takenBy' = Took(who, id), ShowsLess, session'[s].active = NoMessage, ArmsLess, FailsLess
  PROVE  Held'
PROOF
  <1>1. CASE id = NoMessage
    <2>1. takenBy' = takenBy
      BY <1>1 DEF Took
    <2>. QED
      BY <2>1, HeldQuietly
  <1>2. CASE id # NoMessage
    <2>1. id \notin DOMAIN takenBy
      BY <1>2 DEF Held, Untaken
    <2>2. /\ DOMAIN takenBy' = DOMAIN takenBy \cup {id} /\ takenBy'[id] = {who}
          /\ \A i \in DOMAIN takenBy : i # id => takenBy'[i] = takenBy[i]
      BY <1>2, <2>1 DEF Took
    <2>3. \A q \in Sessions' : session'[q].active # NoMessage => session'[q].active # id
      BY <1>2 DEF Held, Apart, ShowsLess
    <2>4. Untaken'
      BY <2>2, <2>3 DEF Held, Untaken, ShowsLess
    <2>5. Apart'
      BY DEF Held, Apart, ShowsLess
    <2>6. Fresh'
      <3> SUFFICES ASSUME worker'.pc = "arm"
                   PROVE  /\ worker'.id # NoMessage /\ worker'.id \notin DOMAIN takenBy'
                          /\ \A q \in Sessions' : session'[q].active # worker'.id
                          /\ \A r \in Starts : reader'[r].pc = "fail" => reader'[r].id # worker'.id
        BY DEF Fresh
      <3>1. worker.pc = "arm" /\ worker'.id = worker.id
        BY DEF ArmsLess
      <3>2. /\ worker.id # NoMessage /\ worker.id \notin DOMAIN takenBy
            /\ \A q \in Sessions : session[q].active # worker.id
            /\ \A r \in Starts : reader[r].pc = "fail" => reader[r].id # worker.id
        BY <3>1 DEF Held, Fresh
      <3>3. \A q \in Sessions' : session'[q].active # worker'.id
        BY <3>1, <3>2 DEF ShowsLess
      <3>4. \A r \in Starts : reader'[r].pc = "fail" => reader'[r].id # worker'.id
        BY <3>1, <3>2 DEF FailsLess
      <3>. QED
        BY <2>2, <3>1, <3>2, <3>3, <3>4
    <2>7. Failing'
      BY DEF Held, Failing, ShowsLess, FailsLess
    <2>8. Single'
      <3> SUFFICES ASSUME NEW i \in DOMAIN takenBy'
                   PROVE  \E w \in takenBy'[i] \cup {<<"none">>} :
                            \A v \in takenBy'[i] : v[1] = "error" \/ v = w
        BY DEF Single
      <3>1. CASE i = id
        BY <2>2, <3>1
      <3>2. CASE i # id
        <4>1. i \in DOMAIN takenBy /\ takenBy'[i] = takenBy[i]
          BY <2>2, <3>2
        <4>. QED
          BY <4>1 DEF Held, Single
      <3>. QED
        BY <3>1, <3>2
    <2>. QED
      BY <2>4, <2>5, <2>6, <2>7, <2>8 DEF Held
  <1>. QED
    BY <1>1, <1>2

LEMMA ShowsLessIf ==
  ASSUME \/ UNCHANGED session
         \/ \E s \in Sessions, x \in Objects :
              SessionMoves(s, x) /\ x.active \in {NoMessage, session[s].active}
  PROVE  ShowsLess
PROOF
  BY DEF ShowsLess, SessionMoves, Sessions

LEMMA FailsLessIf ==
  ASSUME \/ UNCHANGED reader
         \/ \E r \in Starts, y \in Readers : ReaderMoves(r, y) /\ y.pc # "fail"
         \/ \E n \in Starts : \E s : /\ Started(n, s)
                                      /\ \A q \in Starts : q # n => reader'[q] = reader[q]
  PROVE  FailsLess
PROOF
  BY DEF FailsLess, ReaderMoves, Started

LEMMA HeldKept ==
  ASSUME Base, Held, Step
  PROVE  Held'
PROOF
  <1>1. ASSUME NEW r \in Starts, NEW y \in Readers, NEW x \in Objects, DeltaDoes(r, y, x)
        PROVE  Held'
    <2>1. reader[r].of \in Sessions
      BY <1>1, ReaderIs DEF DeltaDoes
    <2>2. SessionMoves(reader[r].of, x) /\ x.active = session[reader[r].of].active
          /\ ReaderMoves(r, y) /\ y.pc # "fail" /\ worker' = worker /\ takenBy' = takenBy
      BY <1>1 DEF DeltaDoes
    <2>3. ShowsLess /\ FailsLess /\ ArmsLess
      BY <2>1, <2>2, ShowsLessIf, FailsLessIf DEF ArmsLess
    <2>. QED
      BY <2>2, <2>3, HeldQuietly
  <1>2. ASSUME NEW r \in Starts, NEW y \in Readers, NEW x \in Objects, ResultDoes(r, y, x)
        PROVE  Held'
    <2>1. reader[r].of \in Sessions
      BY <1>2, ReaderIs DEF ResultDoes
    <2>2. SessionMoves(reader[r].of, x) /\ x.active = NoMessage
          /\ ReaderMoves(r, y) /\ y.pc # "fail" /\ worker' = worker
          /\ takenBy' = Took(<<"result", r, Head(reader[r].prompts)>>, session[reader[r].of].active)
      BY <1>2 DEF ResultDoes
    <2>3. ShowsLess /\ FailsLess /\ ArmsLess /\ session'[reader[r].of].active = NoMessage
      BY <2>1, <2>2, ShowsLessIf, FailsLessIf DEF ArmsLess, SessionMoves
    <2>. QED
      BY <2>1, <2>2, <2>3, HeldTaken
  <1>3. ASSUME NEW r \in Starts, NEW y \in Readers, NEW x \in Objects, CleanDoes(r, y, x)
        PROVE  Held'
    <2>1. reader[r].of \in Sessions
      BY <1>3, ReaderIs DEF CleanDoes
    <2>2. SessionMoves(reader[r].of, x) /\ x.active = session[reader[r].of].active
          /\ ReaderMoves(r, y) /\ y.pc # "fail" /\ worker' = worker /\ takenBy' = takenBy
      BY <1>3 DEF CleanDoes
    <2>3. ShowsLess /\ FailsLess /\ ArmsLess
      BY <2>1, <2>2, ShowsLessIf, FailsLessIf DEF ArmsLess
    <2>. QED
      BY <2>2, <2>3, HeldQuietly
  <1>4. ASSUME NEW r \in Starts, NEW y \in Readers, NEW x \in Objects, ReaderEndsDoes(r, y, x)
        PROVE  Held'
    <2>1. reader[r].of \in Sessions
      BY <1>4, ReaderIs DEF ReaderEndsDoes
    <2>2. SessionMoves(reader[r].of, x) /\ x.active = session[reader[r].of].active
          /\ ReaderMoves(r, y) /\ y.pc # "fail" /\ worker' = worker /\ takenBy' = takenBy
      BY <1>4 DEF ReaderEndsDoes
    <2>3. ShowsLess /\ FailsLess /\ ArmsLess
      BY <2>1, <2>2, ShowsLessIf, FailsLessIf DEF ArmsLess
    <2>. QED
      BY <2>2, <2>3, HeldQuietly
  <1>5. ASSUME NEW r \in Starts, NEW y \in Readers, NEW m \in Messages, SendAnswerDoes(r, y, m)
        PROVE  Held'
    <2>1. UNCHANGED session /\ ReaderMoves(r, y) /\ y.pc # "fail" /\ worker' = worker /\ takenBy' = takenBy
      BY <1>5 DEF SendAnswerDoes
    <2>2. ShowsLess /\ FailsLess /\ ArmsLess
      BY <2>1, ShowsLessIf, FailsLessIf DEF ArmsLess
    <2>. QED
      BY <2>1, <2>2, HeldQuietly
  <1>6. ASSUME NEW r \in Starts, NEW y \in Readers, ErrorDoes(r, y)
        PROVE  Held'
    <2>1. /\ Typed /\ reader[r].of \in Sessions /\ UNCHANGED <<session, worker, takenBy>>
          /\ ReaderMoves(r, y) /\ SameProcess(reader[r], y)
      BY <1>6, ReaderIs DEF ErrorDoes, Base
    <2>2. ShowsLess /\ ArmsLess /\ Sessions' = Sessions
      BY <2>1, ShowsLessIf, SameSessions DEF ArmsLess
    <2>3. CASE y.pc # "fail"
      <3>1. FailsLess
        BY <2>1, <2>3, FailsLessIf
      <3>. QED
        BY <2>1, <2>2, <3>1, HeldQuietly
    <2>4. CASE y.pc = "fail"
      <3>1. y.id = session[reader[r].of].active /\ y.of = reader[r].of
        BY <1>6, <2>1, <2>4 DEF ErrorDoes, SameProcess
      <3>2. Untaken'
        BY <2>1, <2>2 DEF Held, Untaken
      <3>3. Apart'
        BY <2>1, <2>2 DEF Held, Apart
      <3>4. Fresh'
        <4>1. ASSUME worker.pc = "arm", NEW q \in Starts, reader'[q].pc = "fail"
              PROVE  reader'[q].id # worker.id
          <5>1. CASE q = r
            BY <2>1, <3>1, <4>1, <5>1 DEF Held, Fresh, ReaderMoves
          <5>2. CASE q # r
            BY <2>1, <4>1, <5>2 DEF Held, Fresh, ReaderMoves
          <5>. QED
            BY <5>1, <5>2
        <4>. QED
          BY <2>1, <2>2, <4>1 DEF Held, Fresh
      <3>5. Failing'
        <4> SUFFICES ASSUME NEW q \in Starts, reader'[q].pc = "fail", reader'[q].id # NoMessage,
                            NEW s \in Sessions, session[s].active = reader'[q].id
                     PROVE  s = reader'[q].of
          BY <2>1, <2>2 DEF Failing
        <4>1. CASE q = r
          BY <2>1, <3>1, <4>1 DEF Held, Apart, ReaderMoves
        <4>2. CASE q # r
          BY <2>1, <4>2 DEF Held, Failing, ReaderMoves
        <4>. QED
          BY <4>1, <4>2
      <3>6. Single'
        BY <2>1 DEF Held, Single
      <3>. QED
        BY <3>2, <3>3, <3>4, <3>5, <3>6 DEF Held
    <2>. QED
      BY <2>3, <2>4
  <1>7. ASSUME NEW r \in Starts, NEW y \in Readers, SendErrorDoes(r, y)
        PROVE  Held'
    <2>1. UNCHANGED session /\ ReaderMoves(r, y) /\ y.pc # "fail" /\ worker' = worker /\ takenBy' = takenBy
      BY <1>7 DEF SendErrorDoes
    <2>2. ShowsLess /\ FailsLess /\ ArmsLess
      BY <2>1, ShowsLessIf, FailsLessIf DEF ArmsLess
    <2>. QED
      BY <2>1, <2>2, HeldQuietly
  <1>8. ASSUME NEW r \in Starts, NEW x \in Objects, FailDoes(r, x)
        PROVE  Held'
    <2>1. PICK id, who : id = reader[r].id /\ who = <<"error", r, reader[r].turn>>
      OBVIOUS
    <2>2. /\ reader[r].pc = "fail" /\ reader[r].of \in Sessions /\ SessionMoves(reader[r].of, x)
          /\ x.active = NoMessage /\ worker' = worker /\ takenBy' = Took(who, id)
      BY <1>8, <2>1, ReaderIs DEF FailDoes
    <2>3. who[1] = "error"
      BY <2>1
    <2>4. ShowsLess /\ ArmsLess
      BY <2>2, ShowsLessIf DEF ArmsLess
    <2>5. FailsLess
      BY <1>8 DEF FailDoes, FailsLess, SameCopy, Told
    <2>6. CASE id = NoMessage
      <3>1. takenBy' = takenBy
        BY <2>2, <2>6 DEF Took
      <3>. QED
        BY <2>4, <2>5, <3>1, HeldQuietly
    <2>7. CASE id # NoMessage
      <3>1. /\ DOMAIN takenBy' = DOMAIN takenBy \cup {id}
            /\ \A i \in DOMAIN takenBy : i # id => takenBy'[i] = takenBy[i]
            /\ id \in DOMAIN takenBy => takenBy'[id] = takenBy[id] \cup {who}
            /\ id \notin DOMAIN takenBy => takenBy'[id] = {who}
        BY <2>2, <2>7 DEF Took
      <3>2. ASSUME NEW s \in Sessions', session'[s].active # NoMessage
            PROVE  session'[s].active # id
        <4>1. s \in Sessions /\ session'[s].active = session[s].active
          BY <2>4, <3>2 DEF ShowsLess
        <4>2. s # reader[r].of
          BY <2>2, <3>2 DEF SessionMoves
        <4>. QED
          BY <2>1, <2>2, <2>7, <4>1, <4>2 DEF Held, Failing
      <3>3. Untaken'
        BY <2>4, <3>1, <3>2 DEF Held, Untaken, ShowsLess
      <3>4. Apart'
        BY <2>4 DEF Held, Apart, ShowsLess
      <3>5. Fresh'
        <4> SUFFICES ASSUME worker'.pc = "arm"
                     PROVE  /\ worker'.id # NoMessage /\ worker'.id \notin DOMAIN takenBy'
                            /\ \A q \in Sessions' : session'[q].active # worker'.id
                            /\ \A q \in Starts : reader'[q].pc = "fail" => reader'[q].id # worker'.id
          BY DEF Fresh
        <4>1. worker.pc = "arm" /\ worker'.id = worker.id
          BY <2>4 DEF ArmsLess
        <4>2. /\ worker.id # NoMessage /\ worker.id \notin DOMAIN takenBy
              /\ \A q \in Sessions : session[q].active # worker.id
              /\ \A q \in Starts : reader[q].pc = "fail" => reader[q].id # worker.id
          BY <4>1 DEF Held, Fresh
        <4>3. worker.id # id
          BY <2>1, <2>2, <4>2
        <4>4. \A q \in Sessions' : session'[q].active # worker'.id
          BY <2>4, <4>1, <4>2 DEF ShowsLess
        <4>5. \A q \in Starts : reader'[q].pc = "fail" => reader'[q].id # worker'.id
          BY <2>5, <4>1, <4>2 DEF FailsLess
        <4>. QED
          BY <3>1, <4>1, <4>2, <4>3, <4>4, <4>5
      <3>6. Failing'
        BY <2>4, <2>5 DEF Held, Failing, ShowsLess, FailsLess
      <3>7. Single'
        <4> SUFFICES ASSUME NEW i \in DOMAIN takenBy'
                     PROVE  \E w \in takenBy'[i] \cup {<<"none">>} :
                              \A v \in takenBy'[i] : v[1] = "error" \/ v = w
          BY DEF Single
        <4>1. CASE i \in DOMAIN takenBy
          <5>1. PICK w \in takenBy[i] \cup {<<"none">>} : \A v \in takenBy[i] : v[1] = "error" \/ v = w
            BY <4>1 DEF Held, Single
          <5>2. takenBy[i] \subseteq takenBy'[i] /\ \A v \in takenBy'[i] : v \in takenBy[i] \/ v = who
            BY <3>1, <4>1
          <5>. QED
            BY <2>3, <5>1, <5>2
        <4>2. CASE i \notin DOMAIN takenBy
          <5>1. takenBy'[i] = {who}
            BY <3>1, <4>2
          <5>. QED
            BY <5>1
        <4>. QED
          BY <4>1, <4>2
      <3>. QED
        BY <3>3, <3>4, <3>5, <3>6, <3>7 DEF Held
    <2>. QED
      BY <2>6, <2>7
  <1>9. ASSUME NEW r \in Starts, NEW e \in Edits, TickDoes(r, e)
        PROVE  Held'
    <2>1. UNCHANGED <<session, reader, worker, takenBy>>
      BY <1>9 DEF TickDoes
    <2>2. ShowsLess /\ FailsLess /\ ArmsLess
      BY <2>1, ShowsLessIf, FailsLessIf DEF ArmsLess
    <2>. QED
      BY <2>1, <2>2, HeldQuietly
  <1>10. ASSUME NEW r \in Starts, DraftDoes(r)
         PROVE  Held'
    <2>1. UNCHANGED <<session, reader, worker, takenBy>>
      BY <1>10 DEF DraftDoes
    <2>2. ShowsLess /\ FailsLess /\ ArmsLess
      BY <2>1, ShowsLessIf, FailsLessIf DEF ArmsLess
    <2>. QED
      BY <2>1, <2>2, HeldQuietly
  <1>11. CASE BeginDoes
    <2>1. worker'.pc = "look" /\ takenBy' = takenBy
      BY <1>11 DEF BeginDoes
    <2>2. ShowsLess
      BY <1>11, NewSessionIs DEF BeginDoes, ShowsLess, Sessions
    <2>3. FailsLess
      <3>1. CASE UNCHANGED <<session, reader>>
        BY <3>1 DEF FailsLess
      <3>2. CASE ~ session[Registered].alive
        <4>1. PICK n \in Starts :
                /\ Started(n, Registered + 1)
                /\ \A q \in Starts : q # n => /\ Told(q, Registered) /\ reader'[q].pc = reader[q].pc
                                              /\ SameCopy(reader[q], reader'[q])
          BY <1>11, <3>2 DEF BeginDoes
        <4>. QED
          BY <4>1 DEF FailsLess, Told, SameCopy, Started
      <3>. QED
        BY <1>11, <3>1, <3>2 DEF BeginDoes
    <2>. QED
      BY <2>1, <2>2, <2>3, HeldQuietly DEF ArmsLess
  <1>12. CASE LookDoes
    <2>1. takenBy' = takenBy /\ ArmsLess
      BY <1>12 DEF LookDoes, ArmsLess
    <2>2. Registered \in Sessions
      BY SessionsAre DEF Base
    <2>3. ShowsLess
      BY <1>12, <2>2, ShowsLessIf DEF LookDoes
    <2>4. FailsLess
      BY <1>12, FailsLessIf DEF LookDoes
    <2>. QED
      BY <2>1, <2>3, <2>4, HeldQuietly
  <1>13. CASE PostDoes
    <2>1. /\ UNCHANGED <<session, reader, takenBy>> /\ worker'.id \notin DOMAIN chat
          /\ worker'.id # NoMessage /\ DOMAIN takenBy \subseteq DOMAIN chat
      BY <1>13 DEF PostDoes, Base, Typed
    <2>2. Sessions' = Sessions
      BY <2>1, SameSessions DEF Base
    <2>3. \A s \in Sessions : session[s].active # worker'.id
      BY <2>1 DEF Base, There, Shows
    <2>4. \A r \in Starts : reader[r].id # worker'.id
      BY <2>1 DEF Base, There, Shows
    <2>5. Fresh'
      BY <2>1, <2>2, <2>3, <2>4 DEF Fresh
    <2>6. Untaken' /\ Apart' /\ Failing' /\ Single'
      BY <2>1, <2>2 DEF Held, Untaken, Apart, Failing, Single
    <2>. QED
      BY <2>5, <2>6 DEF Held
  <1>14. CASE ArmDoes
    <2>1. /\ worker.pc = "arm" /\ worker'.pc = "write" /\ UNCHANGED <<reader, takenBy>>
          /\ Registered \in Sessions
      BY <1>14, SessionsAre DEF ArmDoes, Base
    <2>2. CASE UNCHANGED session
      <3>1. ShowsLess /\ FailsLess /\ ArmsLess
        BY <2>1, <2>2, ShowsLessIf, FailsLessIf DEF ArmsLess
      <3>. QED
        BY <2>1, <3>1, HeldQuietly
    <2>3. CASE \E x \in Objects : SessionMoves(Registered, x) /\ x.active = worker.id
      <3>1. /\ Sessions' = Sessions /\ session'[Registered].active = worker.id
            /\ \A s \in Sessions : s # Registered => session'[s].active = session[s].active
        BY <2>1, <2>3 DEF SessionMoves
      <3>2. /\ worker.id # NoMessage /\ worker.id \notin DOMAIN takenBy
            /\ \A s \in Sessions : session[s].active # worker.id
            /\ \A r \in Starts : reader[r].pc = "fail" => reader[r].id # worker.id
        BY <2>1 DEF Held, Fresh
      <3>3. Untaken'
        BY <2>1, <3>1, <3>2 DEF Held, Untaken
      <3>4. Apart'
        BY <2>1, <3>1, <3>2 DEF Held, Apart
      <3>5. Fresh'
        BY <2>1 DEF Fresh
      <3>6. Failing'
        BY <2>1, <3>1, <3>2 DEF Held, Failing
      <3>7. Single'
        BY <2>1 DEF Held, Single
      <3>. QED
        BY <3>3, <3>4, <3>5, <3>6, <3>7 DEF Held
    <2>. QED
      BY <1>14, <2>2, <2>3 DEF ArmDoes
  <1>15. CASE WriteDoes
    <2>1. takenBy' = takenBy /\ ArmsLess
      BY <1>15, NoneIs DEF WriteDoes, ArmsLess
    <2>2. Registered \in Sessions
      BY SessionsAre DEF Base
    <2>3. ShowsLess
      BY <1>15, <2>2, ShowsLessIf DEF WriteDoes
    <2>4. CASE session[Registered].alive
      <3>1. FailsLess
        BY <1>15, <2>4 DEF WriteDoes, FailsLess, SameCopy, SameProcess
      <3>. QED
        BY <2>1, <2>3, <3>1, HeldQuietly
    <2>5. CASE ~ session[Registered].alive
      <3>1. FailsLess
        BY <1>15, <2>5, FailsLessIf DEF WriteDoes
      <3>. QED
        BY <2>1, <2>3, <3>1, HeldQuietly
    <2>. QED
      BY <2>4, <2>5
  <1>16. ASSUME NEW k \in Takers, NEW z \in Takes, CommandDoes(k, z)
         PROVE  Held'
    <2>1. UNCHANGED <<session, reader, takenBy>>
      BY <1>16 DEF CommandDoes
    <2>2. ShowsLess /\ FailsLess /\ ArmsLess
      BY <1>16, <2>1, ShowsLessIf, FailsLessIf DEF ArmsLess, CommandDoes
    <2>. QED
      BY <2>1, <2>2, HeldQuietly
  <1>17. ASSUME NEW k \in Takers, NEW z \in Takes, SendTakenDoes(k, z)
         PROVE  Held'
    <2>1. UNCHANGED <<session, reader, takenBy>>
      BY <1>17 DEF SendTakenDoes
    <2>2. ShowsLess /\ FailsLess /\ ArmsLess
      BY <1>17, <2>1, ShowsLessIf, FailsLessIf, NoneIs DEF ArmsLess, SendTakenDoes
    <2>. QED
      BY <2>1, <2>2, HeldQuietly
  <1>18. ASSUME NEW k \in Takers, NEW z \in Takes, NEW x \in Objects, TakeDoes(k, z, x)
         PROVE  Held'
    <2>1. /\ taker[k].of \in Sessions /\ SessionMoves(taker[k].of, x) /\ x.active = NoMessage
          /\ UNCHANGED <<reader, worker>> /\ takenBy' = Took(<<k>>, session[taker[k].of].active)
      BY <1>18, TakerIs DEF TakeDoes
    <2>2. ShowsLess /\ FailsLess /\ ArmsLess /\ session'[taker[k].of].active = NoMessage
      BY <2>1, ShowsLessIf, FailsLessIf DEF ArmsLess, SessionMoves
    <2>. QED
      BY <2>1, <2>2, HeldTaken
  <1>19. ASSUME NEW k \in Takers, NEW z \in Takes, NEW x \in Objects, KillTakenDoes(k, z, x)
         PROVE  Held'
    <2>1. /\ taker[k].of \in Sessions /\ SessionMoves(taker[k].of, x) /\ x.active = NoMessage
          /\ UNCHANGED <<worker, takenBy>>
      BY <1>19, TakerIs DEF KillTakenDoes
    <2>2. ShowsLess /\ ArmsLess
      BY <2>1, ShowsLessIf DEF ArmsLess
    <2>3. FailsLess
      BY <1>19 DEF KillTakenDoes, FailsLess, SameCopy, Told
    <2>. QED
      BY <2>1, <2>2, <2>3, HeldQuietly
  <1>20. ASSUME NEW s \in Sessions, NEW z \in Takes, StalledDoes(s, z)
         PROVE  Held'
    <2>1. UNCHANGED <<session, reader, worker, takenBy>>
      BY <1>20 DEF StalledDoes
    <2>2. ShowsLess /\ FailsLess /\ ArmsLess
      BY <2>1, ShowsLessIf, FailsLessIf DEF ArmsLess
    <2>. QED
      BY <2>1, <2>2, HeldQuietly
  <1>21. ASSUME NEW id \in DOMAIN chat, DeleteDoes(id)
         PROVE  Held'
    <2>1. UNCHANGED <<session, reader, worker, takenBy>>
      BY <1>21 DEF DeleteDoes
    <2>2. ShowsLess /\ FailsLess /\ ArmsLess
      BY <2>1, ShowsLessIf, FailsLessIf DEF ArmsLess
    <2>. QED
      BY <2>1, <2>2, HeldQuietly
  <1>22. CASE UNCHANGED vars
    <2>1. UNCHANGED <<session, reader, worker, takenBy>>
      BY <1>22 DEF vars, history
    <2>2. ShowsLess /\ FailsLess /\ ArmsLess
      BY <2>1, ShowsLessIf, FailsLessIf DEF ArmsLess
    <2>. QED
      BY <2>1, <2>2, HeldQuietly
  <1>. QED
    BY <1>1, <1>2, <1>3, <1>4, <1>5, <1>6, <1>7, <1>8, <1>9, <1>10, <1>11, <1>12, <1>13, <1>14,
       <1>15, <1>16, <1>17, <1>18, <1>19, <1>20, <1>21, <1>22 DEF Step

LEMMA HeldInit ==
  ASSUME Init
  PROVE  Held
PROOF
  <1>1. /\ session = <<NewSession>> /\ worker = IdleWorker /\ takenBy = [i \in {} |-> {}]
        /\ reader = [[r \in Starts |-> NoReader] EXCEPT ![1].pc = "read", ![1].of = 1]
    BY DEF Init
  <1>2. \A s \in Sessions : session[s].active = NoMessage
    BY <1>1, NewSessionIs DEF Sessions
  <1>3. \A r \in Starts : reader[r].pc # "fail"
    BY <1>1, NoneIs
  <1>4. worker.pc = "idle"
    BY <1>1, NoneIs
  <1>. QED
    BY <1>1, <1>2, <1>3, <1>4 DEF Held, Untaken, Apart, Fresh, Failing, Single

LEMMA HeldAlways == Spec => []Held
PROOF
  <1>1. Init => Held
    BY HeldInit
  <1>2. Base /\ Held /\ [Next]_vars => Held'
    BY NextIsStep, HeldKept
  <1>. QED
    BY <1>1, <1>2, BaseAlways, PTL DEF Spec

(* However an answer, /stop, a stall and the shutdown race for a turn, one *)
(* of them gets its message: only an error, whose reader copies the        *)
(* message before it disarms it, may have it as well.                      *)
THEOREM OneTakerHolds == Spec => []OneTaker
PROOF
  <1>1. Held => OneTaker
    <2> SUFFICES ASSUME Held, NEW id \in DOMAIN takenBy
                 PROVE  Cardinality({who \in takenBy[id] : who[1] # "error"}) <= 1
      BY DEF OneTaker
    <2>1. PICK w \in takenBy[id] \cup {<<"none">>} : \A v \in takenBy[id] : v[1] = "error" \/ v = w
      BY DEF Held, Single
    <2>2. {who \in takenBy[id] : who[1] # "error"} \subseteq {w}
      BY <2>1
    <2>3. IsFiniteSet({w}) /\ Cardinality({w}) = 1
      BY FS_Singleton
    <2>4. /\ IsFiniteSet({who \in takenBy[id] : who[1] # "error"})
          /\ Cardinality({who \in takenBy[id] : who[1] # "error"}) <= Cardinality({w})
      BY <2>2, <2>3, FS_Subset
    <2>. QED
      BY <2>3, <2>4
  <1>. QED
    BY <1>1, HeldAlways, PTL

(* Once an end of the turn has its message, no tick of the throttler takes *)
(* the message up again: the ends disarm before they send, and no session  *)
(* shows a message that was taken.                                         *)
THEOREM DraftsEnd == Spec => DraftsEndAtDisarm
PROOF
  <1>1. ASSUME Base, Held, NEW r \in Starts, Tick(r)
        PROVE  session[reader[r].of].active \notin DOMAIN takenBy
    <2>1. PICK e \in Edits : TickDoes(r, e)
      BY <1>1, TickMoves
    <2>2. reader[r].of \in Sessions /\ session[reader[r].of].active # NoMessage
      BY <1>1, <2>1, ReaderIs DEF TickDoes
    <2>. QED
      BY <1>1, <2>2 DEF Held, Untaken
  <1>2. Base /\ Held /\ [Next]_vars =>
          [\A r \in Starts : Tick(r) => session[reader[r].of].active \notin DOMAIN takenBy]_vars
    BY <1>1
  <1>. QED
    BY <1>2, BaseAlways, HeldAlways, PTL DEF Spec, DraftsEndAtDisarm
=============================================================================
