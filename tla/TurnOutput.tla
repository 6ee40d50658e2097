----------------------------- MODULE TurnOutput -----------------------------
(***************************************************************************)
(* How the answer of a turn reaches the chat: the reader of an agent's     *)
(* output fills the text buffer (readStdout), the throttler shows it as a  *)
(* draft (startStreamingThrottler), and one of several ends of a turn      *)
(* takes the message over: the final answer (finalizeTurn), an error,      *)
(* /stop (handleStopCommand), the inactivity watchdog (checkTurnInactivity)*)
(* or the shutdown (GracefulShutdown).  All of them copy under the         *)
(* session's lock and talk to Telegram without it.                         *)
(*                                                                         *)
(* A text is a sequence of pieces <<turn, number>>; notices are not kept.  *)
(* Quota and stream recoveries are in AgySession.                          *)
(***************************************************************************)
EXTENDS Naturals, Sequences, FiniteSets

CONSTANTS
  Prompts,      (* how many messages the user sends                        *)
  Pieces,       (* deltas of an answer                                     *)
  Silent,       (* turns the agent answers without a text                  *)
  LongAt,       (* pieces from which a text is too long for one message    *)
  MaxStarts,    (* bound on the agy processes                              *)
  MaxFaults,    (* bound on the errors of the agent, the deltas that do    *)
                (* not fit the buffer, the edits Telegram refuses and the  *)
                (* messages the user deletes                               *)
  MaxEnds       (* bound on stops, stalls and shutdowns                    *)

Takers == {"stop", "stall", "shutdown"}

ASSUME OutputAssumption ==
  /\ {Prompts, Pieces, LongAt, MaxStarts} \subseteq Nat \ {0}
  /\ Silent \subseteq 1 .. Prompts
  /\ {MaxFaults, MaxEnds} \subseteq Nat

VARIABLES
  chat,       (* the messages of the chat that show a turn, oldest first   *)
  session,    (* AgySession objects; the last one is registered            *)
  reader,     (* readStdout of each process                                *)
  throttle,   (* the throttler of each process                             *)
  worker,     (* the worker of the chat: a message or /stop                *)
  taker,      (* /stop, the watchdog and the shutdown                      *)
  sent,       (* how many prompts the user sent                            *)
  given,      (* the turns whose prompts an agent of the conversation got: *)
              (* what may be in its transcript                             *)
  faults,
  takenBy,    (* history: the ends that took each message                  *)
  cut,        (* history: turns that were cut off                          *)
  haunted,    (* history: turns begun while the reader of an earlier       *)
              (* process of the same object had not ended                  *)
  guessed     (* history: turns whose answer was taken from the transcript *)
              (* though the buffer held no beginning of it                 *)

telegramVars == <<chat, faults>>
history == <<takenBy, cut, haunted, guessed>>
vars == <<telegramVars, session, reader, throttle, worker, taker, sent, given, history>>

Turns == 1 .. Prompts
Starts == 1 .. MaxStarts
Sessions == DOMAIN session
Registered == Len(session)
NoMessage == 0

Size(t) == IF t \in Silent THEN 0 ELSE Pieces
Whole(t) == [k \in 1 .. Size(t) |-> <<t, k>>]

NewSession == [alive |-> TRUE, active |-> NoMessage, armed |-> FALSE,
               buffer |-> <<>>, truncated |-> FALSE]
NoReader == [pc |-> "none", of |-> 0, killed |-> FALSE, prompts |-> <<>>, at |-> 0,
             id |-> NoMessage, turn |-> 0, text |-> <<>>, marked |-> FALSE]
NoEdit == [id |-> NoMessage, text |-> <<>>]
NoTake == [pc |-> "ready", of |-> 0, id |-> NoMessage, text |-> <<>>]
IdleWorker == [pc |-> "idle", id |-> NoMessage, turn |-> 0]

-----------------------------------------------------------------------------
(* The chat.  marked: the text says that it is truncated, kept for answers *)
(* only, of which alone a property asks.                                   *)

Message(kind, t, text, marked) == [kind |-> kind, turn |-> t, text |-> text, marked |-> marked]

(* sendChunk: edit the message, and send a new one if Telegram refuses;    *)
(* a message that is gone or cannot be edited any more is let be.  Of a    *)
(* long text only what fits into one message is sent.                      *)
FirstChunk(text) == IF Len(text) < LongAt THEN text ELSE SubSeq(text, 1, LongAt - 1)

Edited(id, m) ==
  LET shown == [m EXCEPT !.text = FirstChunk(@)]
  IN  \/ /\ chat' = IF chat[id].kind = "gone" THEN chat ELSE [chat EXCEPT ![id] = shown]
         /\ UNCHANGED faults
      \/ /\ faults < MaxFaults /\ faults' = faults + 1
         /\ chat' = Append(chat, shown)

(* sendAdaptiveResponseWithWorkspace: a long text is sent as a new message *)
(* with a file, and the draft is deleted.                                  *)
Answered(id, m) ==
  \/ /\ id # NoMessage /\ Len(m.text) < LongAt
     /\ Edited(id, m)
  \/ /\ id = NoMessage \/ Len(m.text) >= LongAt
     /\ chat' = Append([i \in DOMAIN chat |-> IF i = id THEN [chat[i] EXCEPT !.kind = "gone"]
                                              ELSE chat[i]], m)
     /\ UNCHANGED faults

(* The user deletes a message the bot is still writing. *)
Delete(id) ==
  /\ faults < MaxFaults /\ faults' = faults + 1
  /\ chat[id].kind \in {"thinking", "draft"}
  /\ chat' = [chat EXCEPT ![id].kind = "gone"]
  /\ UNCHANGED <<session, reader, throttle, worker, taker, sent, given, history>>

-----------------------------------------------------------------------------
(* Sessions and processes. *)

Running(s) == {r \in Starts : reader[r].of = s /\ reader[r].pc # "none" /\ ~reader[r].killed}
Lingering(s) == {r \in Starts : reader[r].of = s /\ reader[r].killed /\ reader[r].pc # "ended"}
Unused == {r \in Starts : reader[r].pc = "none"}
Next1 == CHOOSE r \in Unused : TRUE

Disarmed(x) == [x EXCEPT !.active = NoMessage, !.armed = FALSE, !.buffer = <<>>, !.truncated = FALSE]
Dead(x) == [Disarmed(x) EXCEPT !.alive = FALSE]

(* The process of session s is told to end; prompts it had are cut off. *)
Cancelled(rs, s) == [r \in Starts |-> IF r \in Running(s) THEN [rs[r] EXCEPT !.killed = TRUE]
                                      ELSE rs[r]]
Asked(s) == UNION {{reader[r].prompts[i] : i \in DOMAIN reader[r].prompts} : r \in Running(s)}

(* Mutant of Launched: the process is bound to the session after this one. *)
LaunchedForNext(rs, s) == [rs EXCEPT ![Next1] = [NoReader EXCEPT !.pc = "read", !.of = s + 1]]

Launched(rs, s) == [rs EXCEPT ![Next1] = [NoReader EXCEPT !.pc = "read", !.of = s]]

-----------------------------------------------------------------------------
(* The reader of process r. *)

(* A step_update with text.  A delta that would overflow the buffer is     *)
(* left out, which is noted; a smaller one may still fit after it.  Lines  *)
(* read before the process was killed may be handled after it.             *)
Fits(x, p) == [x EXCEPT !.buffer = Append(@, p)]

(* Mutant of Overflows: the delta is left out silently. *)
OverflowsSilently(x) == [x EXCEPT !.active = @]
Overflows(x) == [x EXCEPT !.truncated = TRUE]

Delta(r) ==
  /\ reader[r].pc = "read" /\ reader[r].prompts # <<>> /\ reader[r].at < Size(Head(reader[r].prompts))
  /\ LET k == reader[r].at + 1
         s == reader[r].of
     IN  /\ reader' = [reader EXCEPT ![r].at = k]
         /\ \/ /\ session' = [session EXCEPT ![s] = Fits(@, <<Head(reader[r].prompts), k>>)]
               /\ UNCHANGED faults
            \/ /\ faults < MaxFaults /\ faults' = faults + 1
               /\ session' = [session EXCEPT ![s] = Overflows(@)]
  /\ UNCHANGED <<chat, throttle, worker, taker, sent, given, history>>

(* readLastModelResponseFromTranscript: the last response in the file of   *)
(* the conversation.  Agents write it on their own, so it may be the one   *)
(* to any prompt they were given; a turn may end with several responses,   *)
(* of which the file gives the last.                                       *)
Response(u, k) == SubSeq(Whole(u), k, Size(u))
LastResponses == {Response(u, k) : u \in given \ Silent, k \in 1 .. Pieces}

(* It is taken for the answer if it is longer than what is in the buffer   *)
(* and begins with that.  Whose it is, is not asked.                       *)
Begins(text, whole) == Len(text) <= Len(whole) /\ text = SubSeq(whole, 1, Len(text))
Recovers(text, last) == Len(text) < Len(last) /\ Begins(text, last)
Begun(text, t) == text # <<>> /\ text[1] = <<t, 1>>

Sending(r, pc, id, t, text, marked) ==
  [reader EXCEPT ![r].pc = pc, ![r].id = id, ![r].turn = t, ![r].text = text, ![r].marked = marked]
TurnOver(rs, r) == [rs EXCEPT ![r].prompts = Tail(@), ![r].at = 0]
Took(who, id) == IF id = NoMessage THEN takenBy
                 ELSE [i \in DOMAIN takenBy \cup {id} |->
                         (IF i \in DOMAIN takenBy THEN takenBy[i] ELSE {})
                           \cup (IF i = id THEN {who} ELSE {})]

(* Mutant of Disarm: the message is disarmed when all is sent. *)
DisarmLater(s) == session' = [session EXCEPT ![s].truncated = FALSE]
Disarm(s) == session' = [session EXCEPT ![s].active = NoMessage]

(* A result: finalizeTurn copies, disarms and completes the answer. *)
Result(r) ==
  /\ reader[r].pc = "read" /\ reader[r].prompts # <<>> /\ reader[r].at = Size(Head(reader[r].prompts))
  /\ LET x == session[reader[r].of]
         t == Head(reader[r].prompts)
     IN  /\ Disarm(reader[r].of)
         /\ takenBy' = Took(<<"result", r, t>>, x.active)
         /\ \/ /\ reader' = TurnOver(Sending(r, "send", x.active, t, x.buffer, x.truncated), r)
               /\ UNCHANGED guessed
            \/ \E last \in LastResponses :
                 /\ Recovers(x.buffer, last)
                 /\ reader' = TurnOver(Sending(r, "send", x.active, t, last, FALSE), r)
                 /\ guessed' = IF Begun(x.buffer, t) THEN guessed ELSE guessed \cup {t}
  /\ UNCHANGED <<telegramVars, throttle, worker, taker, sent, given, cut, haunted>>

SendAnswer(r) ==
  /\ reader[r].pc = "send"
  /\ Answered(reader[r].id, Message("answer", reader[r].turn, reader[r].text, reader[r].marked))
  /\ reader' = [reader EXCEPT ![r].pc = "clean"]
  /\ UNCHANGED <<session, throttle, worker, taker, sent, given, history>>

(* Mutant of Clean: the text stays in the buffer. *)
CleanKeepingText(r) ==
  /\ reader[r].pc = "clean"
  /\ session' = [session EXCEPT ![reader[r].of].armed = FALSE]
  /\ reader' = [reader EXCEPT ![r].pc = "read"]
  /\ UNCHANGED <<telegramVars, throttle, worker, taker, sent, given, history>>

(* The turn's state is cleared when all is sent; TextTruncated is not. *)
Clean(r) ==
  /\ reader[r].pc = "clean"
  /\ session' = [session EXCEPT ![reader[r].of].armed = FALSE, ![reader[r].of].buffer = <<>>]
  /\ reader' = [reader EXCEPT ![r].pc = "read"]
  /\ UNCHANGED <<telegramVars, throttle, worker, taker, sent, given, history>>

(* A result with an error: ignored when the session is dead or idle and    *)
(* nothing is buffered, else the message is copied, and still armed.       *)
Ignored(x) == (~x.alive \/ (x.active = NoMessage /\ ~x.armed)) /\ x.buffer = <<>>

Error(r) ==
  /\ faults < MaxFaults /\ faults' = faults + 1
  /\ reader[r].pc = "read" /\ reader[r].prompts # <<>>
  /\ LET x == session[reader[r].of]
     IN  reader' = TurnOver(IF Ignored(x) THEN reader
                            ELSE Sending(r, "fail", x.active, Head(reader[r].prompts), <<>>, FALSE), r)
  /\ UNCHANGED <<chat, session, throttle, worker, taker, sent, given, history>>

(* The text is copied, and the session killed. *)
Fail(r) ==
  /\ reader[r].pc = "fail"
  /\ LET s == reader[r].of
     IN  /\ reader' = Cancelled(Sending(r, "report", reader[r].id, reader[r].turn,
                                        session[s].buffer, session[s].truncated), s)
         /\ session' = [session EXCEPT ![s] = Dead(@)]
         /\ cut' = cut \cup Asked(s)
         /\ takenBy' = Took(<<"error", r, reader[r].turn>>, reader[r].id)
  /\ UNCHANGED <<telegramVars, throttle, worker, taker, sent, given, haunted, guessed>>

SendError(r) ==
  /\ reader[r].pc = "report"
  /\ LET m == Message("cut", reader[r].turn, reader[r].text, reader[r].marked)
     IN  IF reader[r].id = NoMessage
         THEN chat' = Append(chat, m) /\ UNCHANGED faults
         ELSE Edited(reader[r].id, m)
  /\ reader' = [reader EXCEPT ![r].pc = "read"]
  /\ UNCHANGED <<session, throttle, worker, taker, sent, given, history>>

(* The cancelled context is noticed; the buffer of an idle session is      *)
(* cleared on the way out.                                                 *)
ReaderEnds(r) ==
  /\ reader[r].pc = "read" /\ reader[r].killed
  /\ reader' = [reader EXCEPT ![r] = [NoReader EXCEPT !.pc = "ended", !.of = reader[r].of,
                                                    !.killed = TRUE]]
  /\ LET s == reader[r].of
     IN  session' = IF session[s].active = NoMessage
                    THEN [session EXCEPT ![s].buffer = <<>>] ELSE session
  /\ UNCHANGED <<telegramVars, throttle, worker, taker, sent, given, history>>

-----------------------------------------------------------------------------
(* The throttler of process r. *)

(* A tick with a text that is not shown yet: copied under the lock. *)
Tick(r) ==
  /\ reader[r].pc # "none" /\ ~reader[r].killed /\ throttle[r].id = NoMessage
  /\ LET x == session[reader[r].of]
     IN  /\ x.active # NoMessage /\ x.buffer # <<>> /\ FirstChunk(x.buffer) # chat[x.active].text
         /\ throttle' = [throttle EXCEPT ![r] = [id |-> x.active, text |-> x.buffer]]
  /\ UNCHANGED <<telegramVars, session, reader, worker, taker, sent, given, history>>

Draft(r) ==
  /\ throttle[r].id # NoMessage
  /\ Edited(throttle[r].id, Message("draft", chat[throttle[r].id].turn, throttle[r].text, FALSE))
  /\ throttle' = [throttle EXCEPT ![r] = NoEdit]
  /\ UNCHANGED <<session, reader, worker, taker, sent, given, history>>

-----------------------------------------------------------------------------
(* The worker of the chat: a message. *)

(* acquireSession: a dead session is replaced by a new one, and started. *)
Begin ==
  /\ worker.pc = "idle" /\ sent < Prompts
  /\ sent' = sent + 1
  /\ \/ /\ session[Registered].alive
        /\ UNCHANGED <<session, reader>>
     \/ /\ ~session[Registered].alive /\ Unused # {}
        /\ session' = Append(session, NewSession)
        /\ reader' = Launched(Cancelled(reader, Registered), Registered + 1)
  /\ worker' = [pc |-> "look", id |-> NoMessage, turn |-> sent']
  /\ UNCHANGED <<telegramVars, throttle, taker, given, history>>

(* handleMessagePayload finds the session alive, or starts it again. *)
Look ==
  /\ worker.pc = "look"
  /\ LET x == session[Registered]
     IN  \/ /\ x.alive
            /\ UNCHANGED <<session, reader>>
         \/ /\ ~x.alive /\ Unused # {}
            /\ session' = [session EXCEPT ![Registered] =
                 [@ EXCEPT !.alive = TRUE, !.active = NoMessage, !.buffer = <<>>]]
            /\ reader' = Launched(reader, Registered)
  /\ haunted' = IF Lingering(Registered) = {} THEN haunted ELSE haunted \cup {worker.turn}
  /\ worker' = [worker EXCEPT !.pc = IF session'[Registered].active = NoMessage THEN "post" ELSE "write"]
  /\ UNCHANGED <<telegramVars, throttle, taker, sent, given, takenBy, cut, guessed>>

(* The placeholder is sent. *)
Post ==
  /\ worker.pc = "post"
  /\ chat' = Append(chat, Message("thinking", worker.turn, <<>>, FALSE))
  /\ worker' = [worker EXCEPT !.pc = "arm", !.id = Len(chat')]
  /\ UNCHANGED <<faults, session, reader, throttle, taker, sent, given, history>>

Arm ==
  /\ worker.pc = "arm"
  /\ session' = IF session[Registered].active # NoMessage THEN session
                ELSE [session EXCEPT ![Registered].active = worker.id, ![Registered].armed = TRUE]
  /\ worker' = [worker EXCEPT !.pc = "write"]
  /\ UNCHANGED <<telegramVars, reader, throttle, taker, sent, given, history>>

(* The prompt is written; if there is no pipe the session is restarted.    *)
Write ==
  /\ worker.pc = "write"
  /\ worker' = IdleWorker
  /\ \/ /\ session[Registered].alive
        /\ reader' = [r \in Starts |->
             IF r \in Running(Registered)
             THEN [reader[r] EXCEPT !.prompts = Append(@, worker.turn)] ELSE reader[r]]
        /\ given' = given \cup {worker.turn}
        /\ UNCHANGED session
     \/ /\ ~session[Registered].alive /\ Unused # {}
        /\ reader' = Launched(reader, Registered)
        /\ session' = [session EXCEPT ![Registered] = [Dead(@) EXCEPT !.alive = TRUE]]
        /\ UNCHANGED given
  /\ UNCHANGED <<telegramVars, throttle, taker, sent, history>>

-----------------------------------------------------------------------------
(* The other ends of a turn. *)

(* /stop reaches the worker, or the program is told to stop. *)
MayEnd(k) == taker[k].pc = "ready" /\ Cardinality({o \in Takers : taker[o].pc # "ready"}) < MaxEnds

Command(k) ==
  /\ k # "stall" /\ MayEnd(k)
  /\ k = "stop" => worker.pc = "idle"
  /\ worker' = IF k = "stop" THEN [IdleWorker EXCEPT !.pc = "stop"] ELSE worker
  /\ taker' = [taker EXCEPT ![k].pc = "take", ![k].of = Registered]
  /\ UNCHANGED <<telegramVars, session, reader, throttle, sent, given, history>>

(* The watchdog finds an armed turn without progress, and looks again. *)
Stalled(s) ==
  /\ MayEnd("stall")
  /\ Running(s) # {} /\ session[s].active # NoMessage
  /\ taker' = [taker EXCEPT !["stall"].pc = "take", !["stall"].of = s, !["stall"].id = session[s].active]
  /\ UNCHANGED <<telegramVars, session, reader, throttle, worker, sent, given, history>>

(* Taking message id and a text away from the others. *)
TakenAs(k, id, text) ==
  /\ taker[k].pc = "take"
  /\ LET s == taker[k].of
     IN  /\ taker' = [taker EXCEPT ![k].pc = IF k = "shutdown" THEN "send" ELSE "kill",
                        ![k].id = id, ![k].text = text]
         /\ session' = [session EXCEPT ![s] = IF k = "shutdown"
                                              THEN [@ EXCEPT !.active = NoMessage, !.buffer = <<>>]
                                              ELSE Disarmed(@)]
         /\ takenBy' = Took(<<k>>, id)
         /\ cut' = cut \cup Asked(s) \cup ({worker.turn} \ {0})
  /\ UNCHANGED <<telegramVars, reader, throttle, worker, sent, given, haunted, guessed>>

Its(k) == session[taker[k].of]

(* Mutants of Take: the message seen before is taken; the text is cleared  *)
(* before it is copied.                                                    *)
TakeSeen(k) == TakenAs(k, IF k = "stall" THEN taker[k].id ELSE Its(k).active, Its(k).buffer)
TakeCleared(k) == TakenAs(k, Its(k).active, <<>>)

(* Under the session's lock. *)
Take(k) == TakenAs(k, Its(k).active, Its(k).buffer)

(* /stop and the watchdog kill before they send, the shutdown after. *)
KillTaken(k) ==
  /\ taker[k].pc = "kill"
  /\ LET s == taker[k].of
     IN  /\ session' = [session EXCEPT ![s] = Dead(@)]
         /\ reader' = Cancelled(reader, s)
         /\ cut' = cut \cup Asked(s)
  /\ taker' = [taker EXCEPT ![k].pc = IF k = "shutdown" THEN "over" ELSE "send"]
  /\ UNCHANGED <<telegramVars, throttle, worker, sent, given, takenBy, haunted, guessed>>

SendTaken(k) ==
  /\ taker[k].pc = "send"
  /\ LET id == taker[k].id
         m == Message("cut", IF id = NoMessage THEN 0 ELSE chat[id].turn, taker[k].text, FALSE)
     IN  IF id = NoMessage /\ (k # "stop" \/ m.text = <<>>) THEN UNCHANGED telegramVars
         ELSE IF k = "stop" THEN Answered(id, m) ELSE Edited(id, m)
  /\ taker' = [taker EXCEPT ![k] = [NoTake EXCEPT !.pc = IF k = "shutdown" THEN "kill" ELSE "over",
                                                  !.of = taker[k].of]]
  /\ worker' = IF k = "stop" THEN IdleWorker ELSE worker
  /\ UNCHANGED <<session, reader, throttle, sent, given, history>>

-----------------------------------------------------------------------------
Init ==
  /\ chat = <<>>
  /\ session = <<NewSession>>
  /\ reader = [[r \in Starts |-> NoReader] EXCEPT ![1].pc = "read", ![1].of = 1]
  /\ throttle = [r \in Starts |-> NoEdit]
  /\ worker = IdleWorker
  /\ taker = [k \in Takers |-> NoTake]
  /\ sent = 0 /\ given = {} /\ faults = 0
  /\ takenBy = [i \in {} |-> {}]
  /\ cut = {} /\ haunted = {} /\ guessed = {}

Reading(r) ==
  Delta(r) \/ Result(r) \/ SendAnswer(r) \/ Clean(r) \/ Error(r) \/ Fail(r) \/ SendError(r) \/ ReaderEnds(r)

Working == Begin \/ Look \/ Post \/ Arm \/ Write
Taking(k) == Command(k) \/ Take(k) \/ KillTaken(k) \/ SendTaken(k)

(* After the shutdown the program is gone. *)
Next ==
  /\ taker["shutdown"].pc # "over"
  /\ \/ \E r \in Starts : Reading(r) \/ Tick(r) \/ Draft(r)
     \/ Working
     \/ \E k \in Takers : Taking(k)
     \/ \E s \in Sessions : Stalled(s)
     \/ \E id \in DOMAIN chat : Delete(id)

Spec == Init /\ [][Next]_vars

-----------------------------------------------------------------------------
(* Properties. *)

Pairs == Turns \X (1 .. Pieces)
IsText(text) == \A i \in DOMAIN text : text[i] \in Pairs

(* Every variable has its type. *)
TypeOK ==
  /\ \A i \in DOMAIN chat :
       /\ chat[i].kind \in {"thinking", "draft", "answer", "cut", "gone"}
       /\ chat[i].turn \in Turns \cup {0} /\ IsText(chat[i].text)
  /\ \A s \in Sessions :
       session[s].active \in {NoMessage} \cup DOMAIN chat /\ IsText(session[s].buffer)
  /\ \A r \in Starts :
       /\ reader[r].pc \in {"none", "read", "send", "clean", "fail", "report", "ended"}
       /\ reader[r].of \in {0} \cup Sessions /\ reader[r].at \in 0 .. Pieces
       /\ throttle[r].id \in {NoMessage} \cup DOMAIN chat
  /\ worker.pc \in {"idle", "look", "post", "arm", "write", "stop"}
  /\ \A k \in Takers : taker[k].pc \in {"ready", "take", "kill", "send", "over"}
  /\ sent \in 0 .. Prompts /\ faults \in 0 .. MaxFaults
  /\ given \cup cut \cup haunted \cup guessed \subseteq Turns

(* Once an end of the turn has taken the message over to write the last    *)
(* text into it, no tick of the throttler takes it up again, however long  *)
(* the sending lasts: only an edit that was under way may still arrive.    *)
DraftsEndAtDisarm == [][\A r \in Starts : Tick(r) =>
                          session[reader[r].of].active \notin DOMAIN takenBy]_vars

(* Answer, stop, stall and shutdown race for a turn, and one of them gets  *)
(* its message.  Only an error, which copies the message before it disarms *)
(* it, may write into one that another has taken.                          *)
OneTaker ==
  \A id \in DOMAIN takenBy : Cardinality({who \in takenBy[id] : who[1] # "error"}) <= 1

(* An answer is the whole text of its own turn, or says that it is not:    *)
(* overflow, transcript, drafts and other turns' text notwithstanding,     *)
(* unless the turn was cut off, a reader of an earlier process lingered,   *)
(* or the transcript's last response was taken though the buffer held no   *)
(* beginning of the turn's text to compare it with.                        *)
WholeOrMarked ==
  \A i \in DOMAIN chat :
    chat[i].kind = "answer" =>
      \/ chat[i].marked \/ chat[i].turn \in cut \cup haunted \cup guessed
      \/ chat[i].text = Whole(chat[i].turn)

(* What the transcript fallback promises (ARCHITECTURE.md:131): it restores *)
(* the full response of the turn, not the one to another prompt.           *)
AnswerIsOwn ==
  \A i \in DOMAIN chat :
    chat[i].kind = "answer" /\ chat[i].turn \notin cut \cup haunted =>
      \A j \in DOMAIN chat[i].text : chat[i].text[j][1] = chat[i].turn

(* The text that ends a turn, an answer or the "output preserved above" of *)
(* /stop and the watchdog, holds all that its message showed of the turn   *)
(* just before.  (A draft copied before may still land after it.)  Exempt: *)
(* an error had the message too, or a reader of an earlier process         *)
(* lingered when the message was begun (which may end a turn of its own in *)
(* it).                                                                    *)
Shown(m, t) == {i \in 1 .. Pieces : \E j \in DOMAIN m.text : m.text[j] = <<t, i>>}

NothingTakenBack ==
  [][\A i \in DOMAIN chat :
       LET t == chat'[i].turn
       IN  \/ chat'[i].kind \notin {"answer", "cut"} \/ chat'[i] = chat[i]
           \/ chat[i].turn \in haunted \/ \E who \in takenBy[i] : who[1] = "error"
           \/ Shown(chat[i], t) \subseteq Shown(chat'[i], t)]_vars
=============================================================================
