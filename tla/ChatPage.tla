------------------------------ MODULE ChatPage ------------------------------
(***************************************************************************)
(* One user's chat page (useRooms, useBookmarks, useChatStream, App.jsx)   *)
(* next to the server's three stores: the checkpointed history of each     *)
(* thread, the chat_room rows and the chat_bookmark rows.                  *)
(*                                                                         *)
(* The page changes its own state first and sends each write as a fetch it *)
(* never waits for: "sent" holds the writes in flight, delivered in any    *)
(* order or lost.  A turn streams its answer, is repeated automatically    *)
(* while nothing was heard, fails, is stopped or dies with the page.  An   *)
(* edit first waits for the server to truncate the thread, with the page's *)
(* buttons free meanwhile.                                                 *)
(*                                                                         *)
(* A message is [role, turn] and an answer also [by, whole]: turn is the   *)
(* send that asked, by the attempt that answered.  "used" counts the fresh *)
(* names drawn so far, "harmed" and "astray" record what has gone wrong:   *)
(* each property says which misfortunes it survives.                       *)
(***************************************************************************)
EXTENDS Naturals, Sequences, SequencesExt, FiniteSets, FiniteSetsExt

CONSTANTS
    MaxThreads,   \* bound: threads (and rooms) ever made
    MaxTurns,     \* bound: turns ever started
    MaxRetries,   \* STREAM_MAXIMUM_RETRY_COUNT
    MaxMarks,     \* bound: bookmarks ever made
    MaxSent,      \* bound: writes in flight
    MaxChanges,   \* bound: renames and changes of model or effort
    MaxReloads,   \* bound: page loads after the first
    MaxFaults     \* bound: lost writes and failed requests

ASSUME BoundsAssumption ==
    /\ {MaxThreads, MaxTurns} \subseteq Nat \ {0}
    /\ {MaxRetries, MaxMarks, MaxSent, MaxChanges, MaxReloads, MaxFaults} \subseteq Nat

VARIABLES
    history,   \* messages channel of each thread's checkpoint
    stored,    \* chat_room: room -> [thread, title]
    marked,    \* chat_bookmark rows
    sent,      \* writes in flight, oldest first
    rooms,     \* roomList, or its localStorage copy until it is loaded
    active,    \* activeRoomId
    marks,     \* bookmarkList, or its localStorage copy until it is loaded
    loaded,    \* isLoadedRef of the two lists
    turn,      \* the turn executeStreamTurnAsync runs
    edit,      \* the edit waiting for truncateThreadAsync
    used,      \* names drawn and bounds spent
    harmed,    \* misfortunes that conversations and bookmarks keep
    astray     \* tables a write missed since the page last read them

server == <<history, stored, marked>>
page   == <<rooms, active, marks, loaded>>
ghosts == <<harmed, astray>>
vars   == <<server, sent, page, turn, edit, used, ghosts>>

Thread == 1..MaxThreads
Unread == <<[role |-> "unread", turn |-> 0]>>   \* messages = null
NoTurn == [phase |-> "none"]
NoEdit == [phase |-> "none"]

Misfortune == {"unstored", "repeated", "late", "halfcut", "unrestored", "mixed",
               "answers", "overlap", "stale mark"}

\* What a page read afresh from the server no longer suffers from.
Cured == {"unstored", "repeated", "late", "halfcut", "unrestored", "mixed"}

(***************************************************************************)
(* Messages and requests.                                                  *)
(***************************************************************************)
Question(t)    == [role |-> "user", turn |-> t]
Answer(t, by, whole) == [role |-> "agent", turn |-> t, by |-> by, whole |-> whole]
Bubble(t, text, button) ==
    [role |-> "error", turn |-> t, text |-> text, button |-> button]

Questions(messages) == {i \in DOMAIN messages : messages[i].role = "user"}
Answers(messages)   == {i \in DOMAIN messages : messages[i].role = "agent"}

\* userMessageIndex, agentIndex: how many of the positions S come before i.
Index(S, i) == Cardinality({j \in S : j < i})

\* Everything before the question with k questions before it, or everything.
Before(messages, k) ==
    LET cuts == {i \in Questions(messages) : Index(Questions(messages), i) = k}
    IN  IF cuts = {} THEN messages ELSE SubSeq(messages, 1, Min(cuts) - 1)

\* messages.filter: those at the positions S, in their order.
Filtered(messages, S) ==
    [n \in 1..Cardinality(S) |-> messages[CHOOSE i \in S : Index(S, i) = n - 1]]

\* Mutants: one question too many is cut, or is kept, on the server.
CutOneMore(log, k)  == Before(log, IF k = 0 THEN 0 ELSE k - 1)
CutOneLess(log, k)  == Before(log, k + 1)

KeptHistory(log, k)       == Before(log, k)
KeptMessages(messages, k) == Before(messages, k)

\* A chat_room row, of the columns the page sends.
Row(room) == [thread |-> room.thread, title |-> room.title]

UpsertRoom(r, room)  == [kind |-> "room", room |-> r, row |-> Row(room)]
DropRoom(r)          == [kind |-> "dropRoom", room |-> r]
UpsertMark(m)        == [kind |-> "mark", mark |-> m]
DropMark(m)          == [kind |-> "dropMark", mark |-> m]

RoomWrite(request) == request.kind \in {"room", "dropRoom"}
TableOf(request)   == IF RoomWrite(request) THEN "rooms" ELSE "marks"

\* UNIQUE (room_id, agent_index)
SamePlace(m, n) == m.room = n.room /\ m.index = n.index

\* A request whose effect depends on the earlier one having been applied.
Needs(later, earlier) ==
    \/ /\ RoomWrite(later) /\ RoomWrite(earlier)
       /\ later.room = earlier.room /\ later # earlier
    \/ /\ earlier.kind = "mark" /\ ~RoomWrite(later)
       /\ \/ later.kind = "mark" /\ SamePlace(later.mark, earlier.mark)
          \/ later.kind = "dropMark" /\ later.mark.id = earlier.mark.id
       /\ later.mark.id # earlier.mark.id \/ later.kind = "dropMark"

Requests(F(_), S) == SetToSeq({F(x) : x \in S})

Post(requests) ==
    /\ Len(sent) + Len(requests) <= MaxSent
    /\ sent' = sent \o requests

Harm(kinds) == harmed' = harmed \cup kinds
Used(field) == used' = [used EXCEPT ![field] = @ + 1]
Fault       == used.faults < MaxFaults /\ Used("faults")

(***************************************************************************)
(* The page's room list.                                                   *)
(***************************************************************************)
EmptyRoom(thread) ==
    [thread |-> thread, title |-> "new", messages |-> <<>>, restoring |-> FALSE]

WithRoom(list, r, room) ==
    [x \in DOMAIN list \cup {r} |-> IF x = r THEN room ELSE list[x]]

\* Opening a room without messages asks the server for them.
Opened(list, r) ==
    [list EXCEPT ![r].restoring = @ \/ list[r].messages = Unread]

WithMessages(list, r, messages) ==
    IF r \in DOMAIN list THEN [list EXCEPT ![r].messages = messages] ELSE list

\* Messages not read yet count as none.
Held(list, r) == IF list[r].messages = Unread THEN <<>> ELSE list[r].messages

Appended(list, r, added) == WithMessages(list, r, Held(list, r) \o added)

\* Rooms and threads share their names: the n-th one made is n.
Fresh == used.threads + 1

Idle == loaded.rooms /\ turn = NoTurn

\* Acting while a turn, an edit or a restore is under way, on what it changes.
Overlap == IF \/ turn # NoTurn \/ edit # NoEdit
              \/ active \in DOMAIN rooms /\ rooms[active].restoring
           THEN {"overlap"} ELSE {}

\* Bound: one restore of a room.  A room left and opened again before its messages
\* have come may ask for them twice, since restoringThreadIdRef knows only the
\* thread asked for last: its messages are not followed further.
Reopened(r) == IF rooms[r].restoring THEN {"overlap"} ELSE {}

\* Bookmarks shown: none before the list is loaded, which then overwrites what
\* was clicked meanwhile.
ShownMarks == IF loaded.marks THEN marks ELSE {}
Early      == IF loaded.marks THEN {} ELSE {"overlap"}

MarksOf(r) == {m \in ShownMarks : m.room = r}

\* A room made while the list is loading is registered, and off the page again
\* when the list arrives, which brings it back only if its row was stored by then.
\* Bound: the page does not use it meanwhile.
CreateRoom ==
    /\ Fresh <= MaxThreads
    /\ IF loaded.rooms
       THEN /\ rooms' = WithRoom(rooms, Fresh, EmptyRoom(Fresh))
            /\ active' = Fresh
       ELSE UNCHANGED <<rooms, active>>
    /\ Post(<<UpsertRoom(Fresh, EmptyRoom(Fresh))>>)
    /\ Used("threads")
    /\ UNCHANGED <<server, marks, loaded, turn, edit, ghosts>>

SwitchRoom(r) ==
    /\ Idle
    /\ r # active
    /\ active' = r
    /\ rooms' = Opened(rooms, r)
    /\ Harm(Reopened(r))
    /\ UNCHANGED <<server, sent, marks, loaded, turn, edit, used, astray>>

\* The whole row is sent again.
SendRow(r, title) ==
    /\ loaded.rooms
    /\ rooms' = [rooms EXCEPT ![r].title = title]
    /\ Post(<<UpsertRoom(r, rooms'[r])>>)
    /\ used.changes < MaxChanges
    /\ Used("changes")
    /\ UNCHANGED <<server, active, marks, loaded, turn, edit, ghosts>>

RenameRoom(r) ==
    /\ turn # NoTurn => r # active
    /\ rooms[r].title = "new"
    /\ SendRow(r, "named")

\* setRoomModel, setRoomReasoningEffort.
SetRoomModel(r) == SendRow(r, rooms[r].title)

DeleteRoom(r) ==
    LET left == [x \in DOMAIN rooms \ {r} |-> rooms[x]]
        last == DOMAIN left = {}
    IN  /\ Idle
        /\ marks' = marks \ MarksOf(r)
        /\ IF last
           THEN /\ Fresh <= MaxThreads
                /\ rooms' = [x \in {Fresh} |-> EmptyRoom(x)]
                /\ active' = Fresh
                /\ Used("threads")
                /\ Harm(Overlap \cup Early)
           ELSE /\ active' \in IF active = r THEN DOMAIN left ELSE {active}
                /\ rooms' = Opened(left, active')
                /\ Harm(Overlap \cup Early \cup
                        IF active' = active THEN {} ELSE Reopened(active'))
                /\ UNCHANGED used
        /\ Post(Requests(DropMark, MarksOf(r)) \o <<DropRoom(r)>>
                \o IF last THEN <<UpsertRoom(Fresh, rooms'[Fresh])>> ELSE <<>>)
        /\ UNCHANGED <<server, loaded, turn, edit, astray>>

\* The modal is opened while no turn runs; an edit's turn may have begun before
\* it is confirmed (the model allows any turn).
ResetSession ==
    /\ loaded.rooms
    /\ Fresh <= MaxThreads
    /\ marks' = marks \ MarksOf(active)
    /\ rooms' = [rooms EXCEPT ![active] = EmptyRoom(Fresh)]
    /\ Post(Requests(DropMark, MarksOf(active)) \o <<UpsertRoom(active, rooms'[active])>>)
    /\ Used("threads")
    /\ Harm(Overlap \cup Early)
    /\ UNCHANGED <<server, active, loaded, turn, edit, astray>>

(***************************************************************************)
(* One turn: executeStreamTurnAsync on the page, /stream on the server.    *)
(***************************************************************************)
StartTurn(r, thread, t) ==
    /\ used.turns < MaxTurns
    /\ turn' = [phase |-> "asking", room |-> r, thread |-> thread, turn |-> t,
                by |-> used.attempts + 1, tries |-> 0, heard |-> FALSE]

\* sendMessageAsync: the question is shown, and titles a room without a title.
SendMessage(r, thread, list, writes) ==
    LET t      == used.sends + 1
        titled == r \in DOMAIN list /\ list[r].title = "new"
        asked  == Appended(list, r, <<Question(t)>>)
    IN  /\ StartTurn(r, thread, t)
        /\ rooms' = IF titled THEN [asked EXCEPT ![r].title = "named"] ELSE asked
        /\ used' = [used EXCEPT !.turns = @ + 1, !.attempts = @ + 1, !.sends = @ + 1]
        /\ Post(writes \o IF titled THEN <<UpsertRoom(r, rooms'[r])>> ELSE <<>>)

Send ==
    /\ Idle
    /\ SendMessage(active, rooms[active].thread, rooms, <<>>)
    /\ Harm(Overlap)
    /\ UNCHANGED <<server, active, marks, loaded, edit, astray>>

WithoutBubble(messages, text) ==
    Filtered(messages, {i \in DOMAIN messages :
                           messages[i].role = "error" => messages[i].text # text})

IsLastQuestion(messages, t) ==
    \E i \in Questions(messages) : /\ messages[i].turn = t
                                   /\ \A j \in Questions(messages) : j <= i

\* onRetryError: the bubble goes, the question is asked again as it stands.
RetryError(bubble) ==
    /\ Idle
    /\ bubble.button
    /\ rooms' = WithMessages(rooms, active, WithoutBubble(Held(rooms, active), bubble.text))
    /\ StartTurn(active, rooms[active].thread, bubble.turn)
    /\ used' = [used EXCEPT !.turns = @ + 1, !.attempts = @ + 1]
    /\ Harm(Overlap \cup IF IsLastQuestion(Held(rooms, active), bubble.turn) THEN {} ELSE {"late"})
    /\ UNCHANGED <<server, sent, active, marks, loaded, edit, astray>>

HoldsQuestion(log, t) == \E i \in DOMAIN log : log[i] = Question(t)

\* The graph's first checkpoint of the run holds the question.
StoreQuestion ==
    /\ turn.phase = "asking"
    /\ history' = [history EXCEPT ![turn.thread] = Append(@, Question(turn.turn))]
    /\ turn' = [turn EXCEPT !.phase = "answering"]
    /\ Harm(IF HoldsQuestion(history[turn.thread], turn.turn)
            THEN {"repeated"} ELSE {})
    /\ UNCHANGED <<stored, marked, sent, page, edit, used, astray>>

HearToken ==
    /\ turn.phase \in {"answering", "answered"}
    /\ ~turn.heard
    /\ turn' = [turn EXCEPT !.heard = TRUE]
    /\ UNCHANGED <<server, sent, page, edit, used, ghosts>>

StoreAnswer ==
    /\ turn.phase = "answering"
    /\ history' = [history EXCEPT ![turn.thread] =
                      Append(@, Answer(turn.turn, turn.by, TRUE))]
    /\ turn' = [turn EXCEPT !.phase = "answered"]
    /\ UNCHANGED <<stored, marked, sent, page, edit, used, ghosts>>

\* The turn is over and the page shows "shown" of it: what the two sides now
\* disagree about is recorded.
EndTurn(shown) ==
    /\ turn' = NoTurn
    /\ rooms' = Appended(rooms, turn.room, shown)
    /\ Harm((IF HoldsQuestion(history[turn.thread], turn.turn)
             THEN {} ELSE {"unstored"})
            \cup (IF (Answers(shown) # {}) = (turn.phase = "answered")
                  THEN {} ELSE {"answers"}))

Heard == IF turn.heard THEN <<Answer(turn.turn, turn.by, FALSE)>> ELSE <<>>

CompleteTurn ==
    /\ turn.phase = "answered" /\ turn.heard
    /\ EndTurn(<<Answer(turn.turn, turn.by, TRUE)>>)
    /\ UNCHANGED <<server, sent, active, marks, loaded, edit, used, astray>>

\* The server reports the model's failure inside the stream (onStreamError).
ModelFails ==
    /\ turn.phase = "answering"
    /\ Fault
    /\ EndTurn(Heard \o <<Bubble(turn.turn, "server", ~turn.heard)>>)
    /\ UNCHANGED <<server, sent, active, marks, loaded, edit, astray>>

StopTurn ==
    /\ turn # NoTurn
    /\ EndTurn(IF turn.heard THEN Heard ELSE <<Bubble(turn.turn, "stopped", FALSE)>>)
    /\ UNCHANGED <<server, sent, active, marks, loaded, edit, used, astray>>

MayRetry(retryable) == retryable /\ ~turn.heard /\ turn.tries < MaxRetries

TurnFails(retryable) ==
    /\ used.faults < MaxFaults
    /\ IF MayRetry(retryable)
       THEN /\ turn' = [turn EXCEPT !.phase = "asking", !.tries = @ + 1,
                                    !.by = used.attempts + 1, !.heard = FALSE]
            /\ used' = [used EXCEPT !.faults = @ + 1, !.attempts = @ + 1]
            /\ Harm(IF turn.phase = "answered" THEN {"answers"} ELSE {})
            /\ UNCHANGED rooms
       ELSE /\ EndTurn(Heard \o <<Bubble(turn.turn,
                          IF turn.heard THEN "cut off" ELSE "failed", TRUE)>>)
            /\ Used("faults")
    /\ UNCHANGED <<server, sent, active, marks, loaded, edit, astray>>

\* No connection, a 5xx, or a 4xx that no retry helps: nothing was stored.
RefuseRequest(retryable) == turn.phase = "asking" /\ TurnFails(retryable)

BreakConnection == turn.phase \in {"answering", "answered"} /\ TurnFails(TRUE)

(***************************************************************************)
(* Editing a question: the server truncates, then the page does.           *)
(***************************************************************************)
\* Bound: one edit at a time.  A second one, submitted while the first waits,
\* would act on what the first replaces.
SubmitEdit(k) ==
    /\ Idle
    /\ edit = NoEdit
    /\ rooms[active].messages # Unread
    /\ k < Cardinality(Questions(rooms[active].messages))
    /\ used.turns < MaxTurns
    /\ edit' = [phase |-> "asked", room |-> active, thread |-> rooms[active].thread,
                k |-> k, messages |-> rooms[active].messages, left |-> 0]
    /\ Harm(Overlap \cup Early)
    /\ UNCHANGED <<server, sent, page, turn, used, astray>>

\* The rows that DELETE_FROM_AGENT_INDEX deletes.
CutMarks(thread, left) ==
    {m \in marked : /\ m.index >= left
                    /\ m.room \in DOMAIN stored /\ stored[m.room].thread = thread}

\* ThreadService.truncate_thread_async; "left" answers are left.
TruncateThread ==
    LET log  == history[edit.thread]
        kept == KeptHistory(log, edit.k)
    IN  /\ edit.phase = "asked"
        /\ edit' = [edit EXCEPT !.phase = "done", !.left = Cardinality(Answers(kept))]
        /\ history' = [history EXCEPT ![edit.thread] = kept]
        /\ marked' = IF edit.k >= Cardinality(Questions(log)) THEN marked
                     ELSE marked \ CutMarks(edit.thread, Cardinality(Answers(kept)))
        /\ UNCHANGED <<stored, sent, page, turn, used, ghosts>>

\* Mutant: the first answer cut off keeps its bookmark.
MarksAfter(r, index) == {m \in MarksOf(r) : m.index > index}

MarksFrom(r, index)  == {m \in MarksOf(r) : m.index >= index}

\* The answers the page keeps are counted on the list the edit began with.
\* Bound: one turn at a time, so an edit waits for a turn begun while it was asked
\* for, which in the code would share its buffer ("overlap" all the same).
FinishEdit ==
    LET kept    == KeptMessages(edit.messages, edit.k)
        left    == Cardinality(Answers(kept))
        dropped == MarksFrom(edit.room, left)
    IN  /\ edit.phase = "done"
        /\ turn = NoTurn
        /\ marks' = marks \ dropped
        /\ edit' = NoEdit
        /\ SendMessage(edit.room, edit.thread,
                       WithMessages(rooms, edit.room, kept),
                       Requests(DropMark, dropped))
        /\ astray' = IF left = edit.left THEN astray ELSE astray \cup {"marks"}
        /\ Harm(IF left = edit.left THEN {} ELSE {"answers"})
        /\ UNCHANGED <<server, active, loaded>>

\* Not reached, or reached with its response lost: the page keeps everything.
EditFails ==
    /\ edit # NoEdit
    /\ Fault
    /\ edit' = NoEdit
    /\ Harm(IF edit.phase = "done" THEN {"halfcut", "stale mark"} ELSE {})
    /\ astray' = IF edit.phase = "done" THEN astray \cup {"marks"} ELSE astray
    /\ UNCHANGED <<server, sent, page, turn>>

(***************************************************************************)
(* Bookmarks: a place is a room and a number of answers before the one.    *)
(***************************************************************************)
\* An answer of the open room is marked; a bookmark of any room is removed, from
\* the answer or from the list of bookmarks.
ToggleMark(r, index) ==
    LET here  == {m \in MarksOf(r) : m.index = index}
        shown == rooms[r].messages
        place == CHOOSE i \in Answers(shown) : Index(Answers(shown), i) = index
        added == [id |-> used.marks + 1, room |-> r, index |-> index, by |-> shown[place].by]
    IN  /\ IF here # {}
           THEN /\ marks' = marks \ here
                /\ Post(Requests(DropMark, here))
                /\ UNCHANGED used
           ELSE /\ loaded.rooms /\ r = active
                /\ used.marks < MaxMarks
                /\ marks' = IF loaded.marks THEN marks \cup {added} ELSE marks
                /\ Post(<<UpsertMark(added)>>)
                /\ Used("marks")
        /\ Harm(Early)
        /\ UNCHANGED <<server, rooms, active, loaded, turn, edit, astray>>

(***************************************************************************)
(* The server's side of the writes, in the order in which they arrive.     *)
(***************************************************************************)
\* Mutants: a second row for the place, or the old row's id kept.
MarkedTwice(m)      == marked \cup {m}
MarkedUnderOldId(m) ==
    {n \in marked : ~SamePlace(m, n)} \cup
    LET old == {n \in marked : SamePlace(m, n)}
    IN  IF old = {} THEN {m} ELSE {[m EXCEPT !.id = n.id] : n \in old}

\* INSERT ... ON CONFLICT (room_id, agent_index) DO UPDATE.
Marked(m) == {n \in marked : ~SamePlace(m, n)} \cup {m}

Refused(request) ==
    request.kind = "mark" /\ request.mark.room \notin DOMAIN stored

\* INSERT ... ON CONFLICT (room_id) DO UPDATE.
Upserted(r, row) == WithRoom(stored, r, row)

PutRoom(r, row) == stored' = Upserted(r, row) /\ UNCHANGED marked

\* Bookmarks go with their room (ON DELETE CASCADE).
RemoveRoom(r) ==
    /\ stored' = [x \in DOMAIN stored \ {r} |-> stored[x]]
    /\ marked' = {m \in marked : m.room # r}

PutMark(m) ==
    /\ marked' = IF m.room \in DOMAIN stored THEN Marked(m) ELSE marked
    /\ UNCHANGED stored

RemoveMark(m) == marked' = {n \in marked : n.id # m.id} /\ UNCHANGED stored

Apply(request) ==
    CASE request.kind = "room"     -> PutRoom(request.room, request.row)
      [] request.kind = "dropRoom" -> RemoveRoom(request.room)
      [] request.kind = "mark"     -> PutMark(request.mark)
      [] OTHER                     -> RemoveMark(request.mark)

Deliver(i) ==
    LET request   == sent[i]
        overtakes == \E j \in 1..(i - 1) : Needs(request, sent[j])
    IN  /\ Apply(request)
        /\ sent' = RemoveAt(sent, i)
        /\ astray' = IF overtakes \/ Refused(request)
                     THEN astray \cup {TableOf(request)} ELSE astray
        /\ Harm(IF overtakes /\ ~RoomWrite(request) THEN {"stale mark"} ELSE {})
        /\ UNCHANGED <<history, page, turn, edit, used>>

Lose(i) ==
    /\ Fault
    /\ sent' = RemoveAt(sent, i)
    /\ astray' = astray \cup {TableOf(sent[i])}
    /\ Harm(IF sent[i].kind = "dropMark" THEN {"stale mark"} ELSE {})
    /\ UNCHANGED <<server, page, turn, edit>>

(***************************************************************************)
(* Loading the page again, from this browser's copies or from another      *)
(* browser that has none.                                                  *)
(***************************************************************************)
InFlight(table) == \E i \in DOMAIN sent : TableOf(sent[i]) = table

Reload(copies) ==
    /\ used.reloads < MaxReloads
    /\ loaded' = [rooms |-> FALSE, marks |-> FALSE]
    /\ rooms' = IF copies THEN [r \in DOMAIN rooms |->
                                   [rooms[r] EXCEPT !.restoring = FALSE]]
                ELSE <<>>
    /\ marks' = IF copies THEN marks ELSE {}
    /\ turn' = NoTurn
    /\ edit' = NoEdit
    /\ Used("reloads")
    /\ LET cut  == (IF turn.phase = "answered" THEN {"answers"} ELSE {})
                   \cup (IF turn # NoTurn /\ ~HoldsQuestion(history[turn.thread], turn.turn)
                         THEN {"unstored"} ELSE {})
                   \cup (IF edit.phase = "done" THEN {"halfcut", "stale mark"} ELSE {})
       IN  harmed' = (harmed \cup cut) \ IF copies THEN {} ELSE Cured
    /\ astray' = IF edit.phase = "done" THEN astray \cup {"marks"} ELSE astray
    /\ UNCHANGED <<server, sent, active>>

ListedRooms == [r \in DOMAIN stored |->
    [thread |-> stored[r].thread, title |-> stored[r].title,
     messages |-> Unread, restoring |-> FALSE]]

\* Rooms from the server keep the messages this browser has of them.
Adopted == [r \in DOMAIN stored |->
    IF r \in DOMAIN rooms THEN [ListedRooms[r] EXCEPT !.messages = rooms[r].messages]
    ELSE ListedRooms[r]]

\* The list is shown; a page without any room makes one.
Show(list, writes, spent) ==
    IF DOMAIN list = {}
    THEN /\ Fresh <= MaxThreads
         /\ rooms' = [r \in {Fresh} |-> EmptyRoom(r)]
         /\ active' = Fresh
         /\ Post(<<UpsertRoom(Fresh, EmptyRoom(Fresh))>>)
         /\ used' = [spent EXCEPT !.threads = Fresh]
    ELSE /\ active' \in IF active \in DOMAIN list THEN {active} ELSE DOMAIN list
         /\ rooms' = Opened(list, active')
         /\ Post(writes)
         /\ used' = spent

\* The list is read and shown in one step: what the server stores, and the page
\* sends, between the two comes after it or before it.
LoadRooms ==
    LET migrates == DOMAIN stored = {}
    IN  /\ ~loaded.rooms
        /\ loaded' = [loaded EXCEPT !.rooms = TRUE]
        /\ IF migrates
           THEN Show(rooms, SetToSeq({UpsertRoom(r, rooms[r]) : r \in DOMAIN rooms}), used)
           ELSE Show(Adopted, <<>>, used)
        /\ astray' = IF InFlight("rooms") THEN astray \cup {"rooms"}
                     ELSE astray \ {"rooms"}
        /\ Harm((IF \E r \in DOMAIN stored \cap DOMAIN rooms :
                       stored[r].thread # rooms[r].thread
                 THEN {"mixed"} ELSE {})
                \cup (IF "rooms" \in astray \/ InFlight("rooms")
                      THEN {"stale mark"} ELSE {}))
        /\ UNCHANGED <<server, marks, turn, edit>>

LoadRoomsFails ==
    /\ ~loaded.rooms
    /\ used.faults < MaxFaults
    /\ loaded' = [loaded EXCEPT !.rooms = TRUE]
    /\ Show(rooms, <<>>, [used EXCEPT !.faults = @ + 1])
    /\ astray' = astray \cup {"rooms"}
    /\ UNCHANGED <<server, marks, turn, edit, harmed>>

\* Bookmarks only this browser has are registered again.
LoadMarks ==
    LET missing == {m \in marks : \A n \in marked : ~SamePlace(m, n)}
        early   == \E i \in DOMAIN sent : sent[i].kind # "room"
    IN  /\ ~loaded.marks
        /\ loaded' = [loaded EXCEPT !.marks = TRUE]
        /\ marks' = marked \cup missing
        /\ Post(Requests(UpsertMark, missing))
        /\ astray' = IF early THEN astray \cup {"marks"} ELSE astray \ {"marks"}
        /\ Harm(IF early THEN {"stale mark"} ELSE {})
        /\ UNCHANGED <<server, rooms, active, turn, edit, used>>

LoadMarksFails ==
    /\ ~loaded.marks
    /\ Fault
    /\ loaded' = [loaded EXCEPT !.marks = TRUE]
    /\ astray' = astray \cup {"marks"}
    /\ Harm(IF marked \subseteq marks /\ \A i \in DOMAIN sent : sent[i].kind = "mark" => sent[i].mark \in marks
            THEN {} ELSE {"stale mark"})
    /\ UNCHANGED <<server, sent, rooms, active, marks, turn, edit>>

\* restoreRoomMessagesAsync: the answer replaces whatever the room shows.
RestoreMessages(r) ==
    /\ rooms[r].restoring
    /\ rooms' = [rooms EXCEPT ![r].restoring = FALSE,
                              ![r].messages = history[rooms[r].thread]]
    /\ UNCHANGED <<server, sent, active, marks, loaded, turn, edit, used, ghosts>>

RestoreFails(r) ==
    /\ rooms[r].restoring
    /\ Fault
    /\ rooms' = [rooms EXCEPT ![r].restoring = FALSE, ![r].messages = <<>>]
    /\ Harm({"unrestored"} \cup IF Answers(history[rooms[r].thread]) = {} THEN {} ELSE {"answers"})
    /\ UNCHANGED <<server, sent, active, marks, loaded, turn, edit, astray>>

(***************************************************************************)
(* The specification: a first room, registered; then anything.             *)
(***************************************************************************)
Init ==
    /\ history = [t \in Thread |-> <<>>]
    /\ stored = [r \in {1} |-> [thread |-> r, title |-> "new"]]
    /\ marked = {}
    /\ sent = <<>>
    /\ rooms = [r \in {1} |-> EmptyRoom(r)]
    /\ active = 1
    /\ marks = {}
    /\ loaded = [rooms |-> TRUE, marks |-> TRUE]
    /\ turn = NoTurn
    /\ edit = NoEdit
    /\ used = [threads |-> 1, turns |-> 0, sends |-> 0, attempts |-> 0,
               marks |-> 0, changes |-> 0, reloads |-> 0, faults |-> 0]
    /\ harmed = {}
    /\ astray = {}

Shown == IF active \in DOMAIN rooms THEN rooms[active].messages ELSE <<>>

Next ==
    \/ CreateRoom \/ ResetSession \/ Send
    \/ \E r \in DOMAIN rooms :
          \/ SwitchRoom(r) \/ DeleteRoom(r)
          \/ RestoreMessages(r) \/ RestoreFails(r)
          \/ RenameRoom(r) \/ SetRoomModel(r)
    \/ \E i \in DOMAIN Shown : Shown[i].role = "error" /\ RetryError(Shown[i])
    \/ \E k \in 0..(MaxTurns - 1) : SubmitEdit(k)
    \/ \E k \in 0..(Cardinality(Answers(Shown)) - 1) : ToggleMark(active, k)
    \/ \E m \in ShownMarks : ToggleMark(m.room, m.index)
    \/ StoreQuestion \/ HearToken \/ StoreAnswer
    \/ CompleteTurn \/ ModelFails \/ StopTurn
    \/ BreakConnection \/ \E retryable \in BOOLEAN : RefuseRequest(retryable)
    \/ TruncateThread \/ FinishEdit \/ EditFails
    \/ \E i \in DOMAIN sent : Deliver(i) \/ Lose(i)
    \/ \E copies \in BOOLEAN : Reload(copies)
    \/ LoadRooms \/ LoadRoomsFails \/ LoadMarks \/ LoadMarksFails

Spec == Init /\ [][Next]_vars

(***************************************************************************)
(* Properties.                                                             *)
(***************************************************************************)
\* Every variable holds what the code keeps there: threads and rooms drawn
\* from the names made so far, a turn only while the page is loaded, bookmark
\* rows that obey UNIQUE (room_id, agent_index) and the foreign key.
TypeOK ==
    /\ DOMAIN stored \cup DOMAIN rooms \subseteq 1..used.threads
    /\ \A r \in DOMAIN stored : stored[r].thread \in 1..used.threads
    /\ \A m, n \in marked : SamePlace(m, n) => m = n
    /\ \A m, n \in marks : SamePlace(m, n) => m = n
    /\ \A m \in marked : m.room \in DOMAIN stored
    /\ turn # NoTurn \/ edit # NoEdit => loaded.rooms
    /\ loaded.rooms => active \in DOMAIN rooms
    /\ harmed \subseteq Misfortune /\ astray \subseteq {"rooms", "marks"}
    /\ used.threads <= MaxThreads /\ used.turns <= MaxTurns
    /\ used.marks <= MaxMarks /\ Len(sent) <= MaxSent

Readable(r) == rooms[r].messages # Unread /\ ~rooms[r].restoring

Settled == loaded.rooms /\ loaded.marks /\ edit.phase # "done"

\* An answer the page still shows in full is still in the model's memory: no
\* edit makes the server cut more than the page cuts, whatever failed before,
\* unless a question was stored twice, or asked again after later ones, or the
\* page missed a cut.
ShownAnswersAreKept ==
    Settled /\ harmed \cap {"repeated", "late", "halfcut", "unrestored", "mixed", "overlap"} = {} =>
        \A r \in DOMAIN rooms : Readable(r) =>
            LET shown == rooms[r].messages
                log   == history[rooms[r].thread]
            IN  \A i \in Answers(shown) : shown[i].whole => \E j \in Answers(log) : log[j].by = shown[i].by

\* What an edit took off the page is gone from the model's memory too ("so that
\* the model does not remember deleted talk", App.jsx): everything stored in a
\* room's thread belongs to a question the page shows, even after repeated
\* questions, unless a question was never stored or the page missed a cut.
CutMessagesAreForgotten ==
    Settled /\ harmed \cap {"unstored", "halfcut", "unrestored", "mixed", "overlap"} = {} =>
        \A r \in DOMAIN rooms : Readable(r) =>
            LET shown == rooms[r].messages
                log   == history[rooms[r].thread]
            IN  \A j \in DOMAIN log : \E i \in Questions(shown) : shown[i].turn = log[j].turn

\* A bookmark leads to the answer that was bookmarked, through edits, resets
\* and reloads in this or another browser, also when requests for rooms and
\* bookmarks arrive in another order, unless the page and the server have come
\* to count different answers or a bookmark was not deleted when its answer was.
BookmarksLeadToTheirAnswers ==
    Settled /\ harmed \cap {"answers", "stale mark", "overlap"} = {} =>
        \A m \in marks : m.room \in DOMAIN rooms /\ Readable(m.room) =>
            LET shown == rooms[m.room].messages
            IN  \E i \in Answers(shown) : Index(Answers(shown), i) = m.index /\ shown[i].by = m.by

\* With no write in flight, page and server hold the same rooms and bookmarks,
\* in whatever order the writes arrived, unless one was lost, refused, overtook a
\* write it needed, or was under way as the page read the list: a room made while
\* the list is loading is registered and then missing on the page (setRoomList in
\* useRooms replaces whatever it holds).  The next load heals even that.
WritesConverge ==
    Settled /\ edit = NoEdit /\ sent = <<>> =>
        /\ "rooms" \notin astray =>
              /\ DOMAIN stored = DOMAIN rooms
              /\ \A r \in DOMAIN rooms :
                    /\ stored[r].thread = rooms[r].thread
                    /\ stored[r].title = rooms[r].title
        /\ "marks" \notin astray => marked = marks
=============================================================================
