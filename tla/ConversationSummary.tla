------------------------- MODULE ConversationSummary -------------------------
(***************************************************************************)
(* Long conversations.  The messages of a thread live in the LangGraph     *)
(* checkpoint; chat_room keeps a summary of the oldest and how many it     *)
(* stands for.  A turn first brings the summary up to date                 *)
(* (conversation_summarizer.py), then asks; the middleware shows the model *)
(* the summary and the last messages instead of the whole thread           *)
(* (context_compression_middleware.py).  Editing a question cuts the       *)
(* thread and clears the summary (thread_service.py).                      *)
(*                                                                         *)
(* A summary is the set of the messages it was made from.  One browser tab *)
(* talks to the thread: it starts no turn and cuts nothing while it is     *)
(* streaming, but a turn it has stopped may still be summarising, and it   *)
(* may ask again while the server is still cutting.                        *)
(*                                                                         *)
(* "torn" is auxiliary: it marks a summary of messages that a truncation   *)
(* has cut, and a turn that was summarising a list of which one cut the    *)
(* end, and goes with what is made from them.                              *)
(***************************************************************************)
EXTENDS Naturals, Sequences

CONSTANTS
    Turn,         \* requests to /stream that the server can be serving at once
    Keep,         \* recent_message_keep_count
    Trigger,      \* messages above which a thread is compressed
    MaxMessages,  \* bound: messages ever added to the thread
    MaxFaults     \* bound: truncations that fail halfway

ASSUME ConstantsAssumption ==
    /\ Keep \in Nat \ {0}
    /\ Trigger \in Nat
    /\ MaxMessages \in Nat
    /\ MaxFaults \in Nat

VARIABLES
    thread,   \* the messages channel of the latest checkpoint
    created,  \* how many messages there have been
    room,     \* chat_room: summary, summarized_message_count; torn
    turn,     \* every request, await by await
    cut,      \* the truncation in progress, or the last one
    faults    \* how many truncations have failed

vars == <<thread, created, room, turn, cut, faults>>

-----------------------------------------------------------------------------
Message == [id : 1..MaxMessages, human : BOOLEAN]
Room    == [summary : SUBSET (1..MaxMessages), count : 0..MaxMessages, torn : BOOLEAN]

Summarising == {"loaded", "measured", "summarised"}

Request == [pc : {"idle", "ready", "asking", "thought"} \union Summarising,
            stopped : BOOLEAN, list : Seq(Message), torn : BOOLEAN, seen : Room,
            known : SUBSET (1..MaxMessages)]

TypeOK ==
    /\ thread \in Seq(Message)
    /\ created \in 0..MaxMessages
    /\ room \in Room
    /\ turn \in [Turn -> Request]
    /\ cut \in {"none", "removed", "failed"}
    /\ faults \in 0..MaxFaults

Ids(list) == {list[i].id : i \in 1..Len(list)}

NoSummary == [summary |-> {}, count |-> 0, torn |-> FALSE]

Idle == [pc |-> "idle", stopped |-> FALSE, list |-> <<>>, torn |-> FALSE,
         seen |-> NoSummary, known |-> {}]

Init ==
    /\ thread = <<>>
    /\ created = 0
    /\ room = NoSummary
    /\ turn = [t \in Turn |-> Idle]
    /\ cut = "none"
    /\ faults = 0

Streaming == \E t \in Turn : turn[t].pc # "idle" /\ ~ turn[t].stopped

Append1(human) ==
    /\ created < MaxMessages
    /\ created' = created + 1
    /\ thread' = Append(thread, [id |-> created + 1, human |-> human])

Step(t, pc) == turn' = [turn EXCEPT ![t].pc = pc]

-----------------------------------------------------------------------------
(* Summarising *)

(* _compress_context_if_needed_async: the messages of the thread, and       *)
(* whether there are enough of them                                         *)
Load(t) ==
    /\ turn[t].pc = "idle"
    /\ ~ Streaming
    /\ turn' = [turn EXCEPT ![t] =
                   [Idle EXCEPT !.pc = IF Len(thread) > Trigger THEN "loaded" ELSE "ready",
                                !.list = thread]]
    /\ UNCHANGED <<thread, created, room, cut, faults>>

Boundary(list) == IF Len(list) > Keep THEN Len(list) - Keep ELSE 0

(* get_summary_state_async: is there anything the summary does not have? *)
ReadSummary(t) ==
    /\ turn[t].pc = "loaded"
    /\ turn' = [turn EXCEPT ![t].seen = room,
                            ![t].pc = IF room.count < Boundary(turn[t].list)
                                      THEN "measured" ELSE "ready"]
    /\ UNCHANGED <<thread, created, room, cut, faults>>

(* The model has written the new summary. *)
Summarise(t) ==
    /\ turn[t].pc = "measured"
    /\ Step(t, "summarised")
    /\ UNCHANGED <<thread, created, room, cut, faults>>

Made(t, summary, count) ==
    [summary |-> summary, count |-> count, torn |-> turn[t].torn \/ turn[t].seen.torn]

(* Mutant: the count is advanced over the one in the row, not the one read. *)
StoreOverRow(t) ==
    LET list  == turn[t].list
        fresh == {list[i].id : i \in (turn[t].seen.count + 1)..Boundary(list)}
    IN
    /\ turn[t].pc = "summarised"
    /\ room' = Made(t, room.summary \union fresh, Boundary(list))
    /\ Step(t, "ready")
    /\ UNCHANGED <<thread, created, cut, faults>>

(* Mutant: the boundary is counted from the messages already summarised. *)
StoreSumOfCounts(t) ==
    LET list  == turn[t].list
        fresh == {list[i].id : i \in (turn[t].seen.count + 1)..Boundary(list)}
    IN
    /\ turn[t].pc = "summarised"
    /\ room' = Made(t, turn[t].seen.summary \union fresh, turn[t].seen.count + Boundary(list))
    /\ Step(t, "ready")
    /\ UNCHANGED <<thread, created, cut, faults>>

(* update_summary_async *)
StoreSummary(t) ==
    LET list  == turn[t].list
        fresh == {list[i].id : i \in (turn[t].seen.count + 1)..Boundary(list)}
    IN
    /\ turn[t].pc = "summarised"
    /\ room' = Made(t, turn[t].seen.summary \union fresh, Boundary(list))
    /\ Step(t, "ready")
    /\ UNCHANGED <<thread, created, cut, faults>>

(* Any exception, or no new summary: the turn goes on with what there is. *)
SkipSummary(t) ==
    /\ turn[t].pc \in Summarising
    /\ Step(t, "ready")
    /\ UNCHANGED <<thread, created, room, cut, faults>>

-----------------------------------------------------------------------------
(* The turn itself *)

(* The graph adds the question to the thread. *)
Ask(t) ==
    /\ turn[t].pc = "ready"
    /\ ~ turn[t].stopped
    /\ Append1(TRUE)
    /\ Step(t, "asking")
    /\ UNCHANGED <<room, cut, faults>>

(* awrap_model_call: what the model is shown *)
Think(t) ==
    /\ turn[t].pc = "asking"
    /\ turn' = [turn EXCEPT ![t].pc = "thought",
                            ![t].known =
                               IF room.summary = {} THEN Ids(thread)
                               ELSE room.summary \union
                                    Ids(SubSeq(thread, Boundary(thread) + 1, Len(thread)))]
    /\ UNCHANGED <<thread, created, room, cut, faults>>

(* An answer, or a call of a tool whose result the model is asked about *)
Reply(t) ==
    /\ turn[t].pc = "thought"
    /\ Append1(FALSE)
    /\ \/ turn' = [turn EXCEPT ![t] = Idle]
       \/ turn' = [turn EXCEPT ![t].pc = "asking", ![t].known = {}]
    /\ UNCHANGED <<room, cut, faults>>

(* The model fails, or the client stops the answer. *)
ReplyFails(t) ==
    /\ turn[t].pc \in {"asking", "thought"}
    /\ turn' = [turn EXCEPT ![t] = Idle]
    /\ UNCHANGED <<thread, created, room, cut, faults>>

(* The client goes away; the handler finishes summarising all the same. *)
Stop(t) ==
    /\ turn[t].pc \in Summarising \union {"ready"}
    /\ ~ turn[t].stopped
    /\ turn' = [turn EXCEPT ![t].stopped = TRUE]
    /\ UNCHANGED <<thread, created, room, cut, faults>>

StoppedTurnEnds(t) ==
    /\ turn[t].pc = "ready"
    /\ turn[t].stopped
    /\ turn' = [turn EXCEPT ![t] = Idle]
    /\ UNCHANGED <<thread, created, room, cut, faults>>

-----------------------------------------------------------------------------
(* truncate_thread_async: the thread is cut before a question, then the     *)
(* bookmarks, then the summary.  Finding nothing to cut it returns, and     *)
(* changes nothing.  Bound: one truncation at a time, that cuts while no    *)
(* turn streams.                                                            *)
RemoveMessages ==
    /\ cut # "removed"
    /\ ~ Streaming
    /\ \E i \in 1..Len(thread) :
          /\ thread[i].human
          /\ thread' = SubSeq(thread, 1, i - 1)
          /\ room' = [room EXCEPT !.torn = @ \/ (room.count > 0 /\ room.count + Keep >= i)]
          /\ turn' = [t \in Turn |->
                        [turn[t] EXCEPT !.torn = @ \/ (/\ turn[t].pc \in Summarising
                                                      /\ Len(turn[t].list) >= i)]]
    /\ cut' = "removed"
    /\ UNCHANGED <<created, faults>>

ClearSummary ==
    /\ cut = "removed"
    /\ room' = NoSummary
    /\ cut' = "none"
    /\ UNCHANGED <<thread, created, turn, faults>>

(* The connection of the bookmarks or of the summary fails. *)
TruncationFails ==
    /\ cut = "removed"
    /\ faults < MaxFaults
    /\ faults' = faults + 1
    /\ cut' = "failed"
    /\ UNCHANGED <<thread, created, room, turn>>

-----------------------------------------------------------------------------
TurnStep(t) ==
    \/ Load(t)
    \/ ReadSummary(t)
    \/ Summarise(t)
    \/ StoreSummary(t)
    \/ SkipSummary(t)
    \/ Ask(t)
    \/ Think(t)
    \/ Reply(t)
    \/ ReplyFails(t)
    \/ Stop(t)
    \/ StoppedTurnEnds(t)

Next ==
    \/ \E t \in Turn : TurnStep(t)
    \/ RemoveMessages
    \/ ClearSummary
    \/ TruncationFails

Spec == Init /\ [][Next]_vars

-----------------------------------------------------------------------------
(* The row tells the truth about itself: the summary was made from exactly  *)
(* the first summarized_message_count messages of the thread, and from none *)
(* of those the model is shown as they are, although turns that summarise   *)
(* at the same time overwrite each other's summary, and questions are asked *)
(* between the steps of a truncation.  Torn are a summary of which a        *)
(* truncation has cut something, or something of the Keep messages after    *)
(* it, until the row is cleared, and one made from it or by a turn whose    *)
(* list was cut while it summarised.                                        *)
(* (conversation_summarizer.py: new_older_message_list, older_boundary)     *)
SummaryCoversPrefix ==
    ~ room.torn =>
        /\ room.count > 0 => room.count + Keep <= Len(thread)
        /\ room.summary = {thread[i].id : i \in 1..room.count}

(* "잘려나간 대화를 요약이 계속 가리키면 모델이 삭제된 내용을 기억한 것처럼 답한다":   *)
(* the model is shown nothing that was cut off the thread.                  *)
(* (thread_service.py:109)                                                  *)
RemovedIsForgotten ==
    \A t \in Turn : turn[t].pc = "thought" => turn[t].known \subseteq Ids(thread)

(* "실제 전송될 프롬프트 = 요약을 담은 System Message + 최근 N 개 원본", where the    *)
(* summary stands for all before the N: the model is shown the whole thread, *)
(* one way or the other.  (conversation_summarizer.py:91)                   *)
NothingIsForgotten ==
    \A t \in Turn : turn[t].pc = "thought" => Ids(thread) \subseteq turn[t].known
=============================================================================
