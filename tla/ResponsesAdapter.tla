-------------------------- MODULE ResponsesAdapter --------------------------
(***************************************************************************)
(* openai_responses_format_adapter.py: the chunks of a run as the events   *)
(* of an OpenAI Responses stream.  An adapter is a record: the output      *)
(* items it has opened, for every context (namespace and role) the id that *)
(* chunks without an id belong to, and the events of the current call.     *)
(*                                                                         *)
(* Text and tool arguments are sequences of tokens, one per chunk.  The    *)
(* output_index of an item is its place in the list, from 0.               *)
(***************************************************************************)
EXTENDS Naturals, Sequences, FiniteSetsExt, SequencesExt

CONSTANTS
    Namespace,      \* ns_path; Root is ""
    Role,           \* roles of messages: "ai" and "tool" among them
    None,           \* no id, no task, no index
    Multiplier,     \* SOURCE_SEQUENCE_MULTIPLIER
    IncludeEvents   \* include_events of the subscription

Context == Namespace \X Role

NewAdapter == [items |-> <<>>, active |-> [x \in Context |-> None],
               count |-> [x \in Context |-> 0], number |-> 0,
               started |-> FALSE, ended |-> FALSE, out |-> <<>>]

(* One event about item i, or about the response when i = 0 *)
Emit(a, kind, i, text) ==
    [a EXCEPT !.number = @ + 1,
              !.out = Append(@, [kind |-> kind, item |-> i, text |-> text, number |-> a.number])]

SetSource(a, seq) == [a EXCEPT !.number = Max({@, seq * Multiplier})]

(* The message item of a key has tool = None, its calls have their index *)
Find(a, key, tool) == SelectInSeq(a.items, LAMBDA it : it.key = key /\ it.tool = tool)

Open(a, key, tool, call) ==
    LET item == [key |-> key, tool |-> tool, call |-> call, text |-> <<>>, done |-> FALSE]
    IN  Emit([a EXCEPT !.items = Append(@, item)], "added", Len(a.items) + 1, <<>>)

OpenMessage(a, key) == IF Find(a, key, None) = 0 THEN Open(a, key, None, None) ELSE a

OpenTool(a, key, index, call) ==
    LET i == Find(a, key, index)
    IN  CASE i = 0                      -> Open(a, key, index, call.id)
          [] i # 0 /\ call.id = None    -> a
          [] i # 0 /\ call.id # None    -> [a EXCEPT !.items[i].call = call.id]

ToolIndex(a, key, default, call) ==
    LET known == SelectInSeq(a.items, LAMBDA it : /\ it.key = key
                                                  /\ it.tool # None
                                                  /\ it.call = call.id)
        isKnown == call.id # None /\ known # 0
    IN  CASE call.index # None              -> call.index
          [] call.index = None /\ isKnown   -> a.items[known].tool
          [] call.index = None /\ ~isKnown  -> default

Extend(a, i, delta) ==
    IF i = 0 \/ delta = <<>> \/ a.items[i].done
    THEN a
    ELSE Emit([a EXCEPT !.items[i].text = @ \o delta], "delta", i, delta)

(* A call that repeats what is known of it is the whole call, not a fragment *)
ArgumentDelta(known, full) ==
    IF known # <<>> /\ IsPrefix(known, full)
    THEN SubSeq(full, Len(known) + 1, Len(full))
    ELSE full

(* Mutant: an item may be ended again *)
CloseAgain(a, i) ==
    LET text == a.items[i].text
    IN  Emit(Emit([a EXCEPT !.items[i].done = TRUE], "text_done", i, text), "item_done", i, text)

Close(a, i) ==
    LET text == a.items[i].text
    IN  IF a.items[i].done
        THEN a
        ELSE Emit(Emit([a EXCEPT !.items[i].done = TRUE], "text_done", i, text), "item_done", i, text)

(* Mutant: chunks without an id go on belonging to a message that has ended *)
DeactivateNone(a, key) == a

Deactivate(a, key) ==
    [a EXCEPT !.active = [x \in Context |-> IF x[1] = key[1] /\ @[x] = key[2] THEN None ELSE @[x]]]

CloseOwn(a, key, i, isCall) ==
    IF a.items[i].key = key /\ (a.items[i].tool # None) = isCall THEN Close(a, i) ELSE a

(* The message first, then its calls *)
CloseMessage(a, key) ==
    LET close(b, isCall) == FoldLeftDomain(LAMBDA d, i : CloseOwn(d, key, i, isCall), b, b.items)
    IN  Deactivate(close(close(a, FALSE), TRUE), key)

CloseAll(a) == FoldLeft(LAMBDA b, it : CloseMessage(b, it.key), a, a.items)

(* The message a chunk belongs to *)
MessageId(a, c) ==
    LET x == <<c.ns, c.role>>
    IN  CASE c.id # None                          -> c.id
          [] c.id = None /\ a.active[x] # None    -> a.active[x]
          [] c.id = None /\ a.active[x] = None    -> <<"synthetic", c.role, a.count[x] + 1>>

Activate(a, c) ==
    LET x == <<c.ns, c.role>>
    IN  [a EXCEPT !.count[x]  = IF c.id = None /\ a.active[x] = None THEN @ + 1 ELSE @,
                  !.active[x] = MessageId(a, c)]

OpenCall(a, c, key, i) == OpenTool(a, key, ToolIndex(a, key, i - 1, c.calls[i]), c.calls[i])

Prepare(a, c, key) ==
    LET b == IF Find(a, key, None) # 0 \/ c.text # <<>> \/ c.calls = <<>>
             THEN OpenMessage(a, key)
             ELSE a
    IN  FoldLeftDomain(LAMBDA d, i : OpenCall(d, c, key, i), b, c.calls)

(* A later call of the same chunk may have taken its item over: it is looked *)
(* up again, and opened if there is none                                     *)
FormatCall(a, c, key, i) ==
    LET b    == OpenCall(a, c, key, i)
        item == Find(b, key, ToolIndex(a, key, i - 1, c.calls[i]))
    IN  Extend(b, item, ArgumentDelta(b.items[item].text, c.calls[i].args))

FormatCalls(a, c, key) == FoldLeftDomain(LAMBDA d, i : FormatCall(d, c, key, i), a, c.calls)

IsComplete(c) == c.role = "tool" \/ c.finish

FormatMessage(a, c) ==
    LET key == <<c.ns, MessageId(a, c)>>
        b   == Prepare(Activate(a, c), c, key)
        d   == FormatCalls(Extend(b, Find(b, key, None), c.text), c, key)
    IN  IF IsComplete(c) THEN CloseMessage(d, key) ELSE d

FormatStart(a) ==
    IF a.started
    THEN a
    ELSE Emit(Emit([a EXCEPT !.started = TRUE], "created", 0, <<>>), "in_progress", 0, <<>>)

FormatChunk(a, c) ==
    LET b == SetSource(FormatStart(a), c.seq)
        isMessage == c.type = "messages"
    IN  CASE a.ended                                     -> a
          [] ~a.ended /\ isMessage                       -> FormatMessage(b, c)
          [] ~a.ended /\ ~isMessage /\ IncludeEvents     -> Emit(b, c.type, 0, <<c.seq>>)
          [] ~a.ended /\ ~isMessage /\ ~IncludeEvents    -> b

FormatEnd(a, status) ==
    IF a.ended
    THEN a
    ELSE Emit([CloseAll(FormatStart(a)) EXCEPT !.ended = TRUE],
              IF status = "completed" THEN "completed" ELSE "failed", 0, <<>>)
=============================================================================
