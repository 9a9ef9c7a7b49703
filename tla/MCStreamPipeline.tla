-------------------------- MODULE MCStreamPipeline --------------------------
(* Instances of StreamPipeline for TLC: what an agent may yield. *)
EXTENDS StreamPipeline

CONSTANTS t1, t2, m1, m2, c1

Blank == [type |-> "messages", ns |-> Root, task |-> None, path |-> <<>>, data |-> {}, id |-> None, role |-> "ai",
          whole |-> FALSE, said |-> TRUE, calls |-> <<>>, last |-> FALSE, finish |-> FALSE]

Task(t, ns, data)  == [Blank EXCEPT !.type = "tasks", !.task = t, !.ns = ns, !.data = data]
Custom(t, ns)      == [Blank EXCEPT !.type = "custom", !.task = t, !.ns = ns]
Piece(id, t, ns)   == [Blank EXCEPT !.id = id, !.path = IF t = None THEN <<>> ELSE <<t1, t>>, !.ns = ns]
Closing(k)         == [k EXCEPT !.said = FALSE, !.last = TRUE, !.finish = TRUE]
Calling(k, i, id)  == [k EXCEPT !.said = FALSE, !.calls = <<[index |-> i, id |-> id]>>]
Whole(id, role)    == [Blank EXCEPT !.id = id, !.role = role, !.whole = TRUE]

(* Two tasks of the agent, one of a subagent, and remarks of unknown origin *)
Tasks == {Task(t1, Root, {}), Task(t1, Root, {"result"}), Task(t2, Root, {}), Task(t2, Root, {"result", "error"}),
          Custom(None, Root), Custom(t2, "sub"), Task(None, Root, {})}

(* Two messages that interleave, also between namespaces and tasks *)
Messages == {Piece(m1, t1, Root), Piece(m1, t1, "sub"), Piece(m2, t1, Root), Piece(m2, t2, Root),
             Closing(Piece(m1, t1, Root)), [Blank EXCEPT !.type = "values"]}

(* Messages without an id, and tool messages *)
Nameless == {Piece(None, t1, Root), Closing(Piece(None, t1, Root)), Whole(None, "tool"),
             Whole(m1, "ai"), Piece(m1, None, Root), Whole(None, "ai")}

(* Tool calls in fragments, by index and by id, with and without text *)
Calls == {Calling(Piece(m1, t1, Root), 0, c1), Calling(Piece(m1, t1, Root), 0, None),
          Calling(Piece(m1, t1, Root), 1, None), Piece(m1, t1, Root), Closing(Piece(m1, t1, Root)),
          [Calling(Whole(m2, "ai"), None, c1) EXCEPT !.said = TRUE]}

(* A message of a role that only the normalizer knows, beside answers *)
Chat == {Piece(m1, t1, Root), [Piece(m2, t1, Root) EXCEPT !.role = "chat"], [Piece(None, t1, Root) EXCEPT !.role = "chat"]}

Run(kinds, chunks, connections) == [kinds |-> kinds, chunks |-> chunks, connections |-> connections]

(* Long runs that nobody follows, shorter ones that are, over one connection *)
(* and over two                                                              *)
Agents == {Run(Tasks, 4, 0), Run(Messages, 5, 0), Run(Nameless, 4, 1), Run(Calls, 4, 1),
           Run(Messages, 4, 1), Run(Calls, 3, 2), Run(Nameless, 3, 2), Run(Tasks, 2, 2),
           Run(Chat, 4, 1)}

Roles == {"ai", "tool", "chat"}
=============================================================================
