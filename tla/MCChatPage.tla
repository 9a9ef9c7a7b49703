----------------------------- MODULE MCChatPage -----------------------------
(***************************************************************************)
(* TLC instance of ChatPage.                                               *)
(***************************************************************************)
EXTENDS ChatPage

\* Writes and bookmark clicks commute with the steps of a running turn, and of
\* an edit whose truncation is done: they are explored before and after.
NoReload == used'.reloads = used.reloads

TurnsUndisturbed ==
    NoReload /\ (turn # NoTurn \/ (edit.phase = "done" /\ edit' = edit)) =>
        UNCHANGED <<stored, marked, sent, marks, active>>

\* Bound: a page load is told of its bookmarks before its rooms; the other way
\* round differs only if a room is deleted in between.
MarksLoadedFirst == loaded'.rooms => loaded.rooms \/ loaded.marks

Reduced == TurnsUndisturbed /\ MarksLoadedFirst

\* Bound: turns, rooms, changes, bookmarks, page loads and faults together, a
\* change counted twice; a page whose user acted on what an edit or a restore
\* was about to replace is not followed further.
CONSTANT MaxEvents

FewEvents ==
    /\ used.turns + used.threads - 1 + 2 * used.changes + used.marks
           + used.reloads + used.faults <= MaxEvents
    /\ "overlap" \notin harmed
=============================================================================
