----------------------------- MODULE PolygonBuilder -----------------------------
(***************************************************************************)
(* The coverage polygons of the Polygon Builder page: drawing a draft,     *)
(* editing a saved polygon, the Add / Cut / Clip / Split strokes on either *)
(* and the undo stack they share, with the calls that save them.  A call   *)
(* is answered whenever the server likes, and what its handler does then   *)
(* does not look at what the operator has turned to since.                 *)
(*                                                                         *)
(* A shape is the edits that led to it: "move" moves a vertex, "cut" also  *)
(* changes how many there are.  Geometry, snapping, simplification, names, *)
(* zone memberships and the map itself are left out.                       *)
(***************************************************************************)
EXTENDS Integers, Sequences, FiniteSets, SequencesExt

CONSTANTS
  Polygons,    \* ids of coverage polygons: naturals from 1
  MaxUndo,     \* MAX_UNDO_STACK
  MaxDrawings, \* bound: drawings of which something is left
  MaxSteps,    \* bound: edits of one shape
  MaxCalls     \* bound: calls under way

ASSUME PbAssumption ==
  /\ Polygons \subseteq Nat \ {0} /\ MaxUndo \in Nat \ {0}
  /\ MaxDrawings \in Nat /\ MaxCalls \in Nat

\* PENDING_ID: the draft.
Draft == 0

\* What tells one drawing from the next; to the page all are PENDING_ID.
Drawings == {-n : n \in 1 .. MaxDrawings}

Edits == {"move", "cut"}

NoShape == [of |-> 0, by |-> <<"none">>]

VARIABLES
  stored, \* server: tblBulkRunPolygon, NoShape for a free or removed id
  listed, \* polygons
  draft,  \* pendingPolygon
  mode,   \* [on: "view", "stroke" (lasso, rectangle, circle) or "shape", id]: "pending"
          \* is "shape" of the draft
  op,     \* pendingBooleanOpRef: the target's id, -1 for none
  seen,   \* the drawing effect's closure: polygons and draft when the mode began
  drawn,  \* workingRings of the effect that shows handles
  undo,   \* editUndoStackRef, oldest first
  asking, \* openSaveModal
  saving, \* the number of the create call that the open dialog waits for, or 0
  calls   \* calls under way, numbered

pbVars == <<stored, listed, draft, mode, op, seen, drawn, undo, asking, saving, calls>>

naming == <<asking, saving>>

NoOp == -1

View == [on |-> "view", id |-> Draft]

Stroke == [on |-> "stroke", id |-> Draft]

\* returnToTargetMode.
ShapeOf(id) == [on |-> "shape", id |-> id]

Shaping(id) == mode = ShapeOf(id)

NothingSeen == [p \in Polygons \cup {Draft} |-> NoShape]

PbInit ==
  /\ LET p == CHOOSE p \in Polygons : TRUE
     IN  stored = [q \in Polygons |-> IF q = p THEN [of |-> q, by |-> <<>>] ELSE NoShape]
  /\ listed = stored
  /\ draft = NoShape /\ mode = View /\ op = NoOp /\ seen = NothingSeen
  /\ drawn = NoShape /\ undo = <<>> /\ asking = FALSE /\ saving = 0
  /\ calls = {}

-------------------------------------------------------------------------------
(* Shapes, the undo stack and the handles                                  *)

CanEdit(shape) == shape # NoShape /\ Len(shape.by) < MaxSteps

Edited(shape, e) == [shape EXCEPT !.by = Append(@, e)]

\* Ring and vertex counts, all the effect of the draft looks at.
Structure(shape) == IF shape = NoShape THEN -1 ELSE Cardinality({i \in DOMAIN shape.by : shape.by[i] = "cut"})

\* pushUndoSnapshot: the oldest goes when the stack is full.
Pushed(stack, snap) ==
  IF Len(stack) < MaxUndo THEN Append(stack, snap) ELSE Append(Tail(stack), snap)

\* popUndoSnapshot: whatever is on top by now.
Popped(stack) == IF stack = <<>> THEN <<>> ELSE Front(stack)

\* Mutant of Orphanless: the other polygon's snapshot stays on top and is given to id.
OrphansKept(stack, id) == [i \in DOMAIN stack |-> [stack[i] EXCEPT !.id = id]]

\* The discarding loop of undoLastBooleanOp.
Orphanless(stack, id) ==
  LET own == {i \in DOMAIN stack : stack[i].id = id}
  IN  SubSeq(stack, 1, CHOOSE n \in own \cup {0} : \A i \in own : i <= n)

\* The two effects that put handles on the map: on another mode or polygon, and for the draft
\* on another structure, or for a polygon on a save, they start from the state again.
Handles(m, d, list, saved) ==
  drawn' = IF m.on # "shape" THEN NoShape
           ELSE IF m.id = Draft
           THEN IF mode # m \/ Structure(d) # Structure(draft) THEN d ELSE drawn
           ELSE IF mode # m \/ m.id = saved THEN list[m.id] ELSE drawn

\* A drawing effect starts with its mode, and keeps what it saw.
Closure(m) ==
  seen' = IF m.on # "stroke" THEN NothingSeen
          ELSE IF mode.on = "stroke" THEN seen
          ELSE [i \in Polygons \cup {Draft} |-> IF i = Draft THEN draft ELSE listed[i]]

Turn(m) == mode' = m /\ Closure(m) /\ Handles(m, draft', listed', NoOp)

NextCall == CHOOSE n \in 1 .. MaxCalls : \A c \in calls : c.n # n

Ask(kind, id, rings, prior) ==
  /\ Cardinality(calls) < MaxCalls
  /\ calls' = calls \cup {[n |-> NextCall, kind |-> kind, id |-> id, rings |-> rings, prior |-> prior]}

-------------------------------------------------------------------------------
(* Drawing.  A dialog over the page takes the clicks.                      *)

\* startLasso, startRect, startCircle: from the toolbar and keys in view mode, and from the
\* map's context menu in every mode.
StartStroke ==
  /\ ~asking
  /\ UNCHANGED <<stored, listed, draft, op, undo, naming, calls>>
  /\ Turn(Stroke)

\* startBooleanOp.
StartOp ==
  /\ ~asking /\ mode.on = "shape"
  /\ op' = mode.id
  /\ UNCHANGED <<stored, listed, draft, undo, naming, calls>>
  /\ Turn(Stroke)

\* cancelLasso, cancelRect, cancelCircle, and a stroke that is too short.
CancelStroke ==
  /\ ~asking /\ mode = Stroke
  /\ op' = NoOp
  /\ UNCHANGED <<stored, listed, draft, undo, naming, calls>>
  /\ Turn(IF op = NoOp THEN View ELSE ShapeOf(op))

\* Drawings of which nothing is left.
NewDrawings ==
  {d \in Drawings : /\ draft.of # d /\ \A i \in DOMAIN undo : undo[i].rings.of # d
                    /\ \A c \in calls : c.rings.of # d}

\* finishStroke of a new shape: it takes the place of a draft, whose snapshots stay.
FinishNew ==
  /\ ~asking /\ mode = Stroke /\ op = NoOp
  /\ NewDrawings # {}
  /\ draft' = [of |-> CHOOSE d \in NewDrawings : TRUE, by |-> <<>>]
  /\ UNCHANGED <<stored, listed, op, undo, naming, calls>>
  /\ Turn(ShapeOf(Draft))

\* finishStroke for the draft; the operation may come out empty and change nothing.
FinishDraftOp(changes) ==
  /\ ~asking /\ mode = Stroke /\ op = Draft
  /\ IF changes /\ seen[Draft] # NoShape
     THEN /\ CanEdit(seen[Draft])
          /\ draft' = Edited(seen[Draft], "cut")
          /\ undo' = Pushed(undo, [id |-> Draft, rings |-> seen[Draft]])
     ELSE UNCHANGED <<draft, undo>>
  /\ op' = NoOp
  /\ UNCHANGED <<stored, listed, naming, calls>>
  /\ Turn(ShapeOf(Draft))

\* finishStroke for a saved polygon: the snapshot is pushed and the save goes out; the mode
\* stays until the answer.
FinishSavedOp ==
  /\ ~asking /\ mode = Stroke /\ op \in Polygons
  /\ CanEdit(seen[op])
  /\ undo' = Pushed(undo, [id |-> op, rings |-> seen[op]])
  /\ Ask("op", op, Edited(seen[op], "cut"), NoShape)
  /\ op' = NoOp
  /\ UNCHANGED <<stored, listed, draft, mode, seen, drawn, naming>>

-------------------------------------------------------------------------------
(* The draft                                                               *)

\* dragend on a handle of the draft: the drag has already moved the vertex.
MoveDraft ==
  /\ ~asking /\ Shaping(Draft) /\ CanEdit(drawn)
  /\ drawn' = Edited(drawn, "move") /\ draft' = drawn'
  /\ undo' = Pushed(undo, [id |-> Draft, rings |-> drawn'])
  /\ UNCHANGED <<stored, listed, mode, op, seen, naming, calls>>

\* A vertex inserted or deleted.
CutDraft ==
  /\ ~asking /\ Shaping(Draft) /\ CanEdit(drawn)
  /\ drawn' = Edited(drawn, "cut") /\ draft' = drawn'
  /\ undo' = Pushed(undo, [id |-> Draft, rings |-> drawn])
  /\ UNCHANGED <<stored, listed, mode, op, seen, naming, calls>>

\* Mutant of WithoutDraft: the snapshots of the draft stay.
DraftKept(stack) == stack

WithoutDraft(stack) ==
  LET others == {i \in DOMAIN stack : stack[i].id # Draft}
      Before(i) == Cardinality({k \in others : k < i})
  IN  [n \in 1 .. Cardinality(others) |-> stack[CHOOSE i \in others : Before(i) = n - 1]]

\* discardPending; Escape comes here under the save dialog too, the key handler having been
\* made before it opened.
DiscardDraft ==
  /\ Shaping(Draft)
  /\ draft' = NoShape /\ asking' = FALSE /\ saving' = 0
  /\ undo' = WithoutDraft(undo)
  /\ UNCHANGED <<stored, listed, op, calls>>
  /\ Turn(View)

\* openSaveForPending and the dialog's Cancel, which does not wait for a save: its `saving` goes.
AskName ==
  /\ asking \/ (Shaping(Draft) /\ draft # NoShape)
  /\ asking' = ~asking /\ saving' = 0
  /\ UNCHANGED <<stored, listed, draft, mode, op, seen, drawn, undo, calls>>

\* commit of SaveNewPolygonModal.
SaveDraft ==
  /\ asking /\ draft # NoShape /\ saving = 0
  /\ Ask("create", Draft, draft, NoShape)
  /\ saving' = NextCall
  /\ UNCHANGED <<stored, listed, draft, mode, op, seen, drawn, undo, asking>>

-------------------------------------------------------------------------------
(* Saved polygons                                                          *)

\* startEdit, from the rail or the menu: whatever the mode is, and leaving op and draft.
StartEdit(p) ==
  /\ ~asking /\ listed[p] # NoShape
  /\ UNCHANGED <<stored, listed, draft, op, undo, naming, calls>>
  /\ Turn(ShapeOf(p))

\* stopEdit.
StopEdit ==
  /\ ~asking /\ mode.on = "shape" /\ mode.id # Draft
  /\ undo' = <<>>
  /\ UNCHANGED <<stored, listed, draft, op, naming, calls>>
  /\ Turn(View)

\* A handle of a saved polygon: the handles show the edit at once, and commitShape saves it
\* with the shape the page had.
EditSaved(e) ==
  /\ ~asking /\ mode.on = "shape" /\ mode.id # Draft
  /\ CanEdit(drawn)
  /\ drawn' = Edited(drawn, e)
  /\ Ask("commit", mode.id, drawn', listed[mode.id])
  /\ UNCHANGED <<stored, listed, draft, mode, op, seen, undo, naming>>

\* undoLastBooleanOp.
Undo ==
  /\ ~asking /\ mode.on = "shape"
  /\ \E i \in DOMAIN undo : undo[i].id = mode.id
  /\ LET stack == Orphanless(undo, mode.id)
         snap == Last(stack)
     IN  /\ undo' = Front(stack)
         /\ IF mode.id = Draft
            THEN draft' = snap.rings /\ UNCHANGED calls
            ELSE Ask("undo", mode.id, snap.rings, NoShape) /\ UNCHANGED draft
  /\ UNCHANGED <<stored, listed, op, naming>>
  /\ Turn(mode)

\* removePolygon, once confirmed.
AskRemove(p) ==
  /\ ~asking /\ listed[p] # NoShape
  /\ Ask("remove", p, NoShape, NoShape)
  /\ UNCHANGED <<stored, listed, draft, mode, op, seen, drawn, undo, naming>>

\* useZipAsStartingShape, not while a saved polygon is edited, and combineSelectedAsShape: a
\* polygon of postcodes' outlines.
AskConvert ==
  /\ ~asking /\ (mode.on = "shape" => mode.id = Draft)
  /\ Ask("convert", Draft, [of |-> Draft, by |-> <<>>], NoShape)
  /\ UNCHANGED <<stored, listed, draft, mode, op, seen, drawn, undo, naming>>

-------------------------------------------------------------------------------
(* Answers                                                                 *)

Mapped(list, id, shape) == IF list[id] = NoShape THEN list ELSE [list EXCEPT ![id] = shape]

\* updateShape is accepted: from commitShape, applyBooleanOp or undoLastBooleanOp.
Saved(c) ==
  /\ c.kind \in {"commit", "op", "undo"}
  /\ stored[c.id] # NoShape
  /\ stored' = [stored EXCEPT ![c.id] = c.rings]
  /\ listed' = Mapped(listed, c.id, c.rings)
  /\ undo' = IF c.kind = "commit" /\ c.prior # NoShape
             THEN Pushed(undo, [id |-> c.id, rings |-> c.prior]) ELSE undo
  /\ LET m == IF c.kind = "op" THEN ShapeOf(c.id) ELSE mode
     IN  mode' = m /\ Closure(m) /\ Handles(m, draft, listed', c.id)
  /\ UNCHANGED <<draft, op, naming>>

\* It is refused (an overlap, a removed polygon) or lost.
NotSaved(c) ==
  /\ c.kind \in {"commit", "op", "undo"}
  /\ undo' = CASE c.kind = "op" -> Popped(undo)
               [] c.kind = "undo" -> Append(undo, [id |-> c.id, rings |-> c.rings])
               [] c.kind = "commit" -> undo
  /\ UNCHANGED <<stored, listed, draft, op, naming>>
  /\ Turn(IF c.kind = "op" THEN ShapeOf(c.id) ELSE mode)

\* A create answers: onPolygonCreated, which drops whatever draft there is by now, or a
\* conversion, which is edited at once.
Created(c, p) ==
  /\ c.kind \in {"create", "convert"}
  /\ stored[p] = NoShape /\ listed[p] = NoShape
  /\ \A i \in DOMAIN undo : undo[i].id # p
  /\ \A d \in calls : d.id # p
  /\ stored' = [stored EXCEPT ![p] = [c.rings EXCEPT !.of = p]]
  /\ listed' = [listed EXCEPT ![p] = stored'[p]]
  /\ IF c.kind = "create"
     THEN draft' = NoShape /\ asking' = FALSE /\ saving' = 0 /\ undo' = WithoutDraft(undo)
     ELSE UNCHANGED <<draft, naming, undo>>
  /\ UNCHANGED op
  /\ Turn(IF c.kind = "create" THEN View ELSE ShapeOf(p))

\* remove answers.
Removed(c) ==
  /\ c.kind = "remove"
  /\ stored' = [stored EXCEPT ![c.id] = NoShape]
  /\ listed' = [listed EXCEPT ![c.id] = NoShape]
  /\ UNCHANGED <<draft, mode, op, seen, drawn, undo, naming>>

\* A create or a remove fails; the dialog that made it can save again.
NotDone(c) ==
  /\ c.kind \in {"create", "convert", "remove"}
  /\ saving' = IF c.n = saving THEN 0 ELSE saving
  /\ UNCHANGED <<stored, listed, draft, mode, op, seen, drawn, undo, asking>>

Answer(c) ==
  /\ calls' = calls \ {c}
  /\ \/ Saved(c) \/ NotSaved(c) \/ Removed(c) \/ NotDone(c)
     \/ \E p \in Polygons : Created(c, p)

PbNext ==
  \/ StartStroke \/ StartOp \/ CancelStroke
  \/ FinishNew \/ FinishSavedOp \/ \E changes \in BOOLEAN : FinishDraftOp(changes)
  \/ MoveDraft \/ CutDraft \/ DiscardDraft \/ AskName \/ SaveDraft
  \/ \E p \in Polygons : StartEdit(p) \/ AskRemove(p)
  \/ StopEdit \/ Undo \/ AskConvert
  \/ \E e \in Edits : EditSaved(e)
  \/ \E c \in calls : Answer(c)

PbSpec == PbInit /\ [][PbNext]_pbVars

-------------------------------------------------------------------------------
(* Properties                                                              *)

\* Types; the undo stack passes its cap by the refused undos put back, of which there are no
\* more than calls under way at once.
PbTypeOK ==
  /\ mode.on \in {"view", "stroke", "shape"} /\ mode.id \in Polygons \cup {Draft}
  /\ op \in Polygons \cup {Draft, NoOp}
  /\ Len(undo) + Cardinality({c \in calls : c.kind = "undo"}) <= MaxUndo + MaxCalls
  /\ asking => draft # NoShape

\* Operators hop between the draft and several polygons with one undo stack: no saved polygon is
\* ever saved, shown or offered back with another one's shape, and no draft has that of a saved one.
\* A draft drawn over another may get back a shape of the other, by an undo.
ShapesKeptApart ==
  /\ \A p \in Polygons : stored[p] # NoShape => stored[p].of = p
  /\ \A c \in calls : c.kind \in {"commit", "op", "undo"} => c.rings.of = c.id
  /\ mode.on = "shape" /\ drawn # NoShape =>
       IF mode.id = Draft THEN drawn.of \in Drawings ELSE drawn.of = mode.id
  /\ draft # NoShape => draft.of \in Drawings

\* A draft that was saved or discarded, whichever answer is late, leaves no snapshot for the next
\* one ("Wipe pending undo entries so the next new-draft session starts clean", discardPending).
DraftLeavesNothing == draft = NoShape => \A i \in DOMAIN undo : undo[i].id # Draft

\* The draft's handles are made again when an undo has changed it: what the map shows is
\* what "Finish drawing" saves.
DrawnIsDraft == Shaping(Draft) => drawn = draft

===============================================================================
