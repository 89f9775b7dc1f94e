-------------------------- MODULE DashboardEditor --------------------------
(***************************************************************************)
(* DashboardEditorPage and DashboardViewPage of one dashboard: the widgets *)
(* being arranged, the sheet in which one of them is configured, the       *)
(* request that saves them all, the cached copy both pages are filled      *)
(* from, and the tables dashboards and dashboard_widgets.                  *)
(*                                                                         *)
(* A save deletes the widgets and inserts the ones it brings, which gives  *)
(* them new ids: an id is told by the save that gave it out and a slot.    *)
(***************************************************************************)
EXTENDS Integers, QueryCache

CONSTANTS
    Slot,           \* places for widgets
    Content,        \* what a widget may be: its layout and its settings
    NewContent,     \* a widget that was just added
    Vacant,         \* no widget in the slot
    Gone,           \* there is no such dashboard
    MaxBoardWrites  \* bound: writes to the tables

ASSUME BoardConstants ==
    /\ NewContent \in Content
    /\ Vacant \notin Content
    /\ MaxBoardWrites \in Nat

VARIABLES
    board,       \* the dashboard and its widgets
    boardWrites, \* how often they were written
    boardQuery,  \* the cache entry ['dashboard', id]
    editor,      \* the page: its widgets, where their ids are from, the sheet
    boardCall,   \* the PUT of the widgets in flight
    savedAs      \* history: the version made by the save that led to the view, 0 if
                 \* none or if the first fetch was in flight by then, and whether the
                 \* refetch it waited for failed

boardVars == <<board, boardWrites, boardQuery, editor, boardCall, savedAs>>

Rev     == 0 .. MaxBoardWrites
Fresh   == -1   \* an id `new-...' that no save has given out

Widgets == [Slot -> Content \cup {Vacant}]
Board   == [widgets : Widgets, ids : Rev, rev : Rev]
NoWidgets == [s \in Slot |-> Vacant]

ASSUME NoBoardIsUndefined == NoData \notin Board

Sheet  == [slot : Slot, id : Rev \cup {Fresh}]
NoSheet == [slot |-> Vacant, id |-> 0]
Editor == [page : {"closed", "edit", "view"}, widgets : Widgets,
           ids : [Slot -> Rev \cup {Fresh}], sheet : Sheet \cup {NoSheet}]
ClosedEditor == [page |-> "closed", widgets |-> NoWidgets, ids |-> [s \in Slot |-> 0],
                 sheet |-> NoSheet]

NoSave    == [stage |-> "none"]
NotSaved  == [rev |-> 0, missed |-> FALSE]
BoardCall == {NoSave} \cup [stage : {"sent"}, body : Widgets]
                      \cup [stage : {"done", "refused", "settling"}, rev : Rev]

BoardInit ==
    /\ board = [widgets |-> NoWidgets, ids |-> 0, rev |-> 0]
    /\ boardWrites = 0
    /\ boardQuery = Empty
    /\ editor = ClosedEditor
    /\ boardCall = NoSave
    /\ savedAs = NotSaved

Editing == editor.page = "edit"
Viewing == editor.page = "view"

-----------------------------------------------------------------------------
(* The pages. *)

\* The effect on [dashboard]: an open sheet stays open.  No widgets are sent as null,
\* and then what is being arranged stays as well.
FillEditor(data) ==
    IF data.widgets = NoWidgets THEN editor
    ELSE [editor EXCEPT !.widgets = data.widgets, !.ids = [s \in Slot |-> data.ids]]

OpenEditor ==
    /\ editor.page = "closed"
    /\ editor' = [(IF boardQuery.data = NoData THEN ClosedEditor
                   ELSE FillEditor(boardQuery.data)) EXCEPT !.page = "edit"]
    /\ boardQuery' = Ask(boardQuery)
    /\ UNCHANGED <<board, boardWrites, boardCall, savedAs>>

OpenView ==
    /\ editor.page = "closed"
    /\ editor' = [ClosedEditor EXCEPT !.page = "view"]
    /\ boardQuery' = Ask(boardQuery)
    /\ UNCHANGED <<board, boardWrites, boardCall, savedAs>>

\* Cancel, and the way back from the view.  A save still in flight goes on as
\* one of the others' writes, and the jump to the view that its reply still
\* causes is this step and OpenView.
LeaveEditor ==
    /\ editor.page # "closed"
    /\ editor' = ClosedEditor
    /\ boardCall' = NoSave
    /\ savedAs' = NotSaved
    /\ UNCHANGED <<board, boardWrites, boardQuery>>

ById(s, id) == editor.widgets[s] # Vacant /\ editor.ids[s] = id

EditorOnly == UNCHANGED <<board, boardWrites, boardQuery, boardCall, savedAs>>

\* The sheet opens on the new widget at once.
AddWidget(s) ==
    /\ Editing
    /\ editor.widgets[s] = Vacant
    /\ editor' = [editor EXCEPT !.widgets[s] = NewContent, !.ids[s] = Fresh,
                                !.sheet = [slot |-> s, id |-> Fresh]]
    /\ EditorOnly

RemoveWidget(s) ==
    /\ Editing
    /\ editor.widgets[s] # Vacant
    /\ editor' = [editor EXCEPT !.widgets[s] = Vacant, !.ids[s] = 0]
    /\ EditorOnly

\* onLayoutChange: a widget is moved or resized.
MoveWidget(s, c) ==
    /\ Editing
    /\ editor.widgets[s] # Vacant
    /\ editor' = [editor EXCEPT !.widgets[s] = c]
    /\ EditorOnly

OpenSheet(s) ==
    /\ Editing
    /\ editor.widgets[s] # Vacant
    /\ editor' = [editor EXCEPT !.sheet = [slot |-> s, id |-> editor.ids[s]]]
    /\ EditorOnly

\* handleConfigSave finds the widget by its id; if it is gone, the settings are
\* dropped without a word.
Configured(c) ==
    IF ById(editor.sheet.slot, editor.sheet.id)
    THEN [editor.widgets EXCEPT ![editor.sheet.slot] = c] ELSE editor.widgets

SaveSheet(c) ==
    /\ Editing
    /\ editor.sheet # NoSheet
    /\ editor' = [editor EXCEPT !.widgets = Configured(c), !.sheet = NoSheet]
    /\ EditorOnly

CloseSheet ==
    /\ Editing
    /\ editor.sheet # NoSheet
    /\ editor' = [editor EXCEPT !.sheet = NoSheet]
    /\ EditorOnly

SaveBoard ==
    /\ Editing
    /\ boardCall = NoSave
    /\ boardCall' = [stage |-> "sent", body |-> editor.widgets]
    /\ UNCHANGED <<board, boardWrites, boardQuery, editor, savedAs>>

-----------------------------------------------------------------------------
(* The server. *)

WriteBoard(row) ==
    /\ boardWrites < MaxBoardWrites
    /\ boardWrites' = boardWrites + 1
    /\ board' = IF row = Gone THEN Gone ELSE [row EXCEPT !.rev = boardWrites + 1]
    /\ UNCHANGED <<boardQuery, editor, savedAs>>

WithWidgets(widgets) == [widgets |-> widgets, ids |-> boardWrites + 1, rev |-> 0]

\* SaveWidgets, in one transaction.
ApplySave ==
    /\ boardCall.stage = "sent"
    /\ board # Gone
    /\ WriteBoard(WithWidgets(boardCall.body))
    /\ boardCall' = [stage |-> "done", rev |-> boardWrites + 1]

\* 403, 404 or 500: nothing is written, and the page takes it for a success.
RefuseSave ==
    /\ boardCall.stage = "sent"
    /\ boardCall' = [stage |-> "refused", rev |-> 0]
    /\ UNCHANGED <<board, boardWrites, boardQuery, editor, savedAs>>

OthersSaveWidgets(widgets) ==
    /\ board # Gone
    /\ WriteBoard(WithWidgets(widgets))
    /\ UNCHANGED boardCall

\* A new title or new access: updated_at changes, and so does every copy.
OthersRename ==
    /\ board # Gone
    /\ WriteBoard(board)
    /\ UNCHANGED boardCall

OthersRemove ==
    /\ board # Gone
    /\ WriteBoard(Gone)
    /\ UNCHANGED boardCall

-----------------------------------------------------------------------------
(* The replies. *)

\* Focus, reconnection; the refresh button of the view, which invalidates.
RefetchBoard ==
    /\ \/ (Editing \/ Viewing) /\ AtRest(boardQuery) /\ boardQuery' = Ask(boardQuery)
       \/ Viewing /\ boardQuery' = Invalidate(boardQuery, TRUE)
    /\ UNCHANGED <<board, boardWrites, editor, boardCall, savedAs>>

\* handleSave goes on when the refetch its reply caused is over, and also when it
\* failed: to the view, of the same cache entry, which that mount asks for again.
Opened(q) ==
    IF boardCall.stage = "settling"
    THEN /\ boardQuery' = Ask(q)
         /\ boardCall' = NoSave
         /\ savedAs' = [rev |-> boardCall.rev, missed |-> q.fetch = "failed"]
         /\ editor' = [ClosedEditor EXCEPT !.page = "view"]
    ELSE /\ boardQuery' = q
         /\ editor' = IF Editing /\ q.data # boardQuery.data
                      THEN FillEditor(q.data) ELSE editor
         /\ UNCHANGED <<boardCall, savedAs>>

\* GetDashboard reads the row, then in a statement of its own the widgets.
ReadBoard ==
    /\ boardQuery.fetch = "asked"
    /\ boardQuery.answer = NoData
    /\ board # Gone
    /\ boardQuery' = ReadFirst(boardQuery, board)
    /\ UNCHANGED <<board, boardWrites, editor, boardCall, savedAs>>

\* The row, with its updated_at, as it was; the widgets as they are.
WidgetsOf(row) ==
    IF board = Gone THEN [row EXCEPT !.widgets = NoWidgets]
    ELSE [row EXCEPT !.widgets = board.widgets, !.ids = board.ids]

AnswerBoard ==
    /\ boardQuery.fetch = "asked"
    /\ boardQuery.answer # NoData
    /\ boardQuery' = Answer(boardQuery, WidgetsOf(boardQuery.answer))
    /\ UNCHANGED <<board, boardWrites, editor, boardCall, savedAs>>

\* 404 when the dashboard is gone, any other error, or no answer.
FailBoard ==
    /\ boardQuery.fetch = "asked"
    /\ Opened(Fail(boardQuery))
    /\ UNCHANGED <<board, boardWrites>>

DeliverBoard ==
    /\ boardQuery.fetch = "answered"
    /\ Opened(Deliver(boardQuery))
    /\ UNCHANGED <<board, boardWrites>>

\* Mutants of SaveReplied: the page does not wait for the refetch; the reply's
\* row is written into the cache.
SaveRepliedAtOnce ==
    /\ boardCall.stage \in {"done", "refused"}
    /\ boardCall' = NoSave
    /\ savedAs' = [rev |-> IF Joins(boardQuery) THEN 0 ELSE boardCall.rev, missed |-> FALSE]
    /\ editor' = [ClosedEditor EXCEPT !.page = "view"]
    /\ boardQuery' = Invalidate(boardQuery, TRUE)
    /\ UNCHANGED <<board, boardWrites>>

SaveRepliedWithRow ==
    /\ boardCall.stage \in {"done", "refused"}
    /\ boardCall' = [stage |-> "settling", rev |-> 0]
    /\ boardQuery' = IF board = Gone THEN boardQuery ELSE [boardQuery EXCEPT !.data = board]
    /\ UNCHANGED <<board, boardWrites, editor, savedAs>>

\* The reply, whatever its status: useSaveWidgets does not look at it.  A first
\* fetch that is still in flight is not asked again, and what is waited for is its
\* answer, which may be from before the save.
SaveReplied ==
    /\ boardCall.stage \in {"done", "refused"}
    /\ boardCall' = [stage |-> "settling",
                     rev |-> IF Joins(boardQuery) THEN 0 ELSE boardCall.rev]
    /\ boardQuery' = Invalidate(boardQuery, TRUE)
    /\ UNCHANGED <<board, boardWrites, editor, savedAs>>

\* The request or its reply is lost: mutateAsync throws and the editor stays.
SaveLost ==
    /\ boardCall.stage \in {"sent", "done", "refused"}
    /\ boardCall' = NoSave
    /\ UNCHANGED <<board, boardWrites, boardQuery, editor, savedAs>>

BoardNext ==
    \/ OpenEditor \/ OpenView \/ LeaveEditor \/ CloseSheet \/ SaveBoard
    \/ \E s \in Slot :
        \/ AddWidget(s) \/ RemoveWidget(s) \/ OpenSheet(s)
        \/ \E c \in Content : MoveWidget(s, c)
    \/ \E c \in Content : SaveSheet(c)
    \/ ApplySave \/ RefuseSave \/ SaveReplied \/ SaveLost
    \/ \E widgets \in Widgets : OthersSaveWidgets(widgets)
    \/ OthersRename \/ OthersRemove
    \/ RefetchBoard \/ ReadBoard \/ AnswerBoard \/ DeliverBoard \/ FailBoard

BoardSpec == BoardInit /\ [][BoardNext]_boardVars

-----------------------------------------------------------------------------
(* Properties. *)

BoardTypeOK ==
    /\ board \in Board \cup {Gone}
    /\ boardWrites \in Rev
    /\ boardQuery \in Entry(Board)
    /\ editor \in Editor
    /\ boardCall \in BoardCall
    /\ savedAs \in [rev : Rev, missed : BOOLEAN]

\* The copy both pages are filled from never goes back to an older version, also
\* when it was read while others wrote, and whichever fetches fail.
BoardCopy == INSTANCE CachedCopy WITH
    version <- boardWrites,
    copy <- IF boardQuery.data = NoData THEN -1 ELSE boardQuery.data.rev
BoardCopyNeverGoesBack == BoardCopy!Spec

\* The view that opens after a save shows that save or a later one from its first
\* frame on: handleSave waits for the refetch before it navigates.  If that refetch
\* failed, it does from the first fetch of its own on that arrives.  (A dashboard
\* that was deleted meanwhile is shown as it last was.)
ViewShowsOwnSave ==
    Viewing /\ savedAs.rev > 0 /\ (savedAs.missed => boardQuery.fetch = "idle") =>
        boardQuery.data # NoData /\ boardQuery.data.rev >= savedAs.rev
=============================================================================
