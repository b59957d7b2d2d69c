------------------------------- MODULE TablesPage -------------------------------
(***************************************************************************)
(* The rows of a database's tables (pages/Tables.tsx).  What decides which *)
(* rows are on the screen (page, page size, filter, sort) is one value, the*)
(* window; Items are the tables, and srv[d] is the first in d's list, which*)
(* is selected by itself.  An edited cell is kept by its position on the   *)
(* screen: `edits` is, for one position, what was there when it was typed. *)
(* The rows a cell refers to, shown beside the table, share no hook with   *)
(* the edits: a behaviour follows either the edits (page "tables") or the  *)
(* relations (page "relations").                                           *)
(***************************************************************************)
EXTENDS DashboardPage

CONSTANT Windows       \* ways to look at a table; First is how it is opened
First == CHOOSE w \in Windows : TRUE

Rows(d, t, w) == [of |-> d, table |-> t, window |-> w]

TablesHooks ==
    [busy |-> {"list"}, active |-> TRUE, error |-> FALSE, tables |-> {}, selected |-> None,
     window |-> First, data |-> None, edits |-> None, relation |-> "closed"]

(* The effect on [id, selectedDatabase]: fetchTables forgets the table and *)
(* the edits and asks for the list; `was` is the table of its closure.  A  *)
(* database that is not running has nothing to show.                       *)
FetchTables(v, active) ==
    IF active
    THEN [v EXCEPT !.busy = @ \cup {"list"}, !.active = TRUE, !.error = FALSE, !.selected = None,
                   !.data = None, !.edits = None, !.relation = "closed"]
    ELSE [v EXCEPT !.busy = @ \ {"list"}, !.active = FALSE, !.tables = {}, !.selected = None,
                   !.data = None, !.edits = None, !.relation = "closed"]
ListRequest(was, active) ==
    IF active THEN {Request("list", [table |-> was, window |-> First, edits |-> None])} ELSE {}

TablesPages == {"tables", "relations"}

OpenTables ==
    /\ page \in TablesPages
    /\ \E d \in Dbs, a \in BOOLEAN :
         OpenAt(d, FetchTables(TablesHooks, a), ListRequest(None, a))

SwitchTables ==
    page \in TablesPages /\ \E d \in Dbs : SwitchTo(d, FetchTables(view, view.active),
                                               ListRequest(view.selected, view.active))

(* DatabaseContext fetched the databases: selectedDatabase is a new object.*)
ContextRefreshed ==
    \E a \in BOOLEAN : Act(FetchTables(view, a), ListRequest(view.selected, a))

(* What can be pressed: an error replaces the page; Save and Discard are   *)
(* there while something is edited.                                        *)
TablesControls ==
    IF ~view.active \/ view.error THEN {}
    ELSE (IF "list" \in view.busy THEN {} ELSE {<<"table", t>> : t \in view.tables})
         \cup (IF view.data = None THEN {}
               ELSE {"window", IF page = "tables" THEN "edit" ELSE "relation"} \X {None}
                    \cup (IF "rows" \in view.busy THEN {} ELSE {<<"refresh", None>>})
                    \cup (IF view.edits # None /\ "save" \notin view.busy
                          THEN {"save", "discard"} \X {None} ELSE {}))
         \cup (IF view.relation = "closed" THEN {} ELSE {<<"close relation", None>>})

(* fetchTableData: another table forgets the rows on the screen, the same  *)
(* one keeps them until the new ones are there.  No case forgets the edits.*)
FetchRows(v, t, w) ==
    [Busy(v, "rows") EXCEPT !.selected = t, !.window = w,
                            !.data = IF t = v.selected THEN @ ELSE None,
                            !.relation = IF t = v.selected THEN @ ELSE "closed"]
RowsRequest(t, w) == {Request("rows", [table |-> t, window |-> w, edits |-> None])}

SelectTable(t) ==
    /\ <<"table", t>> \in TablesControls
    /\ \E w \in IF t = view.selected THEN Windows ELSE {First} :
          Act(FetchRows(view, t, w), RowsRequest(t, w))

(* handleSort asks for the table that was chosen last; the filter, and the *)
(* pagers, for the one on the screen.  A filter starts at the first page.  *)
ChangeWindow(t, w) ==
    /\ <<"window", None>> \in TablesControls
    /\ Act(FetchRows(view, t, w), RowsRequest(t, w))

SortRows(w) == ChangeWindow(view.selected, w)
FilterRows(w) == ChangeWindow(view.data.table, w)
TurnPage(w) == ChangeWindow(view.data.table, w)

RefreshRows ==
    /\ <<"refresh", None>> \in TablesControls
    /\ Act(FetchRows(view, view.selected, view.window),
           RowsRequest(view.selected, view.window))

EditCell ==
    /\ <<"edit", None>> \in TablesControls
    /\ Act([view EXCEPT !.edits = view.data], {})

DiscardEdits ==
    <<"discard", None>> \in TablesControls /\ Act([view EXCEPT !.edits = None], {})

(* handleSave looks up the rows of the edited positions in what is on the  *)
(* screen now.                                                             *)
SaveRows ==
    /\ <<"save", None>> \in TablesControls
    /\ Act(Busy(view, "save"),
           {Request("save", [table |-> view.data.table, window |-> view.data.window,
                             edits |-> view.edits])})

(* openRelationSubview; its answer fills whichever subview is open by then.*)
OpenRelation ==
    /\ <<"relation", None>> \in TablesControls
    /\ Act([view EXCEPT !.relation = "loading"],
           {Request("database", [table |-> view.data.table, window |-> First, edits |-> None])})

CloseRelation ==
    /\ <<"close relation", None>> \in TablesControls
    /\ Act([view EXCEPT !.relation = "closed"], {})

(* Open in Table: the table referred to, filtered.                         *)
OpenReferenced(t) ==
    /\ <<"close relation", None>> \in TablesControls
    /\ \E w \in Windows :
          Act([FetchRows(view, t, w) EXCEPT !.relation = "closed"], RowsRequest(t, w))

(* fetchTables goes on and opens the first table, in a new window unless   *)
(* that table was open when it began.                                      *)
TablesListed(r) ==
    /\ r.op = "list" /\ Back(r)
    /\ IF r.ans = Failed THEN Handle(r, [Idle(view, "list") EXCEPT !.error = TRUE], {})
       ELSE LET same == r.ans.table = r.arg.table
                v == [Idle(view, "list") EXCEPT !.tables = Items] IN
            \E w \in IF same THEN Windows ELSE {First} :
               Handle(r, [Busy(v, "rows") EXCEPT
                             !.selected = r.ans.table, !.window = w,
                             !.data = IF same THEN @ ELSE None,
                             !.relation = IF same THEN @ ELSE "closed"],
                      Sent(r.at, RowsRequest(r.ans.table, w)))

RowsFetched(r) ==
    /\ r.op = "rows"
    /\ Handle(r, IF r.ans = Failed THEN [Idle(view, "rows") EXCEPT !.error = TRUE]
                 ELSE [Idle(view, "rows") EXCEPT !.data = r.ans], {})

RelationFetched(r) ==
    /\ r.op = "database"
    /\ Handle(r, [view EXCEPT !.relation = IF @ = "closed" THEN @ ELSE "loaded"], {})

(* handleSave goes on: all edits are forgotten, and the table of its       *)
(* closure is fetched again from its first page.                           *)
RowsSaved(r) ==
    /\ r.op = "save"
    /\ IF r.ans = Failed THEN Handle(r, [Idle(view, "save") EXCEPT !.error = TRUE], {})
       ELSE \E w \in Windows :
              Handle(r, [Idle(view, "save") EXCEPT !.busy = @ \cup {"rows"}, !.edits = None,
                            !.selected = r.arg.table, !.window = w],
                     Sent(r.at, RowsRequest(r.arg.table, w)))

TablesServer(r) ==
    \/ ServerAnswers(r, srv, Rows(r.at, IF r.op = "list" THEN srv[r.at] ELSE r.arg.table,
                                  r.arg.window))
    \/ ServerFails(r, srv)

TablesNext ==
    /\ page \in TablesPages
    /\ \/ /\ at # None
          /\ \/ SwitchTables \/ ContextRefreshed \/ EditCell \/ DiscardEdits \/ SaveRows \/ RefreshRows
             \/ OpenRelation \/ CloseRelation
             \/ \E t \in Items : SelectTable(t) \/ OpenReferenced(t)
             \/ \E w \in Windows : SortRows(w) \/ FilterRows(w) \/ TurnPage(w)
       \/ \E r \in net : \/ TablesListed(r) \/ RowsFetched(r) \/ RelationFetched(r)
                         \/ RowsSaved(r) \/ TablesServer(r)

=============================================================================
