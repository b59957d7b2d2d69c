-------------------------------- MODULE SQLPage --------------------------------
(***************************************************************************)
(* The SQL editor of a database (pages/SQLEditor.tsx): a text that is run, *)
(* the history of what was run, and an assistant that writes the text.     *)
(* Nothing is fetched when the page is opened and no effect depends on id, *)
(* so all its hooks survive a move to another database.  Vals are texts.   *)
(***************************************************************************)
EXTENDS DashboardPage, Sequences

CONSTANT HistoryMax   \* entries kept (50 in the code)

SQLHooks ==
    [busy |-> {}, active |-> TRUE, query |-> None, result |-> None,
     error |-> FALSE, history |-> <<>>, prompt |-> FALSE]

OpenSQL == page = "sql" /\ \E d \in Dbs : OpenAt(d, SQLHooks, {})

(* The status of the selected database comes from the context, as it was   *)
(* when the list of databases was last fetched.                            *)
ContextSaysActive ==
    \E b \in BOOLEAN \ {view.active} : Act([view EXCEPT !.active = b], {})

SwitchSQL == page = "sql" /\ \E d \in Dbs : SwitchTo(d, view, {})

(* A database that is not running is covered by an overlay.                *)
SQLControls ==
    IF ~view.active THEN {}
    ELSE {"edit", "clear history"}
         \cup (IF "run" \in view.busy THEN {} ELSE {"run"})
         \cup (IF "assistant" \in view.busy THEN {} ELSE {"prompt"})
         \cup (IF view.prompt /\ "assistant" \notin view.busy THEN {"assistant"} ELSE {})

(* Typing, a template, an entry of the history, Clear.                     *)
EditSQL ==
    /\ "edit" \in SQLControls
    /\ \E q \in Vals \cup {None} : q # view.query /\ Act([view EXCEPT !.query = q], {})

WritePrompt ==
    "prompt" \in SQLControls /\ ~view.prompt /\ Act([view EXCEPT !.prompt = TRUE], {})

ClearHistory ==
    /\ "clear history" \in SQLControls /\ view.history # <<>>
    /\ Act([view EXCEPT !.history = <<>>], {})

RunQuery ==
    /\ "run" \in SQLControls /\ view.query # None
    /\ Act([Busy(view, "run") EXCEPT !.error = FALSE, !.result = None],
           {Request("run", view.query)})

(* [entry, ...prev.slice(0, HistoryMax - 1)]                               *)
Remember(entry, prev) ==
    <<entry>> \o SubSeq(prev, 1, IF Len(prev) < HistoryMax THEN Len(prev) ELSE HistoryMax - 1)

(* runQuery goes on: the result is of the text and the database it was     *)
(* started with, whatever the page shows now.                              *)
QueryDone(r) ==
    /\ r.op = "run"
    /\ LET good == r.ans # Failed IN
       Handle(r, [Idle(view, "run") EXCEPT
                     !.result = IF good THEN [query |-> r.arg, of |-> r.at] ELSE @,
                     !.error = @ \/ ~good,
                     !.history = Remember([query |-> r.arg, good |-> good], @)], {})

AskAssistant ==
    /\ "assistant" \in SQLControls
    /\ Act(Busy(view, "assistant"), {Request("assistant", view.query)})

(* What the assistant wrote replaces the text, edited meanwhile or not.    *)
AssistantDone(r) ==
    /\ r.op = "assistant"
    /\ Handle(r, IF r.ans = Failed THEN Idle(view, "assistant")
                 ELSE [Idle(view, "assistant") EXCEPT !.query = r.ans, !.prompt = FALSE], {})

SQLServer(r) ==
    \/ r.op = "run" /\ (ServerAnswers(r, srv, Ok) \/ ServerFails(r, srv))
    \/ r.op = "assistant" /\ \E q \in Vals \cup {Failed} : ServerAnswers(r, srv, q)

SQLNext ==
    /\ page = "sql"
    /\ \/ /\ at # None
          /\ \/ SwitchSQL \/ ContextSaysActive \/ EditSQL \/ WritePrompt \/ ClearHistory
             \/ RunQuery \/ AskAssistant
       \/ \E r \in net : QueryDone(r) \/ AssistantDone(r) \/ SQLServer(r)

=============================================================================
