---------------------------- MODULE MonitoringPage ----------------------------
(***************************************************************************)
(* The form of the global metrics settings (pages/Monitoring.tsx): one     *)
(* GET when it is mounted, one POST when it is saved.  The sample rate is  *)
(* a number in the answer of GET and a text in the hooks' type, in what    *)
(* the inputs put there, and in what POST accepts: `text` says which one   *)
(* it is, and makes two equal rates differ for the page (!==).             *)
(***************************************************************************)
EXTENDS DashboardPage

MonitoringDefault == [on |-> TRUE, rate |-> Default, text |-> TRUE]

MonitoringHooks ==
    [busy |-> {"load"}, draft |-> MonitoringDefault, stored |-> MonitoringDefault]

OpenMonitoring ==
    page = "monitoring" /\ OpenAt(Server, MonitoringHooks, {Request("load", None)})

(* The page is a spinner until the first answer; the bar with Reset and    *)
(* Save is there while the draft differs from what was loaded, and its     *)
(* buttons are disabled while a save is out.  The inputs never are.        *)
MonitoringControls ==
    IF "load" \in view.busy THEN {}
    ELSE {"edit"} \cup (IF view.draft # view.stored /\ "save" \notin view.busy
                        THEN {"reset", "save"} ELSE {})

(* fetchSettings goes on: a failure leaves the defaults, and the form open.*)
MonitoringLoaded(r) ==
    /\ r.op = "load"
    /\ Handle(r, IF r.ans = Failed THEN Idle(view, "load")
                 ELSE [Idle(view, "load") EXCEPT !.draft = r.ans, !.stored = r.ans], {})

(* The switch, and the input and the buttons of the rate.                  *)
MonitoringEdit ==
    /\ "edit" \in MonitoringControls
    /\ \/ Act([view EXCEPT !.draft.on = ~@], {})
       \/ \E v \in Vals : /\ <<v, TRUE>> # <<view.draft.rate, view.draft.text>>
                          /\ Act([view EXCEPT !.draft.rate = v, !.draft.text = TRUE], {})

MonitoringSave ==
    /\ "save" \in MonitoringControls
    /\ Act(Busy(view, "save"), {Request("save", view.draft)})

(* handleSave goes on: what was sent is what is stored now, whatever was   *)
(* typed in the meantime.                                                  *)
MonitoringSaved(r) ==
    /\ r.op = "save"
    /\ Handle(r, IF r.ans = Failed THEN Idle(view, "save")
                 ELSE [Idle(view, "save") EXCEPT !.stored = r.arg], {})

MonitoringReset ==
    /\ "reset" \in MonitoringControls
    /\ Act([view EXCEPT !.draft = view.stored], {})

(* GET answers a number; POST binds its body to a struct with a text and   *)
(* refuses a number.                                                       *)
MonitoringServer(r) ==
    LET saved == [srv EXCEPT ![r.at] = [on |-> r.arg.on, rate |-> r.arg.rate]]
        s == IF r.op = "load" THEN srv ELSE saved IN
    \/ /\ r.op = "load"
       /\ ServerAnswers(r, srv,
            [on |-> srv[r.at].on, rate |-> srv[r.at].rate, text |-> FALSE])
    \/ r.op = "save" /\ r.arg.text /\ ServerAnswers(r, saved, Ok)
    \/ r.op = "save" /\ ~r.arg.text /\ ServerAnswers(r, srv, Failed)
    \/ (r.op = "save" => r.arg.text) /\ ServerFails(r, s)

MonitoringNext ==
    /\ page = "monitoring"
    /\ \/ at # None /\ (MonitoringEdit \/ MonitoringSave \/ MonitoringReset)
       \/ \E r \in net : MonitoringLoaded(r) \/ MonitoringSaved(r) \/ MonitoringServer(r)

=============================================================================
