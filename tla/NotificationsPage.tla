--------------------------- MODULE NotificationsPage ---------------------------
(***************************************************************************)
(* The channels, events and master switch of the server's notifications    *)
(* (pages/Notifications.tsx): three documents behind one form and one Save *)
(* button.  `channels` stands for the SMTP and Discord fields (a blank port*)
(* is the default port, for the page as for the server).                   *)
(*                                                                         *)
(* And which events of a database are announced (pages/                    *)
(* DatabaseNotifications.tsx): one document of the database, with which    *)
(* the master switch of the server is read.                                *)
(***************************************************************************)
EXTENDS DashboardPage, Sequences

(* Mutant of Documents: the switch before what it switches on.             *)
MasterFirst == <<"master", "channels", "events">>

Documents == <<"channels", "events", "master">>

NotificationsDefault == [channels |-> Default, events |-> Default, master |-> FALSE]

NotificationsHooks ==
    [busy |-> {"load"}, draft |-> NotificationsDefault, stored |-> NotificationsDefault]

OpenNotifications ==
    page = "notifications" /\ OpenAt(Server, NotificationsHooks, {Request("load", None)})

(* The form is there after the first answer and never disabled.  The tests,*)
(* of the e-mail and of Discord, want the switch of the form, saved or not.*)
Tests == {"email", "discord"}

NotificationsControls ==
    IF "load" \in view.busy THEN {}
    ELSE {"edit"}
         \cup (IF view.draft # view.stored /\ "save" \notin view.busy THEN {"save"} ELSE {})
         \cup (IF view.draft.master /\ "save" \notin view.busy
               THEN Tests \ view.busy ELSE {})

(* fetchSettings goes on when the three GETs are back, all of them well.   *)
NotificationsLoaded(r) ==
    /\ r.op = "load"
    /\ Handle(r, IF r.ans = Failed THEN Idle(view, "load")
                 ELSE [Idle(view, "load") EXCEPT !.draft = r.ans, !.stored = r.ans], {})

(* updateField, setGlobalPreference and the master switch.  Bound: who     *)
(* changes a channel changes the events with it.                           *)
EditChannels(v) ==
    /\ "edit" \in NotificationsControls /\ {v} # {view.draft.channels, view.draft.events}
    /\ Act([view EXCEPT !.draft.channels = v, !.draft.events = v], {})

EditMaster ==
    "edit" \in NotificationsControls /\ Act([view EXCEPT !.draft.master = ~@], {})

SaveDocument(n, form) == Request(Documents[n], [form |-> form, next |-> n + 1])

SaveNotifications ==
    /\ "save" \in NotificationsControls
    /\ Act(Busy(view, "save"), {SaveDocument(1, view.draft)})

(* handleSave goes on, one document after the other; what was sent becomes *)
(* the form and what it is compared with once the third is stored.  What   *)
(* was typed in the meantime is gone.                                      *)
DocumentSaved(r) ==
    /\ r.op \in {"channels", "events", "master"}
    /\ IF r.ans = Failed
       THEN Handle(r, Idle(view, "save"), {})
       ELSE IF r.arg.next <= Len(Documents)
       THEN Handle(r, view, Sent(r.at, {SaveDocument(r.arg.next, r.arg.form)}))
       ELSE Handle(r, [Idle(view, "save") EXCEPT
                          !.draft = r.arg.form, !.stored = r.arg.form], {})

TestChannel(channel) ==
    /\ channel \in Tests \cap NotificationsControls
    /\ Act(Busy(view, channel), {Request(channel, [form |-> NotificationsDefault, next |-> 0])})

ChannelTested(r) == r.op \in Tests /\ Handle(r, Idle(view, r.op), {})

(* Each PUT stores its own document and knows nothing of the other two.    *)
NotificationsServer(r) ==
    LET s == IF r.op \in {"channels", "events", "master"}
             THEN [srv EXCEPT ![r.at][r.op] = r.arg.form[r.op]] ELSE srv IN
    \/ ServerAnswers(r, s, IF r.op = "load" THEN srv[r.at] ELSE Ok)
    \/ ServerFails(r, s)

NotificationsNext ==
    /\ page = "notifications"
    /\ \/ /\ at # None
          /\ \/ EditMaster \/ SaveNotifications
             \/ \E channel \in Tests : TestChannel(channel)
             \/ \E v \in Vals : EditChannels(v)
       \/ \E r \in net : \/ NotificationsLoaded(r) \/ DocumentSaved(r) \/ ChannelTested(r)
                         \/ NotificationsServer(r)

-----------------------------------------------------------------------------
(* The page of a database. *)

PreferencesHooks ==
    [busy |-> {"load"}, draft |-> Default, stored |-> Default,
     master |-> FALSE]

OpenPreferences ==
    /\ page = "preferences"
    /\ \E d \in Dbs : OpenAt(d, PreferencesHooks, {Request("load", None)})

(* The effect on [id, token, logout]: the draft of the old database stays  *)
(* in the hooks, behind the spinner.                                       *)
SwitchPreferences ==
    /\ page = "preferences"
    /\ \E d \in Dbs :
        SwitchTo(d, Busy(view, "load"), {Request("load", None)})

PreferencesControls ==
    IF "load" \in view.busy \/ ~view.master \/ "save" \in view.busy THEN {}
    ELSE {"edit"} \cup (IF view.draft # view.stored THEN {"save"} ELSE {})

(* The two GETs joined by Promise.all: the preferences of the database and *)
(* the master switch.  The save is refused while the switch is off.        *)
PreferencesServer(r) ==
    \/ /\ r.op = "load"
       /\ \E m \in BOOLEAN :
            ServerAnswers(r, srv, [prefs |-> srv[r.at], master |-> m])
    \/ r.op = "load" /\ ServerFails(r, srv)
    \/ /\ r.op = "save"
       /\ LET s == [srv EXCEPT ![r.at] = r.arg] IN
            \/ ServerAnswers(r, s, [prefs |-> r.arg, master |-> TRUE])
            \/ ServerFails(r, s)

PreferencesLoaded(r) ==
    /\ r.op = "load"
    /\ Handle(r, IF r.ans = Failed THEN Idle(view, "load")
                 ELSE [Idle(view, "load") EXCEPT !.draft = r.ans.prefs,
                           !.stored = r.ans.prefs, !.master = r.ans.master], {})

PreferencesEdit(v) ==
    /\ "edit" \in PreferencesControls
    /\ v # view.draft
    /\ Act([view EXCEPT !.draft = v], {})

PreferencesSave ==
    /\ "save" \in PreferencesControls
    /\ Act(Busy(view, "save"), {Request("save", view.draft)})

(* The answer of the save is the stored document: both copies become it.   *)
PreferencesSaved(r) ==
    /\ r.op = "save"
    /\ Handle(r, IF r.ans = Failed THEN Idle(view, "save")
                 ELSE [Idle(view, "save") EXCEPT !.draft = r.ans.prefs,
                           !.stored = r.ans.prefs], {})

PreferencesNext ==
    /\ page = "preferences"
    /\ \/ at # None /\ \/ \E v \in Vals : PreferencesEdit(v)
                         \/ PreferencesSave \/ SwitchPreferences
       \/ \E r \in net : PreferencesLoaded(r) \/ PreferencesSaved(r) \/ PreferencesServer(r)

=================================================================================
