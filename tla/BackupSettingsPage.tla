--------------------------- MODULE BackupSettingsPage ---------------------------
(***************************************************************************)
(* The settings of a database's backups (pages/Backup.tsx; the list of     *)
(* backups, the other half of that page, is BackupListPage).  The settings *)
(* come from the query cache, an effect copies them to the form whenever   *)
(* they change, and the bar with Save is there while the two differ.       *)
(* `fields` stands for all of them but the access key, `access`: None, a   *)
(* key, or the Mask GET answers for it (SanitizeBackupSettingsForResponse).*)
(* `of` is whose settings they are.  A form that encrypts without a public *)
(* key is refused before anything is sent, and left out.                   *)
(***************************************************************************)
EXTENDS DashboardPage

Mask == 0

FreshForm(d) == [of |-> d, fields |-> Default, access |-> None]

(* The effect on [settings].                                               *)
CopySettings(v, settings) == IF settings = None THEN v ELSE [v EXCEPT !.form = settings]

BackupSettingsHooks(d) == [busy |-> {}, form |-> FreshForm(d)]

OpenBackupSettings ==
    /\ page = "backup settings"
    /\ \E d \in Dbs : \E asked \in MayRefetch("settings", d) :
         OpenAt(d, CopySettings(BackupSettingsHooks(d), kept["settings"][d]), asked)

SwitchBackupSettings ==
    /\ page = "backup settings"
    /\ \E d \in Dbs : \E asked \in MayRefetch("settings", d) :
         SwitchTo(d, CopySettings(view, kept["settings"][d]), asked)

(* hasSettingsChanges: there is something to compare with, and it differs. *)
HasSettingsChanges ==
    kept["settings"][at] # None /\ view.form # kept["settings"][at]

(* Mutant of BackupSettingsControls: Save without settings to compare with.*)
ControlsWithoutSettings ==
    IF Loading("settings") THEN {} ELSE {"edit", "automation", "save"} \ view.busy

(* Mutant of BackupSettingsControls: the button of a save stays enabled.   *)
ControlsDuringSave ==
    IF Loading("settings") THEN {}
    ELSE {"edit", "automation"} \cup (IF HasSettingsChanges THEN {"save", "reset"} ELSE {})

BackupSettingsControls ==
    IF Loading("settings") THEN {}
    ELSE {"edit", "automation"}
         \cup (IF HasSettingsChanges /\ "save" \notin view.busy THEN {"save", "reset"} ELSE {})

(* The structure of an answer is shared with the cached one: the effect    *)
(* runs only if they differ, and then what was typed is gone.              *)
SettingsFetched(r) ==
    /\ r.op = "settings"
    /\ LET new == r.ans # Failed /\ at = r.at /\ r.ans # kept["settings"][r.at] IN
       Settle(r, IF new THEN CopySettings(view, r.ans) ELSE view, Fetched(r), {}, {})

EditFields == \E v \in Vals \ {view.form.fields} : Act([view EXCEPT !.form.fields = v], {})

EditBackupSettings ==
    /\ "edit" \in BackupSettingsControls
    /\ \/ EditFields
       \/ \E k \in {Default, None} \ {view.form.access} :
            Act([view EXCEPT !.form.access = k], {})

(* openAutomationDialog and applyAutomationSettings: the draft of the      *)
(* dialog becomes two of the fields, or is forgotten.                      *)
ApplyAutomation == "automation" \in BackupSettingsControls /\ EditFields

SaveBackupSettings ==
    /\ "save" \in BackupSettingsControls
    /\ Act(Busy(view, "save"), {Request("save", view.form)})

ResetBackupSettings ==
    /\ "reset" \in BackupSettingsControls
    /\ Act([view EXCEPT !.form = kept["settings"][at]], {})

(* Mutant of BackupSettingsSaved: a failed save keeps the button disabled. *)
SavedOrStuck(r) ==
    /\ r.op = "save"
    /\ IF r.ans = Failed THEN Handle(r, view, {})
       ELSE Invalidate(r, Idle(view, "save"), "settings")

BackupSettingsSaved(r) ==
    /\ r.op = "save"
    /\ IF r.ans = Failed THEN Handle(r, Idle(view, "save"), {})
       ELSE Invalidate(r, Idle(view, "save"), "settings")

(* PrepareBackupSettingsForSave keeps the stored key for a blank one only. *)
BackupSettingsServer(r) ==
    LET stored == srv[r.at]
        s == IF r.op = "settings" THEN srv
             ELSE [srv EXCEPT ![r.at] = [r.arg EXCEPT
                      !.of = r.at, !.access = IF @ = None THEN stored.access ELSE @]] IN
    \/ ServerAnswers(r, s, [stored EXCEPT !.access = IF @ = None THEN None ELSE Mask])
    \/ ServerFails(r, s)

BackupSettingsNext ==
    /\ page = "backup settings"
    /\ \/ /\ at # None
          /\ \/ SwitchBackupSettings \/ EditBackupSettings \/ ApplyAutomation
             \/ SaveBackupSettings \/ ResetBackupSettings
       \/ \E r \in net : \/ SettingsFetched(r) \/ BackupSettingsSaved(r)
                         \/ BackupSettingsServer(r)

=============================================================================
