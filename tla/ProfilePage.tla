------------------------------ MODULE ProfilePage ------------------------------
(***************************************************************************)
(* The user's own account (pages/Profile.tsx).  The page shows the copy of *)
(* the user AuthContext holds (`kept`, in localStorage too), and replaces  *)
(* it when a save is answered, by the copy the handler started with and    *)
(* the fields it saved.                                                    *)
(***************************************************************************)
EXTENDS DashboardPage

ProfileHooks ==
    [busy |-> {"status"}, name |-> kept.name, configured |-> FALSE]

OpenProfile == page = "profile" /\ OpenAt(Server, ProfileHooks, {Request("load", None)})

(* Each form has its own flag; the picture's input has none.  What the     *)
(* inputs of the password and of the key hold is picked when they are sent:*)
(* the passwords match (the others are refused before anything is sent).   *)
ProfileControls ==
    {"edit", "avatar"} \cup ({"profile", "password"} \ view.busy)
    \cup (IF "key" \in view.busy THEN {}
          ELSE {"key"} \cup (IF view.configured THEN {"remove key"} ELSE {}))

EditProfile ==
    /\ "edit" \in ProfileControls
    /\ \E v \in Vals \ {view.name} : Act([view EXCEPT !.name = v], {})

UpdateProfile ==
    /\ "profile" \in ProfileControls
    /\ Act(Busy(view, "profile"), {Request("profile", [kept EXCEPT !.name = view.name])})

ChangePassword ==
    /\ "password" \in ProfileControls
    /\ Act(Busy(view, "password"), {Request("password", kept)})

(* The answer carries the address of the new picture.                      *)
UploadAvatar ==
    /\ "avatar" \in ProfileControls
    /\ Act(Busy(view, "avatar"), {Request("avatar", kept)})

(* saveOpenRouterKey: a blank key removes it, and Remove Key blanks it.    *)
SaveKey(key) ==
    /\ "key" \in ProfileControls \/ ("remove key" \in ProfileControls /\ key = None)
    /\ Act(Busy(view, "key"), {Request("key", key)})

(* updateUser renders AuthProvider again, which makes a new `logout`, on   *)
(* which the effect that loads the key's status depends.                   *)
UserSaved(r) ==
    /\ r.op \in {"profile", "avatar"}
    /\ IF r.ans = Failed THEN Handle(r, Idle(view, r.op), {})
       ELSE Settle(r, Busy(Idle(view, r.op), "status"),
                   [r.arg EXCEPT !.avatar = IF r.op = "avatar" THEN r.ans.avatar ELSE @], {},
                   IF r.mine THEN {Request("load", None)} ELSE {})

PasswordChanged(r) == r.op = "password" /\ Handle(r, Idle(view, "password"), {})

KeySaved(r) ==
    /\ r.op = "key"
    /\ Handle(r, IF r.ans = Failed THEN Idle(view, "key")
                 ELSE [Idle(view, "key") EXCEPT !.configured = r.ans.key], {})

(* loadOpenRouterStatus goes on; two of them share a flag.                 *)
KeyStatusLoaded(r) ==
    /\ r.op = "load"
    /\ Handle(r, IF r.ans = Failed THEN Idle(view, "status")
                 ELSE [Idle(view, "status") EXCEPT !.configured = r.ans.key], {})

(* Each endpoint writes its own columns of the user's row.                 *)
ProfileServer(r) ==
    LET u == srv[r.at]
        done(s) == ServerAnswers(r, s, s[r.at]) \/ ServerFails(r, s) IN
    \/ r.op = "profile" /\ done([srv EXCEPT ![r.at].name = r.arg.name])
    \/ r.op = "avatar" /\ \E v \in Vals \ {u.avatar} : done([srv EXCEPT ![r.at].avatar = v])
    \/ r.op = "key" /\ done([srv EXCEPT ![r.at].key = r.arg # None])
    \/ r.op \in {"load", "password"} /\ done(srv)

ProfileNext ==
    /\ page = "profile"
    /\ \/ /\ at # None
          /\ \/ EditProfile \/ UpdateProfile \/ ChangePassword \/ UploadAvatar
             \/ \E k \in {None, "typed"} : SaveKey(k)
       \/ \E r \in net : \/ UserSaved(r) \/ PasswordChanged(r) \/ KeySaved(r)
                         \/ KeyStatusLoaded(r) \/ ProfileServer(r)

=============================================================================
