--------------------------- MODULE TopologyCardsPage ---------------------------
(***************************************************************************)
(* The cards of backups and automations on the map (pages/Containers.tsx,  *)
(* server side main.go).  A user's cards are one document, which the page  *)
(* polls, normalises against the settings of the databases' backups, and   *)
(* saves whole whenever its copy differs from what it last read or saved.  *)
(* An attached card is shown only while the settings of its database say   *)
(* so; a database whose settings say so and that has no card is shown with *)
(* one made up on the spot (its id is the database's here).                *)
(* Settings are "off", "on" or "auto" (on, with automation).  Out: where   *)
(* cards lie, what they hold besides their links, automations that are off,*)
(* the server's profile of a card, and what a failed poll hides, which is  *)
(* ContainersPage's.                                                       *)
(***************************************************************************)
EXTENDS DashboardPage, Sequences
LOCAL INSTANCE SequencesExt

CONSTANT Automations    \* ids of automation cards (Items are those of backup cards)

NoCards == [backups |-> <<>>, autos |-> <<>>]
Ids(cards) == {cards[i].id : i \in DOMAIN cards}

(* The id of the first card attached to d.                                 *)
FirstOn(cards, d) ==
    LET i == SelectInSeq(cards, LAMBDA c : c.db = d) IN IF i = 0 THEN None ELSE cards[i].id

With(c, S) == [c EXCEPT !.backup = IF @ \in S THEN @ ELSE None]

(* normalizeStoredServiceCards: attached cards stay if their database is   *)
(* there, its settings say so and no other card came before them; links to *)
(* what is gone are cut.                                                   *)
Normalised(doc, dbs, settings) ==
    LET Stays(cards, says, c) ==
            \/ c.db = None
            \/ c.db \in dbs /\ settings[c.db] \in says /\ FirstOn(cards, c.db) = c.id
        backups == SelectSeq(doc.backups, LAMBDA c : Stays(doc.backups, {"on", "auto"}, c))
        autos == SelectSeq(doc.autos, LAMBDA c : Stays(doc.autos, {"auto"}, c))
        Relinked(c) == IF c.db = None THEN With(c, Ids(backups))
                       ELSE IF FirstOn(backups, c.db) = None THEN c
                       ELSE [c EXCEPT !.backup = FirstOn(backups, c.db)] IN
    [backups |-> backups, autos |-> [i \in DOMAIN autos |-> Relinked(autos[i])]]

(* deriveEffectiveBackupCards and deriveEffectiveAutomationCards: what the *)
(* map shows of the cards, and what it makes up.                           *)
BackupsShown(v) ==
    LET on == {d \in v.dbs : v.settings[d] # "off"}
        OnDb(d) == FirstOn(v.doc.backups, d) IN
    {c \in Range(v.doc.backups) : c.db = None \/ (c.db \in on /\ OnDb(c.db) = c.id)}
    \cup {[id |-> d, db |-> d] : d \in {e \in on : OnDb(e) = None}}

AutomationsShown(v) ==
    LET auto == {d \in v.dbs : v.settings[d] = "auto"}
        OnDb(d) == FirstOn(v.doc.autos, d)
        Backup(d) == CHOOSE b \in {c.id : c \in {e \in BackupsShown(v) : e.db = d}} : TRUE IN
    {c \in Range(v.doc.autos) : c.db = None}
    \cup {[c EXCEPT !.backup = Backup(c.db)] :
            c \in {e \in Range(v.doc.autos) : e.db \in auto /\ OnDb(e.db) = e.id}}
    \cup {[id |-> d, db |-> d, backup |-> Backup(d)] : d \in {e \in auto : OnDb(e) = None}}

TopologyPages == {"cards", "card removal"}

TopologyHooks ==
    [busy |-> {"load"}, hydrated |-> FALSE, dbs |-> {}, settings |-> [d \in Dbs |-> "off"],
     doc |-> NoCards, last |-> NoCards, assign |-> None, remove |-> None]

(* The effect on the cards saves them if they are not what was last read   *)
(* or saved.  A handler that calls persistServiceCards with the same cards *)
(* sends the document a second time; one request stands for both, and the  *)
(* handler `then` goes on when it is answered.                             *)
Unsaved(v) == v.hydrated /\ v.doc # v.last
SaveCards(v, then) ==
    IF Unsaved(v) THEN {Request("save cards", [doc |-> v.doc, then |-> then])} ELSE {}

FetchMap(then) == Request("load", then)

OpenTopology ==
    /\ page \in TopologyPages
    /\ OpenAt(Server, TopologyHooks, {FetchMap("poll")})

PollMap == Act(Busy(view, "load"), {FetchMap("poll")})

(* A handler is over: its flag, and its dialog if all went well.           *)
HandlerEnds(v, then) ==
    IF then = "assign" THEN Idle(v, "assign")
    ELSE IF then = "remove" THEN [Idle(v, "remove") EXCEPT !.remove = None]
    ELSE v

(* The databases are shown at once, their settings are asked for.  The     *)
(* handler that waits does not learn that a fetch failed.                  *)
MapFetched(r) ==
    /\ r.op = "load"
    /\ IF r.ans = Failed THEN Handle(r, HandlerEnds(Idle(view, "load"), r.arg), {})
       ELSE Handle(r, [view EXCEPT !.dbs = r.ans.dbs],
                   {Request("list", [of |-> r.ans, then |-> r.arg])})

(* The cards are taken from the document if it is not the one last seen.   *)
SettingsListed(r) ==
    /\ r.op = "list" /\ Back(r)
    /\ LET raw == r.arg.of.doc
           settings == [d \in Dbs |-> IF d \in r.arg.of.dbs THEN r.ans[d] ELSE "off"]
           new == [view EXCEPT !.settings = settings, !.hydrated = TRUE]
           v == IF ~r.mine THEN view
                ELSE IF raw = view.last THEN new
                ELSE [new EXCEPT !.doc = Normalised(raw, r.arg.of.dbs, settings), !.last = raw]
           asked == IF r.mine /\ (v.doc # view.doc \/ ~view.hydrated)
                    THEN SaveCards(v, "effect") ELSE {} IN
       Handle(r, HandlerEnds(Idle(v, "load"), r.arg.then), asked)

(* Nothing covers the map.                                                 *)
MapShown(kind) == page = kind /\ view.assign = None /\ view.remove = None

(* The dialog of a new backup card, submitted.                             *)
CreateBackupCard ==
    /\ MapShown("cards") /\ "create" \notin view.busy
    /\ \E id \in Items :
         /\ \A doc \in {view.doc, view.last, srv[Server].doc}
                       \cup {r.arg.doc : r \in {q \in net : q.op = "save cards"}} :
               id \notin Ids(doc.backups)
         /\ Act(Busy(view, "create"), {Request("create", id)})

BackupCardCreated(r) ==
    /\ r.op = "create"
    /\ LET v == Idle(view, "create")
           new == [v EXCEPT !.doc.backups = Append(@, [id |-> r.arg, db |-> None])] IN
       IF r.ans = Failed THEN Handle(r, v, {})
       ELSE Handle(r, new, IF r.mine THEN SaveCards(new, "effect") ELSE {})

(* An automation card is only made here.                                   *)
CreateAutomationCard ==
    /\ MapShown("cards") /\ view.hydrated
    /\ \E id \in Automations \ Ids(view.doc.autos) :
         LET v == [view EXCEPT !.doc.autos = Append(@, [id |-> id, db |-> None, backup |-> None])] IN
         Act(v, SaveCards(v, "effect"))

(* A backup card is dropped on a database, or a line drawn between them.   *)
DropBackupOnDatabase ==
    /\ MapShown("cards")
    /\ \E c \in BackupsShown(view), d \in view.dbs :
         Act([view EXCEPT !.assign = [card |-> c.id, db |-> d]], {})

CloseMapDialog ==
    \/ view.assign # None /\ Act([view EXCEPT !.assign = None], {})
    \/ view.remove # None /\ Act([view EXCEPT !.remove = None], {})

(* confirmBackupAssignment.  Its refusals are told and change nothing: the *)
(* card is on another database, the database shows another card, or the    *)
(* card is made up.  `doc` is the closure's, and `fails` whether the       *)
(* automations to be linked would meet settings that are off in it.        *)
ConfirmAssignment ==
    /\ view.assign # None /\ "assign" \notin view.busy
    /\ LET a == view.assign IN
       /\ \E c \in BackupsShown(view) : c.id = a.card /\ c.db \in {None, a.db}
       /\ a.card \in Ids(view.doc.backups)
       /\ \A c \in BackupsShown(view) : c.db = a.db => c.id = a.card
       /\ Act(Busy(view, "assign"),
              {Request("apply", [card |-> a.card, db |-> a.db, doc |-> view.doc, then |-> "assign",
                                 fails |-> view.settings[a.db] = "off"])})

(* The automations of an assignment, and the document it ends with.        *)
Linked(a) == {c.id : c \in {x \in Range(a.doc.autos) : x.backup = a.card \/ x.db = a.db}}
Attach(cards, ids, d) ==
    [i \in DOMAIN cards |-> IF cards[i].id \in ids THEN [cards[i] EXCEPT !.db = d] ELSE cards[i]]
Assigned(a) == [backups |-> Attach(a.doc.backups, {a.card}, a.db),
                autos |-> Attach(a.doc.autos, Linked(a), a.db)]

(* The fetch a handler ends with; for a page that is gone it shows nothing.*)
Refresh(r, then) == IF r.mine THEN {FetchMap(then)} ELSE {}

(* A handler has the document it wants: it is saved, and if there is       *)
(* nothing to save the handler goes on as if it were.  A page that is gone *)
(* has no effect, but its handler saves what differs from its closure's.   *)
SaveThen(r, doc, old, then) ==
    LET v == [view EXCEPT !.doc = doc] IN
    IF (r.mine /\ Unsaved(v)) \/ (~r.mine /\ doc # old)
    THEN Handle(r, v, {Request("save cards", [doc |-> doc, then |-> then])})
    ELSE Handle(r, IF then = "assign" THEN [v EXCEPT !.assign = None] ELSE v, Refresh(r, then))

(* The card is attached.  With automations to link, the handler gives up   *)
(* if the settings it knew were off, and else applies them to the settings *)
(* before it attaches them as well.                                        *)
Applied(r) ==
    /\ r.op = "apply" /\ Back(r)
    /\ LET a == r.arg
           v == [view EXCEPT !.doc.backups = Assigned(a).backups]
           effect == IF r.mine THEN SaveCards(v, "effect") ELSE {} IN
       IF r.ans = Failed THEN Handle(r, Idle(view, "assign"), {})
       ELSE IF Linked(a) = {} THEN SaveThen(r, Assigned(a), a.doc, "assign")
       ELSE IF a.fails THEN Handle(r, Idle(v, "assign"), effect)
       ELSE Handle(r, v, effect \cup {Request("automate", a)})

(* Automation was switched on: for an assignment, or for a line drawn from *)
(* an automation to an attached backup.                                    *)
Automated(r) ==
    /\ r.op = "automate" /\ Back(r)
    /\ LET a == r.arg IN
       IF r.ans = Failed THEN Handle(r, IF a.then = "assign" THEN Idle(view, "assign") ELSE view, {})
       ELSE IF a.then = "assign" THEN SaveThen(r, Assigned(a), a.doc, "assign")
       ELSE Handle(r, view, Refresh(r, "link"))

(* persistServiceCards returned, or failed, and the handler goes on.       *)
CardsSaved(r) ==
    /\ r.op = "save cards" /\ Back(r)
    /\ LET v == [view EXCEPT !.last = r.arg.doc]
           then == r.arg.then IN
       IF r.ans = Failed
       THEN Handle(r, IF then \in {"assign", "remove"} THEN Idle(view, then) ELSE view, {})
       ELSE IF then \in {"assign", "remove"}
       THEN Handle(r, IF then = "assign" THEN [v EXCEPT !.assign = None] ELSE v, Refresh(r, then))
       ELSE IF then = "link" /\ r.arg.db # None
       THEN Handle(r, v, {Request("automate", [db |-> r.arg.db, then |-> "link"])})
       ELSE Handle(r, v, {})

(* A line is drawn from an automation to a backup (handleMapConnect).      *)
LinkAutomation ==
    /\ MapShown("cards")
    /\ \E b \in BackupsShown(view), c \in AutomationsShown(view) :
         LET others == {o \in AutomationsShown(view) : o.id # c.id}
             v == [view EXCEPT !.doc.autos = [i \in DOMAIN @ |->
                      IF @[i].id = c.id THEN [@[i] EXCEPT !.backup = b.id, !.db = b.db] ELSE @[i]]] IN
         /\ c.id \in Ids(view.doc.autos)
         /\ c.backup \in {None, b.id}
         /\ \A o \in others : o.backup # b.id /\ (b.db # None => o.db # b.db)
         /\ Act(v, IF Unsaved(v)
                   THEN {Request("save cards", [doc |-> v.doc, then |-> "link", db |-> b.db])}
                   ELSE IF b.db = None THEN {}
                   ELSE {Request("automate", [db |-> b.db, then |-> "link"])})

(* What a user can have made before anything is deleted: a backup card,    *)
(* attached or not, with an automation or without.                         *)
CardsBefore ==
    {[backups |-> <<[id |-> i, db |-> d]>>, autos |-> <<>>] :
        i \in Items, d \in Dbs \cup {None}}
    \cup {[backups |-> <<[id |-> i, db |-> d]>>, autos |-> <<[id |-> a, db |-> d, backup |-> i]>>] :
        i \in Items, d \in Dbs \cup {None}, a \in Automations}

(* requestNodeDeletion: a card, or a database, or a project's databases.   *)
AskDeletion ==
    /\ MapShown("card removal")
    /\ \/ \E c \in BackupsShown(view) : 
            Act([view EXCEPT !.remove = [kind |-> "backup", id |-> c.id]], {})
       \/ \E c \in AutomationsShown(view) :
            /\ c.backup = None \/ c.backup \in {b.id : b \in BackupsShown(view)}
            /\ Act([view EXCEPT !.remove = [kind |-> "automation", id |-> c.id]], {})
       \/ \E gone \in SUBSET view.dbs \ {{}} :
            Act([view EXCEPT !.remove = [kind |-> "databases", id |-> gone]], {})

(* What is left of the closure's cards without a backup, an automation, or *)
(* the cards of databases.                                                 *)
WithoutBackup(doc, id, db) ==
    [backups |-> SelectSeq(doc.backups, LAMBDA c : c.id # id),
     autos |-> SelectSeq(doc.autos, LAMBDA c : c.backup # id /\ (db = None \/ c.db # db))]
WithoutAutomation(doc, id) == [doc EXCEPT !.autos = SelectSeq(@, LAMBDA c : c.id # id)]
WithoutDatabases(doc, gone, ids) ==
    [backups |-> SelectSeq(doc.backups, LAMBDA c : c.db \notin gone),
     autos |-> SelectSeq(doc.autos, LAMBDA c : c.db \notin gone /\ c.backup \notin ids)]

(* confirmNodeDeletion: the settings of an attached card's database are    *)
(* cleared ("clear"), the profile of a stored backup card is deleted       *)
(* ("discard"), then the document is saved; `to` is what is left of the    *)
(* settings.                                                               *)
ConfirmDeletion ==
    /\ view.remove # None /\ "remove" \notin view.busy
    /\ LET x == view.remove
           v == Busy(view, "remove")
           Clear(c, doc, stored) ==
               [db |-> c.db, to |-> IF x.kind = "backup" THEN "off" ELSE "on",
                new |-> doc, doc |-> view.doc, discard |-> stored /\ x.kind = "backup"]
           First(c, doc, stored) ==
               IF c.db # None THEN Act(v, {Request("clear", Clear(c, doc, stored))})
               ELSE IF x.kind = "backup" THEN Act(v, {Request("discard", Clear(c, doc, stored))})
               ELSE LET w == [v EXCEPT !.doc = doc] IN
                    Act(w, IF Unsaved(w) THEN SaveCards(w, "remove") ELSE {FetchMap("remove")}) IN
       \/ /\ x.kind = "backup"
          /\ \E c \in BackupsShown(view) :
               /\ c.id = x.id
               /\ First(c, WithoutBackup(view.doc, c.id, c.db), c.id \in Ids(view.doc.backups))
       \/ /\ x.kind = "automation"
          /\ \E c \in AutomationsShown(view) :
               c.id = x.id /\ First(c, WithoutAutomation(view.doc, c.id), FALSE)
       \/ /\ x.kind = "databases"
          /\ Act(v, {Request("delete", [gone |-> x.id,
                  ids |-> {c.id : c \in {b \in Range(view.doc.backups) : b.db \in x.id}}])})

(* Nothing is saved if the closure's cards are all left.                   *)
DeletionGoesOn(r) ==
    /\ r.op \in {"clear", "discard"} /\ Back(r)
    /\ IF r.ans = Failed THEN Handle(r, Idle(view, "remove"), {})
       ELSE IF r.op = "clear" /\ r.arg.discard THEN Handle(r, view, {Request("discard", r.arg)})
       ELSE IF r.arg.new = r.arg.doc THEN Handle(r, view, Refresh(r, "remove"))
       ELSE SaveThen(r, r.arg.new, r.arg.doc, "remove")

DatabasesDeleted(r) ==
    /\ r.op = "delete" /\ Back(r)
    /\ LET v == [view EXCEPT !.doc = WithoutDatabases(@, r.arg.gone, r.arg.ids)] IN
       IF r.ans = Failed \/ ~r.mine THEN Handle(r, Idle(view, "remove"), {})
       ELSE Handle(r, v, Refresh(r, "remove") \cup (IF v.doc = view.doc THEN {} ELSE SaveCards(v, "effect")))

(* A fetch of which one request failed: a fault like those of ServerFails. *)
PartOf(r, a) ==
    /\ Followed
    /\ Waiting(r)
    /\ net' = (net \ {r}) \cup {[r EXCEPT !.sent = FALSE, !.ans = a]}
    /\ upset' = TRUE
    /\ UNCHANGED <<page, at, view, kept, srv>>

(* The requests of one fetch may fail by themselves: without databases, or *)
(* the settings of one, it goes on as if there were none, or they were off.*)
TopologyServer(r) ==
    LET w == srv[Server]
        a == r.arg
        Settings(d, s) == [srv EXCEPT ![Server].settings[d] = s]
        Stores(s) == ServerAnswers(r, s, Ok) \/ ServerFails(r, s) IN
    \/ /\ r.op = "load"
       /\ \/ ServerAnswers(r, srv, [dbs |-> w.dbs, doc |-> w.doc])
          \/ PartOf(r, [dbs |-> {}, doc |-> w.doc])
          \/ ServerFails(r, srv)
    \/ /\ r.op = "list"
       /\ \/ ServerAnswers(r, srv, w.settings)
          \/ \E d \in a.of.dbs : PartOf(r, [w.settings EXCEPT ![d] = "off"])
    \/ r.op \in {"create", "discard"} /\ Stores(srv)
    \/ r.op = "save cards" /\ Stores([srv EXCEPT ![Server].doc = a.doc])
    \/ /\ r.op = "apply"
       /\ IF a.card \in Ids(w.doc.backups) THEN Stores(Settings(a.db, "on"))
          ELSE ServerAnswers(r, srv, Failed)
    \/ r.op = "automate" /\ Stores(Settings(a.db, "auto"))
    \/ r.op = "clear" /\ Stores(Settings(a.db, a.to))
    \/ r.op = "delete" /\ Stores([srv EXCEPT ![Server].dbs = @ \ a.gone])

(* The settings change on the page of the backups, in another window.      *)
ChangedElsewhere ==
    /\ page = "card removal" /\ Followed
    /\ \E d \in srv[Server].dbs : \E s \in {"off", "auto"} \ {srv[Server].settings[d]} :
         srv' = [srv EXCEPT ![Server].settings[d] = s]
    /\ UNCHANGED <<page, at, view, kept, net, upset>>

(* Bound: a page that does not know what is stored is followed until what  *)
(* is in flight has ended, and if it is opened again.                      *)
Calm == ~upset

TopologyNext ==
    /\ page \in TopologyPages
    /\ \/ /\ at # None /\ Calm
          /\ \/ PollMap \/ CloseMapDialog
             \/ CreateBackupCard \/ CreateAutomationCard
             \/ DropBackupOnDatabase \/ ConfirmAssignment \/ LinkAutomation
             \/ AskDeletion \/ ConfirmDeletion
       \/ \E r \in net : \/ MapFetched(r) \/ SettingsListed(r) \/ BackupCardCreated(r)
                         \/ Applied(r) \/ Automated(r) \/ CardsSaved(r) \/ DeletionGoesOn(r)
                         \/ DatabasesDeleted(r) \/ TopologyServer(r)
       \/ ChangedElsewhere

=============================================================================
