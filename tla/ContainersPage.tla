----------------------------- MODULE ContainersPage -----------------------------
(***************************************************************************)
(* The containers of the map (pages/Containers.tsx): the poll that draws   *)
(* it, the buttons of a container behind their confirmation, the logs of   *)
(* the containers and of the proxy, and the terminal.  A behaviour follows *)
(* the buttons (page "containers"), the lines drawn from a project to a    *)
(* database ("moves"), the logs or the terminal.  The cards of backups and *)
(* automations are TopologyCardsPage.  `running` and `project` stand for   *)
(* all that is drawn of a container; `cwd` is the directory its last       *)
(* command ended in, which the server is told with each and answers.       *)
(***************************************************************************)
EXTENDS DashboardPage

ContainersPages == {"containers", "moves", "logs", "terminal"}
ContainerActions == {"start", "stop", "restart"}

(* The key of the proxy in containerActionLoading.                         *)
Proxy == "service:proxy"

(* A flag in `busy` that is a container is its containerActionLoading.     *)
ContainersHooks ==
    [busy |-> {"load"}, containers |-> None, error |-> FALSE, pending |-> None,
     logs |-> [open |-> FALSE, name |-> None, text |-> None],
     terminal |-> None, cwd |-> [c \in Items |-> 0]]

(* fetchContainers, on its own (every 30 seconds) or as the end of the     *)
(* handler of an action on the container `then`.                           *)
FetchContainers(then) == Request("load", then)

OpenContainers ==
    /\ page \in ContainersPages
    /\ OpenAt(Server, ContainersHooks, {FetchContainers(None)})

PollContainers == Act(Busy(view, "load"), {FetchContainers(None)})

(* confirmContainerAction ends by closing the confirmation, whichever one  *)
(* is open by then.                                                        *)
ActionOver(v, c) ==
    IF c = None THEN v ELSE [Idle(v, c) EXCEPT !.pending = None]

ContainersFetched(r) ==
    /\ r.op = "load"
    /\ LET v == ActionOver(Idle(view, "load"), r.arg) IN
       Handle(r, IF r.ans = Failed THEN [v EXCEPT !.error = TRUE]
                 ELSE [v EXCEPT !.containers = r.ans, !.error = FALSE], {})

(* Mutant of MapControls: the open confirmation can be confirmed again.    *)
MapControlsTwice ==
    IF view.containers = None \/ view.error THEN {}
    ELSE IF view.pending # None THEN {"close", "confirm"}
    ELSE IF view.logs.open THEN {"close logs"}
    ELSE IF view.terminal # None
    THEN {"close terminal"} \cup (IF "exec" \in view.busy THEN {} ELSE {"exec"})
    ELSE {"card"}

(* What can be pressed.  The map is not drawn before the first answer and  *)
(* while the last one was an error, and its dialogs with it.               *)
MapControls ==
    IF view.containers = None \/ view.error THEN {}
    ELSE IF view.pending # None
    THEN {"close"} \cup (IF view.pending.of \in view.busy THEN {} ELSE {"confirm"})
    ELSE IF view.logs.open THEN {"close logs"}
    ELSE IF view.terminal # None
    THEN {"close terminal"} \cup (IF "exec" \in view.busy THEN {} ELSE {"exec"})
    ELSE {"card"}

(* The buttons of a card (TopologyNodeCard), disabled while one of them is *)
(* at work.                                                                *)
CardButtons(c) ==
    IF c \in view.busy THEN {}
    ELSE {"logs", "restart", IF view.containers[c].running THEN "stop" ELSE "start"}

AskContainerAction(c, op) ==
    /\ page = "containers"
    /\ "card" \in MapControls /\ op \in CardButtons(c)
    /\ Act([view EXCEPT !.pending = [of |-> c, op |-> op]], {})

ConfirmContainerAction ==
    /\ "confirm" \in MapControls
    /\ Act(Busy(view, view.pending.of), {Request(view.pending.op, view.pending.of)})

CloseMapDialogs ==
    \/ "close" \in MapControls /\ Act([view EXCEPT !.pending = None], {})
    \/ "close logs" \in MapControls /\ Act([view EXCEPT !.logs.open = FALSE], {})
    \/ "close terminal" \in MapControls /\ Act([view EXCEPT !.terminal = None], {})

(* Mutant of ContainerActionDone: a refused action keeps its buttons off.  *)
ActionRefusedKeepsFlag(r) ==
    /\ r.op \in ContainerActions
    /\ IF r.ans = Failed THEN Handle(r, view, {})
       ELSE Handle(r, Busy(view, "load"), {FetchContainers(r.arg)})

ContainerActionDone(r) ==
    /\ r.op \in ContainerActions
    /\ IF r.ans = Failed THEN Handle(r, ActionOver(view, r.arg), {})
       ELSE Handle(r, Busy(view, "load"), {FetchContainers(r.arg)})

(* A line is drawn from a project to a database: no dialog, no flag.       *)
MoveToProject(c, p) ==
    /\ page = "moves"
    /\ "card" \in MapControls
    /\ Act(view, {Request("move", [of |-> c, project |-> p])})

(* Mutant of MovedToProject: the map waits for the next poll.              *)
MovedUnseen(r) == r.op = "move" /\ Handle(r, view, {})

MovedToProject(r) ==
    /\ r.op = "move"
    /\ IF r.ans = Failed THEN Handle(r, view, {})
       ELSE Handle(r, Busy(view, "load"), {FetchContainers(None)})

(* openContainerLogs and openProxyLogs share one dialog: an answer is put  *)
(* in it whosever logs it shows by then.                                   *)
OpenLogs(c) ==
    /\ page = "logs"
    /\ "card" \in MapControls
    /\ IF c = Proxy THEN Proxy \notin view.busy ELSE "logs" \in CardButtons(c)
    /\ Act([view EXCEPT !.busy = @ \cup {c, "logs"},
                        !.logs = [open |-> TRUE, name |-> c, text |-> None]],
           {Request("logs", c)})

LogsFetched(r) ==
    /\ r.op = "logs"
    /\ Handle(r, [view EXCEPT !.busy = @ \ {r.arg, "logs"}, !.logs.text = r.ans], {})

OpenTerminal(c) ==
    /\ page = "terminal"
    /\ "card" \in MapControls
    /\ Act([view EXCEPT !.terminal = c], {})

(* handleExecute: one command at a time, whichever container it is for.    *)
Execute ==
    /\ "exec" \in MapControls
    /\ Act(Busy(view, "exec"),
           {Request("exec", [of |-> view.terminal, cwd |-> view.cwd[view.terminal]])})

Executed(r) ==
    /\ r.op = "exec"
    /\ Handle(r, IF r.ans = Failed THEN Idle(view, "exec")
                 ELSE [Idle(view, "exec") EXCEPT !.cwd[r.arg.of] = r.ans.cwd], {})

ContainersServer(r) ==
    LET w == srv[Server]
        Store(c, new) == [srv EXCEPT ![Server][c] = new] IN
    \/ r.op = "load" /\ (ServerAnswers(r, srv, w) \/ ServerFails(r, srv))
    \/ r.op = "logs" /\ (ServerAnswers(r, srv, r.arg) \/ ServerFails(r, srv))
    \/ /\ r.op \in ContainerActions
       /\ LET s == Store(r.arg, [w[r.arg] EXCEPT !.running = (r.op # "stop")]) IN
          ServerAnswers(r, s, Ok) \/ ServerFails(r, s)
    \/ /\ r.op = "move"
       /\ LET s == Store(r.arg.of, [w[r.arg.of] EXCEPT !.project = r.arg.project]) IN
          ServerAnswers(r, s, Ok) \/ ServerFails(r, s)
    \/ /\ r.op = "exec"
       /\ \/ \E d \in {r.arg.cwd, 1 - r.arg.cwd} : ServerAnswers(r, srv, [cwd |-> d])
          \/ ServerFails(r, srv)

ContainersNext ==
    /\ page \in ContainersPages
    /\ \/ /\ at # None
          /\ \/ PollContainers \/ ConfirmContainerAction \/ CloseMapDialogs \/ Execute
             \/ \E c \in Items :
                  \/ \E op \in ContainerActions : AskContainerAction(c, op)
                  \/ \E p \in Vals : MoveToProject(c, p)
                  \/ OpenTerminal(c)
             \/ \E c \in Items \cup {Proxy} : OpenLogs(c)
       \/ \E r \in net : \/ ContainersFetched(r) \/ ContainerActionDone(r) \/ MovedToProject(r)
                         \/ LogsFetched(r) \/ Executed(r) \/ ContainersServer(r)

=============================================================================
