---------------------------- MODULE WebServerPage ----------------------------
(***************************************************************************)
(* The domain of the server and its certificate (pages/WebServer.tsx).     *)
(* The server keeps a domain and one flag, `ssl`, for "a certificate was   *)
(* provisioned"; `cert` is the domain it was provisioned for.  Whether the *)
(* domain resolves to this host is asked of the DNS each time.             *)
(***************************************************************************)
EXTENDS DashboardPage

NoStatus == [domain |-> None, propagated |-> FALSE, ssl |-> FALSE]

WebServerHooks == [busy |-> {"load"}, status |-> NoStatus, draft |-> None]

(* fetchStatus, from the effect or awaited by the handler whose flag is    *)
(* `then`.                                                                 *)
FetchStatus(then) == {Request("load", then)}

OpenWebServer == page = "webserver" /\ OpenAt(Server, WebServerHooks, FetchStatus(None))

(* One flag disables all the buttons; the certificate is offered for a     *)
(* domain that resolves here and, as far as the server says, has none.     *)
WebServerControls ==
    IF "load" \in view.busy THEN {}
    ELSE {"edit"} \cup
         (IF "action" \in view.busy THEN {}
          ELSE (IF view.draft \notin {None, view.status.domain} THEN {"save domain"} ELSE {})
               \cup (IF view.status.domain = None THEN {}
                     ELSE {"check"} \cup (IF view.status.propagated /\ ~view.status.ssl
                                          THEN {"provision"} ELSE {})))

(* An error answer has a body too: the page takes it for a status without  *)
(* a domain.  Only a request that threw leaves the status alone.           *)
StatusFetched(r) ==
    /\ r.op = "load"
    /\ LET v == [view EXCEPT !.busy = @ \ {"load", r.arg}] IN
       \/ /\ r.ans # Failed
          /\ Handle(r, [v EXCEPT !.status = r.ans,
                                 !.draft = IF r.ans.domain = None THEN @ ELSE r.ans.domain], {})
       \/ r.ans = Failed /\ (Handle(r, v, {}) \/ Handle(r, [v EXCEPT !.status = NoStatus], {}))

EditDomain(v) ==
    /\ "edit" \in WebServerControls
    /\ v # view.draft
    /\ Act([view EXCEPT !.draft = v], {})

SaveDomain ==
    /\ "save domain" \in WebServerControls
    /\ Act(Busy(view, "action"), {Request("save domain", view.draft)})

(* The handler keeps the status it started with and puts the answer in it. *)
CheckDNS ==
    /\ "check" \in WebServerControls
    /\ Act(Busy(view, "action"), {Request("check", None)})

ProvisionSSL ==
    /\ "provision" \in WebServerControls
    /\ Act(Busy(view, "action"), {Request("provision", None)})

DNSChecked(r) ==
    /\ r.op = "check"
    /\ \/ /\ r.ans = Failed
          /\ Handle(r, Idle(view, "action"), {})
       \/ Handle(r, [Idle(view, "action") EXCEPT !.status.propagated =
                        IF r.ans = Failed THEN FALSE ELSE r.ans.propagated], {})

(* Mutant of WebServerActionDone: the status is not fetched again.         *)
ActionDoneWithoutStatus(r) ==
    /\ r.op \in {"save domain", "provision"}
    /\ Handle(r, Idle(view, "action"), {})

(* handleSaveDomain and handleProvisionSSL go on and wait for the status.  *)
WebServerActionDone(r) ==
    /\ r.op \in {"save domain", "provision"}
    /\ IF r.ans = Failed THEN Handle(r, Idle(view, "action"), {})
       ELSE Handle(r, view, Sent(r.at, FetchStatus("action")))

(* SaveDomain writes the domain and leaves domain_ssl_enabled as it is;    *)
(* ProvisionSSL asks for a certificate of the stored domain and sets it.   *)
WebServerServer(r) ==
    LET w == srv[r.at]
        status(p) == [domain |-> w.domain, propagated |-> p /\ w.domain # None, ssl |-> w.ssl]
        named == [srv EXCEPT ![r.at].domain = r.arg]
        secured == [srv EXCEPT ![r.at].ssl = TRUE, ![r.at].cert = w.domain] IN
    \/ /\ r.op \in {"load", "check"}
       /\ \/ \E p \in BOOLEAN : ServerAnswers(r, srv, status(p))
          \/ ServerFails(r, srv)
    \/ r.op = "save domain" /\ (ServerAnswers(r, named, NoStatus) \/ ServerFails(r, named))
    \/ /\ r.op = "provision"
       /\ \/ w.domain # None /\ ServerAnswers(r, secured, NoStatus)
          \/ w.domain # None /\ ServerFails(r, secured)
          \/ w.domain = None /\ ServerAnswers(r, srv, Failed)

WebServerNext ==
    /\ page = "webserver"
    /\ \/ /\ at # None
          /\ SaveDomain \/ CheckDNS \/ ProvisionSSL \/ \E v \in Vals : EditDomain(v)
       \/ \E r \in net : \/ StatusFetched(r) \/ DNSChecked(r) \/ WebServerActionDone(r)
                         \/ WebServerServer(r)

=============================================================================
