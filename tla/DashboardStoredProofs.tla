------------------------ MODULE DashboardStoredProofs ------------------------
(***************************************************************************)
(* Proofs that a page of the dashboard, at rest, says what is stored       *)
(* (KnowsWhatIsStored), for any databases, items and values and any number *)
(* of requests in flight: every page but the one where cards are linked.   *)
(*                                                                         *)
(* While nothing has upset a page, the requests that are out are its own,  *)
(* for the database it shows, and none of them has failed; and if one of   *)
(* them writes it is alone (`Orderly`).  So a page is followed from one    *)
(* write to the next: what an answer says is what is stored, and its       *)
(* handler puts it on the page before anything else is asked for.          *)
(***************************************************************************)
EXTENDS DashboardPagesProofs

Quiet == at # None /\ ~upset

(* Of what is out, only reads are out together.                            *)
Apart(n) == \A r, q \in n : r # q => {r.op, q.op} \subseteq Reads

Orderly ==
    /\ ~upset => /\ Apart(net)
                 /\ \A r \in net : r.sent = TRUE \/ (r.sent = FALSE /\ r.ans # Failed)
    /\ Quiet => \A r \in net : r.mine = TRUE /\ r.at = at

(* A request as the page that is open sends it.                            *)
Fresh(q, d) == IsRequest(q) /\ q.at = d /\ q.sent = TRUE /\ q.mine = TRUE
AllFresh(n, d) == \A q \in n : Fresh(q, d)
Asks1(n, d, op, arg) == \E q : n = {q} /\ Fresh(q, d) /\ q.op = op /\ q.arg = arg

(* The same request, whoever waits for it.                                 *)
Like(x, q) == x.op = q.op /\ x.arg = q.arg /\ x.at = q.at /\ x.sent = q.sent /\ x.ans = q.ans

(* What a step makes of an orderly page: it is opened at d, or moves there,*)
(* with the hooks v and the requests n; the user does something; a request *)
(* is answered with a, when the server holds s; a handler goes on.         *)
Opens(d, v, n) ==
    /\ Orderly'
    /\ Quiet' => ~upset'
    /\ ~upset' => net = {} /\ net' = n /\ (~Remembers \/ ~upset)
    /\ net' = net \cup n
    /\ at' = d /\ view' = v /\ UNCHANGED <<kept, srv, page>>

Acts(v, n) ==
    /\ Orderly' /\ at # None
    /\ Quiet' => Quiet
    /\ ~upset' => ~upset /\ Apart(net \cup n)
    /\ net' = net \cup n /\ view' = v /\ UNCHANGED <<at, kept, srv, page>>

Answers(r, s, a, q) ==
    /\ Orderly'
    /\ Quiet' => Quiet
    /\ ~upset' => ~upset /\ a # Failed
    /\ Quiet => r.at = at
    /\ Quiet \/ ~upset => r.sent = TRUE /\ (r.op \notin Reads => net = {r})
    /\ net' = (net \ {r}) \cup {q}
    /\ q.op = r.op /\ q.arg = r.arg /\ q.at = r.at /\ q.sent = FALSE /\ q.ans = a
    /\ srv' = s /\ UNCHANGED <<at, view, kept, page>>

Fails(s) == /\ Orderly' /\ ~Quiet' /\ upset' = TRUE /\ srv' \in {srv, s}
            /\ \A x \in net' : \E q \in net : x.op = q.op /\ x.arg = q.arg /\ x.at = q.at
            /\ UNCHANGED <<at, view, kept, page>>

GoesOn(r, v, k, n, asked) ==
    /\ Orderly'
    /\ Quiet' => Quiet /\ view' = v /\ net' = n \cup asked /\ Apart(n \cup asked)
    /\ ~upset' => ~upset
    /\ Quiet \/ ~upset => /\ r.sent = FALSE /\ r.ans # Failed
                          /\ r.op \notin Reads => net = {r}
    /\ Quiet => r.at = at
    /\ \A x \in net' : x \in n \/ \E q \in asked : Like(x, q)
    /\ kept' = k /\ UNCHANGED <<at, srv, page>>

(* What Request makes is one, here and at another database.                *)
LEMMA MakesFresh ==
    ASSUME NEW op, NEW arg
    PROVE  /\ Fresh(Request(op, arg), at)
           /\ Request(op, arg).op = op /\ Request(op, arg).arg = arg
  <1> DEFINE r == [op |-> op, at |-> at, arg |-> arg, sent |-> TRUE, ans |-> None,
                   mine |-> TRUE, twin |-> FALSE]
             b == r \in net
  <1>1. Request(op, arg) = [r EXCEPT !.twin = b] BY DEF Request
  <1> HIDE DEF b
  <1> QED BY <1>1 DEF Fresh, IsRequest, RequestFields

(* Sending it elsewhere changes only where it goes.                        *)
LEMMA SendsOne ==
    ASSUME NEW n, NEW c, NEW d, NEW op, NEW arg, Asks1(n, c, op, arg)
    PROVE  Asks1(Sent(d, n), d, op, arg)
  <1>1. PICK q : n = {q} /\ Fresh(q, c) /\ q.op = op /\ q.arg = arg BY DEF Asks1
  <1> DEFINE x == [q EXCEPT !.at = d]
  <1>2. Sent(d, n) = {x} BY <1>1 DEF Sent
  <1>3. Fresh(x, d) /\ x.op = op /\ x.arg = arg BY <1>1 DEF Fresh, IsRequest, RequestFields
  <1> HIDE DEF x
  <1> QED BY <1>2, <1>3 DEF Asks1

(* One thing that is asked for, here or elsewhere.                         *)
LEMMA AsksOne ==
    ASSUME NEW op, NEW arg
    PROVE  Asks1({Request(op, arg)}, at, op, arg) /\ \A d : Asks1(Sent(d, {Request(op, arg)}), d, op, arg)
  <1> DEFINE q == Request(op, arg)
  <1>1. Fresh(q, at) /\ q.op = op /\ q.arg = arg BY MakesFresh
  <1> HIDE DEF q
  <1>2. Asks1({q}, at, op, arg) BY <1>1 DEF Asks1
  <1>3. ASSUME NEW d PROVE Asks1(Sent(d, {q}), d, op, arg) BY <1>2, SendsOne
  <1>4. \A d : Asks1(Sent(d, {q}), d, op, arg) BY <1>3
  <1> QED BY <1>2, <1>4 DEF q

(* It is alone, and fresh.                                                 *)
LEMMA OneFresh ==
    ASSUME NEW n, NEW d, NEW op, NEW arg, Asks1(n, d, op, arg)
    PROVE  Apart(n) /\ AllFresh(n, d)
BY DEF Asks1, Apart, AllFresh

(* A page that is opened has only what it asks for itself, unless it knows *)
(* better.                                                                 *)
LEMMA OpensAt ==
    ASSUME NEW d, NEW v, NEW asked, OpenAt(d, v, asked),
           AllFresh(Sent(d, asked), d), Apart(Sent(d, asked))
    PROVE  Opens(d, v, Sent(d, asked))
  <1> DEFINE n == Sent(d, asked)
  <1>1. ~upset' => net = {} /\ net' = n /\ (~Remembers \/ ~upset)
    BY DEF OpenAt
  <1>2. Orderly' BY <1>1 DEF OpenAt, Orderly, Quiet, Fresh, AllFresh, Apart
  <1> QED BY <1>1, <1>2 DEF OpenAt, Opens, Quiet

(* So it is when it moves to another database.                             *)
LEMMA OpensElsewhere ==
    ASSUME NEW d, NEW v, NEW asked, SwitchTo(d, v, asked),
           AllFresh(Sent(d, asked), d), Apart(Sent(d, asked))
    PROVE  Opens(d, v, Sent(d, asked)) /\ (Quiet' /\ d # None => Quiet)
  <1> DEFINE n == Sent(d, asked)
  <1>0. at # None BY PageAssumption DEF SwitchTo
  <1>1. ~upset' => ~upset /\ net = {} /\ net' = n BY DEF SwitchTo
  <1>2. Orderly' BY <1>1 DEF SwitchTo, Orderly, Quiet, Fresh, AllFresh, Apart
  <1> QED BY <1>0, <1>1, <1>2 DEF SwitchTo, Opens, Quiet

(* Either way, with one read, or with none.                                *)
LEMMA OpensWithOne ==
    ASSUME NEW d, NEW v, NEW op, NEW arg,
           OpenAt(d, v, {Request(op, arg)}) \/ SwitchTo(d, v, {Request(op, arg)})
    PROVE  \E n : Opens(d, v, n) /\ Asks1(n, d, op, arg)
  <1> DEFINE asked == {Request(op, arg)}
             n == Sent(d, asked)
  <1>1. Asks1(n, d, op, arg) BY AsksOne
  <1>2. Apart(n) /\ AllFresh(n, d) BY <1>1, OneFresh
  <1> HIDE DEF asked
  <1>3. OpenAt(d, v, asked) \/ SwitchTo(d, v, asked) BY DEF asked
  <1>4. Opens(d, v, n) BY <1>2, <1>3, OpensAt, OpensElsewhere
  <1> QED BY <1>1, <1>4

(* Nor has it anything out, if it asks for nothing.                        *)
LEMMA OpensIdle ==
    ASSUME NEW d, NEW v, OpenAt(d, v, {}) \/ SwitchTo(d, v, {})
    PROVE  Opens(d, v, {})
  <1> DEFINE asked == {}
  <1>1. Sent(d, asked) = {} BY DEF Sent
  <1>2. Apart(Sent(d, asked)) /\ AllFresh(Sent(d, asked), d) BY <1>1 DEF Apart, AllFresh
  <1>3. OpenAt(d, v, asked) \/ SwitchTo(d, v, asked) OBVIOUS
  <1> HIDE DEF asked
  <1>4. Opens(d, v, Sent(d, asked)) BY <1>2, <1>3, OpensAt, OpensElsewhere
  <1> QED BY <1>1, <1>4

(* What the user does adds what it asks for, which is alone if it writes.  *)
LEMMA UserActs ==
    ASSUME Orderly, NEW v, NEW asked, Act(v, asked), AllFresh(asked, at)
    PROVE  Acts(v, asked)
  <1>1. ~upset' => ~upset /\ ~Crossed(net, asked) BY DEF Act
  <1>2. ~upset' => Apart(net \cup asked) BY <1>1 DEF Orderly, Apart, Crossed
  <1>3. Orderly' BY <1>1, <1>2 DEF Act, Orderly, Quiet, Fresh, AllFresh
  <1> QED BY <1>1, <1>2, <1>3 DEF Act, Acts, Quiet

(* The user asks for nothing, or for one thing.                            *)
LEMMA UserEdits ==
    ASSUME Orderly, NEW v, Act(v, {}) PROVE Acts(v, {})
  <1> DEFINE asked == {}
  <1>1. AllFresh(asked, at) /\ Act(v, asked) BY DEF AllFresh
  <1> HIDE DEF asked
  <1>2. Acts(v, asked) BY <1>1, UserActs
  <1> QED BY <1>2 DEF asked

(* One thing that the user asks for, in the same way.                      *)
LEMMA UserPresses ==
    ASSUME Orderly, NEW v, NEW op, NEW arg, Act(v, {Request(op, arg)})
    PROVE  \E n : Acts(v, n) /\ Asks1(n, at, op, arg)
  <1> DEFINE asked == {Request(op, arg)}
  <1>1. Asks1(asked, at, op, arg) /\ Act(v, asked) BY AsksOne
  <1> HIDE DEF asked
  <1>2. AllFresh(asked, at) BY <1>1, OneFresh
  <1> QED BY <1>1, <1>2, UserActs

(* The server's answer is there.                                           *)
LEMMA ServerSays ==
    ASSUME Orderly, NEW r \in net, IsRequest(r), NEW s, NEW a, ServerAnswers(r, s, a)
    PROVE  \E q : Answers(r, s, a, q)
  <1> DEFINE q == [r EXCEPT !.sent = FALSE, !.ans = a]
  <1>1. /\ q.op = r.op /\ q.arg = r.arg /\ q.mine = r.mine /\ q.at = r.at
        /\ q.sent = FALSE /\ q.ans = a
    BY DEF IsRequest, RequestFields
  <1>2. net' = (net \ {r}) \cup {q} BY DEF ServerAnswers
  <1> HIDE DEF q
  <1>3. ~upset' => ~upset /\ a # Failed BY DEF ServerAnswers
  <1>4. Orderly' BY <1>1, <1>2, <1>3 DEF ServerAnswers, Orderly, Quiet, Apart
  <1>5. /\ Quiet => r.at = at
        /\ Quiet \/ ~upset => r.sent = TRUE /\ (r.op \notin Reads => net = {r})
    BY DEF ServerAnswers, Waiting, Orderly, Quiet, Apart
  <1> QED BY <1>1, <1>2, <1>3, <1>4, <1>5 DEF ServerAnswers, Answers, Quiet

(* Or it fails: then the page may not know.                                *)
LEMMA ServerRefuses ==
    ASSUME NEW r \in net, IsRequest(r), NEW s, ServerAnswers(r, s, Failed) PROVE Fails(s)
  <1> DEFINE q == [r EXCEPT !.sent = FALSE, !.ans = Failed]
  <1>1. q.op = r.op /\ q.arg = r.arg /\ q.at = r.at BY DEF IsRequest, RequestFields
  <1>2. net' = (net \ {r}) \cup {q} BY DEF ServerAnswers
  <1> HIDE DEF q
  <1> QED BY <1>1, <1>2 DEF ServerAnswers, Orderly, Quiet, Fails

(* So it is when the answer is lost.                                       *)
LEMMA ServerFailsToSay ==
    ASSUME NEW r \in net, IsRequest(r), NEW s, ServerFails(r, s) PROVE Fails(s)
  <1>1. ServerAnswers(r, srv, Failed) \/ ServerAnswers(r, s, Failed) BY DEF ServerFails
  <1>2. Fails(srv) \/ Fails(s) BY <1>1, ServerRefuses
  <1> QED BY <1>2 DEF Fails

(* A handler goes on, on the page that sent the request.                   *)
LEMMA HandlerGoesOn ==
    ASSUME Orderly, NEW r \in net, IsRequest(r), NEW v, NEW k, NEW D, NEW asked, NEW d,
           Settle(r, v, k, D, asked), AllFresh(asked, d), Quiet => AllFresh(asked, at)
    PROVE  GoesOn(r, v, k, net \ ({r} \cup D), asked)
  <1> DEFINE n == net \ ({r} \cup D)
             f(q) == [q EXCEPT !.mine = r.mine \/ q.op \in Queries]
             m == {f(q) : q \in asked}
  <1>1. ~upset' => ~upset /\ ~Crossed(n, asked) BY DEF Settle
  <1>2. Quiet \/ ~upset => r.sent = FALSE /\ r.ans # Failed
    BY DEF Settle, Back, Orderly, Quiet
  <1>3. \A q \in asked : Like(f(q), q) /\ (r.mine = TRUE => f(q) = q)
    BY DEF AllFresh, Fresh, IsRequest, RequestFields, Like
  <1>4. net' = n \cup m BY DEF Settle
  <1> HIDE DEF f
  <1>5. Quiet => r.mine = TRUE /\ r.at = at BY DEF Orderly
  <1>6. Quiet => net' = n \cup asked BY <1>3, <1>4, <1>5
  <1>7. Quiet \/ ~upset => (r.op \notin Reads => net = {r}) BY DEF Orderly, Quiet, Apart
  <1>8. ~upset' => Apart(n \cup asked) BY <1>1 DEF Orderly, Apart, Crossed
  <1>9. ~upset' => Apart(net')
    <2> SUFFICES ASSUME ~upset', NEW x \in net', NEW y \in net', x # y
                 PROVE  {x.op, y.op} \subseteq Reads
      BY DEF Apart
    <2>1. CASE x \in n /\ y \in n BY <2>1, <1>8 DEF Apart
    <2>2. ASSUME NEW z \in n, NEW q \in asked PROVE {z.op, q.op} \subseteq Reads
      <3>1. CASE z # q BY <3>1, <1>8 DEF Apart
      <3>2. CASE z = q BY <3>2, <1>1 DEF Orderly, Apart
      <3> QED BY <3>1, <3>2
    <2>3. \A q, z \in asked : q # z => {z.op, q.op} \subseteq Reads BY <1>8 DEF Apart
    <2>4. \A z \in net' : z \in n \/ \E q \in asked : z = f(q) /\ z.op = q.op
      BY <1>3, <1>4 DEF Like
    <2> QED BY <2>1, <2>2, <2>3, <2>4
  <1>10. \A x \in net' : x \in n \/ \E q \in asked : Like(x, q) BY <1>3, <1>4
  <1>11. ~upset' => \A x \in net' : x.sent = TRUE \/ (x.sent = FALSE /\ x.ans # Failed)
    BY <1>1, <1>10 DEF Orderly, AllFresh, Fresh, Like
  <1>12. at' = at /\ (Quiet' => Quiet) BY <1>1 DEF Settle, Quiet
  <1>13. Orderly' BY <1>5, <1>6, <1>9, <1>11, <1>12 DEF Orderly, AllFresh, Fresh
  <1>14. Quiet => view' = v BY <1>5 DEF Settle
  <1>15. kept' = k /\ UNCHANGED <<at, srv, page>> BY DEF Settle
  <1>16. GoesOn(r, v, k, n, asked)
    <2> HIDE DEF n, m
    <2> QED
      BY <1>1, <1>2, <1>5, <1>6, <1>7, <1>8, <1>10, <1>12, <1>13, <1>14, <1>15
      DEF GoesOn, Quiet
  <1> QED BY <1>16

(* A handler is over.                                                      *)
LEMMA HandlerIsOver ==
    ASSUME Orderly, NEW r \in net, IsRequest(r), NEW v, NEW k, Settle(r, v, k, {}, {})
    PROVE  GoesOn(r, v, k, net \ {r}, {})
  <1> DEFINE none == {}
  <1>1. Settle(r, v, k, none, none) /\ AllFresh(none, at) /\ net \ ({r} \cup none) = net \ {r}
    BY DEF AllFresh
  <1> HIDE DEF none
  <1>2. GoesOn(r, v, k, net \ {r}, none) BY <1>1, HandlerGoesOn
  <1> QED BY <1>2 DEF none

(* A handler goes on to ask for one thing, for its own database or for the *)
(* one that is shown, which is the same on a page that is quiet.           *)
LEMMA HandlerAsks ==
    ASSUME Orderly, NEW r \in net, IsRequest(r), NEW v, NEW k, NEW op, NEW arg, NEW d,
           \/ d = at /\ Settle(r, v, k, {}, {Request(op, arg)})
           \/ d = r.at /\ Settle(r, v, k, {}, Sent(r.at, {Request(op, arg)}))
    PROVE  \E n : GoesOn(r, v, k, net \ {r}, n) /\ Asks1(n, d, op, arg)
  <1> DEFINE none == {}
             q == {Request(op, arg)}
  <1>1. PICK n : Settle(r, v, k, none, n) /\ ((d = at /\ n = q) \/ (d = r.at /\ n = Sent(r.at, q)))
    OBVIOUS
  <1>2. Asks1(q, at, op, arg) /\ Asks1(Sent(r.at, q), r.at, op, arg) BY AsksOne
  <1>3. Asks1(n, d, op, arg) BY <1>1, <1>2
  <1>4. Quiet => d = at BY <1>1 DEF Orderly
  <1>5. AllFresh(n, d) BY <1>3, OneFresh
  <1>6. net \ ({r} \cup none) = net \ {r} OBVIOUS
  <1> HIDE DEF none, q
  <1>7. Quiet => AllFresh(n, at) BY <1>4, <1>5
  <1>8. GoesOn(r, v, k, net \ {r}, n) BY <1>1, <1>5, <1>6, <1>7, HandlerGoesOn
  <1> QED BY <1>3, <1>8

(* The page is left: only what it changes, and queries, are waited for.    *)
Leaves(n) ==
    /\ Orderly' /\ ~Quiet' /\ at' = None /\ UNCHANGED <<page, kept, srv, upset>>
    /\ \A x \in net' : \E q \in n : Like(x, q) /\ q.op \notin Reads \ Queries
    /\ \A q \in n : q.op \notin Reads \ Queries => \E x \in net' : Like(x, q)

(* What is left of the requests of a page that is left.                    *)
LEMMA PageIsLeft ==
    ASSUME Core, Orderly, NEW S, at' = None, net' = Left(net \ S),
           UNCHANGED <<page, kept, srv, upset>>
    PROVE  Leaves(net \ S)
  <1> DEFINE n == net \ S
             f(q) == [q EXCEPT !.mine = q.op \in Queries]
  <1>1. \A q \in n : Like(f(q), q)
    <2> SUFFICES ASSUME NEW q \in n PROVE Like(f(q), q) OBVIOUS
    <2>1. IsRequest(q) BY DEF Core, Sound
    <2> QED BY <2>1 DEF IsRequest, RequestFields, Like
  <1>2. net' = {f(q) : q \in {x \in n : x.op \notin Reads \ Queries}} BY DEF Left
  <1> HIDE DEF f
  <1>3. \A x \in net' : \E q \in n : x = f(q) /\ Like(x, q) /\ q.op \notin Reads \ Queries
    BY <1>1, <1>2
  <1>4. \A q \in n : q.op \notin Reads \ Queries => \E x \in net' : Like(x, q) BY <1>1, <1>2
  <1>5. ~upset => Apart(net')
    <2> SUFFICES ASSUME ~upset, NEW x \in net', NEW y \in net', x # y
                 PROVE  {x.op, y.op} \subseteq Reads
      BY DEF Apart
    <2>1. PICK q \in n : x = f(q) /\ Like(x, q) BY <1>3
    <2>2. PICK z \in n : y = f(z) /\ Like(y, z) BY <1>3
    <2>3. q # z BY <2>1, <2>2
    <2> QED BY <2>1, <2>2, <2>3 DEF Orderly, Apart, Like
  <1>6. Orderly' BY <1>3, <1>5 DEF Orderly, Quiet, Like
  <1> QED BY <1>3, <1>4, <1>6 DEF Quiet, Leaves

(* Some pages open, or move, with two reads.                               *)
Asks2(n, d, op, arg, op2, arg2) ==
    \E q, x : /\ n = {q, x} /\ Fresh(q, d) /\ Fresh(x, d)
              /\ q.op = op /\ q.arg = arg /\ x.op = op2 /\ x.arg = arg2

(* Two requests that are sent together.                                    *)
LEMMA AsksTwo ==
    ASSUME NEW op, NEW arg, NEW op2, NEW arg2, NEW d
    PROVE  Asks2(Sent(d, {Request(op, arg), Request(op2, arg2)}), d, op, arg, op2, arg2)
  <1> DEFINE q == Request(op, arg)
             x == Request(op2, arg2)
             e == [q EXCEPT !.at = d]
             f == [x EXCEPT !.at = d]
  <1>1. Fresh(q, at) /\ q.op = op /\ q.arg = arg BY MakesFresh
  <1>2. Fresh(x, at) /\ x.op = op2 /\ x.arg = arg2 BY MakesFresh
  <1> HIDE DEF q, x
  <1>3. Sent(d, {q, x}) = {e, f} BY DEF Sent
  <1>4. Fresh(e, d) /\ e.op = op /\ e.arg = arg BY <1>1 DEF Fresh, IsRequest, RequestFields
  <1>5. Fresh(f, d) /\ f.op = op2 /\ f.arg = arg2 BY <1>2 DEF Fresh, IsRequest, RequestFields
  <1> HIDE DEF e, f
  <1>6. Asks2(Sent(d, {q, x}), d, op, arg, op2, arg2) BY <1>3, <1>4, <1>5 DEF Asks2
  <1> QED BY <1>6 DEF q, x

(* A page that is opened with two reads.                                   *)
LEMMA OpensWithTwo ==
    ASSUME NEW d, NEW v, NEW op \in Reads, NEW arg, NEW op2 \in Reads, NEW arg2,
           \/ OpenAt(d, v, {Request(op, arg), Request(op2, arg2)})
           \/ SwitchTo(d, v, {Request(op, arg), Request(op2, arg2)})
    PROVE  \E n : Opens(d, v, n) /\ Asks2(n, d, op, arg, op2, arg2)
  <1> DEFINE asked == {Request(op, arg), Request(op2, arg2)}
             n == Sent(d, asked)
  <1>1. Asks2(n, d, op, arg, op2, arg2) BY AsksTwo
  <1>2. Apart(n) /\ AllFresh(n, d) BY <1>1 DEF Asks2, Apart, AllFresh
  <1> HIDE DEF asked
  <1>3. OpenAt(d, v, asked) \/ SwitchTo(d, v, asked) BY DEF asked
  <1>4. Opens(d, v, n) BY <1>2, <1>3, OpensAt, OpensElsewhere
  <1> QED BY <1>1, <1>4

-----------------------------------------------------------------------------
(* The query cache.                                                        *)

(* Nothing need be asked for: it is on its way, or what the cache has does.*)
AtHand(op, d) ==
    \/ \E q \in net : q.op = op /\ q.at = d
    \/ kept[op][d] # None /\ d \notin kept.stale

(* A query is sent otherwise.                                              *)
LEMMA CacheAsks ==
    ASSUME NEW op, NEW d, NEW asked \in MayRefetch(op, d)
    PROVE  \/ Asks1(asked, d, op, None) /\ Asks1(Sent(d, asked), d, op, None)
           \/ asked = {} /\ Sent(d, asked) = {} /\ AtHand(op, d)
  <1>1. Asks1(Sent(d, {Request(op, None)}), d, op, None) BY AsksOne
  <1>2. \/ asked = Sent(d, {Request(op, None)})
        \/ asked = {} /\ (InFlight(op, d) # {} \/ (kept[op][d] # None /\ d \notin kept.stale))
    BY DEF MayRefetch, Refetch
  <1>3. CASE asked = Sent(d, {Request(op, None)}) BY <1>1, <1>3, SendsOne
  <1>4. CASE asked # Sent(d, {Request(op, None)}) BY <1>2, <1>4 DEF InFlight, Sent, AtHand
  <1> QED BY <1>3, <1>4

(* What a page has out after it was opened, or moved.                      *)
LEMMA OpensFrom ==
    ASSUME NEW d, NEW v, NEW op, NEW asked \in MayRefetch(op, d),
           OpenAt(d, v, asked) \/ SwitchTo(d, v, asked)
    PROVE  \E n : Opens(d, v, n) /\ ((n = {} /\ AtHand(op, d)) \/ Asks1(n, d, op, None))
  <1> DEFINE n == Sent(d, asked)
  <1>1. (n = {} /\ AtHand(op, d)) \/ Asks1(n, d, op, None) BY CacheAsks
  <1>4. Apart(n) /\ AllFresh(n, d)
    <2>1. CASE n = {} BY <2>1 DEF Apart, AllFresh
    <2>2. CASE Asks1(n, d, op, None)
      <3> HIDE DEF n
      <3> QED BY <2>2, OneFresh
    <2> QED BY <1>1, <2>1, <2>2
  <1>5. Opens(d, v, n) BY <1>4, OpensAt, OpensElsewhere
  <1> QED BY <1>1, <1>5

(* What is out after a handler that asks for one thing went on.            *)
LEMMA AskedIs ==
    ASSUME NEW r, NEW v, NEW k, NEW D, NEW asked, Settle(r, v, k, D, asked),
           NEW d, NEW op, NEW arg, Asks1(asked, d, op, arg)
    PROVE  \A x \in net' :
              x \in net \/ (/\ x.op = op /\ x.arg = arg /\ x.at = d /\ x.sent = TRUE
                            /\ r.mine = TRUE \/ op \in Queries => x.mine = TRUE)
  <1>1. PICK q : asked = {q} /\ Fresh(q, d) /\ q.op = op /\ q.arg = arg BY DEF Asks1
  <1> DEFINE x == [q EXCEPT !.mine = r.mine \/ q.op \in Queries]
  <1>2. net' = (net \ ({r} \cup D)) \cup {x} BY <1>1 DEF Settle
  <1>3. x.op = op /\ x.arg = arg /\ x.at = d /\ x.sent = TRUE
    BY <1>1 DEF Fresh, IsRequest, RequestFields
  <1>4. r.mine = TRUE \/ op \in Queries => x.mine = TRUE
    BY <1>1 DEF Fresh, IsRequest, RequestFields
  <1> HIDE DEF x
  <1> QED BY <1>2, <1>3, <1>4

(* What is fetched goes to the cache under its database.                   *)
LEMMA FetchedIs ==
    ASSUME NEW r, NEW op, r.op = op, r.ans # Failed, op \in DOMAIN kept, "stale" \in DOMAIN kept,
           r.at \in DOMAIN kept[op], op # "stale"
    PROVE  /\ DOMAIN Fetched(r) = DOMAIN kept
           /\ Fetched(r)[op] = [kept[op] EXCEPT ![r.at] = r.ans]
           /\ Fetched(r)["stale"] = kept["stale"] \ {r.at}
           /\ \A x \in DOMAIN kept \ {op, "stale"} : Fetched(r)[x] = kept[x]
  <1>1. Fetched(r) = [[kept EXCEPT ![op] = [kept[op] EXCEPT ![r.at] = r.ans]]
                          EXCEPT !["stale"] = kept["stale"] \ {r.at}]
    BY DEF Fetched
  <1> QED BY <1>1

-----------------------------------------------------------------------------
(* The pages, one by one: what they and their requests know.               *)

(* The answer to a load is what is stored, and so is what was saved.       *)
MonitoringKnows ==
    /\ DOMAIN srv = {Server}
    /\ Quiet =>
         /\ at = Server /\ {"busy", "draft", "stored"} \subseteq DOMAIN view
         /\ \A r \in net : r.sent = FALSE =>
               /\ r.op = "load" => r.ans.on = srv[at].on /\ r.ans.rate = srv[at].rate
               /\ r.op = "save" => r.arg.on = srv[at].on /\ r.arg.rate = srv[at].rate
         /\ net = {} => view.stored.on = srv[at].on /\ view.stored.rate = srv[at].rate

(* Every answer, true when it was given, is still true when it is shown.   *)
LEMMA MonitoringStored ==
    ASSUME Core, Orderly, MonitoringKnows, OpenMonitoring \/ MonitoringNext
    PROVE  Orderly' /\ MonitoringKnows'
  <1>r. \A r \in net : IsRequest(r) BY DEF Core, Sound
  <1>1. CASE OpenMonitoring
    <2>1. PICK n : Opens(Server, MonitoringHooks, n) /\ Asks1(n, Server, "load", None)
      BY <1>1, OpensWithOne DEF OpenMonitoring
    <2> QED BY <2>1 DEF MonitoringKnows, MonitoringHooks, Opens, Asks1, Fresh
  <1>2. CASE MonitoringEdit \/ MonitoringReset
    <2>1. PICK x : Act([view EXCEPT !.draft = x], {})
      BY <1>2, Zenon DEF MonitoringEdit, MonitoringReset
    <2>2. Acts([view EXCEPT !.draft = x], {}) BY <2>1, UserEdits
    <2> QED BY <2>2 DEF MonitoringKnows, Acts
  <1>3. CASE MonitoringSave
    <2>1. PICK n : Acts(Busy(view, "save"), n) /\ Asks1(n, at, "save", view.draft)
      BY <1>3, UserPresses DEF MonitoringSave
    <2> QED BY <2>1 DEF MonitoringKnows, Acts, Asks1, Fresh, Busy
  <1>4. ASSUME NEW r \in net, MonitoringLoaded(r) \/ MonitoringSaved(r)
        PROVE  Orderly' /\ MonitoringKnows'
    <2> DEFINE v == IF r.op = "load"
                    THEN IF r.ans = Failed THEN Idle(view, "load")
                         ELSE [Idle(view, "load") EXCEPT !.draft = r.ans, !.stored = r.ans]
                    ELSE IF r.ans = Failed THEN Idle(view, "save")
                         ELSE [Idle(view, "save") EXCEPT !.stored = r.arg]
    <2>1. Settle(r, v, kept, {}, {}) BY <1>4 DEF MonitoringLoaded, MonitoringSaved, Handle
    <2>2. r.op = "load" \/ r.op = "save" BY <1>4 DEF MonitoringLoaded, MonitoringSaved
    <2>3. r.ans # Failed /\ {"busy", "draft", "stored"} \subseteq DOMAIN view =>
             DOMAIN v = DOMAIN view /\ v.stored = IF r.op = "load" THEN r.ans ELSE r.arg
      BY DEF Idle
    <2> HIDE DEF v
    <2>4. GoesOn(r, v, kept, net \ {r}, {}) BY <2>1, <1>r, HandlerIsOver
    <2> QED BY <2>2, <2>3, <2>4 DEF MonitoringKnows, GoesOn
  <1>5. ASSUME NEW r \in net, MonitoringServer(r) PROVE Orderly' /\ MonitoringKnows'
    <2> DEFINE saved == [srv EXCEPT ![r.at] = [on |-> r.arg.on, rate |-> r.arg.rate]]
               a == [on |-> srv[r.at].on, rate |-> srv[r.at].rate, text |-> FALSE]
    <2>a. /\ DOMAIN saved = DOMAIN srv
          /\ r.at \in DOMAIN srv => saved[r.at].on = r.arg.on /\ saved[r.at].rate = r.arg.rate
          /\ a.on = srv[r.at].on /\ a.rate = srv[r.at].rate
      OBVIOUS
    <2>c. \/ r.op = "load" /\ ServerAnswers(r, srv, a)
          \/ r.op = "save" /\ ServerAnswers(r, saved, Ok)
          \/ ServerAnswers(r, srv, Failed)
          \/ ServerFails(r, srv) \/ ServerFails(r, saved)
      BY <1>5 DEF MonitoringServer
    <2> HIDE DEF saved, a
    <2>1. CASE r.op = "load" /\ ServerAnswers(r, srv, a)
      <3>1. PICK q : Answers(r, srv, a, q) BY <2>1, <1>r, ServerSays
      <3> QED BY <2>1, <2>a, <3>1 DEF MonitoringKnows, Answers
    <2>2. CASE r.op = "save" /\ ServerAnswers(r, saved, Ok)
      <3>1. PICK q : Answers(r, saved, Ok, q) BY <2>2, <1>r, ServerSays
      <3> QED BY <2>2, <2>a, <3>1 DEF MonitoringKnows, Answers, Reads, Queries
    <2>3. CASE ServerAnswers(r, srv, Failed) \/ ServerFails(r, srv) \/ ServerFails(r, saved)
      <3>1. Fails(srv) \/ Fails(saved) BY <2>3, <1>r, ServerFailsToSay, ServerRefuses
      <3> QED BY <2>a, <3>1 DEF MonitoringKnows, Fails
    <2> QED BY <2>c, <2>1, <2>2, <2>3
  <1> QED BY <1>1, <1>2, <1>3, <1>4, <1>5 DEF MonitoringNext

(* The master switch comes with the preferences, and is not stored here.   *)
PreferencesKnows ==
    /\ DOMAIN srv = Dbs
    /\ Quiet =>
         /\ at \in Dbs /\ {"busy", "draft", "stored", "master"} \subseteq DOMAIN view
         /\ \A r \in net : /\ r.op \in {"load", "save"}
                           /\ r.sent = FALSE => r.ans.prefs = srv[at]
         /\ net = {} => view.stored = srv[at]

(* What is saved is what the page shows next.                              *)
LEMMA PreferencesStored ==
    ASSUME Core, Orderly, PreferencesKnows, OpenPreferences \/ PreferencesNext
    PROVE  Orderly' /\ PreferencesKnows'
  <1>r. \A r \in net : IsRequest(r) BY DEF Core, Sound
  <1>1. CASE OpenPreferences
    <2>1. PICK d \in Dbs : OpenAt(d, PreferencesHooks, {Request("load", None)})
      BY <1>1 DEF OpenPreferences
    <2>2. PICK n : Opens(d, PreferencesHooks, n) /\ Asks1(n, d, "load", None)
      BY <2>1, OpensWithOne
    <2> QED BY <2>2 DEF PreferencesKnows, PreferencesHooks, Opens, Asks1, Fresh
  <1>2. CASE SwitchPreferences
    <2>1. PICK d \in Dbs : SwitchTo(d, Busy(view, "load"), {Request("load", None)})
      BY <1>2 DEF SwitchPreferences
    <2>2. PICK n : Opens(d, Busy(view, "load"), n) /\ Asks1(n, d, "load", None)
      BY <2>1, OpensWithOne
    <2>3. Quiet' => Quiet BY <2>1, PageAssumption DEF SwitchTo, Quiet
    <2> QED BY <2>2, <2>3 DEF PreferencesKnows, Opens, Asks1, Fresh, Busy
  <1>3. ASSUME NEW x, PreferencesEdit(x) PROVE Orderly' /\ PreferencesKnows'
    <2>1. Acts([view EXCEPT !.draft = x], {}) BY <1>3, UserEdits DEF PreferencesEdit
    <2> QED BY <2>1 DEF PreferencesKnows, Acts
  <1>4. CASE PreferencesSave
    <2>1. PICK n : Acts(Busy(view, "save"), n) /\ Asks1(n, at, "save", view.draft)
      BY <1>4, UserPresses DEF PreferencesSave
    <2> QED BY <2>1 DEF PreferencesKnows, Acts, Asks1, Fresh, Busy
  <1>5. ASSUME NEW r \in net, PreferencesLoaded(r) \/ PreferencesSaved(r)
        PROVE  Orderly' /\ PreferencesKnows'
    <2> DEFINE v == IF r.op = "load"
                    THEN IF r.ans = Failed THEN Idle(view, "load")
                         ELSE [Idle(view, "load") EXCEPT !.draft = r.ans.prefs,
                                   !.stored = r.ans.prefs, !.master = r.ans.master]
                    ELSE IF r.ans = Failed THEN Idle(view, "save")
                         ELSE [Idle(view, "save") EXCEPT !.draft = r.ans.prefs,
                                   !.stored = r.ans.prefs]
    <2>1. Settle(r, v, kept, {}, {}) BY <1>5 DEF PreferencesLoaded, PreferencesSaved, Handle
    <2>2. r.ans # Failed /\ {"busy", "draft", "stored", "master"} \subseteq DOMAIN view =>
             DOMAIN v = DOMAIN view /\ v.stored = r.ans.prefs
      BY DEF Idle
    <2> HIDE DEF v
    <2>3. GoesOn(r, v, kept, net \ {r}, {}) BY <2>1, <1>r, HandlerIsOver
    <2> QED BY <2>2, <2>3 DEF PreferencesKnows, GoesOn
  <1>6. ASSUME NEW r \in net, PreferencesServer(r) PROVE Orderly' /\ PreferencesKnows'
    <2> DEFINE saved == [srv EXCEPT ![r.at] = r.arg]
               told(m) == [prefs |-> srv[r.at], master |-> m]
               kept1 == [prefs |-> r.arg, master |-> TRUE]
    <2>a. /\ DOMAIN saved = DOMAIN srv
          /\ r.at \in DOMAIN srv => saved[r.at] = r.arg
          /\ kept1.prefs = r.arg /\ \A m : told(m).prefs = srv[r.at]
      OBVIOUS
    <2>c. \/ r.op = "load" /\ \E m \in BOOLEAN : ServerAnswers(r, srv, told(m))
          \/ r.op = "save" /\ ServerAnswers(r, saved, kept1)
          \/ ServerFails(r, srv) \/ ServerFails(r, saved)
      BY <1>6 DEF PreferencesServer
    <2> HIDE DEF saved, told, kept1
    <2>1. CASE r.op = "load" /\ \E m \in BOOLEAN : ServerAnswers(r, srv, told(m))
      <3>1. PICK m : ServerAnswers(r, srv, told(m)) BY <2>1
      <3>2. PICK q : Answers(r, srv, told(m), q) BY <3>1, <1>r, ServerSays
      <3> QED BY <2>1, <2>a, <3>2 DEF PreferencesKnows, Answers
    <2>2. CASE r.op = "save" /\ ServerAnswers(r, saved, kept1)
      <3>1. PICK q : Answers(r, saved, kept1, q) BY <2>2, <1>r, ServerSays
      <3> QED BY <2>2, <2>a, <3>1 DEF PreferencesKnows, Answers, Reads, Queries
    <2>3. CASE ServerFails(r, srv) \/ ServerFails(r, saved)
      <3>1. Fails(srv) \/ Fails(saved) BY <2>3, <1>r, ServerFailsToSay
      <3> QED BY <2>a, <3>1 DEF PreferencesKnows, Fails
    <2> QED BY <2>c, <2>1, <2>2, <2>3
  <1> QED BY <1>1, <1>2, <1>3, <1>4, <1>5, <1>6 DEF PreferencesNext

(* The restart and the name of the database change none of the limits.     *)
LimitsKnows ==
    /\ DOMAIN srv = Dbs
    /\ Quiet =>
         /\ at \in Dbs
         /\ {"busy", "database", "draft", "stored", "error", "restart"} \subseteq DOMAIN view
         /\ \A r \in net :
               /\ r.op \in {"load", "database", "restart", "save"}
               /\ r.sent = FALSE /\ r.op = "load" => r.ans.v = srv[at]
               /\ r.sent = FALSE /\ r.op = "save" => r.arg = srv[at]
         /\ (\A r \in net : r.op \in {"database", "restart"}) => view.stored = srv[at]

(* The limits are read again when they are saved; a restart leaves them.   *)
LEMMA LimitsStored ==
    ASSUME Core, Orderly, LimitsKnows, OpenLimits \/ LimitsNext PROVE Orderly' /\ LimitsKnows'
  <1>r. \A r \in net : IsRequest(r) BY DEF Core, Sound
  <1>a. "database" \in Reads /\ "load" \in Reads /\ "save" \notin Reads /\ "restart" \notin Reads
    BY DEF Reads, Queries
  <1>1. CASE OpenLimits
    <2>1. PICK d \in Dbs : OpenAt(d, LimitsHooks, {Request("database", None), Request("load", None)})
      BY <1>1 DEF OpenLimits, LimitsRequests
    <2>2. PICK n : Opens(d, LimitsHooks, n) /\ Asks2(n, d, "database", None, "load", None)
      BY <2>1, <1>a, OpensWithTwo
    <2> QED BY <2>2 DEF LimitsKnows, LimitsHooks, Opens, Asks2, Fresh
  <1>2. CASE SwitchLimits
    <2>1. PICK d \in Dbs : SwitchTo(d, view, {Request("database", None), Request("load", None)})
      BY <1>2 DEF SwitchLimits, LimitsRequests
    <2>2. PICK n : Opens(d, view, n) /\ Asks2(n, d, "database", None, "load", None)
      BY <2>1, <1>a, OpensWithTwo
    <2>3. Quiet' => Quiet BY <2>1, PageAssumption DEF SwitchTo, Quiet
    <2> QED BY <2>2, <2>3 DEF LimitsKnows, Opens, Asks2, Fresh
  <1>3. CASE LimitsReset \/ \E x \in Vals \cup {0} : LimitsEdit(x)
    <2>1. PICK x, e : Act([view EXCEPT !.draft = x], {}) \/ Act([view EXCEPT !.draft = x, !.error = e], {})
      BY <1>3, Zenon DEF LimitsReset, LimitsEdit
    <2>2. Acts([view EXCEPT !.draft = x], {}) \/ Acts([view EXCEPT !.draft = x, !.error = e], {})
      BY <2>1, UserEdits
    <2> QED BY <2>2 DEF LimitsKnows, Acts
  <1>4. CASE LimitsSave
    <2> DEFINE v == [Busy(view, "save") EXCEPT !.error = FALSE]
    <2>0. DOMAIN v = DOMAIN view BY DEF Busy
    <2> HIDE DEF v
    <2>1. PICK n : Acts(v, n) /\ Asks1(n, at, "save", view.draft)
      BY <1>4, UserPresses DEF LimitsSave, v
    <2> QED BY <2>0, <2>1 DEF LimitsKnows, Acts, Asks1, Fresh
  <1>5. CASE LimitsRestart
    <2>1. PICK n : Acts(view, n) /\ Asks1(n, at, "restart", None)
      BY <1>5, UserPresses DEF LimitsRestart
    <2> QED BY <2>1 DEF LimitsKnows, Acts, Asks1, Fresh
  <1>6. ASSUME NEW r \in net, LimitsDatabase(r) \/ LimitsRestarted(r)
        PROVE  Orderly' /\ LimitsKnows'
    <2>1. PICK v : /\ Settle(r, v, kept, {}, {})
                   /\ {"busy", "database", "draft", "stored", "error", "restart"} \subseteq DOMAIN view =>
                         DOMAIN v = DOMAIN view /\ v.stored = view.stored
      <3> DEFINE a == [Idle(view, "load") EXCEPT !.error = TRUE]
                 b == [Idle(view, "load") EXCEPT !.database = TRUE]
                 c == [view EXCEPT !.restart = FALSE]
                 e == [view EXCEPT !.error = TRUE]
      <3>1. \A v \in {a, b, c, e} :
               {"busy", "database", "draft", "stored", "error", "restart"} \subseteq DOMAIN view =>
                         DOMAIN v = DOMAIN view /\ v.stored = view.stored
        BY DEF Idle
      <3>2. \E v \in {a, b, c, e} : Settle(r, v, kept, {}, {})
        BY <1>6 DEF LimitsDatabase, LimitsRestarted, Handle
      <3> HIDE DEF a, b, c, e
      <3> QED BY <3>1, <3>2
    <2>2. GoesOn(r, v, kept, net \ {r}, {}) BY <2>1, <1>r, HandlerIsOver
    <2>3. r.op \in {"database", "restart"} BY <1>6 DEF LimitsDatabase, LimitsRestarted
    <2> QED BY <2>1, <2>2, <2>3 DEF LimitsKnows, GoesOn
  <1>7. ASSUME NEW r \in net, LimitsLoaded(r) \/ LimitsSaved(r) PROVE Orderly' /\ LimitsKnows'
    <2> DEFINE v == IF r.op = "load"
                    THEN IF r.ans = Failed THEN view
                         ELSE [view EXCEPT !.draft = r.ans.v, !.stored = r.ans.v]
                    ELSE IF r.ans = Failed THEN [Idle(view, "save") EXCEPT !.error = TRUE]
                         ELSE [Idle(view, "save") EXCEPT !.stored = r.arg,
                                   !.restart = r.ans.restart]
    <2>1. Settle(r, v, kept, {}, {}) /\ r.op \in {"load", "save"}
      BY <1>7 DEF LimitsLoaded, LimitsSaved, Handle
    <2>2. /\ r.ans # Failed
          /\ {"busy", "database", "draft", "stored", "error", "restart"} \subseteq DOMAIN view
          => DOMAIN v = DOMAIN view /\ v.stored = IF r.op = "load" THEN r.ans.v ELSE r.arg
      BY DEF Idle
    <2> HIDE DEF v
    <2>3. GoesOn(r, v, kept, net \ {r}, {}) BY <2>1, <1>r, HandlerIsOver
    <2> QED BY <2>1, <2>2, <2>3, <1>a DEF LimitsKnows, GoesOn
  <1>8. ASSUME NEW r \in net, LimitsServer(r) PROVE Orderly' /\ LimitsKnows'
    <2> DEFINE saved == [srv EXCEPT ![r.at] = r.arg]
               told == [v |-> srv[r.at], restart |-> FALSE]
               kept1(b) == [v |-> r.arg, restart |-> b]
    <2>a. /\ DOMAIN saved = DOMAIN srv
          /\ r.at \in DOMAIN srv => saved[r.at] = r.arg
          /\ told.v = srv[r.at]
      OBVIOUS
    <2>c. \/ r.op # "save" /\ ServerAnswers(r, srv, told)
          \/ r.op = "save" /\ \E b \in BOOLEAN : ServerAnswers(r, saved, kept1(b))
          \/ ServerAnswers(r, srv, Failed) \/ ServerFails(r, srv) \/ ServerFails(r, saved)
      BY <1>8 DEF LimitsServer
    <2> HIDE DEF saved, told, kept1
    <2>1. CASE r.op # "save" /\ ServerAnswers(r, srv, told)
      <3>1. PICK q : Answers(r, srv, told, q) BY <2>1, <1>r, ServerSays
      <3> QED BY <2>1, <2>a, <3>1 DEF LimitsKnows, Answers
    <2>2. CASE r.op = "save" /\ \E b \in BOOLEAN : ServerAnswers(r, saved, kept1(b))
      <3>1. PICK b : ServerAnswers(r, saved, kept1(b)) BY <2>2
      <3>2. PICK q : Answers(r, saved, kept1(b), q) BY <3>1, <1>r, ServerSays
      <3> QED BY <2>2, <2>a, <3>2, <1>a DEF LimitsKnows, Answers
    <2>3. CASE ServerAnswers(r, srv, Failed) \/ ServerFails(r, srv) \/ ServerFails(r, saved)
      <3>1. Fails(srv) \/ Fails(saved) BY <2>3, <1>r, ServerFailsToSay, ServerRefuses
      <3> QED BY <2>a, <3>1 DEF LimitsKnows, Fails
    <2> QED BY <2>c, <2>1, <2>2, <2>3
  <1> QED BY <1>1, <1>2, <1>3, <1>4, <1>5, <1>6, <1>7, <1>8 DEF LimitsNext

(* The three documents are stored one by one: a request for one of them    *)
(* finds those before it stored.                                           *)
IsForm(f) == f = [channels |-> f.channels, events |-> f.events, master |-> f.master]

NotificationsKnows ==
    /\ DOMAIN srv = {Server} /\ IsForm(srv[Server])
    /\ at \in {None, Server}
    /\ \A r \in net : r.at = Server
    /\ ~upset =>
         \A r \in net :
            /\ r.op \in {"events", "master"} => srv[Server].channels = r.arg.form.channels
            /\ r.op = "master" => srv[Server].events = r.arg.form.events
            /\ r.sent = FALSE =>
                  /\ r.op = "channels" => srv[Server].channels = r.arg.form.channels
                  /\ r.op = "events" => srv[Server].events = r.arg.form.events
                  /\ r.op = "master" => srv[Server].master = r.arg.form.master
    /\ Quiet =>
         /\ {"busy", "draft", "stored"} \subseteq DOMAIN view /\ IsForm(view.draft)
         /\ \A r \in net : /\ r.op = "load" /\ r.sent = FALSE => r.ans = srv[Server]
                           /\ r.op \in {"channels", "events", "master"} => IsForm(r.arg.form)
         /\ (\A r \in net : r.op \in Tests) => view.stored = srv[Server]

(* Each document is stored before the next is sent.                        *)
LEMMA NotificationsStored ==
    ASSUME Core, Numbered, Orderly, page = "notifications", NotificationsKnows,
           OpenNotifications \/ NotificationsNext
    PROVE  Orderly' /\ NotificationsKnows'
  <1>r. \A r \in net : IsRequest(r) BY DEF Core, Sound
  <1>n. \A r \in net : \/ r.op \in {"load"} \cup Tests \/ (r.op = "channels" /\ r.arg.next = 2)
                       \/ (r.op = "events" /\ r.arg.next = 3) \/ (r.op = "master" /\ r.arg.next = 4)
    BY DEF Numbered
  <1>s. /\ ({"channels", "events", "master"} \cup Tests) \cap (Reads \cup {"load"}) = {}
        /\ Tests \cap {"channels", "events", "master"} = {}
    BY DEF Reads, Queries, Tests
  <1>1. CASE OpenNotifications
    <2>1. PICK n : Opens(Server, NotificationsHooks, n) /\ Asks1(n, Server, "load", None)
      BY <1>1, OpensWithOne DEF OpenNotifications
    <2>2. \A x \in net' : x.at = Server BY <2>1 DEF NotificationsKnows, Opens, Asks1, Fresh
    <2> QED BY <1>s, <2>1, <2>2
        DEF NotificationsKnows, NotificationsHooks, NotificationsDefault, IsForm, Opens, Asks1, Fresh, Quiet
  <1>2. CASE EditMaster \/ \E x \in Vals : EditChannels(x)
    <2>1. PICK c, e, m : \/ Act([view EXCEPT !.draft.channels = c, !.draft.events = e], {})
                         \/ Act([view EXCEPT !.draft.master = m], {})
      BY <1>2, Zenon DEF EditMaster, EditChannels
    <2> DEFINE v == [view EXCEPT !.draft.channels = c, !.draft.events = e]
               w == [view EXCEPT !.draft.master = m]
    <2>2. Acts(v, {}) \/ Acts(w, {}) BY <2>1, UserEdits
    <2>a. {"busy", "draft", "stored"} \subseteq DOMAIN view =>
             /\ DOMAIN v = DOMAIN view /\ v.stored = view.stored
             /\ DOMAIN w = DOMAIN view /\ w.stored = view.stored
      OBVIOUS
    <2>b. "draft" \in DOMAIN view => /\ v.draft = [view.draft EXCEPT !.channels = c, !.events = e]
                                    /\ w.draft = [view.draft EXCEPT !.master = m]
      OBVIOUS
    <2>c. "draft" \in DOMAIN view /\ IsForm(view.draft) => IsForm(v.draft) /\ IsForm(w.draft)
      <3>1. ASSUME NEW f, IsForm(f)
            PROVE  IsForm([f EXCEPT !.channels = c, !.events = e]) /\ IsForm([f EXCEPT !.master = m])
        <4> DEFINE g == [channels |-> f.channels, events |-> f.events, master |-> f.master]
                   h == [channels |-> c, events |-> f.events, master |-> f.master]
                   i == [channels |-> c, events |-> e, master |-> f.master]
                   j == [channels |-> f.channels, events |-> f.events, master |-> m]
        <4>1. h = [g EXCEPT !.channels = c] OBVIOUS
        <4>2. i = [h EXCEPT !.events = e] OBVIOUS
        <4>3. j = [g EXCEPT !.master = m] OBVIOUS
        <4>4. IsForm(i) /\ IsForm(j) BY DEF IsForm
        <4>5. f = g BY <3>1 DEF IsForm
        <4> HIDE DEF g, h, i, j
        <4>6. [f EXCEPT !.channels = c, !.events = e] = [[f EXCEPT !.channels = c] EXCEPT !.events = e]
          OBVIOUS
        <4>7. [f EXCEPT !.channels = c, !.events = e] = i BY <4>1, <4>2, <4>5, <4>6
        <4> QED BY <4>3, <4>4, <4>5, <4>7
      <3> HIDE DEF v, w
      <3> QED BY <2>b, <3>1
    <2>3. \A x \in {v, w} : {"busy", "draft", "stored"} \subseteq DOMAIN view /\ IsForm(view.draft) =>
             DOMAIN x = DOMAIN view /\ x.stored = view.stored /\ IsForm(x.draft)
      <3> HIDE DEF v, w
      <3> QED BY <2>a, <2>c
    <2> HIDE DEF v, w
    <2> QED BY <2>2, <2>3 DEF NotificationsKnows, Acts, Quiet
  <1>3. CASE SaveNotifications
    <2> DEFINE arg == [form |-> view.draft, next |-> 2]
    <2>1. arg.form = view.draft /\ SaveDocument(1, view.draft) = Request("channels", arg)
      BY DEF SaveDocument, Documents
    <2> HIDE DEF arg
    <2>2. PICK n : Acts(Busy(view, "save"), n) /\ Asks1(n, at, "channels", arg)
      BY <1>3, <2>1, UserPresses DEF SaveNotifications
    <2> QED BY <2>1, <2>2 DEF NotificationsKnows, Acts, Asks1, Fresh, Busy, Quiet
  <1>4. ASSUME NEW channel \in Tests, TestChannel(channel) PROVE Orderly' /\ NotificationsKnows'
    <2> DEFINE arg == [form |-> NotificationsDefault, next |-> 0]
    <2>2. PICK n : Acts(Busy(view, channel), n) /\ Asks1(n, at, channel, arg)
      BY <1>4, UserPresses DEF TestChannel
    <2> HIDE DEF arg
    <2> QED BY <1>s, <2>2 DEF NotificationsKnows, Acts, Asks1, Fresh, Busy, Quiet
  <1>5. ASSUME NEW r \in net, NotificationsLoaded(r) \/ ChannelTested(r)
        PROVE  Orderly' /\ NotificationsKnows'
    <2> DEFINE v == IF r.op \in Tests THEN Idle(view, r.op)
                    ELSE IF r.ans = Failed THEN Idle(view, "load")
                    ELSE [Idle(view, "load") EXCEPT !.draft = r.ans, !.stored = r.ans]
    <2>1. Settle(r, v, kept, {}, {}) /\ r.op \in {"load"} \cup Tests
      BY <1>5, <1>s DEF NotificationsLoaded, ChannelTested, Handle
    <2>2. {"busy", "draft", "stored"} \subseteq DOMAIN view /\ r.ans # Failed =>
             /\ DOMAIN v = DOMAIN view
             /\ r.op = "load" => v.stored = r.ans /\ v.draft = r.ans
             /\ r.op \in Tests => v.stored = view.stored /\ v.draft = view.draft
      BY <1>s DEF Idle
    <2> HIDE DEF v
    <2>3. GoesOn(r, v, kept, net \ {r}, {}) BY <2>1, <1>r, HandlerIsOver
    <2> QED BY <1>s, <2>1, <2>2, <2>3 DEF NotificationsKnows, GoesOn, Quiet
  <1>6. ASSUME NEW r \in net, DocumentSaved(r) PROVE Orderly' /\ NotificationsKnows'
    <2>0. r.op \in {"channels", "events", "master"} /\ r.op \notin Reads
      BY <1>6, <1>s DEF DocumentSaved
    <2>1. CASE r.ans = Failed \/ r.op = "master"
      <3> DEFINE v == IF r.ans = Failed THEN Idle(view, "save")
                      ELSE [Idle(view, "save") EXCEPT !.draft = r.arg.form, !.stored = r.arg.form]
      <3>0. r.op = "master" => ~(r.arg.next <= Len(Documents)) BY <1>n, <2>0 DEF Documents, Tests
      <3>1. Settle(r, v, kept, {}, {}) BY <1>6, <2>1, <3>0 DEF DocumentSaved, Handle
      <3>2. {"busy", "draft", "stored"} \subseteq DOMAIN view /\ r.ans # Failed =>
             DOMAIN v = DOMAIN view /\ v.stored = r.arg.form /\ v.draft = r.arg.form
        BY DEF Idle
      <3> HIDE DEF v
      <3>3. GoesOn(r, v, kept, net \ {r}, {}) BY <3>1, <1>r, HandlerIsOver
      <3>4. Quiet /\ r.ans # Failed => r.arg.form = srv[Server]
        BY <2>0, <2>1, <3>3 DEF NotificationsKnows, GoesOn, IsForm, Quiet
      <3> QED BY <2>0, <3>2, <3>3, <3>4 DEF NotificationsKnows, GoesOn, Quiet
    <2>2. CASE ~(r.ans = Failed \/ r.op = "master")
      <3> DEFINE op == IF r.op = "channels" THEN "events" ELSE "master"
                 arg == [form |-> r.arg.form, next |-> r.arg.next + 1]
      <3>1. (r.op = "channels" /\ r.arg.next = 2) \/ (r.op = "events" /\ r.arg.next = 3)
        BY <1>n, <2>0, <2>2 DEF Tests
      <3>2. r.arg.next <= Len(Documents) /\ Documents[r.arg.next] = op BY <3>1 DEF Documents
      <3>3. Settle(r, view, kept, {}, Sent(r.at, {Request(op, arg)}))
        BY <1>6, <2>2, <3>2 DEF DocumentSaved, SaveDocument, Handle
      <3>4. arg.form = r.arg.form /\ (r.op = "channels" => op = "events")
                                  /\ (r.op = "events" => op = "master")
        OBVIOUS
      <3> HIDE DEF op, arg
      <3>5. PICK n : GoesOn(r, view, kept, net \ {r}, n) /\ Asks1(n, r.at, op, arg)
        BY <3>3, <1>r, HandlerAsks
      <3>6. \A x \in net' : ~upset \/ Quiet => x.op = op /\ x.arg = arg /\ x.sent = TRUE
        BY <2>0, <3>5 DEF GoesOn, Asks1, Like, Fresh
      <3>7. \A x \in net' : x.at = Server
        BY <3>5 DEF NotificationsKnows, GoesOn, Asks1, Like, Fresh
      <3> QED BY <1>s, <2>0, <2>2, <3>1, <3>4, <3>5, <3>6, <3>7
          DEF NotificationsKnows, GoesOn, Asks1, Quiet
    <2> QED BY <2>1, <2>2
  <1>7. ASSUME NEW r \in net, NotificationsServer(r) PROVE Orderly' /\ NotificationsKnows'
    <2> DEFINE s == IF r.op \in {"channels", "events", "master"}
                    THEN [srv EXCEPT ![r.at][r.op] = r.arg.form[r.op]] ELSE srv
               a == IF r.op = "load" THEN srv[r.at] ELSE Ok
    <2>1. /\ DOMAIN s = {Server} /\ IsForm(s[Server])
          /\ s[Server].channels = IF r.op = "channels" THEN r.arg.form.channels ELSE srv[Server].channels
          /\ s[Server].events = IF r.op = "events" THEN r.arg.form.events ELSE srv[Server].events
          /\ s[Server].master = IF r.op = "master" THEN r.arg.form.master ELSE srv[Server].master
          /\ r.op = "load" => s = srv
      <3>1. r.at = Server /\ DOMAIN srv = {Server} /\ IsForm(srv[Server]) BY DEF NotificationsKnows
      <3>2. CASE r.op = "channels" BY <3>1, <3>2 DEF IsForm
      <3>3. CASE r.op = "events" BY <3>1, <3>3 DEF IsForm
      <3>4. CASE r.op = "master" BY <3>1, <3>4 DEF IsForm
      <3>5. CASE r.op \notin {"channels", "events", "master"} BY <3>1, <3>5
      <3> QED BY <3>2, <3>3, <3>4, <3>5
    <2>2. ServerAnswers(r, s, a) \/ ServerFails(r, s) BY <1>7 DEF NotificationsServer
    <2>3. r.op = "load" => a = srv[r.at] OBVIOUS
    <2> HIDE DEF s, a
    <2>4. CASE ServerAnswers(r, s, a)
      <3>1. PICK q : Answers(r, s, a, q) BY <2>4, <1>r, ServerSays
      <3>2. r.op \in {"channels", "events", "master"} => r.op \notin Reads BY <1>s
      <3>3. r.op \in {"load"} \cup Tests => s[Server] = srv[Server]
        BY <1>s, <2>1 DEF NotificationsKnows, IsForm
      <3> QED BY <1>s, <2>1, <2>3, <3>1, <3>2, <3>3, <1>n DEF NotificationsKnows, Answers, Quiet
    <2>5. CASE ServerFails(r, s)
      <3>1. Fails(s) BY <2>5, <1>r, ServerFailsToSay
      <3> QED BY <2>1, <3>1 DEF NotificationsKnows, Fails
    <2> QED BY <2>2, <2>4, <2>5
  <1> QED BY <1>1, <1>2, <1>3, <1>4, <1>5, <1>6, <1>7 DEF NotificationsNext

(* A save goes on when its page is left.                                   *)
LEMMA NotificationsLeft ==
    ASSUME Core, Orderly, NotificationsKnows, Leaves(net) PROVE NotificationsKnows'
BY DEF NotificationsKnows, Leaves, Like

(* The settings of a database's backups: `Of` is whose they are.  A form   *)
(* that can be saved is of the database the page shows, though it outlives *)
(* a move: there is nothing to compare it with before the settings of that *)
(* database have come, and they replace it.                                *)
IsSettings(f) == f = [of |-> f.of, fields |-> f.fields, access |-> f.access]
Of(f, d) == IsSettings(f) /\ f.of = d

Owned(r) ==
    /\ r.at \in Dbs
    /\ \/ r.op = "save" /\ Of(r.arg, r.at)
       \/ r.op = "settings" /\ r.mine = TRUE
            /\ (r.sent = TRUE \/ (r.sent = FALSE /\ (r.ans = Failed \/ Of(r.ans, r.at))))

SettingsOwned ==
    /\ DOMAIN srv = Dbs /\ \A d \in Dbs : Of(srv[d], d)
    /\ DOMAIN kept = {"settings", "stale"} /\ DOMAIN kept["settings"] = Dbs
    /\ \A d \in Dbs : kept["settings"][d] = None \/ Of(kept["settings"][d], d)
    /\ at # None => /\ at \in Dbs /\ {"busy", "form"} \subseteq DOMAIN view
                    /\ IsSettings(view.form)
                    /\ kept["settings"][at] = None \/ Of(view.form, at)
    /\ \A r \in net : Owned(r)

(* Editing and masking settings leaves them whose they are.                *)
LEMMA SettingsEdited ==
    ASSUME NEW f, NEW d, Of(f, d), NEW x
    PROVE  Of([f EXCEPT !.fields = x], d) /\ Of([f EXCEPT !.access = x], d)
  <1> DEFINE g == [of |-> f.of, fields |-> f.fields, access |-> f.access]
             h == [of |-> f.of, fields |-> x, access |-> f.access]
             i == [of |-> f.of, fields |-> f.fields, access |-> x]
  <1>1. h = [g EXCEPT !.fields = x] /\ i = [g EXCEPT !.access = x] OBVIOUS
  <1>2. f = g BY DEF Of, IsSettings
  <1>3. Of(h, d) /\ Of(i, d) BY DEF Of, IsSettings
  <1> HIDE DEF g, h, i
  <1> QED BY <1>1, <1>2, <1>3

Masked(f) == [f EXCEPT !.access = IF @ = None THEN None ELSE Mask]

(* What a save stores: the form, with the key that was there for a blank.  *)
Written(r) == [r.arg EXCEPT !.of = r.at, !.access = IF @ = None THEN srv[r.at].access ELSE @]

(* What a save stores is of its database.                                  *)
LEMMA SettingsWritten ==
    ASSUME NEW r, Of(r.arg, r.at) PROVE Of(Written(r), r.at)
  <1> DEFINE f == r.arg
             b == IF f.access = None THEN srv[r.at].access ELSE f.access
             g == [of |-> f.of, fields |-> f.fields, access |-> f.access]
             h == [of |-> r.at, fields |-> f.fields, access |-> f.access]
             i == [of |-> r.at, fields |-> f.fields, access |-> b]
  <1>1. Written(r) = [[f EXCEPT !.of = r.at] EXCEPT !.access = b] BY DEF Written, Of, IsSettings
  <1>2. f = g BY DEF Of, IsSettings
  <1> HIDE DEF f
  <1>3. h = [g EXCEPT !.of = r.at] OBVIOUS
  <1> HIDE DEF b
  <1>4. i = [h EXCEPT !.access = b] OBVIOUS
  <1>5. Of(i, r.at) BY DEF Of, IsSettings
  <1> HIDE DEF g, h, i
  <1> QED BY <1>1, <1>2, <1>3, <1>4, <1>5

(* Masking the key leaves settings whose they are.                         *)
LEMMA SettingsMasked == ASSUME NEW f, NEW d, Of(f, d) PROVE Of(Masked(f), d)
  <1> DEFINE x == IF f.access = None THEN None ELSE Mask
  <1>1. Masked(f) = [f EXCEPT !.access = x] BY DEF Masked
  <1> HIDE DEF x
  <1>2. Of([f EXCEPT !.access = x], d) BY SettingsEdited
  <1> QED BY <1>1, <1>2

(* Who saves has the page open.                                            *)
LEMMA SaverHasPage ==
    ASSUME Core, page = "backup settings", NEW r \in net, r.op = "save", r.mine = TRUE
    PROVE  at # None
  <1>1. page \in PlainPages BY DEF PlainPages
  <1>2. r.op \notin Reads \cup {"rows", "restart", "avatar"} BY DEF Reads, Queries
  <1>3. Raised(page, r) = {"save"} BY <1>1, <1>2, PlainFlags
  <1> QED BY <1>3 DEF Core

(* No step makes a form another database's that could be saved.            *)
LEMMA SettingsOwnedKeeps ==
    ASSUME Core, page = "backup settings", SettingsOwned, OpenBackupSettings \/ BackupSettingsNext
    PROVE  SettingsOwned'
  <1>r. \A r \in net : IsRequest(r) /\ Owned(r) BY DEF Core, Sound, SettingsOwned
  <1>q. "settings" \in Queries /\ "save" \notin Queries BY DEF Queries
  <1>n. None \notin Dbs BY PageAssumption
  <1>1. ASSUME NEW d \in Dbs, NEW asked \in MayRefetch("settings", d), NEW w,
               {"busy", "form"} \subseteq DOMAIN w, IsSettings(w.form),
               \/ OpenAt(d, CopySettings(w, kept["settings"][d]), asked)
               \/ SwitchTo(d, CopySettings(w, kept["settings"][d]), asked)
        PROVE  SettingsOwned'
    <2> DEFINE v == CopySettings(w, kept["settings"][d])
    <2>1. /\ {"busy", "form"} \subseteq DOMAIN v
          /\ IF kept["settings"][d] = None THEN v.form = w.form ELSE v.form = kept["settings"][d]
      BY <1>1 DEF CopySettings
    <2>2. IsSettings(v.form) /\ (kept["settings"][d] = None \/ Of(v.form, d))
      BY <1>1, <2>1 DEF SettingsOwned, Of
    <2>a. OpenAt(d, v, asked) \/ SwitchTo(d, v, asked) BY <1>1
    <2> HIDE DEF v
    <2>3. PICK n : Opens(d, v, n) /\ (n = {} \/ Asks1(n, d, "settings", None)) BY <2>a, OpensFrom
    <2>4. \A x \in net' : Owned(x) BY <1>r, <2>3 DEF Opens, Asks1, Fresh, Owned
    <2> QED BY <2>1, <2>2, <2>3, <2>4 DEF SettingsOwned, Opens
  <1>2. CASE OpenBackupSettings
    <2>1. PICK d \in Dbs : \E asked \in MayRefetch("settings", d) :
             OpenAt(d, CopySettings(BackupSettingsHooks(d), kept["settings"][d]), asked)
      BY <1>2 DEF OpenBackupSettings
    <2>2. DOMAIN BackupSettingsHooks(d) = {"busy", "form"} /\ IsSettings(BackupSettingsHooks(d).form)
      BY DEF BackupSettingsHooks, IsSettings, FreshForm
    <2> QED BY <1>1, <2>1, <2>2
  <1>3. CASE SwitchBackupSettings
    <2>1. PICK d \in Dbs : \E asked \in MayRefetch("settings", d) :
             SwitchTo(d, CopySettings(view, kept["settings"][d]), asked)
      BY <1>3 DEF SwitchBackupSettings
    <2>2. at # None BY <1>n, <2>1 DEF SwitchTo
    <2>3. {"busy", "form"} \subseteq DOMAIN view /\ IsSettings(view.form) BY <2>2 DEF SettingsOwned
    <2> QED BY <1>1, <2>1, <2>3
  <1>4. CASE EditBackupSettings \/ ApplyAutomation
    <2>1. PICK x : Act([view EXCEPT !.form.fields = x], {}) \/ Act([view EXCEPT !.form.access = x], {})
      BY <1>4, Zenon DEF EditBackupSettings, ApplyAutomation, EditFields
    <2> DEFINE f == [view.form EXCEPT !.fields = x]
               g == [view.form EXCEPT !.access = x]
    <2>2. at # None BY <2>1 DEF Act
    <2>3. {"busy", "form"} \subseteq DOMAIN view BY <2>2 DEF SettingsOwned
    <2>4. /\ [view EXCEPT !.form.fields = x] = [view EXCEPT !.form = f]
          /\ [view EXCEPT !.form.access = x] = [view EXCEPT !.form = g]
      BY <2>3
    <2>5. \A d : Of(view.form, d) => Of(f, d) /\ Of(g, d) BY SettingsEdited
    <2>6. \A d : Of(view.form, d) <=> IsSettings(view.form) /\ view.form.of = d BY DEF Of
    <2> HIDE DEF f, g
    <2>7. PICK h \in {f, g} : Act([view EXCEPT !.form = h], {}) BY <2>1, <2>4
    <2>8. \A d : Of(view.form, d) => Of(h, d) BY <2>5
    <2>9. IsSettings(h) BY <2>2, <2>6, <2>8 DEF SettingsOwned, Of
    <2>10. DOMAIN view' = DOMAIN view /\ view'.form = h BY <2>3, <2>7 DEF Act
    <2>11. net' = net /\ UNCHANGED <<at, kept, srv>> BY <2>7 DEF Act
    <2> QED BY <2>2, <2>8, <2>9, <2>10, <2>11 DEF SettingsOwned
  <1>5. CASE SaveBackupSettings
    <2>1. Act(Busy(view, "save"), {Request("save", view.form)}) /\ "save" \in BackupSettingsControls
      BY <1>5 DEF SaveBackupSettings
    <2>2. at # None /\ kept["settings"][at] # None
      BY <2>1 DEF Act, BackupSettingsControls, HasSettingsChanges
    <2>3. Of(view.form, at) /\ at \in Dbs BY <2>2 DEF SettingsOwned
    <2> DEFINE q == Request("save", view.form)
    <2>a. Fresh(q, at) /\ q.op = "save" /\ q.arg = view.form BY MakesFresh
    <2> HIDE DEF q
    <2>4. q.op = "save" /\ q.arg = view.form /\ q.at = at BY <2>a DEF Fresh
    <2>5. \A x \in net' : Owned(x) BY <1>r, <2>1, <2>3, <2>4 DEF Act, Owned, q
    <2>6. DOMAIN view' = DOMAIN view /\ view'.form = view.form /\ UNCHANGED <<at, kept, srv>>
      BY <2>1, <2>2 DEF Act, Busy, SettingsOwned
    <2> QED BY <2>5, <2>6 DEF SettingsOwned
  <1>6. CASE ResetBackupSettings
    <2>1. /\ Act([view EXCEPT !.form = kept["settings"][at]], {}) /\ "reset" \in BackupSettingsControls
      BY <1>6 DEF ResetBackupSettings
    <2>2. at # None /\ kept["settings"][at] # None
      BY <2>1 DEF Act, BackupSettingsControls, HasSettingsChanges
    <2>3. DOMAIN view' = DOMAIN view /\ view'.form = kept["settings"][at]
      BY <2>1, <2>2 DEF Act, SettingsOwned
    <2>4. net' = net /\ UNCHANGED <<at, kept, srv>> BY <2>1 DEF Act
    <2> QED BY <2>2, <2>3, <2>4 DEF SettingsOwned, Of
  <1>7. ASSUME NEW r \in net, SettingsFetched(r) PROVE SettingsOwned'
    <2> DEFINE k == Fetched(r)
               v == IF r.ans # Failed /\ at = r.at /\ r.ans # kept["settings"][r.at]
                    THEN CopySettings(view, r.ans) ELSE view
    <2>1. Settle(r, v, k, {}, {}) /\ r.op = "settings" BY <1>7 DEF SettingsFetched
    <2>2. r.at \in Dbs /\ r.mine = TRUE /\ (r.ans = Failed \/ Of(r.ans, r.at))
      BY <1>r, <2>1 DEF Owned, Settle, Back
    <2>3. r.ans = Failed => k = kept /\ v = view BY DEF Fetched
    <2>4. r.ans # Failed => /\ DOMAIN k = DOMAIN kept
                            /\ k["settings"] = [kept["settings"] EXCEPT ![r.at] = r.ans]
      BY <2>1, <2>2, FetchedIs DEF SettingsOwned
    <2>5. at # None => /\ DOMAIN v = DOMAIN view
                       /\ v.form = IF at = r.at /\ r.ans # Failed /\ r.ans # kept["settings"][r.at]
                                       /\ r.ans # None
                                   THEN r.ans ELSE view.form
      BY DEF CopySettings, SettingsOwned
    <2> HIDE DEF k, v
    <2>6. /\ view' = v /\ kept' = k /\ UNCHANGED <<at, srv>> /\ net' \subseteq net
      BY <2>1, <2>2 DEF Settle
    <2>7. CASE r.ans = Failed BY <2>3, <2>6, <2>7 DEF SettingsOwned
    <2>8. CASE r.ans # Failed
      <3>1. \A d \in Dbs : k["settings"][d] = IF d = r.at THEN r.ans ELSE kept["settings"][d]
        BY <2>2, <2>4, <2>8 DEF SettingsOwned
      <3>2. \A d \in Dbs : k["settings"][d] = None \/ Of(k["settings"][d], d)
        BY <2>2, <2>8, <3>1 DEF SettingsOwned
      <3>3. DOMAIN k = {"settings", "stale"} /\ DOMAIN k["settings"] = Dbs
        BY <2>4, <2>8 DEF SettingsOwned
      <3>4. at # None => /\ at \in Dbs /\ {"busy", "form"} \subseteq DOMAIN v
                         /\ IsSettings(v.form) /\ (k["settings"][at] = None \/ Of(v.form, at))
        BY <2>2, <2>5, <2>8, <3>1 DEF SettingsOwned, Of
      <3> QED BY <2>6, <3>2, <3>3, <3>4 DEF SettingsOwned
    <2> QED BY <2>7, <2>8
  <1>8. ASSUME NEW r \in net, BackupSettingsSaved(r) PROVE SettingsOwned'
    <2> DEFINE v == Idle(view, "save")
               d == IF r.mine THEN at ELSE r.at
               k == [kept EXCEPT !.stale = @ \cup {d}]
               asked == Sent(d, {Request("settings", None)})
    <2>1. r.op = "save" BY <1>8 DEF BackupSettingsSaved
    <2>2. \/ Settle(r, v, kept, {}, {})
          \/ at = d /\ Settle(r, v, kept, InFlight("settings", d), asked)
          \/ Settle(r, v, k, {}, {})
      BY <1>8 DEF BackupSettingsSaved, Handle, Invalidate
    <2>3. Asks1(asked, d, "settings", None) BY AsksOne
    <2>4. at # None => /\ DOMAIN v = DOMAIN view /\ v.form = view.form
      BY DEF Idle, SettingsOwned
    <2>5. DOMAIN k = DOMAIN kept /\ k["settings"] = kept["settings"] BY DEF SettingsOwned
    <2>6. d \in Dbs
      <3>1. r.mine = TRUE => at # None BY <2>1, SaverHasPage
      <3>2. r.mine \in BOOLEAN BY <1>r DEF IsRequest
      <3> QED BY <1>r, <3>1, <3>2 DEF Owned, SettingsOwned
    <2> HIDE DEF v, d, k, asked
    <2>7. \A x \in net' : Owned(x)
      <3>1. CASE Settle(r, v, kept, {}, {}) \/ Settle(r, v, k, {}, {})
        BY <1>r, <3>1 DEF Settle
      <3>2. CASE at = d /\ Settle(r, v, kept, InFlight("settings", d), asked)
        <4>1. \A x \in net' :
                 x \in net \/ (/\ x.op = "settings" /\ x.at = d /\ x.sent = TRUE
                               /\ "settings" \in Queries => x.mine = TRUE)
          BY <2>3, <3>2, AskedIs
        <4> QED BY <1>q, <1>r, <2>6, <4>1 DEF Owned
      <3> QED BY <2>2, <3>1, <3>2
    <2>8. view' \in {view, v} /\ kept' \in {kept, k} /\ UNCHANGED <<at, srv>> BY <2>2 DEF Settle
    <2> QED BY <2>4, <2>5, <2>7, <2>8 DEF SettingsOwned
  <1>9. ASSUME NEW r \in net, BackupSettingsServer(r) PROVE SettingsOwned'
    <2> DEFINE s == IF r.op = "settings" THEN srv ELSE [srv EXCEPT ![r.at] = Written(r)]
               a == Masked(srv[r.at])
    <2>1. \E t \in {srv, s}, b \in {a, Failed} : ServerAnswers(r, t, b)
      BY <1>9 DEF BackupSettingsServer, ServerFails, Written, Masked
    <2>2. Owned(r) /\ r.at \in Dbs BY <1>r DEF Owned
    <2>3. Of(a, r.at) BY <2>2, SettingsMasked DEF SettingsOwned
    <2>4. r.op = "save" => Of(Written(r), r.at) BY <2>2, SettingsWritten DEF Owned
    <2>5. DOMAIN s = Dbs /\ \A d \in Dbs : Of(s[d], d)
      BY <2>2, <2>4 DEF SettingsOwned, Owned
    <2> HIDE DEF s, a
    <2>6. PICK t \in {srv, s}, b \in {a, Failed} : ServerAnswers(r, t, b) BY <2>1
    <2> DEFINE q == [r EXCEPT !.sent = FALSE, !.ans = b]
    <2>7. /\ q.op = r.op /\ q.arg = r.arg /\ q.at = r.at /\ q.mine = r.mine
          /\ q.sent = FALSE /\ q.ans = b
      BY <1>r DEF IsRequest, RequestFields
    <2> HIDE DEF q
    <2>8. Owned(q) BY <2>2, <2>3, <2>6, <2>7 DEF Owned
    <2>9. net' = (net \ {r}) \cup {q} /\ srv' = t /\ UNCHANGED <<at, view, kept>>
      BY <2>6 DEF ServerAnswers, q
    <2> QED BY <1>r, <2>5, <2>6, <2>8, <2>9 DEF SettingsOwned
  <1> QED BY <1>2, <1>3, <1>4, <1>5, <1>6, <1>7, <1>8, <1>9 DEF BackupSettingsNext

(* What the cache has for a database is what is stored, masked, unless it  *)
(* is being changed or has been marked as old.                             *)
SettingsKnow ==
    /\ ~upset =>
         /\ \A r \in net : r.op = "settings" /\ r.sent = FALSE => r.ans = Masked(srv[r.at])
         /\ \A d \in Dbs : \/ kept["settings"][d] \in {None, Masked(srv[d])} \/ d \in kept.stale
                           \/ \E r \in net : r.at = d
    /\ Quiet /\ net = {} => kept["settings"][at] = Masked(srv[at])

(* The cache has what was stored, or it is fetched again.                  *)
LEMMA SettingsStored ==
    ASSUME Core, Orderly, page = "backup settings", SettingsOwned, SettingsKnow,
           OpenBackupSettings \/ BackupSettingsNext
    PROVE  Orderly' /\ SettingsKnow'
  <1>r. \A r \in net : IsRequest(r) /\ Owned(r) BY DEF Core, Sound, SettingsOwned
  <1>q. "settings" \in Reads /\ "save" \notin Reads BY DEF Reads, Queries
  <1>1. CASE OpenBackupSettings \/ SwitchBackupSettings
    <2>1. PICK d \in Dbs : \E asked \in MayRefetch("settings", d) :
             \/ OpenAt(d, CopySettings(BackupSettingsHooks(d), kept["settings"][d]), asked)
             \/ SwitchTo(d, CopySettings(view, kept["settings"][d]), asked)
      BY <1>1 DEF OpenBackupSettings, SwitchBackupSettings
    <2>2. PICK v, n : /\ Opens(d, v, n)
                      /\ (n = {} /\ AtHand("settings", d)) \/ Asks1(n, d, "settings", None)
      BY <2>1, OpensFrom
    <2>3. Remembers BY DEF Remembers
    <2>4. ~upset' => ~upset /\ net = {} /\ net' = n BY <2>2, <2>3 DEF Opens
    <2>5. Orderly' /\ at' = d /\ UNCHANGED <<kept, srv>> BY <2>2 DEF Opens
    <2>6. Quiet' => ~upset' BY DEF Quiet
    <2>7. \A r \in n : r.sent = TRUE BY <2>2 DEF Asks1, Fresh
    <2>8. ~upset' /\ n = {} => kept["settings"][d] = Masked(srv[d])
      <3>1. CASE n = {} /\ AtHand("settings", d)
        BY <2>4, <3>1 DEF SettingsKnow, AtHand
      <3>2. CASE Asks1(n, d, "settings", None) BY <3>2 DEF Asks1
      <3> QED BY <2>2, <3>1, <3>2
    <2> QED BY <2>4, <2>5, <2>6, <2>7, <2>8 DEF SettingsKnow
  <1>2. CASE EditBackupSettings \/ ApplyAutomation \/ ResetBackupSettings
    <2>1. PICK x : \/ Act([view EXCEPT !.form = x], {}) \/ Act([view EXCEPT !.form.fields = x], {})
                   \/ Act([view EXCEPT !.form.access = x], {})
      BY <1>2, Zenon DEF EditBackupSettings, ApplyAutomation, ResetBackupSettings, EditFields
    <2>2. PICK v : Acts(v, {}) BY <2>1, UserEdits
    <2> QED BY <2>2 DEF SettingsKnow, Acts
  <1>3. CASE SaveBackupSettings
    <2>1. PICK n : Acts(Busy(view, "save"), n) /\ Asks1(n, at, "save", view.form)
      BY <1>3, UserPresses DEF SaveBackupSettings
    <2> QED BY <2>1 DEF SettingsKnow, Acts, Asks1, Fresh
  <1>4. ASSUME NEW r \in net, SettingsFetched(r) PROVE Orderly' /\ SettingsKnow'
    <2> DEFINE k == Fetched(r)
               v == IF r.ans # Failed /\ at = r.at /\ r.ans # kept["settings"][r.at]
                    THEN CopySettings(view, r.ans) ELSE view
    <2>1. Settle(r, v, k, {}, {}) /\ r.op = "settings" BY <1>4 DEF SettingsFetched
    <2>2. r.at \in Dbs BY <1>r DEF Owned
    <2>3. r.ans # Failed => /\ k["stale"] = kept["stale"] \ {r.at}
                            /\ k["settings"] = [kept["settings"] EXCEPT ![r.at] = r.ans]
      BY <2>1, <2>2, FetchedIs DEF SettingsOwned
    <2> HIDE DEF k, v
    <2>4. GoesOn(r, v, k, net \ {r}, {}) BY <2>1, <1>r, HandlerIsOver
    <2>5. ~upset' \/ Quiet' => ~upset /\ r.sent = FALSE /\ r.ans # Failed
      BY <2>4 DEF GoesOn, Quiet
    <2>6. kept' = k /\ UNCHANGED <<at, srv>> /\ Orderly' BY <2>4 DEF GoesOn
    <2>7. net' = net \ {r} BY <2>1 DEF Settle
    <2>8. ~upset' => \A d \in Dbs :
             k["settings"][d] = IF d = r.at THEN Masked(srv[d]) ELSE kept["settings"][d]
      BY <2>1, <2>2, <2>3, <2>5 DEF SettingsKnow, SettingsOwned
    <2>9. ~upset' => \A d \in Dbs \ {r.at} : (d \in k["stale"] <=> d \in kept["stale"])
      BY <2>3, <2>5
    <2>10. Quiet' => at = r.at BY <2>4 DEF GoesOn
    <2> QED BY <2>2, <2>5, <2>6, <2>7, <2>8, <2>9, <2>10 DEF SettingsKnow, Quiet
  <1>5. ASSUME NEW r \in net, BackupSettingsSaved(r) PROVE Orderly' /\ SettingsKnow'
    <2>1. r.op = "save" BY <1>5 DEF BackupSettingsSaved
    <2> DEFINE v == Idle(view, "save")
               d == IF r.mine THEN at ELSE r.at
               D == InFlight("settings", d)
               k == [kept EXCEPT !.stale = @ \cup {d}]
               asked == Sent(d, {Request("settings", None)})
    <2>2. CASE r.ans = Failed
      <3>1. Settle(r, v, kept, {}, {}) BY <1>5, <2>2 DEF BackupSettingsSaved, Handle
      <3> HIDE DEF v
      <3>2. GoesOn(r, v, kept, net \ {r}, {}) BY <3>1, <1>r, HandlerIsOver
      <3> QED BY <2>2, <3>2 DEF GoesOn, SettingsKnow, Quiet
    <2>3. CASE r.ans # Failed /\ at = d
      <3>1. Settle(r, v, kept, D, asked)
        BY <1>5, <2>3 DEF BackupSettingsSaved, Invalidate
      <3>2. Asks1(asked, d, "settings", None) BY AsksOne
      <3>3. AllFresh(asked, d) BY <3>2, OneFresh
      <3> HIDE DEF v, d, D, asked
      <3>4. GoesOn(r, v, kept, net \ ({r} \cup D), asked) BY <2>3, <3>1, <3>3, <1>r, HandlerGoesOn
      <3>5. ~upset' => ~upset /\ net = {r} BY <1>q, <2>1, <3>4 DEF GoesOn
      <3>6. ~upset' => \A x \in net' : x.sent = TRUE
        BY <3>2, <3>4, <3>5 DEF GoesOn, Asks1, Fresh, Like
      <3>7. \E x \in net' : x.at = d
        <4>1. PICK q : asked = {q} /\ Fresh(q, d) BY <3>2 DEF Asks1
        <4> DEFINE x == [q EXCEPT !.mine = r.mine \/ q.op \in Queries]
        <4>2. x \in net' BY <3>1, <4>1 DEF Settle
        <4>3. x.at = d BY <4>1 DEF Fresh, IsRequest, RequestFields
        <4> QED BY <4>2, <4>3
      <3>8. r.mine = TRUE => at # None BY <2>1, SaverHasPage
      <3>9. ~upset' => r.at = d BY <1>r, <2>3, <3>5, <3>8 DEF Orderly, Quiet, IsRequest, d
      <3> QED BY <3>4, <3>5, <3>6, <3>7, <3>9 DEF GoesOn, SettingsKnow, Quiet
    <2>4. CASE r.ans # Failed /\ at # d
      <3>1. Settle(r, v, k, {}, {})
        BY <1>5, <2>4 DEF BackupSettingsSaved, Invalidate
      <3>2. DOMAIN k = DOMAIN kept /\ k["settings"] = kept["settings"] /\ k["stale"] = kept["stale"] \cup {d}
        BY DEF SettingsOwned
      <3>3. d = r.at /\ ~r.mine BY <2>4
      <3> HIDE DEF v, k, d
      <3>4. GoesOn(r, v, k, net \ {r}, {}) BY <3>1, <1>r, HandlerIsOver
      <3>5. ~Quiet BY <3>3 DEF Orderly
      <3>6. ~upset' => ~upset /\ net = {r} /\ net' = {} BY <1>q, <2>1, <3>1, <3>4 DEF GoesOn, Settle
      <3> QED BY <3>2, <3>3, <3>4, <3>5, <3>6 DEF GoesOn, SettingsKnow
    <2> QED BY <2>2, <2>3, <2>4
  <1>6. ASSUME NEW r \in net, BackupSettingsServer(r) PROVE Orderly' /\ SettingsKnow'
    <2> DEFINE s == IF r.op = "settings" THEN srv ELSE [srv EXCEPT ![r.at] = Written(r)]
               a == Masked(srv[r.at])
    <2>1. ServerAnswers(r, s, a) \/ ServerFails(r, s)
      BY <1>6 DEF BackupSettingsServer, Written, Masked
    <2>2. r.at \in Dbs /\ (r.op = "settings" \/ r.op = "save") BY <1>r DEF Owned
    <2>3. /\ r.op = "settings" => s = srv
          /\ \A d \in Dbs \ {r.at} : s[d] = srv[d]
      BY DEF SettingsOwned
    <2> HIDE DEF s
    <2>4. CASE ServerAnswers(r, s, a)
      <3>1. PICK q : Answers(r, s, a, q) BY <2>4, <1>r, ServerSays
      <3>2. ~upset' => ~upset /\ (r.op = "save" => net = {r}) BY <1>q, <3>1 DEF Answers
      <3>3. net' = (net \ {r}) \cup {q} /\ q.op = r.op /\ q.at = r.at /\ q.ans = a BY <3>1 DEF Answers
      <3>4. Orderly' /\ UNCHANGED <<at, kept>> /\ srv' = s BY <3>1 DEF Answers
      <3> HIDE DEF a
      <3>5. ~upset' => \A x \in net' : x.op = "settings" /\ x.sent = FALSE => x.ans = Masked(s[x.at])
        BY <2>2, <2>3, <3>2, <3>3 DEF SettingsKnow, a
      <3>6. ~upset' => \A d \in Dbs : \/ kept["settings"][d] \in {None, Masked(s[d])} \/ d \in kept.stale
                           \/ \E x \in net' : x.at = d
        <4> SUFFICES ASSUME ~upset', NEW d \in Dbs, \A x \in net' : x.at # d
                     PROVE  kept["settings"][d] \in {None, Masked(s[d])} \/ d \in kept.stale
          OBVIOUS
        <4>1. d # r.at /\ \A x \in net : x.at # d BY <3>3
        <4> QED BY <2>3, <3>2, <4>1 DEF SettingsKnow
      <3> QED BY <3>3, <3>4, <3>5, <3>6 DEF SettingsKnow
    <2>5. CASE ServerFails(r, s)
      <3>1. Fails(s) BY <2>5, <1>r, ServerFailsToSay
      <3> QED BY <3>1 DEF SettingsKnow, Fails
    <2> QED BY <2>1, <2>4, <2>5
  <1> QED BY <1>1, <1>2, <1>3, <1>4, <1>5, <1>6 DEF BackupSettingsNext

(* Leaving takes neither from it: a save goes on, and so does a fetch.     *)
LEMMA SettingsLeft ==
    ASSUME Core, Orderly, page = "backup settings", SettingsOwned, SettingsKnow, Leave
    PROVE  Orderly' /\ SettingsOwned' /\ SettingsKnow'
  <1>r. \A r \in net : IsRequest(r) /\ Owned(r) BY DEF Core, Sound, SettingsOwned
  <1>1. at' = None /\ net' = Left(net) /\ UNCHANGED <<page, kept, srv, upset>> BY DEF Leave
  <1>2. net \ {} = net OBVIOUS
  <1>3. Leaves(net) BY <1>1, <1>2, PageIsLeft
  <1>4. \A x \in net' : Owned(x)
    <2> SUFFICES ASSUME NEW r \in net, NEW x, x = [r EXCEPT !.mine = r.op \in Queries]
                 PROVE  Owned(x)
      BY <1>1 DEF Left
    <2>1. /\ x.op = r.op /\ x.at = r.at /\ x.arg = r.arg /\ x.sent = r.sent /\ x.ans = r.ans
          /\ x.op = "settings" => x.mine = TRUE
      BY <1>r DEF IsRequest, RequestFields, Queries
    <2> QED BY <1>r, <2>1 DEF Owned
  <1>5. SettingsOwned' BY <1>1, <1>4 DEF SettingsOwned
  <1>6. ~upset => \A x \in net' : x.op = "settings" /\ x.sent = FALSE => x.ans = Masked(srv[x.at])
    <2> SUFFICES ASSUME ~upset, NEW x \in net', x.op = "settings", x.sent = FALSE
                 PROVE  x.ans = Masked(srv[x.at])
      OBVIOUS
    <2>1. PICK q \in net : Like(x, q) BY <1>3 DEF Leaves
    <2>2. q.op = "settings" /\ q.sent = FALSE /\ q.ans = x.ans /\ q.at = x.at BY <2>1 DEF Like
    <2>3. q.ans = Masked(srv[q.at]) BY <2>2 DEF SettingsKnow
    <2> QED BY <2>2, <2>3
  <1>7. \A d \in Dbs : (\E r \in net : r.at = d) => \E x \in net' : x.at = d
    <2> SUFFICES ASSUME NEW r \in net PROVE \E x \in net' : x.at = r.at OBVIOUS
    <2>1. r.op \notin Reads \ Queries BY <1>r DEF Owned, Reads, Queries
    <2> QED BY <1>3, <2>1 DEF Leaves, Like
  <1>8. ~Quiet' BY <1>1 DEF Quiet
  <1>9. SettingsKnow' BY <1>1, <1>6, <1>7, <1>8 DEF SettingsKnow
  <1> QED BY <1>3, <1>5, <1>9 DEF Leaves

(* The list of branches is fetched after each operation, and by whoever    *)
(* moves to another database.                                              *)
BranchesKnows ==
    /\ DOMAIN srv = Dbs
    /\ Quiet =>
         /\ at \in Dbs /\ {"busy", "list", "error", "dialog"} \subseteq DOMAIN view
         /\ \A r \in net : r.op = "list" /\ r.sent = FALSE => r.ans = srv[at]
         /\ net = {} => view.list = srv[at]

(* Every operation is followed by the list.                                *)
LEMMA BranchesStored ==
    ASSUME Core, Orderly, BranchesKnows, OpenBranches \/ BranchesNext
    PROVE  Orderly' /\ BranchesKnows'
  <1>r. \A r \in net : IsRequest(r) BY DEF Core, Sound
  <1>1. ASSUME NEW d \in Dbs, NEW v, {"busy", "list", "error", "dialog"} \subseteq DOMAIN v \/ ~Quiet,
               \/ OpenAt(d, v, FetchBranches(None)) /\ {"busy", "list", "error", "dialog"} \subseteq DOMAIN v
               \/ SwitchTo(d, v, FetchBranches(None))
        PROVE  Orderly' /\ BranchesKnows'
    <2>1. PICK n, arg : Opens(d, v, n) /\ Asks1(n, d, "list", arg)
      BY <1>1, OpensWithOne DEF FetchBranches
    <2>2. SwitchTo(d, v, FetchBranches(None)) /\ Quiet' => Quiet BY PageAssumption DEF SwitchTo, Quiet
    <2> QED BY <1>1, <2>1, <2>2 DEF BranchesKnows, Opens, Asks1, Fresh, Quiet
  <1>2. CASE OpenBranches
    <2>1. DOMAIN BranchesHooks = {"busy", "list", "error", "dialog"} BY DEF BranchesHooks
    <2> QED BY <1>1, <1>2, <2>1 DEF OpenBranches
  <1>3. CASE SwitchBranches
    <2>1. Quiet => {"busy", "list", "error", "dialog"} \subseteq DOMAIN Fetching(view)
      BY DEF BranchesKnows, Fetching, Busy
    <2> QED BY <1>1, <1>3, <2>1 DEF SwitchBranches
  <1>4. CASE OpenBranchDialog \/ CloseBranchDialog
    <2>1. PICK x : Act([view EXCEPT !.dialog = x], {})
      BY <1>4, Zenon DEF OpenBranchDialog, CloseBranchDialog
    <2>2. Acts([view EXCEPT !.dialog = x], {}) BY <2>1, UserEdits
    <2> QED BY <2>2 DEF BranchesKnows, Acts
  <1>5. ASSUME NEW b \in Branches, CreateBranch(b) \/ \E a \in BranchActions : BranchAction(b, a)
        PROVE  Orderly' /\ BranchesKnows'
    <2>1. PICK what \in BranchActions \cup {"create"} :
             Act(Busy(view, what), {Request(what, [branch |-> b, then |-> what])})
      BY <1>5 DEF CreateBranch, BranchAction
    <2>2. PICK n : Acts(Busy(view, what), n) /\ Asks1(n, at, what, [branch |-> b, then |-> what])
      BY <2>1, UserPresses
    <2> QED BY <2>2 DEF BranchesKnows, Acts, Asks1, Fresh, Busy
  <1>6. ASSUME NEW r \in net, BranchOperationDone(r) PROVE Orderly' /\ BranchesKnows'
    <2>1. CASE r.ans = Failed
      <3>1. GoesOn(r, BranchHandlerEnds(view, r.op), kept, net \ {r}, {})
        BY <1>6, <1>r, <2>1, HandlerIsOver DEF BranchOperationDone, Handle
      <3> QED BY <2>1, <3>1 DEF GoesOn, BranchesKnows, Quiet
    <2>2. CASE r.ans # Failed
      <3> DEFINE v == [Fetching(view) EXCEPT !.dialog = IF r.op = "create" /\ @ = "create" THEN None ELSE @]
                 arg == [branch |-> None, then |-> r.op]
      <3>1. Settle(r, v, kept, {}, Sent(r.at, {Request("list", arg)}))
        BY <1>6, <2>2 DEF BranchOperationDone, Handle, FetchBranches
      <3>2. {"busy", "list", "error", "dialog"} \subseteq DOMAIN view => DOMAIN v = DOMAIN view
        BY DEF Fetching, Busy
      <3>3. r.op \notin Reads BY <1>6 DEF BranchOperationDone, BranchActions, Reads, Queries
      <3> HIDE DEF v, arg
      <3>4. PICK n : GoesOn(r, v, kept, net \ {r}, n) /\ Asks1(n, r.at, "list", arg)
        BY <1>r, <3>1, HandlerAsks
      <3> QED BY <3>2, <3>3, <3>4 DEF GoesOn, Asks1, Fresh, BranchesKnows
    <2> QED BY <2>1, <2>2
  <1>7. ASSUME NEW r \in net, BranchesListed(r) PROVE Orderly' /\ BranchesKnows'
    <2> DEFINE w == [Idle(view, "load") EXCEPT !.list = IF r.ans = Failed THEN NoBranches ELSE r.ans,
                                                 !.error = @ \/ r.ans = Failed]
               v == IF r.arg.then = None THEN w ELSE BranchHandlerEnds(w, r.arg.then)
    <2>1. Settle(r, v, kept, {}, {}) /\ r.op = "list" BY <1>7 DEF BranchesListed, Handle
    <2>2. {"busy", "list", "error", "dialog"} \subseteq DOMAIN view =>
             DOMAIN w = DOMAIN view /\ (r.ans # Failed => w.list = r.ans)
      BY DEF Idle
    <2> HIDE DEF w
    <2>3. {"busy", "list", "error", "dialog"} \subseteq DOMAIN view =>
             DOMAIN v = DOMAIN view /\ (r.ans # Failed => v.list = r.ans)
      BY <2>2 DEF BranchHandlerEnds
    <2> HIDE DEF v
    <2>4. GoesOn(r, v, kept, net \ {r}, {}) BY <1>r, <2>1, HandlerIsOver
    <2> QED BY <2>1, <2>3, <2>4 DEF GoesOn, BranchesKnows
  <1>8. ASSUME NEW r \in net, BranchesServer(r) PROVE Orderly' /\ BranchesKnows'
    <2> DEFINE becomes(x) == [srv EXCEPT ![r.at][r.arg.branch] = x]
    <2>1. \/ r.op = "list" /\ (ServerAnswers(r, srv, srv[r.at]) \/ ServerFails(r, srv))
          \/ /\ r.op \in BranchActions \cup {"create"}
             /\ \E x : ServerAnswers(r, becomes(x), Ok) \/ ServerFails(r, becomes(x))
          \/ ServerAnswers(r, srv, Failed)
      BY <1>8, Zenon DEF BranchesServer, BranchActions
    <2>2. \A x : DOMAIN becomes(x) = DOMAIN srv OBVIOUS
    <2> HIDE DEF becomes
    <2>3. CASE r.op = "list" /\ ServerAnswers(r, srv, srv[r.at])
      <3>1. PICK q : Answers(r, srv, srv[r.at], q) BY <1>r, <2>3, ServerSays
      <3> QED BY <2>3, <3>1 DEF BranchesKnows, Answers
    <2>4. ASSUME NEW x, r.op \in BranchActions \cup {"create"}, ServerAnswers(r, becomes(x), Ok)
          PROVE  Orderly' /\ BranchesKnows'
      <3>1. PICK q : Answers(r, becomes(x), Ok, q) BY <1>r, <2>4, ServerSays
      <3>2. r.op \notin Reads /\ r.op # "list" BY <2>4 DEF BranchActions, Reads, Queries
      <3> QED BY <2>2, <3>1, <3>2 DEF BranchesKnows, Answers
    <2>5. ASSUME NEW s, DOMAIN s = DOMAIN srv, ServerAnswers(r, s, Failed) \/ ServerFails(r, s)
          PROVE  Orderly' /\ BranchesKnows'
      <3>1. Fails(s) BY <1>r, <2>5, ServerRefuses, ServerFailsToSay
      <3> QED BY <2>5, <3>1 DEF BranchesKnows, Fails
    <2> QED BY <2>1, <2>2, <2>3, <2>4, <2>5
  <1> QED BY <1>2, <1>3, <1>4, <1>5, <1>6, <1>7, <1>8 DEF BranchesNext

(* The domain and its certificate: checking the DNS leaves them alone.     *)
Certified(f, g) == {"domain", "ssl"} \subseteq DOMAIN f /\ f.domain = g.domain /\ f.ssl = g.ssl

WebServerKnows ==
    /\ DOMAIN srv = {Server} /\ {"domain", "ssl", "cert"} \subseteq DOMAIN srv[Server]
    /\ Quiet =>
         /\ at = Server /\ {"busy", "status", "draft"} \subseteq DOMAIN view
         /\ \A r \in net : r.op = "load" /\ r.sent = FALSE => Certified(r.ans, srv[at])
         /\ (\A r \in net : r.op = "check") => Certified(view.status, srv[at])

(* The status is read again after every change; a check changes nothing.   *)
LEMMA WebServerStored ==
    ASSUME Core, Orderly, WebServerKnows, OpenWebServer \/ WebServerNext
    PROVE  Orderly' /\ WebServerKnows'
  <1>r. \A r \in net : IsRequest(r) BY DEF Core, Sound
  <1>1. CASE OpenWebServer
    <2>1. PICK n : Opens(Server, WebServerHooks, n) /\ Asks1(n, Server, "load", None)
      BY <1>1, OpensWithOne DEF OpenWebServer, FetchStatus
    <2> QED BY <2>1 DEF WebServerKnows, WebServerHooks, Opens, Asks1, Fresh
  <1>2. ASSUME NEW x \in Vals, EditDomain(x) PROVE Orderly' /\ WebServerKnows'
    <2>1. Acts([view EXCEPT !.draft = x], {}) BY <1>2, UserEdits DEF EditDomain
    <2> QED BY <2>1 DEF WebServerKnows, Acts
  <1>3. CASE SaveDomain \/ CheckDNS \/ ProvisionSSL
    <2>1. ASSUME NEW op, NEW arg, op # "load", Act(Busy(view, "action"), {Request(op, arg)})
          PROVE  Orderly' /\ WebServerKnows'
      <3>1. PICK n : Acts(Busy(view, "action"), n) /\ Asks1(n, at, op, arg) BY <2>1, UserPresses
      <3> QED BY <2>1, <3>1 DEF WebServerKnows, Acts, Asks1, Fresh, Busy
    <2> QED BY <1>3, <2>1 DEF SaveDomain, CheckDNS, ProvisionSSL
  <1>4. ASSUME NEW r \in net, StatusFetched(r) PROVE Orderly' /\ WebServerKnows'
    <2> DEFINE u == [view EXCEPT !.busy = @ \ {"load", r.arg}]
               v == [u EXCEPT !.status = r.ans, !.draft = IF r.ans.domain = None THEN @ ELSE r.ans.domain]
               w == [u EXCEPT !.status = NoStatus]
    <2>1. r.op = "load" /\ \/ Settle(r, v, kept, {}, {})
                           \/ r.ans = Failed /\ (Settle(r, u, kept, {}, {}) \/ Settle(r, w, kept, {}, {}))
      BY <1>4 DEF StatusFetched, Handle
    <2>2. {"busy", "status", "draft"} \subseteq DOMAIN view => DOMAIN v = DOMAIN view /\ v.status = r.ans
      OBVIOUS
    <2> HIDE DEF u, v, w
    <2>3. CASE Settle(r, v, kept, {}, {})
      <3>1. GoesOn(r, v, kept, net \ {r}, {}) BY <1>r, <2>3, HandlerIsOver
      <3> QED BY <2>1, <2>2, <3>1 DEF GoesOn, WebServerKnows
    <2>4. ASSUME r.ans = Failed, NEW x, Settle(r, x, kept, {}, {}) PROVE Orderly' /\ WebServerKnows'
      <3>1. GoesOn(r, x, kept, net \ {r}, {}) BY <1>r, <2>4, HandlerIsOver
      <3> QED BY <2>4, <3>1 DEF GoesOn, WebServerKnows, Quiet
    <2> QED BY <2>1, <2>3, <2>4
  <1>5. ASSUME NEW r \in net, DNSChecked(r) PROVE Orderly' /\ WebServerKnows'
    <2>1. PICK p : \/ Settle(r, [Idle(view, "action") EXCEPT !.status.propagated = p], kept, {}, {})
                   \/ r.ans = Failed /\ Settle(r, Idle(view, "action"), kept, {}, {})
      BY <1>5, Zenon DEF DNSChecked, Handle
    <2> DEFINE v == [Idle(view, "action") EXCEPT !.status.propagated = p]
    <2>2. {"busy", "status", "draft"} \subseteq DOMAIN view =>
             DOMAIN v = DOMAIN view /\ v.status = [view.status EXCEPT !.propagated = p]
      BY DEF Idle
    <2>3. r.op = "check" /\ r.op \notin Reads BY <1>5 DEF DNSChecked, Reads, Queries
    <2> HIDE DEF v
    <2>4. CASE Settle(r, v, kept, {}, {})
      <3>1. GoesOn(r, v, kept, net \ {r}, {}) BY <1>r, <2>4, HandlerIsOver
      <3>2. Quiet => net = {r} /\ Certified(view.status, srv[at])
        BY <2>3, <3>1 DEF GoesOn, WebServerKnows
      <3>3. \A g, h : Certified(g, h) => Certified([g EXCEPT !.propagated = p], h) BY DEF Certified
      <3>4. Quiet => DOMAIN v = DOMAIN view /\ Certified(v.status, srv[at])
        BY <2>2, <3>2, <3>3 DEF WebServerKnows
      <3> QED BY <3>1, <3>2, <3>4 DEF GoesOn, WebServerKnows
    <2>5. ASSUME r.ans = Failed, NEW x, Settle(r, x, kept, {}, {}) PROVE Orderly' /\ WebServerKnows'
      <3>1. GoesOn(r, x, kept, net \ {r}, {}) BY <1>r, <2>5, HandlerIsOver
      <3> QED BY <2>5, <3>1 DEF GoesOn, WebServerKnows, Quiet
    <2> QED BY <2>1, <2>4, <2>5 DEF v
  <1>6. ASSUME NEW r \in net, WebServerActionDone(r) PROVE Orderly' /\ WebServerKnows'
    <2>1. r.op \notin Reads BY <1>6 DEF WebServerActionDone, Reads, Queries
    <2>2. CASE r.ans = Failed
      <3>1. GoesOn(r, Idle(view, "action"), kept, net \ {r}, {})
        BY <1>6, <1>r, <2>2, HandlerIsOver DEF WebServerActionDone, Handle
      <3> QED BY <2>2, <3>1 DEF GoesOn, WebServerKnows, Quiet
    <2>3. CASE r.ans # Failed
      <3>1. PICK n : GoesOn(r, view, kept, net \ {r}, n) /\ Asks1(n, r.at, "load", "action")
        BY <1>6, <1>r, <2>3, HandlerAsks DEF WebServerActionDone, Handle, FetchStatus
      <3> QED BY <2>1, <3>1 DEF GoesOn, Asks1, Fresh, WebServerKnows
    <2> QED BY <2>2, <2>3
  <1>7. ASSUME NEW r \in net, WebServerServer(r) PROVE Orderly' /\ WebServerKnows'
    <2> DEFINE w == srv[r.at]
               status(p) == [domain |-> w.domain, propagated |-> p /\ w.domain # None, ssl |-> w.ssl]
               named == [srv EXCEPT ![r.at].domain = r.arg]
               secured == [srv EXCEPT ![r.at].ssl = TRUE, ![r.at].cert = w.domain]
    <2>1. \/ /\ r.op \in {"load", "check"}
             /\ (\E p \in BOOLEAN : ServerAnswers(r, srv, status(p))) \/ ServerFails(r, srv)
          \/ /\ r.op \in {"save domain", "provision"}
             /\ \E s \in {named, secured} : ServerAnswers(r, s, NoStatus) \/ ServerFails(r, s)
          \/ ServerAnswers(r, srv, Failed)
      BY <1>7 DEF WebServerServer
    <2>2. \A s \in {named, secured} :
             /\ DOMAIN s = DOMAIN srv
             /\ \A x \in DOMAIN srv : DOMAIN s[x] = DOMAIN srv[x]
      OBVIOUS
    <2>3. \A p \in BOOLEAN : Certified(status(p), srv[r.at]) BY DEF Certified
    <2> HIDE DEF named, secured, status
    <2>4. ASSUME NEW p \in BOOLEAN, r.op \in {"load", "check"}, ServerAnswers(r, srv, status(p))
          PROVE  Orderly' /\ WebServerKnows'
      <3>1. PICK q : Answers(r, srv, status(p), q) BY <1>r, <2>4, ServerSays
      <3> QED BY <2>3, <2>4, <3>1 DEF WebServerKnows, Answers
    <2>5. ASSUME NEW s \in {named, secured}, r.op \in {"save domain", "provision"},
                 ServerAnswers(r, s, NoStatus)
          PROVE  Orderly' /\ WebServerKnows'
      <3>1. PICK q : Answers(r, s, NoStatus, q) BY <1>r, <2>5, ServerSays
      <3>2. r.op \notin Reads /\ r.op # "load" /\ r.op # "check" BY <2>5 DEF Reads, Queries
      <3> QED BY <2>2, <3>1, <3>2 DEF WebServerKnows, Answers
    <2>6. ASSUME NEW s, s \in {srv, named, secured}, ServerAnswers(r, s, Failed) \/ ServerFails(r, s)
          PROVE  Orderly' /\ WebServerKnows'
      <3>1. Fails(s) BY <1>r, <2>6, ServerRefuses, ServerFailsToSay
      <3> QED BY <2>2, <2>6, <3>1 DEF WebServerKnows, Fails
    <2> QED BY <2>1, <2>4, <2>5, <2>6
  <1> QED BY <1>1, <1>2, <1>3, <1>4, <1>5, <1>6, <1>7 DEF WebServerNext

(* The white-list and the users are two lists, fetched each on its own.    *)
UsersKnows ==
    /\ DOMAIN srv = {Server} /\ {"mail", "users"} \subseteq DOMAIN srv[Server]
    /\ \A r \in net : r.op \in {"list", "add", "remove", "kick"}
    /\ Quiet =>
         /\ at = Server /\ {"busy", "mail", "users", "confirm"} \subseteq DOMAIN view
         /\ \A r \in net : r.op = "list" /\ r.sent = FALSE =>
               r.ans.mail = srv[at].mail /\ r.ans.users = srv[at].users
         /\ (\A r \in net : r.op = "kick" \/ (r.op = "list" /\ r.arg.what = "users"))
               => view.mail = srv[at].mail
         /\ (\A r \in net : r.op \in {"add", "remove"} \/ (r.op = "list" /\ r.arg.what # "users"))
               => view.users = srv[at].users

(* Every change to one list is followed by that list.                      *)
LEMMA UsersStored ==
    ASSUME Core, Orderly, UsersKnows, OpenUsers \/ UsersNext
    PROVE  Orderly' /\ UsersKnows'
  <1>r. \A r \in net : IsRequest(r) BY DEF Core, Sound
  <1>w. {"add", "remove", "kick"} \cap Reads = {} BY DEF Reads, Queries
  <1>1. CASE OpenUsers
    <2> DEFINE arg == [what |-> "mail", then |-> None]
               arg2 == [what |-> "users", then |-> None]
    <2>1. FetchWhitelist(None) \cup FetchUsers(None) = {Request("list", arg), Request("list", arg2)}
      BY DEF FetchWhitelist, FetchUsers
    <2>2. OpenAt(Server, UsersHooks, {Request("list", arg), Request("list", arg2)})
      BY <1>1, <2>1 DEF OpenUsers
    <2>3. arg.what = "mail" /\ arg2.what = "users" OBVIOUS
    <2> HIDE DEF arg, arg2
    <2>4. "list" \in Reads BY DEF Reads
    <2>5. PICK n : Opens(Server, UsersHooks, n) /\ Asks2(n, Server, "list", arg, "list", arg2)
      BY <2>2, <2>4, OpensWithTwo
    <2>6. PICK q, x : /\ n = {q, x} /\ q.sent = TRUE /\ x.sent = TRUE
                      /\ q.op = "list" /\ q.arg = arg /\ x.op = "list" /\ x.arg = arg2
      BY <2>5 DEF Asks2, Fresh
    <2> QED BY <2>3, <2>5, <2>6 DEF UsersKnows, UsersHooks, Opens, Quiet
  <1>2. CASE CloseConfirmation \/ \E x \in Items \cup {"mail"} : AskToRemove(x)
    <2>1. PICK x : Act([view EXCEPT !.confirm = x], {}) BY <1>2, Zenon DEF CloseConfirmation, AskToRemove
    <2>2. Acts([view EXCEPT !.confirm = x], {}) BY <2>1, UserEdits
    <2> QED BY <2>2 DEF UsersKnows, Acts
  <1>3. ASSUME NEW f, NEW op \in {"add", "remove", "kick"}, NEW arg, Act(Busy(view, f), {Request(op, arg)})
        PROVE  Orderly' /\ UsersKnows'
    <2>1. PICK n : Acts(Busy(view, f), n) /\ Asks1(n, at, op, arg) BY <1>3, UserPresses
    <2> QED BY <2>1 DEF UsersKnows, Acts, Asks1, Fresh, Busy
  <1>4. ASSUME NEW r \in net, UsersListed(r) PROVE Orderly' /\ UsersKnows'
    <2> DEFINE w == UsersEnd(view, r.arg.then)
               v == IF r.arg.what = "users"
                    THEN [w EXCEPT !.users = IF r.ans = Failed THEN @ ELSE r.ans.users]
                    ELSE [Idle(w, "whitelist") EXCEPT !.mail = IF r.ans = Failed THEN @ ELSE r.ans.mail]
    <2>1. Settle(r, v, kept, {}, {}) /\ r.op = "list" BY <1>4 DEF UsersListed, Handle
    <2>2. {"busy", "mail", "users", "confirm"} \subseteq DOMAIN view =>
             DOMAIN w = DOMAIN view /\ w.mail = view.mail /\ w.users = view.users
      BY DEF UsersEnd
    <2> HIDE DEF w
    <2>3. {"busy", "mail", "users", "confirm"} \subseteq DOMAIN view /\ r.ans # Failed =>
             /\ DOMAIN v = DOMAIN view
             /\ v.mail = IF r.arg.what = "users" THEN view.mail ELSE r.ans.mail
             /\ v.users = IF r.arg.what = "users" THEN r.ans.users ELSE view.users
      BY <2>2 DEF Idle
    <2> HIDE DEF v
    <2>4. GoesOn(r, v, kept, net \ {r}, {}) BY <1>r, <2>1, HandlerIsOver
    <2>5. \A x \in net' : x \in net BY <2>1 DEF Settle
    <2>6. Quiet' => Quiet /\ net' = net \ {r} /\ view' = v /\ r.sent = FALSE /\ r.ans # Failed
      BY <2>4 DEF GoesOn
    <2>7. Orderly' /\ UNCHANGED <<at, srv>> BY <2>4 DEF GoesOn
    <2> QED BY <2>1, <2>3, <2>5, <2>6, <2>7 DEF UsersKnows
  <1>5. ASSUME NEW r \in net, UsersChanged(r) PROVE Orderly' /\ UsersKnows'
    <2>1. r.op \in {"add", "remove", "kick"} /\ r.op \notin Reads BY <1>5, <1>w DEF UsersChanged
    <2>2. CASE r.ans = Failed
      <3>1. Settle(r, UsersEnd(view, r.arg), kept, {}, {}) BY <1>5, <2>2 DEF UsersChanged, Handle
      <3>2. GoesOn(r, UsersEnd(view, r.arg), kept, net \ {r}, {}) BY <1>r, <3>1, HandlerIsOver
      <3>3. \A x \in net' : x \in net BY <3>1 DEF Settle
      <3> QED BY <2>2, <3>2, <3>3 DEF GoesOn, UsersKnows, Quiet
    <2>3. CASE r.ans # Failed
      <3> DEFINE arg == [what |-> IF r.op = "kick" THEN "users" ELSE "mail", then |-> r.arg]
      <3>1. Settle(r, view, kept, {}, Sent(r.at, {Request("list", arg)}))
        <4>1. CASE r.op = "kick" BY <1>5, <2>3, <4>1 DEF UsersChanged, Handle, FetchUsers
        <4>2. CASE r.op # "kick" BY <1>5, <2>3, <4>2 DEF UsersChanged, Handle, FetchWhitelist
        <4> QED BY <4>1, <4>2
      <3>2. arg.what = IF r.op = "kick" THEN "users" ELSE "mail" OBVIOUS
      <3> HIDE DEF arg
      <3>3. PICK n : GoesOn(r, view, kept, net \ {r}, n) /\ Asks1(n, r.at, "list", arg)
        BY <1>r, <3>1, HandlerAsks
      <3>4. \A x \in net' : x.op \in {"list", "add", "remove", "kick"}
        BY <3>3 DEF GoesOn, Asks1, Like, UsersKnows
      <3>5. Quiet' => Quiet /\ net = {r} /\ view' = view /\ net' = n BY <2>1, <3>3 DEF GoesOn
      <3>6. Orderly' /\ UNCHANGED <<at, srv>> BY <3>3 DEF GoesOn
      <3>7. PICK q : n = {q} /\ q.op = "list" /\ q.arg = arg /\ q.sent = TRUE BY <3>3 DEF Asks1, Fresh
      <3> QED BY <2>1, <3>2, <3>4, <3>5, <3>6, <3>7 DEF UsersKnows
    <2> QED BY <2>2, <2>3
  <1>6. ASSUME NEW r \in net, UsersServer(r) PROVE Orderly' /\ UsersKnows'
    <2> DEFINE s == IF r.op = "list" THEN srv
                    ELSE IF r.op = "kick" THEN [srv EXCEPT ![r.at].users = @ \ {r.arg}]
                    ELSE [srv EXCEPT ![r.at].mail = r.op = "add"]
               a == IF r.op = "list" THEN srv[r.at] ELSE Ok
    <2>1. ServerAnswers(r, s, a) \/ ServerFails(r, s) BY <1>6 DEF UsersServer
    <2>2. /\ DOMAIN s = {Server} /\ {"mail", "users"} \subseteq DOMAIN s[Server]
          /\ r.op = "list" => s = srv /\ a = srv[r.at]
          /\ r.op = "kick" => s[Server].mail = srv[Server].mail
          /\ r.op \in {"add", "remove"} => s[Server].users = srv[Server].users
      BY DEF UsersKnows
    <2> HIDE DEF s, a
    <2>3. CASE ServerAnswers(r, s, a)
      <3>1. PICK q : Answers(r, s, a, q) BY <1>r, <2>3, ServerSays
      <3>2. \A x \in net' : x.op \in {"list", "add", "remove", "kick"} BY <3>1 DEF Answers, UsersKnows
      <3>3. CASE r.op = "list" BY <2>2, <3>1, <3>2, <3>3 DEF UsersKnows, Answers
      <3>4. CASE r.op # "list"
        <4>1. r.op \in {"add", "remove", "kick"} /\ r.op \notin Reads BY <1>w, <3>4 DEF UsersKnows
        <4>2. Quiet' => Quiet /\ net = {r} /\ net' = {q} BY <3>1, <4>1 DEF Answers
        <4>3. Orderly' /\ UNCHANGED <<at, view>> /\ srv' = s /\ q.op = r.op BY <3>1 DEF Answers
        <4> QED BY <2>2, <3>2, <4>1, <4>2, <4>3 DEF UsersKnows
      <3> QED BY <3>3, <3>4
    <2>4. CASE ServerFails(r, s)
      <3>1. Fails(s) BY <1>r, <2>4, ServerFailsToSay
      <3> QED BY <2>2, <3>1 DEF UsersKnows, Fails
    <2> QED BY <2>1, <2>3, <2>4
  <1>7. AddEmail \/ (\E x \in Items \cup {"mail"} : ConfirmRemoval(x)) => Orderly' /\ UsersKnows'
    BY <1>3 DEF AddEmail, ConfirmRemoval
  <1> QED BY <1>1, <1>2, <1>4, <1>5, <1>6, <1>7 DEF UsersNext

(* Whose access the dialog shows.                                          *)
AccessKnows ==
    Quiet =>
      /\ {"busy", "open", "active", "selected", "from"} \subseteq DOMAIN view
      /\ \A r \in net : r.op = "access" => r.arg.user = view.active
      /\ (\A r \in net : r.op # "access") => view.open = FALSE \/ view.from = view.active

(* The access that is shown is that of the user whose panel is open.       *)
LEMMA AccessStored ==
    ASSUME Core, Orderly, AccessKnows, OpenPanel \/ AccessNext
    PROVE  Orderly' /\ AccessKnows'
  <1>r. \A r \in net : IsRequest(r) BY DEF Core, Sound
  <1>1. CASE OpenPanel
    <2>1. Opens(Server, AccessHooks, {}) BY <1>1, OpensIdle DEF OpenPanel
    <2> QED BY <2>1 DEF AccessKnows, AccessHooks, Opens
  <1>2. ASSUME NEW u \in Items, OpenAccess(u) PROVE Orderly' /\ AccessKnows'
    <2> DEFINE v == [Busy(view, "access") EXCEPT !.open = TRUE, !.active = u]
               arg == [user |-> u]
    <2>1. Act(v, {Request("access", arg)}) BY <1>2 DEF OpenAccess
    <2>2. {"busy", "open", "active", "selected", "from"} \subseteq DOMAIN view =>
             DOMAIN v = DOMAIN view /\ v.active = u
      BY DEF Busy
    <2>3. arg.user = u OBVIOUS
    <2> HIDE DEF v, arg
    <2>4. PICK n : Acts(v, n) /\ Asks1(n, at, "access", arg) BY <2>1, UserPresses
    <2>5. "access" \notin Reads BY DEF Reads, Queries
    <2>6. Quiet' => net' = n /\ n # {} /\ \A x \in n : x.op = "access" /\ x.arg = arg
      BY <2>4, <2>5 DEF Acts, Asks1, Apart, Quiet
    <2> QED BY <2>2, <2>3, <2>4, <2>6 DEF Acts, AccessKnows
  <1>3. CASE CloseAccess
    <2>1. Acts([view EXCEPT !.open = FALSE], {}) BY <1>3, UserEdits DEF CloseAccess
    <2> QED BY <2>1 DEF Acts, AccessKnows
  <1>4. ASSUME NEW x, ToggleAccess(x) PROVE Orderly' /\ AccessKnows'
    <2>1. Acts([view EXCEPT !.selected = x], {}) BY <1>4, UserEdits DEF ToggleAccess
    <2> QED BY <2>1 DEF Acts, AccessKnows
  <1>5. CASE SaveAccess
    <2>1. PICK n : Acts(Busy(view, "save"), n) /\
             Asks1(n, at, "projects", [user |-> view.active, selected |-> view.selected, from |-> view.from])
      BY <1>5, UserPresses DEF SaveAccess
    <2> QED BY <2>1 DEF Acts, AccessKnows, Asks1, Busy
  <1>6. ASSUME NEW r \in net, AccessLoaded(r) PROVE Orderly' /\ AccessKnows'
    <2> DEFINE v == [Idle(view, "access") EXCEPT !.selected = IF r.ans = Failed THEN 0 ELSE r.ans,
                                                 !.from = r.arg.user]
    <2>1. Settle(r, v, kept, {}, {}) /\ r.op = "access" BY <1>6 DEF AccessLoaded, Handle
    <2>2. {"busy", "open", "active", "selected", "from"} \subseteq DOMAIN view =>
             DOMAIN v = DOMAIN view /\ v.active = view.active /\ v.from = r.arg.user
      BY DEF Idle
    <2> HIDE DEF v
    <2>3. GoesOn(r, v, kept, net \ {r}, {}) BY <1>r, <2>1, HandlerIsOver
    <2> QED BY <2>1, <2>2, <2>3 DEF GoesOn, AccessKnows
  <1>7. ASSUME NEW r \in net, AccessSaved(r) PROVE Orderly' /\ AccessKnows'
    <2>1. CASE r.ans = Failed
      <3>1. GoesOn(r, Idle(view, "save"), kept, net \ {r}, {})
        BY <1>7, <1>r, <2>1, HandlerIsOver DEF AccessSaved, Handle
      <3> QED BY <2>1, <3>1 DEF GoesOn, AccessKnows, Quiet
    <2>2. CASE r.ans # Failed /\ r.op = "projects"
      <3>1. PICK n : GoesOn(r, view, kept, net \ {r}, n) /\ Asks1(n, r.at, "permissions", r.arg)
        BY <1>7, <1>r, <2>2, HandlerAsks DEF AccessSaved, Handle
      <3> QED BY <2>2, <3>1 DEF GoesOn, Asks1, AccessKnows
    <2>3. CASE r.ans # Failed /\ r.op # "projects"
      <3> DEFINE v == [Idle(view, "save") EXCEPT !.open = FALSE]
      <3>1. Settle(r, v, kept, {}, {}) BY <1>7, <2>3 DEF AccessSaved, Handle
      <3>2. {"busy", "open", "active", "selected", "from"} \subseteq DOMAIN view =>
               DOMAIN v = DOMAIN view /\ v.active = view.active /\ v.open = FALSE
        BY DEF Idle
      <3> HIDE DEF v
      <3>3. GoesOn(r, v, kept, net \ {r}, {}) BY <1>r, <3>1, HandlerIsOver
      <3> QED BY <3>2, <3>3 DEF GoesOn, AccessKnows
    <2> QED BY <2>1, <2>2, <2>3
  <1>8. ASSUME NEW r \in net, AccessServer(r) PROVE Orderly' /\ AccessKnows'
    <2>1. PICK s, a : ServerAnswers(r, s, a) \/ ServerFails(r, s) BY <1>8, Zenon DEF AccessServer
    <2>2. CASE ServerAnswers(r, s, a)
      <3>1. PICK q : Answers(r, s, a, q) BY <1>r, <2>2, ServerSays
      <3> QED BY <3>1 DEF Answers, AccessKnows
    <2>3. CASE ServerFails(r, s)
      <3>1. Fails(s) BY <1>r, <2>3, ServerFailsToSay
      <3> QED BY <3>1 DEF Fails, AccessKnows
    <2> QED BY <2>1, <2>2, <2>3
  <1> QED BY <1>1, <1>2, <1>3, <1>4, <1>5, <1>6, <1>7, <1>8 DEF AccessNext

(* Whose users the drawer of a project shows; it closes when all is saved. *)
ProjectKnows ==
    Quiet => /\ {"busy", "may", "name", "users", "from"} \subseteq DOMAIN view
             /\ (\A r \in net : r.op # "load") => view.from = at

(* The users of a project arrive with the project they are of.             *)
LEMMA ProjectStored ==
    ASSUME Core, Orderly, ProjectKnows, OpenProject \/ ProjectNext
    PROVE  Orderly' /\ ProjectKnows'
  <1>r. \A r \in net : IsRequest(r) BY DEF Core, Sound
  <1>1. CASE OpenProject
    <2>1. PICK d \in Dbs, may \in {{"name"}, {"name", "users"}} :
             OpenAt(d, ShowProject(ProjectHooks(may), d), {Request("load", None)})
      BY <1>1 DEF OpenProject
    <2> DEFINE v == ShowProject(ProjectHooks(may), d)
    <2>2. DOMAIN v = {"busy", "may", "name", "users", "from"} BY DEF ShowProject, Busy, ProjectHooks
    <2> HIDE DEF v
    <2>3. PICK n : Opens(d, v, n) /\ Asks1(n, d, "load", None) BY <2>1, OpensWithOne DEF v
    <2> QED BY <2>2, <2>3 DEF ProjectKnows, Opens, Asks1, Quiet
  <1>2. CASE SwitchProject
    <2>1. PICK d \in Dbs : SwitchTo(d, ShowProject(view, d), {Request("load", None)})
      BY <1>2 DEF SwitchProject
    <2> DEFINE v == ShowProject(view, d)
    <2>2. {"busy", "may", "name", "users", "from"} \subseteq DOMAIN view => DOMAIN v = DOMAIN view
      BY DEF ShowProject, Busy
    <2>3. Quiet' => Quiet BY <2>1, PageAssumption DEF SwitchTo, Quiet
    <2> HIDE DEF v
    <2>4. PICK n : Opens(d, v, n) /\ Asks1(n, d, "load", None) BY <2>1, OpensWithOne DEF v
    <2> QED BY <2>2, <2>3, <2>4 DEF ProjectKnows, Opens, Asks1, Quiet
  <1>3. CASE EditProjectDialog
    <2>1. PICK x : Act([view EXCEPT !.name = x], {}) \/ Act([view EXCEPT !.users = x], {})
      BY <1>3, Zenon DEF EditProjectDialog
    <2>2. Acts([view EXCEPT !.name = x], {}) \/ Acts([view EXCEPT !.users = x], {}) BY <2>1, UserEdits
    <2> QED BY <2>2 DEF ProjectKnows, Acts
  <1>4. CASE SaveProjectDialog
    <2> DEFINE op == IF "name" \in view.may THEN "name" ELSE "users"
    <2>1. PICK arg : Act(Busy(view, "save"), {Request(op, arg)})
      BY <1>4, Zenon DEF SaveProjectDialog
    <2>2. op # "load" OBVIOUS
    <2> HIDE DEF op
    <2>3. PICK n : Acts(Busy(view, "save"), n) /\ Asks1(n, at, op, arg) BY <2>1, UserPresses
    <2> QED BY <2>2, <2>3 DEF ProjectKnows, Acts, Asks1, Busy
  <1>5. ASSUME NEW r \in net, ProjectLoaded(r) PROVE Orderly' /\ ProjectKnows'
    <2> DEFINE v == IF r.ans = Failed THEN Idle(view, "users")
                    ELSE [Idle(view, "users") EXCEPT !.users = r.ans.users, !.from = r.at]
    <2>1. Settle(r, v, kept, {}, {}) BY <1>5 DEF ProjectLoaded, Handle
    <2>2. {"busy", "may", "name", "users", "from"} \subseteq DOMAIN view /\ r.ans # Failed =>
             DOMAIN v = DOMAIN view /\ v.from = r.at
      BY DEF Idle
    <2> HIDE DEF v
    <2>3. GoesOn(r, v, kept, net \ {r}, {}) BY <1>r, <2>1, HandlerIsOver
    <2> QED BY <2>2, <2>3 DEF ProjectKnows, GoesOn
  <1>6. ASSUME NEW r \in net, ProjectPartSaved(r) PROVE Orderly' /\ ProjectKnows'
    <2>1. r.op \in {"name", "users"} BY <1>6 DEF ProjectPartSaved
    <2>2. CASE r.ans = Failed
      <3>1. GoesOn(r, Idle(view, "save"), kept, net \ {r}, {})
        BY <1>6, <1>r, <2>2, HandlerIsOver DEF ProjectPartSaved, Handle
      <3> QED BY <2>2, <3>1 DEF GoesOn, ProjectKnows, Quiet
    <2>3. CASE r.ans # Failed /\ r.op = "name" /\ r.arg.both
      <3>1. PICK n : GoesOn(r, view, kept, net \ {r}, n) /\ Asks1(n, r.at, "users", r.arg)
        BY <1>6, <1>r, <2>3, HandlerAsks DEF ProjectPartSaved, Handle
      <3> QED BY <2>1, <3>1 DEF GoesOn, Asks1, ProjectKnows
    <2>4. CASE r.ans # Failed /\ ~(r.op = "name" /\ r.arg.both) /\ r.mine
      <3> DEFINE S == {r}
      <3>1. at' = None /\ net' = Left(net \ S) /\ UNCHANGED <<page, kept, srv, upset>>
        BY <1>6, <2>4 DEF ProjectPartSaved
      <3> HIDE DEF S
      <3>2. Leaves(net \ S) BY <3>1, PageIsLeft
      <3> QED BY <3>2 DEF Leaves, ProjectKnows
    <2>5. CASE r.ans # Failed /\ ~(r.op = "name" /\ r.arg.both) /\ ~r.mine
      <3>1. GoesOn(r, view, kept, net \ {r}, {})
        BY <1>6, <1>r, <2>5, HandlerIsOver DEF ProjectPartSaved, Handle
      <3> QED BY <2>1, <3>1 DEF GoesOn, ProjectKnows
    <2> QED BY <2>2, <2>3, <2>4, <2>5
  <1>7. ASSUME NEW r \in net, ProjectServer(r) PROVE Orderly' /\ ProjectKnows'
    <2>1. PICK s, a : ServerAnswers(r, s, a) \/ ServerFails(r, s) BY <1>7, Zenon DEF ProjectServer
    <2>2. CASE ServerAnswers(r, s, a)
      <3>1. PICK q : Answers(r, s, a, q) BY <1>r, <2>2, ServerSays
      <3> QED BY <3>1 DEF Answers, ProjectKnows
    <2>3. CASE ServerFails(r, s)
      <3>1. Fails(s) BY <1>r, <2>3, ServerFailsToSay
      <3> QED BY <3>1 DEF Fails, ProjectKnows
    <2> QED BY <2>1, <2>2, <2>3
  <1> QED BY <1>1, <1>2, <1>3, <1>4, <1>5, <1>6, <1>7 DEF ProjectNext

(* The user the dashboard holds is the copy a save started from, with what *)
(* it saved.                                                               *)
IsUser(u) == u = [name |-> u.name, avatar |-> u.avatar]

ProfileKnows ==
    /\ DOMAIN srv = {Server} /\ DOMAIN srv[Server] = {"name", "avatar", "key"}
    /\ IsUser(kept)
    /\ at \in {None, Server}
    /\ \A r \in net : /\ r.op = "load" \/ (r.at = Server /\ r.op \in {"profile", "avatar", "password", "key"})
                      /\ r.op \in {"profile", "avatar"} => IsUser(r.arg)
    /\ ~upset =>
         /\ \A r \in net : /\ r.op = "profile" => r.arg.avatar = srv[Server].avatar
                           /\ r.op = "avatar" => r.arg.name = srv[Server].name
                           /\ r.op = "profile" /\ r.sent = FALSE => r.arg.name = srv[Server].name
                           /\ r.op = "avatar" /\ r.sent = FALSE => r.ans.avatar = srv[Server].avatar
         /\ (\A r \in net : r.op \notin {"profile", "avatar"}) =>
               kept.name = srv[Server].name /\ kept.avatar = srv[Server].avatar
    /\ Quiet =>
         /\ {"busy", "name", "configured"} \subseteq DOMAIN view
         /\ \A r \in net : r.op \in {"load", "key"} /\ r.sent = FALSE => r.ans.key = srv[Server].key
         /\ (\A r \in net : r.op \notin {"load", "key"}) => view.configured = srv[Server].key

(* The name and the picture, saved one at a time, are both kept.           *)
LEMMA ProfileStored ==
    ASSUME Core, Orderly, page = "profile", ProfileKnows, OpenProfile \/ ProfileNext
    PROVE  Orderly' /\ ProfileKnows'
  <1>r. \A r \in net : IsRequest(r) BY DEF Core, Sound
  <1>w. {"profile", "avatar", "password", "key"} \cap Reads = {} /\ "load" \in Reads BY DEF Reads, Queries
  <1>m. Remembers BY DEF Remembers
  <1>u. \A u, x : IsUser(u) =>
          /\ IsUser([u EXCEPT !.name = x]) /\ [u EXCEPT !.name = x].name = x
          /\ [u EXCEPT !.name = x].avatar = u.avatar
          /\ IsUser([u EXCEPT !.avatar = x]) /\ [u EXCEPT !.avatar = x].avatar = x
          /\ [u EXCEPT !.avatar = x].name = u.name
    <2> SUFFICES ASSUME NEW u, NEW x, IsUser(u)
                 PROVE  /\ IsUser([u EXCEPT !.name = x]) /\ [u EXCEPT !.name = x].name = x
                        /\ [u EXCEPT !.name = x].avatar = u.avatar
                        /\ IsUser([u EXCEPT !.avatar = x]) /\ [u EXCEPT !.avatar = x].avatar = x
                        /\ [u EXCEPT !.avatar = x].name = u.name
      OBVIOUS
    <2> DEFINE g == [name |-> u.name, avatar |-> u.avatar]
               h == [name |-> x, avatar |-> u.avatar]
               i == [name |-> u.name, avatar |-> x]
    <2>1. [g EXCEPT !.name = x] = h /\ [g EXCEPT !.avatar = x] = i OBVIOUS
    <2>2. u = g BY DEF IsUser
    <2>3. /\ IsUser(h) /\ h.name = x /\ h.avatar = u.avatar
          /\ IsUser(i) /\ i.name = u.name /\ i.avatar = x
      BY DEF IsUser
    <2> HIDE DEF g, h, i
    <2> QED BY <2>1, <2>2, <2>3
  <1>1. CASE OpenProfile
    <2>1. PICK n : Opens(Server, ProfileHooks, n) /\ Asks1(n, Server, "load", None)
      BY <1>1, OpensWithOne DEF OpenProfile
    <2>2. PICK q : n = {q} /\ q.op = "load" /\ q.sent = TRUE /\ q.at = Server
      BY <2>1 DEF Asks1, Fresh
    <2>3. DOMAIN ProfileHooks = {"busy", "name", "configured"} BY DEF ProfileHooks
    <2> QED BY <1>m, <2>1, <2>2, <2>3 DEF ProfileKnows, Opens, Quiet
  <1>2. CASE EditProfile
    <2>1. PICK x : Acts([view EXCEPT !.name = x], {}) BY <1>2, UserEdits DEF EditProfile
    <2> QED BY <2>1 DEF ProfileKnows, Acts, Quiet
  <1>3. ASSUME NEW f, NEW op \in {"profile", "avatar", "password", "key"}, NEW arg,
               Act(Busy(view, f), {Request(op, arg)}),
               op \in {"profile", "avatar"} => IsUser(arg),
               op = "profile" => arg.avatar = kept.avatar,
               op = "avatar" => arg.name = kept.name
        PROVE  Orderly' /\ ProfileKnows'
    <2>1. PICK n : Acts(Busy(view, f), n) /\ Asks1(n, at, op, arg) BY <1>3, UserPresses
    <2>2. PICK q : n = {q} /\ q.op = op /\ q.arg = arg /\ q.sent = TRUE /\ q.at = at
      BY <2>1 DEF Asks1, Fresh
    <2>3. at = Server /\ Orderly' /\ UNCHANGED <<at, kept, srv>> /\ net' = net \cup {q}
      BY <2>1, <2>2 DEF Acts, ProfileKnows
    <2>4. ~upset' => ~upset /\ (net = {} \/ net = {q})
      BY <1>w, <2>1, <2>2 DEF Acts, Apart
    <2>5. Quiet' => Quiet BY <2>1 DEF Acts
    <2>6. Quiet => DOMAIN view' = DOMAIN view /\ view'.configured = view.configured
      BY <2>1 DEF Acts, Busy, ProfileKnows
    <2>7. ~upset' /\ net = {} => kept.name = srv[Server].name /\ kept.avatar = srv[Server].avatar
      BY <2>4 DEF ProfileKnows
    <2> QED BY <1>3, <2>2, <2>3, <2>4, <2>5, <2>6, <2>7 DEF ProfileKnows, Quiet
  <1>4. CASE UpdateProfile \/ ChangePassword \/ UploadAvatar \/ \E k \in {None, "typed"} : SaveKey(k)
    <2>1. IsUser(kept) /\ IsUser([kept EXCEPT !.name = view.name])
          /\ [kept EXCEPT !.name = view.name].avatar = kept.avatar
      BY <1>u DEF ProfileKnows
    <2> DEFINE arg == [kept EXCEPT !.name = view.name]
    <2> HIDE DEF arg
    <2>2. UpdateProfile => Act(Busy(view, "profile"), {Request("profile", arg)})
      BY DEF UpdateProfile, arg
    <2>3. IsUser(arg) /\ arg.avatar = kept.avatar BY <2>1 DEF arg
    <2>4. CASE UpdateProfile BY <1>3, <2>2, <2>3, <2>4
    <2>5. CASE ChangePassword BY <1>3, <2>5 DEF ChangePassword
    <2>6. CASE UploadAvatar BY <1>3, <2>1, <2>6 DEF UploadAvatar
    <2>7. CASE \E k \in {None, "typed"} : SaveKey(k) BY <1>3, <2>7 DEF SaveKey
    <2> QED BY <1>4, <2>4, <2>5, <2>6, <2>7
  <1>5. ASSUME NEW r \in net, UserSaved(r) PROVE Orderly' /\ ProfileKnows'
    <2>1. r.op \in {"profile", "avatar"} /\ r.op \notin Reads BY <1>5, <1>w DEF UserSaved
    <2>2. CASE r.ans = Failed
      <3>1. Settle(r, Idle(view, r.op), kept, {}, {}) BY <1>5, <2>2 DEF UserSaved, Handle
      <3>2. GoesOn(r, Idle(view, r.op), kept, net \ {r}, {}) BY <1>r, <3>1, HandlerIsOver
      <3>3. net' \subseteq net BY <3>1 DEF Settle
      <3>4. ~(Quiet \/ ~upset) BY <2>2, <3>2 DEF GoesOn
      <3>5. ~Quiet' /\ upset' = TRUE BY <3>1, <3>2, <3>4 DEF GoesOn, Settle, Quiet
      <3> QED BY <3>2, <3>3, <3>5 DEF GoesOn, ProfileKnows
    <2>3. CASE r.ans # Failed
      <3> DEFINE v == Busy(Idle(view, r.op), "status")
                 x == IF r.op = "avatar" THEN r.ans.avatar ELSE r.arg.avatar
                 k == [r.arg EXCEPT !.avatar = x]
                 asked == IF r.mine THEN {Request("load", None)} ELSE {}
      <3>1. Settle(r, v, k, {}, asked) BY <1>5, <2>1, <2>3 DEF UserSaved, ProfileKnows, IsUser
      <3>2. {"busy", "name", "configured"} \subseteq DOMAIN view =>
               DOMAIN v = DOMAIN view /\ v.configured = view.configured
        BY DEF Busy, Idle
      <3> HIDE DEF x
      <3>3. IsUser(k) /\ k.name = r.arg.name /\ k.avatar = x
        <4>1. IsUser(r.arg) BY <2>1 DEF ProfileKnows
        <4> QED BY <1>u, <4>1
      <3> HIDE DEF v, k
      <3> DEFINE G(n) == /\ GoesOn(r, v, k, net \ {r}, n) /\ (n = {} \/ Asks1(n, at, "load", None))
                         /\ r.mine = TRUE => n # {}
      <3>4. \E n : G(n)
        <4>1. CASE r.mine
          <5>1. Settle(r, v, k, {}, {Request("load", None)}) BY <3>1, <4>1
          <5>2. PICK n : GoesOn(r, v, k, net \ {r}, n) /\ Asks1(n, at, "load", None)
            BY <1>r, <5>1, HandlerAsks
          <5>3. n # {} BY <5>2 DEF Asks1
          <5> QED BY <5>2, <5>3
        <4>2. CASE ~r.mine
          <5>1. Settle(r, v, k, {}, {}) BY <3>1, <4>2
          <5>2. GoesOn(r, v, k, net \ {r}, {}) BY <1>r, <5>1, HandlerIsOver
          <5> QED BY <4>2, <5>2
        <4> QED BY <4>1, <4>2
      <3>a. PICK n : G(n) BY <3>4
      <3>5. /\ GoesOn(r, v, k, net \ {r}, n) /\ (n = {} \/ Asks1(n, at, "load", None))
            /\ r.mine = TRUE => n # {}
        BY <3>a
      <3>6. ~upset' => ~upset /\ net = {r} /\ r.sent = FALSE BY <2>1, <3>5 DEF GoesOn
      <3>7. ~upset' => k.name = srv[Server].name /\ k.avatar = srv[Server].avatar
        BY <2>1, <3>3, <3>6 DEF ProfileKnows, x
      <3>8. \A q \in n : q.op = "load" /\ q.sent = TRUE BY <3>5 DEF Asks1, Fresh
      <3>9. \A y \in net' : y \in net \ {r} \/ (y.op = "load" /\ y.sent = TRUE)
        BY <3>5, <3>8 DEF GoesOn, Like
      <3>10. ~upset' => \A y \in net' : y.op = "load" /\ y.sent = TRUE BY <3>6, <3>9
      <3>11. Quiet' => ~upset' /\ Quiet /\ view' = v /\ n # {} /\ net' = n
        BY <3>5, <3>6 DEF GoesOn, Orderly, Quiet
      <3>12. kept' = k /\ UNCHANGED <<at, srv>> /\ Orderly' BY <3>5 DEF GoesOn
      <3>13. ProfileKnows'
        <4>1. \A y \in net' :
                 /\ y.op = "load" \/ (y.at = Server /\ y.op \in {"profile", "avatar", "password", "key"})
                 /\ y.op \in {"profile", "avatar"} => IsUser(y.arg)
          BY <3>9 DEF ProfileKnows
        <4>2. Quiet' => {"busy", "name", "configured"} \subseteq DOMAIN view' BY <3>2, <3>11 DEF ProfileKnows
        <4> QED BY <3>3, <3>7, <3>8, <3>10, <3>11, <3>12, <4>1, <4>2 DEF ProfileKnows
      <3> QED BY <3>12, <3>13
    <2> QED BY <2>2, <2>3
  <1>6. ASSUME NEW r \in net, PasswordChanged(r) \/ KeySaved(r) \/ KeyStatusLoaded(r)
        PROVE  Orderly' /\ ProfileKnows'
    <2> DEFINE v == IF r.op = "password" THEN Idle(view, "password")
                    ELSE IF r.op = "key"
                    THEN (IF r.ans = Failed THEN Idle(view, "key")
                          ELSE [Idle(view, "key") EXCEPT !.configured = r.ans.key])
                    ELSE IF r.ans = Failed THEN Idle(view, "status")
                    ELSE [Idle(view, "status") EXCEPT !.configured = r.ans.key]
    <2>1. Settle(r, v, kept, {}, {}) /\ r.op \in {"password", "key", "load"}
      BY <1>6 DEF PasswordChanged, KeySaved, KeyStatusLoaded, Handle
    <2>2. {"busy", "name", "configured"} \subseteq DOMAIN view /\ r.ans # Failed =>
             /\ DOMAIN v = DOMAIN view
             /\ v.configured = IF r.op = "password" THEN view.configured ELSE r.ans.key
      BY <2>1 DEF Idle
    <2> HIDE DEF v
    <2>3. GoesOn(r, v, kept, net \ {r}, {}) BY <1>r, <2>1, HandlerIsOver
    <2>4. net' = net \ {r} BY <2>1 DEF Settle
    <2>5. ~upset' => ~upset BY <2>3 DEF GoesOn
    <2>6. Quiet' => Quiet /\ view' = v /\ r.sent = FALSE /\ r.ans # Failed BY <2>3 DEF GoesOn
    <2>7. Orderly' /\ UNCHANGED <<at, srv, kept>> BY <2>3 DEF GoesOn
    <2> QED BY <2>1, <2>2, <2>4, <2>5, <2>6, <2>7 DEF ProfileKnows
  <1>7. ASSUME NEW r \in net, ProfileServer(r) PROVE Orderly' /\ ProfileKnows'
    <2>1. ASSUME NEW s, ServerAnswers(r, s, s[r.at]) \/ ServerFails(r, s),
                 r.op \in {"load", "password"} => s = srv,
                 DOMAIN s = {Server}, DOMAIN s[Server] = DOMAIN srv[Server],
                 s[Server].name = IF r.op = "profile" THEN r.arg.name ELSE srv[Server].name,
                 r.op # "avatar" => s[Server].avatar = srv[Server].avatar,
                 r.op # "key" => s[Server].key = srv[Server].key
          PROVE  Orderly' /\ ProfileKnows'
      <3> DEFINE a == s[r.at]
      <3>1. r.op # "load" => a = s[Server] /\ r.at = Server BY DEF ProfileKnows
      <3>2. r.at = Server => a = s[Server] OBVIOUS
      <3>3. ServerAnswers(r, s, a) \/ ServerFails(r, s) BY <2>1
      <3> HIDE DEF a
      <3>4. CASE ServerAnswers(r, s, a)
        <4>1. PICK q : Answers(r, s, a, q) BY <1>r, <3>4, ServerSays
        <4>2. /\ net' = (net \ {r}) \cup {q} /\ q.op = r.op /\ q.arg = r.arg /\ q.at = r.at
              /\ q.sent = FALSE /\ q.ans = a
          BY <4>1 DEF Answers
        <4>3. Orderly' /\ srv' = s /\ UNCHANGED <<at, view, kept>> /\ (Quiet' => Quiet)
          BY <4>1 DEF Answers
        <4>4. ~upset' => ~upset /\ (r.op # "load" => net = {r}) BY <1>w, <4>1 DEF Answers, ProfileKnows
        <4>5. Quiet => r.at = Server /\ a = s[Server] BY <3>2, <4>1 DEF Answers, ProfileKnows, Quiet
        <4>6. CASE r.op = "load" BY <2>1, <4>2, <4>3, <4>4, <4>5, <4>6 DEF ProfileKnows, Quiet
        <4>7. CASE r.op # "load"
          BY <2>1, <3>1, <4>2, <4>3, <4>4, <4>5, <4>7 DEF ProfileKnows, Quiet
        <4> QED BY <4>6, <4>7
      <3>5. CASE ServerFails(r, s)
        <4>1. Fails(s) BY <1>r, <3>5, ServerFailsToSay
        <4> QED BY <2>1, <4>1 DEF Fails, ProfileKnows
      <3> QED BY <3>3, <3>4, <3>5
    <2>2. r.op # "load" => r.at = Server BY DEF ProfileKnows
    <2>3. CASE r.op = "profile"
      <3> DEFINE s == [srv EXCEPT ![r.at].name = r.arg.name]
      <3>1. ServerAnswers(r, s, s[r.at]) \/ ServerFails(r, s) BY <1>7, <2>3 DEF ProfileServer
      <3>2. /\ DOMAIN s = {Server} /\ DOMAIN s[Server] = DOMAIN srv[Server]
            /\ s[Server].name = r.arg.name /\ s[Server].avatar = srv[Server].avatar
            /\ s[Server].key = srv[Server].key
        BY <2>2, <2>3 DEF ProfileKnows
      <3> HIDE DEF s
      <3> QED BY <2>1, <2>3, <3>1, <3>2
    <2>4. CASE r.op = "avatar"
      <3>0. PICK x \in Vals : LET s == [srv EXCEPT ![r.at].avatar = x] IN
                              ServerAnswers(r, s, s[r.at]) \/ ServerFails(r, s)
        BY <1>7, <2>4 DEF ProfileServer
      <3> DEFINE s == [srv EXCEPT ![r.at].avatar = x]
      <3>1. ServerAnswers(r, s, s[r.at]) \/ ServerFails(r, s) BY <3>0
      <3>2. /\ DOMAIN s = {Server} /\ DOMAIN s[Server] = DOMAIN srv[Server]
            /\ s[Server].name = srv[Server].name /\ s[Server].key = srv[Server].key
        BY <2>2, <2>4 DEF ProfileKnows
      <3> HIDE DEF s
      <3> QED BY <2>1, <2>4, <3>1, <3>2
    <2>5. CASE r.op = "key"
      <3> DEFINE s == [srv EXCEPT ![r.at].key = r.arg # None]
      <3>1. ServerAnswers(r, s, s[r.at]) \/ ServerFails(r, s) BY <1>7, <2>5 DEF ProfileServer
      <3>2. /\ DOMAIN s = {Server} /\ DOMAIN s[Server] = DOMAIN srv[Server]
            /\ s[Server].name = srv[Server].name /\ s[Server].avatar = srv[Server].avatar
        BY <2>2, <2>5 DEF ProfileKnows
      <3> HIDE DEF s
      <3> QED BY <2>1, <2>5, <3>1, <3>2
    <2>6. CASE r.op \in {"load", "password"}
      <3>1. ServerAnswers(r, srv, srv[r.at]) \/ ServerFails(r, srv) BY <1>7, <2>6 DEF ProfileServer
      <3> QED BY <2>1, <2>6, <3>1 DEF ProfileKnows
    <2> QED BY <2>3, <2>4, <2>5, <2>6 DEF ProfileKnows
  <1> QED BY <1>1, <1>2, <1>3, <1>4, <1>5, <1>6, <1>7 DEF ProfileNext

(* A save of the profile goes on when the page is left.                    *)
LEMMA ProfileLeft ==
    ASSUME Core, Orderly, page = "profile", ProfileKnows, Leaves(net) PROVE ProfileKnows'
  <1>1. \A x \in net' : \E q \in net : Like(x, q) BY DEF Leaves
  <1>2. \A q \in net : q.op \in {"profile", "avatar"} => \E x \in net' : Like(x, q)
    BY DEF Leaves, Reads, Queries
  <1>3. at' = None /\ ~Quiet' /\ UNCHANGED <<kept, srv, upset>> BY DEF Leaves
  <1>4. (\A x \in net' : x.op \notin {"profile", "avatar"}) =>
           \A q \in net : q.op \notin {"profile", "avatar"}
    BY <1>2 DEF Like
  <1>5. \A x \in net' :
           /\ x.op = "load" \/ (x.at = Server /\ x.op \in {"profile", "avatar", "password", "key"})
           /\ x.op \in {"profile", "avatar"} => IsUser(x.arg)
    BY <1>1 DEF ProfileKnows, Like
  <1>6. ~upset => \A x \in net' :
           /\ x.op = "profile" => x.arg.avatar = srv[Server].avatar
           /\ x.op = "avatar" => x.arg.name = srv[Server].name
           /\ x.op = "profile" /\ x.sent = FALSE => x.arg.name = srv[Server].name
           /\ x.op = "avatar" /\ x.sent = FALSE => x.ans.avatar = srv[Server].avatar
    BY <1>1 DEF ProfileKnows, Like
  <1> QED BY <1>3, <1>4, <1>5, <1>6 DEF ProfileKnows

(* The map's containers are fetched again after every action on one of     *)
(* them; looking at logs, and the terminal, leave them alone.  The dialog  *)
(* of the logs shows those of the container it names.                      *)
ContainersKnow ==
    /\ DOMAIN srv = {Server}
    /\ Quiet =>
         /\ at = Server
         /\ {"busy", "containers", "error", "pending", "logs", "terminal", "cwd"} \subseteq DOMAIN view
         /\ {"open", "name", "text"} \subseteq DOMAIN view.logs
         /\ \A r \in net : r.op = "load" /\ r.sent = FALSE => r.ans = srv[at]
         /\ (\A r \in net : r.op \in {"logs", "exec"}) => view.containers = srv[at]
         /\ \A r \in net : r.op = "logs" => /\ r.arg = view.logs.name
                                            /\ r.sent = FALSE => r.ans = r.arg
         /\ (\A r \in net : r.op # "logs") => view.logs.text = view.logs.name

(* Both sides of what the buttons of the map leave as it is.               *)
SameMap(v) ==
    /\ DOMAIN v = DOMAIN view /\ v.containers = view.containers
    /\ DOMAIN v.logs = DOMAIN view.logs /\ v.logs.name = view.logs.name /\ v.logs.text = view.logs.text

(* Every action is followed by the list, and logs are of their container.  *)
LEMMA ContainersStored ==
    ASSUME Core, Covered, Orderly, page \in ContainersPages, ContainersKnow,
           OpenContainers \/ ContainersNext
    PROVE  Orderly' /\ ContainersKnow'
  <1>r. \A r \in net : IsRequest(r) BY DEF Core, Sound
  <1>a. {"start", "stop", "restart", "move", "logs", "exec"} \cap Reads = {} BY DEF Reads, Queries
  <1>1. CASE OpenContainers
    <2>1. PICK n : Opens(Server, ContainersHooks, n) /\ Asks1(n, Server, "load", None)
      BY <1>1, OpensWithOne DEF OpenContainers, FetchContainers
    <2>2. \A r \in n : r.op = "load" /\ r.sent = TRUE BY <2>1 DEF Asks1, Fresh
    <2>3. n # {} BY <2>1 DEF Asks1
    <2>4. /\ {"busy", "containers", "error", "pending", "logs", "terminal", "cwd"}
                \subseteq DOMAIN ContainersHooks
          /\ {"open", "name", "text"} \subseteq DOMAIN ContainersHooks.logs
          /\ ContainersHooks.logs.text = ContainersHooks.logs.name
      BY DEF ContainersHooks
    <2> QED BY <2>1, <2>2, <2>3, <2>4 DEF ContainersKnow, Opens
  <1>2. ASSUME NEW v, Quiet => SameMap(v), Act(v, {}) PROVE Orderly' /\ ContainersKnow'
    <2>1. Acts(v, {}) BY <1>2, UserEdits
    <2> QED BY <1>2, <2>1 DEF ContainersKnow, Acts, SameMap
  <1>3. ASSUME NEW v, Quiet => SameMap(v), NEW op \in ContainerActions \cup {"load", "move", "exec"},
               NEW arg, Act(v, {Request(op, arg)})
        PROVE  Orderly' /\ ContainersKnow'
    <2>1. PICK n : Acts(v, n) /\ Asks1(n, at, op, arg) BY <1>3, UserPresses
    <2>2. \A r \in n : r.op = op /\ r.sent = TRUE BY <2>1 DEF Asks1, Fresh
    <2>3. op # "logs" BY DEF ContainerActions
    <2>4. Quiet' => Quiet /\ Orderly' /\ net' = net \cup n /\ view' = v /\ at' = at
      BY <2>1 DEF Acts
    <2>5. Orderly' /\ srv' = srv BY <2>1 DEF Acts
    <2>6. n # {} BY <2>1 DEF Asks1
    <2> QED BY <1>3, <2>2, <2>3, <2>4, <2>5, <2>6 DEF ContainersKnow, SameMap
  <1>s. Quiet =>
           /\ \A f : SameMap(Busy(view, f)) /\ SameMap(Idle(view, f))
           /\ \A x : /\ SameMap([view EXCEPT !.pending = x]) /\ SameMap([view EXCEPT !.logs.open = x])
                     /\ SameMap([view EXCEPT !.terminal = x])
    BY DEF ContainersKnow, SameMap, Busy, Idle
  <1>4. CASE PollContainers BY <1>3, <1>4, <1>s DEF PollContainers, FetchContainers
  <1>5. CASE ConfirmContainerAction
    <2>1. view.pending # None BY <1>5 DEF ConfirmContainerAction, MapControls
    <2>2. page \in ContainersPages /\ at # None BY <1>5 DEF ConfirmContainerAction, Act
    <2>3. view.pending.op \in ContainerActions BY <2>1, <2>2 DEF Covered, Asks
    <2> QED BY <1>3, <1>5, <1>s, <2>3 DEF ConfirmContainerAction
  <1>6. CASE CloseMapDialogs BY <1>2, <1>6, <1>s DEF CloseMapDialogs
  <1>7. CASE Execute BY <1>3, <1>7, <1>s DEF Execute
  <1>8. ASSUME NEW c \in Items, \/ \E op \in ContainerActions : AskContainerAction(c, op)
                                \/ OpenTerminal(c)
        PROVE  Orderly' /\ ContainersKnow'
    <2>1. PICK x : Act([view EXCEPT !.pending = x], {}) \/ Act([view EXCEPT !.terminal = x], {})
      BY <1>8, Zenon DEF AskContainerAction, OpenTerminal
    <2> QED BY <1>2, <1>s, <2>1
  <1>9. ASSUME NEW c \in Items, NEW p \in Vals, MoveToProject(c, p) PROVE Orderly' /\ ContainersKnow'
    <2>1. Quiet => SameMap(view) BY DEF ContainersKnow, SameMap
    <2> QED BY <1>3, <1>9, <2>1 DEF MoveToProject
  <1>10. ASSUME NEW c \in Items \cup {Proxy}, OpenLogs(c) PROVE Orderly' /\ ContainersKnow'
    <2> DEFINE v == [view EXCEPT !.busy = @ \cup {c, "logs"},
                                 !.logs = [open |-> TRUE, name |-> c, text |-> None]]
    <2>1. Act(v, {Request("logs", c)}) BY <1>10 DEF OpenLogs
    <2>2. Quiet => /\ DOMAIN v = DOMAIN view /\ v.containers = view.containers
                   /\ DOMAIN v.logs = {"open", "name", "text"} /\ v.logs.name = c
      BY DEF ContainersKnow
    <2> HIDE DEF v
    <2>3. PICK n : Acts(v, n) /\ Asks1(n, at, "logs", c) BY <2>1, UserPresses
    <2>4. PICK q : n = {q} /\ q.op = "logs" /\ q.arg = c /\ q.sent = TRUE BY <2>3 DEF Asks1, Fresh
    <2>5. Quiet' => /\ Quiet /\ ~upset' /\ net' = net \cup {q} /\ view' = v /\ at' = at
                    /\ Apart(net')
      BY <2>3, <2>4 DEF Acts, Quiet
    <2>6. Quiet' => net' = {q} BY <1>a, <2>4, <2>5 DEF Apart
    <2>7. Quiet' => \A r \in net : r = q BY <2>5, <2>6
    <2>8. Quiet' => \A r \in net : r.op = "logs" BY <2>4, <2>7
    <2>9. Orderly' /\ srv' = srv BY <2>3 DEF Acts
    <2> QED BY <2>2, <2>4, <2>5, <2>6, <2>8, <2>9 DEF ContainersKnow
  <1>11. ASSUME NEW r \in net, ContainersFetched(r) PROVE Orderly' /\ ContainersKnow'
    <2> DEFINE w == ActionOver(Idle(view, "load"), r.arg)
               v == IF r.ans = Failed THEN [w EXCEPT !.error = TRUE]
                    ELSE [w EXCEPT !.containers = r.ans, !.error = FALSE]
    <2>1. Settle(r, v, kept, {}, {}) /\ r.op = "load" BY <1>11 DEF ContainersFetched, Handle
    <2>2. Quiet => SameMap(w) BY DEF ContainersKnow, SameMap, ActionOver, Idle
    <2> HIDE DEF w
    <2>3. Quiet /\ r.ans # Failed =>
             /\ DOMAIN v = DOMAIN view /\ v.containers = r.ans /\ DOMAIN v.logs = DOMAIN view.logs
             /\ v.logs.name = view.logs.name /\ v.logs.text = view.logs.text
      BY <2>2 DEF ContainersKnow, SameMap
    <2> HIDE DEF v
    <2>4. GoesOn(r, v, kept, net \ {r}, {}) BY <1>r, <2>1, HandlerIsOver
    <2> QED BY <2>1, <2>3, <2>4 DEF GoesOn, ContainersKnow
  <1>12. ASSUME NEW r \in net, ContainerActionDone(r) \/ MovedToProject(r)
         PROVE  Orderly' /\ ContainersKnow'
    <2>1. r.op \in ContainerActions \cup {"move"} BY <1>12 DEF ContainerActionDone, MovedToProject
    <2>2. r.op \notin Reads /\ r.op # "logs" BY <1>a, <2>1 DEF ContainerActions
    <2>3. CASE r.ans = Failed
      <3>1. PICK v : Settle(r, v, kept, {}, {})
        BY <1>12, <2>3, Zenon DEF ContainerActionDone, MovedToProject, Handle
      <3>2. GoesOn(r, v, kept, net \ {r}, {}) BY <1>r, <3>1, HandlerIsOver
      <3> QED BY <2>3, <3>2 DEF GoesOn, ContainersKnow, Quiet
    <2>4. CASE r.ans # Failed
      <3>1. PICK then : Settle(r, Busy(view, "load"), kept, {}, {Request("load", then)})
        BY <1>12, <2>4, Zenon DEF ContainerActionDone, MovedToProject, Handle, FetchContainers
      <3>2. PICK n : GoesOn(r, Busy(view, "load"), kept, net \ {r}, n) /\ Asks1(n, at, "load", then)
        BY <1>r, <3>1, HandlerAsks
      <3>3. PICK q : n = {q} /\ q.op = "load" /\ q.sent = TRUE BY <3>2 DEF Asks1, Fresh
      <3>4. Quiet' => /\ Quiet /\ view' = Busy(view, "load") /\ net = {r} /\ net' = {q}
                      /\ at' = at
        BY <2>2, <3>2, <3>3 DEF GoesOn
      <3>5. Orderly' /\ srv' = srv BY <3>2 DEF GoesOn
      <3>6. Quiet => SameMap(Busy(view, "load")) BY <1>s
      <3> QED BY <2>2, <3>3, <3>4, <3>5, <3>6 DEF ContainersKnow, SameMap
    <2> QED BY <2>3, <2>4
  <1>13. ASSUME NEW r \in net, LogsFetched(r) PROVE Orderly' /\ ContainersKnow'
    <2> DEFINE v == [view EXCEPT !.busy = @ \ {r.arg, "logs"}, !.logs.text = r.ans]
    <2>1. Settle(r, v, kept, {}, {}) /\ r.op = "logs" BY <1>13 DEF LogsFetched, Handle
    <2>2. Quiet => /\ DOMAIN v = DOMAIN view /\ v.containers = view.containers
                   /\ DOMAIN v.logs = DOMAIN view.logs
                   /\ v.logs.name = view.logs.name /\ v.logs.text = r.ans
      BY DEF ContainersKnow
    <2> HIDE DEF v
    <2>3. GoesOn(r, v, kept, net \ {r}, {}) BY <1>r, <2>1, HandlerIsOver
    <2>4. Quiet' => Quiet /\ view' = v /\ net = {r} /\ net' = {} /\ at' = at /\ r.sent = FALSE
      BY <1>a, <2>1, <2>3 DEF GoesOn
    <2>5. Orderly' /\ srv' = srv BY <2>3 DEF GoesOn
    <2> QED BY <2>1, <2>2, <2>4, <2>5 DEF ContainersKnow
  <1>14. ASSUME NEW r \in net, Executed(r) PROVE Orderly' /\ ContainersKnow'
    <2> DEFINE v == IF r.ans = Failed THEN Idle(view, "exec")
                    ELSE [Idle(view, "exec") EXCEPT !.cwd[r.arg.of] = r.ans.cwd]
    <2>1. Settle(r, v, kept, {}, {}) /\ r.op = "exec" BY <1>14 DEF Executed, Handle
    <2>2. Quiet => SameMap(v) BY DEF ContainersKnow, SameMap, Idle
    <2> HIDE DEF v
    <2>3. GoesOn(r, v, kept, net \ {r}, {}) BY <1>r, <2>1, HandlerIsOver
    <2>4. Quiet' => Quiet /\ view' = v /\ net = {r} /\ net' = {} /\ at' = at
      BY <1>a, <2>1, <2>3 DEF GoesOn
    <2>5. Orderly' /\ srv' = srv BY <2>3 DEF GoesOn
    <2> QED BY <2>1, <2>2, <2>4, <2>5 DEF ContainersKnow, SameMap
  <1>15. ASSUME NEW r \in net, ContainersServer(r) PROVE Orderly' /\ ContainersKnow'
    <2>1. \/ r.op \in {"load"} /\ (ServerAnswers(r, srv, srv[Server]) \/ ServerFails(r, srv))
          \/ r.op = "logs" /\ (ServerAnswers(r, srv, r.arg) \/ ServerFails(r, srv))
          \/ r.op \in ContainerActions \cup {"move", "exec"}
               /\ \E s, a : DOMAIN s = DOMAIN srv /\ (ServerAnswers(r, s, a) \/ ServerFails(r, s))
                            /\ (r.op = "exec" => s = srv)
      <3> DEFINE Goal == \E s, a : /\ DOMAIN s = DOMAIN srv /\ (ServerAnswers(r, s, a) \/ ServerFails(r, s))
                                   /\ (r.op = "exec" => s = srv)
      <3>1. ASSUME NEW s, NEW a, DOMAIN s = DOMAIN srv, ServerAnswers(r, s, a) \/ ServerFails(r, s),
                   r.op = "exec" => s = srv
            PROVE  Goal
        BY <3>1
      <3> HIDE DEF Goal
      <3>2. CASE r.op \in ContainerActions
        <4> DEFINE s == [srv EXCEPT ![Server][r.arg] =
                            [srv[Server][r.arg] EXCEPT !.running = (r.op # "stop")]]
        <4>1. ServerAnswers(r, s, Ok) \/ ServerFails(r, s)
          BY <1>15, <3>2 DEF ContainersServer, ContainerActions
        <4>2. DOMAIN s = DOMAIN srv OBVIOUS
        <4>3. r.op # "exec" BY <3>2 DEF ContainerActions
        <4> HIDE DEF s
        <4>4. Goal BY <3>1, <4>1, <4>2, <4>3
        <4> QED BY <3>2, <4>4 DEF Goal
      <3>3. CASE r.op = "move"
        <4> DEFINE s == [srv EXCEPT ![Server][r.arg.of] =
                            [srv[Server][r.arg.of] EXCEPT !.project = r.arg.project]]
        <4>1. ServerAnswers(r, s, Ok) \/ ServerFails(r, s)
          BY <1>15, <3>3 DEF ContainersServer, ContainerActions
        <4>2. DOMAIN s = DOMAIN srv OBVIOUS
        <4> HIDE DEF s
        <4>4. Goal BY <3>1, <3>3, <4>1, <4>2
        <4> QED BY <3>3, <4>4 DEF Goal
      <3>4. CASE r.op = "exec"
        <4>1. PICK a : ServerAnswers(r, srv, a) \/ ServerFails(r, srv)
          BY <1>15, <3>4, Zenon DEF ContainersServer, ContainerActions
        <4>4. Goal BY <3>1, <4>1
        <4> QED BY <3>4, <4>4 DEF Goal
      <3> QED BY <1>15, <3>2, <3>3, <3>4 DEF ContainersServer
    <2>2. CASE r.op = "load" /\ ServerAnswers(r, srv, srv[Server])
      <3>1. PICK q : Answers(r, srv, srv[Server], q) BY <1>r, <2>2, ServerSays
      <3> QED BY <2>2, <3>1 DEF ContainersKnow, Answers
    <2>3. CASE r.op = "logs" /\ ServerAnswers(r, srv, r.arg)
      <3>1. PICK q : Answers(r, srv, r.arg, q) BY <1>r, <2>3, ServerSays
      <3> QED BY <2>3, <3>1 DEF ContainersKnow, Answers
    <2>4. ASSUME NEW s, NEW a, DOMAIN s = DOMAIN srv, r.op \in ContainerActions \cup {"move", "exec"},
                 ServerAnswers(r, s, a), r.op = "exec" => s = srv
          PROVE  Orderly' /\ ContainersKnow'
      <3>1. PICK q : Answers(r, s, a, q) BY <1>r, <2>4, ServerSays
      <3>2. r.op \notin Reads /\ r.op \notin {"logs", "load"} BY <1>a, <2>4 DEF ContainerActions, Reads
      <3>3. Quiet' => Quiet /\ net = {r} /\ net' = {q} /\ view' = view /\ at' = at
        BY <3>1, <3>2 DEF Answers
      <3>4. Orderly' /\ srv' = s /\ q.op = r.op BY <3>1 DEF Answers
      <3> QED BY <2>4, <3>2, <3>3, <3>4 DEF ContainersKnow
    <2>5. ASSUME NEW s, DOMAIN s = DOMAIN srv, ServerFails(r, s)
          PROVE  Orderly' /\ ContainersKnow'
      <3>1. Fails(s) BY <1>r, <2>5, ServerFailsToSay
      <3> QED BY <2>5, <3>1 DEF ContainersKnow, Fails
    <2> QED BY <2>1, <2>2, <2>3, <2>4, <2>5
  <1> QED
    BY <1>1, <1>4, <1>5, <1>6, <1>7, <1>8, <1>9, <1>10, <1>11, <1>12, <1>13, <1>14, <1>15
    DEF ContainersNext

(* The side bar.  While the list is asked for, the selection is already    *)
(* one that will be in it, or the one the list was asked for with is not.  *)
(* What creates or deletes a database is followed by the list.             *)
Choice(v, dbs) ==
    /\ v.selected \in dbs \cup {None}
    /\ v.selected = None => dbs = {}
    /\ v.route.db \in dbs => v.selected = v.route.db

Listing(r, v, dbs) ==
    \/ /\ r.op = "list" /\ (r.sent = FALSE => r.ans.dbs = dbs)
       /\ r.arg \in dbs \cup {None} => /\ v.dbs \subseteq dbs /\ v.selected \in dbs \cup {None}
                                       /\ r.arg # None => v.selected # None
    \/ r.op = "create database" /\ v.dbs \subseteq dbs /\ (r.sent = FALSE => r.ans.new \in dbs)
    \/ /\ r.op = "delete" /\ r.arg.db = r.arg.selected /\ r.arg.db # None
       /\ r.sent = FALSE => r.arg.db \notin dbs

NavigationKnows ==
    /\ DOMAIN srv = {Server} /\ {"dbs", "project"} \subseteq DOMAIN srv[Server]
    /\ None \notin srv[Server].dbs
    /\ Quiet =>
         /\ at = Server
         /\ {"busy", "route", "dbs", "selected", "dialog", "crashed"} \subseteq DOMAIN view
         /\ {"page", "db"} \subseteq DOMAIN view.route
         /\ \A r \in net : Listing(r, view, srv[Server].dbs)
         /\ net = {} => view.dbs = srv[Server].dbs /\ Choice(view, srv[Server].dbs)

(* The hooks of the side bar, and what its effect makes of them.           *)
SideBar(v) ==
    /\ {"busy", "route", "dbs", "selected", "dialog", "crashed"} \subseteq DOMAIN v
    /\ {"page", "db"} \subseteq DOMAIN v.route

(* What a settled side bar has in it.                                      *)
LEMMA SettledIs ==
    ASSUME NEW v, SideBar(v)
    PROVE  /\ SideBar(Settled(v)) /\ Settled(v).dbs = v.dbs /\ Settled(v).route.db = v.route.db
           /\ Settled(v).selected = IF v.route.db \in v.dbs THEN v.route.db ELSE v.selected
  <1> DEFINE w == IF v.route.page = "backup" /\ "backup" \notin v.may
                  THEN [v EXCEPT !.route.page = "dashboard"] ELSE v
  <1>1. SideBar(w) /\ w.dbs = v.dbs /\ w.route.db = v.route.db /\ w.selected = v.selected
    BY DEF SideBar
  <1>2. Settled(v) = IF w.route.db \in w.dbs THEN [w EXCEPT !.selected = w.route.db] ELSE w
    BY DEF Settled
  <1> HIDE DEF w
  <1> QED BY <1>1, <1>2 DEF SideBar

(* What the server does with the lists, and what it answers.               *)
Lists(s, dbs) ==
    DOMAIN s = {Server} /\ {"dbs", "project"} \subseteq DOMAIN s[Server] /\ s[Server].dbs = dbs

(* The list is what the server has, and the selection is in it.            *)
LEMMA NavigationStored ==
    ASSUME Core, Orderly, page = "navigation", NavigationKnows, OpenNavigation \/ NavigationNext
    PROVE  Orderly' /\ NavigationKnows'
  <1>r. \A r \in net : IsRequest(r) BY DEF Core, Sound
  <1>a. "create database" \notin Reads /\ "delete" \notin Reads BY DEF Reads, Queries
  <1>d. None \notin Dbs BY PageAssumption
  <1> DEFINE W == srv[Server].dbs
  <1>1. CASE OpenNavigation
    <2>1. PICK may : OpenAt(Server, NavigationHooks(may), {Request("list", None)})
      BY <1>1 DEF OpenNavigation
    <2> DEFINE v == NavigationHooks(may)
    <2>2. SideBar(v) /\ v.dbs = {} /\ v.selected = None BY DEF NavigationHooks, SideBar, Home
    <2> HIDE DEF v
    <2>3. PICK n : Opens(Server, v, n) /\ Asks1(n, Server, "list", None) BY <2>1, OpensWithOne DEF v
    <2>4. PICK q : n = {q} /\ q.op = "list" /\ q.sent = TRUE /\ q.arg = None
      BY <2>3 DEF Asks1, Fresh
    <2> QED BY <2>2, <2>3, <2>4 DEF NavigationKnows, SideBar, Listing, Opens
  <1>2. ASSUME NEW v, Act(v, {}),
               Quiet => /\ SideBar(v) /\ v.dbs = view.dbs
                        /\ \/ v.route.db = view.route.db /\ v.selected = view.selected
                           \/ /\ v.selected \in view.dbs \cup {view.selected}
                              /\ v.route.db \in view.dbs => v.selected = v.route.db
        PROVE  Orderly' /\ NavigationKnows'
    <2>1. Acts(v, {}) BY <1>2, UserEdits
    <2>2. Quiet' => Quiet /\ net' = net /\ view' = v /\ at' = at BY <2>1 DEF Acts
    <2>3. Orderly' /\ srv' = srv BY <2>1 DEF Acts
    <2>4. Quiet' => \A r \in net : Listing(r, v, W)
      BY <1>2, <2>2 DEF NavigationKnows, Listing
    <2>5. Quiet' /\ net = {} => Choice(v, W)
      BY <1>2, <2>2 DEF NavigationKnows, Choice
    <2> QED BY <1>2, <2>2, <2>3, <2>4, <2>5 DEF NavigationKnows, SideBar
  <1>3. ASSUME NEW l \in SidebarLinks \cup HomeLinks, FollowLink(l) PROVE Orderly' /\ NavigationKnows'
    <2> DEFINE w == [view EXCEPT !.route = l]
    <2>1. Act(Settled(w), {}) /\ l \in SidebarLinks \cup DockLinks \cup HomeLinks
      BY <1>3 DEF FollowLink
    <2>2. {"page", "db"} \subseteq DOMAIN l
      BY <2>1 DEF SidebarLinks, DockLinks, HomeLinks, Home
    <2>3. Quiet => SideBar(w) /\ w.dbs = view.dbs /\ w.route = l /\ w.selected = view.selected
      BY <2>2 DEF NavigationKnows, SideBar
    <2> HIDE DEF w
    <2>4. Quiet => /\ SideBar(Settled(w)) /\ Settled(w).dbs = view.dbs
                   /\ Settled(w).route.db = l.db
                   /\ Settled(w).selected = IF l.db \in view.dbs THEN l.db ELSE view.selected
      BY <2>3, SettledIs
    <2> QED BY <1>2, <2>1, <2>4
  <1>4. ASSUME NEW d \in Dbs, TypeAddress(d) \/ PickDatabase(d) PROVE Orderly' /\ NavigationKnows'
    <2>1. CASE TypeAddress(d)
      <3> DEFINE w == [view EXCEPT !.route = [page |-> "backup", db |-> d]]
      <3>1. Act(Settled(w), {}) BY <2>1 DEF TypeAddress
      <3>2. Quiet => SideBar(w) /\ w.dbs = view.dbs /\ w.route.db = d /\ w.selected = view.selected
        BY DEF NavigationKnows, SideBar
      <3> HIDE DEF w
      <3>3. Quiet => /\ SideBar(Settled(w)) /\ Settled(w).dbs = view.dbs
                     /\ Settled(w).route.db = d
                     /\ Settled(w).selected = IF d \in view.dbs THEN d ELSE view.selected
        BY <3>2, SettledIs
      <3> QED BY <1>2, <3>1, <3>3
    <2>2. CASE PickDatabase(d)
      <3> DEFINE w == [view EXCEPT !.selected = d, !.route =
                          [page |-> IF @.db = None THEN "dashboard" ELSE @.page, db |-> d]]
      <3>1. Act(Settled(w), {}) /\ d \in view.dbs BY <2>2 DEF PickDatabase
      <3>2. Quiet => SideBar(w) /\ w.dbs = view.dbs /\ w.route.db = d /\ w.selected = d
        BY DEF NavigationKnows, SideBar
      <3> HIDE DEF w
      <3>3. Quiet => /\ SideBar(Settled(w)) /\ Settled(w).dbs = view.dbs
                     /\ Settled(w).route.db = d /\ Settled(w).selected = d
        BY <3>2, SettledIs
      <3> QED BY <1>2, <3>1, <3>3
    <2> QED BY <1>4, <2>1, <2>2
  <1>5. CASE OpenCreate
    <2>1. PICK x : Act([view EXCEPT !.dialog = x], {}) BY <1>5 DEF OpenCreate
    <2> DEFINE v == [view EXCEPT !.dialog = x]
    <2>2. Quiet => /\ SideBar(v) /\ v.dbs = view.dbs /\ v.route = view.route
                   /\ v.selected = view.selected
      BY DEF NavigationKnows, SideBar
    <2> QED BY <1>2, <2>1, <2>2
  <1>6. ASSUME NEW f, NEW op, NEW arg, Act(Busy(view, f), {Request(op, arg)}),
               op \notin Reads,
               Quiet /\ net = {} =>
                  \A q : q.op = op /\ q.arg = arg /\ q.sent = TRUE => Listing(q, view, W)
        PROVE  Orderly' /\ NavigationKnows'
    <2>1. PICK n : Acts(Busy(view, f), n) /\ Asks1(n, at, op, arg) BY <1>6, UserPresses
    <2>2. PICK q : n = {q} /\ q.op = op /\ q.arg = arg /\ q.sent = TRUE BY <2>1 DEF Asks1, Fresh
    <2>3. Quiet' => /\ Quiet /\ net' = net \cup {q} /\ view' = Busy(view, f) /\ at' = at
                    /\ Apart(net \cup {q})
      BY <2>1, <2>2 DEF Acts, Quiet
    <2>4. Quiet' => net \subseteq {q} BY <1>6, <2>2, <2>3 DEF Apart
    <2>5. Orderly' /\ srv' = srv BY <2>1 DEF Acts
    <2>6. Quiet => /\ SideBar(Busy(view, f)) /\ Busy(view, f).dbs = view.dbs
                   /\ Busy(view, f).selected = view.selected
      BY DEF NavigationKnows, SideBar, Busy
    <2>7. Quiet' => Listing(q, view, W)
      <3>1. CASE q \in net BY <2>3, <3>1 DEF NavigationKnows
      <3>2. CASE q \notin net
        <4>1. Quiet' => Quiet /\ net = {} BY <2>3, <2>4, <3>2
        <4> QED BY <1>6, <2>2, <4>1
      <3> QED BY <3>1, <3>2
    <2>8. Quiet' => Listing(q, Busy(view, f), W) BY <2>3, <2>6, <2>7 DEF Listing
    <2>9. Quiet' => net' = {q} BY <2>3, <2>4
    <2> QED BY <2>3, <2>5, <2>6, <2>8, <2>9 DEF NavigationKnows, SideBar
  <1>7. CASE SubmitDatabase
    <2>1. Quiet /\ net = {} =>
             \A q : q.op = "create database" /\ q.arg = view.selected /\ q.sent = TRUE =>
                       Listing(q, view, W)
      BY DEF NavigationKnows, Listing
    <2> QED BY <1>6, <1>7, <1>a, <2>1 DEF SubmitDatabase
  <1>8. CASE DeleteShown
    <2> DEFINE arg == [db |-> view.route.db, selected |-> view.selected]
    <2>1. Act(Busy(view, "delete"), {Request("delete", arg)}) /\ view.route.db \in view.dbs
      BY <1>8 DEF DeleteShown
    <2>2. Quiet /\ net = {} =>
             \A q : q.op = "delete" /\ q.arg = arg /\ q.sent = TRUE => Listing(q, view, W)
      BY <2>1 DEF NavigationKnows, Listing, Choice
    <2> HIDE DEF arg
    <2> QED BY <1>6, <1>a, <2>1, <2>2
  <1>9. ASSUME NEW r \in net, DatabasesListed(r) PROVE Orderly' /\ NavigationKnows'
    <2>1. CASE r.ans = Failed
      <3>1. PICK v : Settle(r, v, kept, {}, {})
        BY <1>9, <2>1, Zenon DEF DatabasesListed, Handle
      <3>2. GoesOn(r, v, kept, net \ {r}, {}) BY <1>r, <3>1, HandlerIsOver
      <3> QED BY <2>1, <3>2 DEF GoesOn, NavigationKnows, Quiet
    <2>2. CASE r.ans # Failed
      <3> DEFINE w(first) == [view EXCEPT !.dbs = r.ans.dbs,
                                 !.selected = IF r.arg \in r.ans.dbs THEN @
                                              ELSE IF r.arg = None /\ r.ans.dbs = {} THEN @
                                              ELSE first]
      <3>1. PICK first \in IF r.ans.dbs = {} THEN {None} ELSE r.ans.dbs :
               Settle(r, Settled(w(first)), kept, {}, {})
        BY <1>9, <2>2 DEF DatabasesListed, Handle
      <3> DEFINE u == w(first)
      <3>2. r.op = "list" BY <1>9 DEF DatabasesListed
      <3>3. Quiet => /\ SideBar(u) /\ u.dbs = r.ans.dbs /\ u.route = view.route
                     /\ u.selected = IF r.arg \in r.ans.dbs THEN view.selected
                                     ELSE IF r.arg = None /\ r.ans.dbs = {} THEN view.selected
                                     ELSE first
        BY DEF NavigationKnows, SideBar
      <3>4. Settle(r, Settled(u), kept, {}, {}) BY <3>1
      <3> HIDE DEF u, w
      <3> DEFINE v == Settled(u)
      <3>5. Quiet => /\ SideBar(v) /\ v.dbs = u.dbs /\ v.route.db = u.route.db
                     /\ v.selected = IF u.route.db \in u.dbs THEN u.route.db ELSE u.selected
        BY <3>3, SettledIs
      <3> HIDE DEF v
      <3>6. GoesOn(r, v, kept, net \ {r}, {}) BY <1>r, <3>4, HandlerIsOver DEF v
      <3>7. Quiet' => Quiet /\ view' = v /\ net' = net \ {r} /\ at' = at /\ r.sent = FALSE
        BY <3>6 DEF GoesOn
      <3>8. Quiet' => Listing(r, view, W) BY <3>7 DEF NavigationKnows
      <3>9. Quiet' => /\ r.ans.dbs = W
                      /\ r.arg \in W \cup {None} =>
                            /\ view.dbs \subseteq W /\ view.selected \in W \cup {None}
                            /\ r.arg # None => view.selected # None
        BY <3>2, <3>7, <3>8 DEF Listing
      <3>10. Quiet' => v.dbs = W /\ None \notin W BY <3>3, <3>5, <3>7, <3>9 DEF NavigationKnows
      <3>11. Quiet' => u.selected \in W \cup {None} /\ (u.selected = None => W = {})
        BY <3>1, <3>3, <3>7, <3>9, <3>10
      <3>12. Quiet' => Choice(v, W)
        BY <3>3, <3>5, <3>7, <3>9, <3>10, <3>11 DEF Choice
      <3>13. Quiet' => \A x \in net' : Listing(x, v, W)
        <4> SUFFICES ASSUME Quiet', NEW x \in net' PROVE Listing(x, v, W) OBVIOUS
        <4>1. Listing(x, view, W) BY <3>7 DEF NavigationKnows
        <4> QED BY <3>10, <3>12, <4>1 DEF Listing, Choice
      <3>14. Orderly' /\ srv' = srv BY <3>6 DEF GoesOn
      <3> QED BY <3>5, <3>7, <3>10, <3>12, <3>13, <3>14 DEF NavigationKnows, SideBar
    <2> QED BY <2>1, <2>2
  <1>10. ASSUME NEW r \in net, DatabaseCreated(r) \/ ShownDeleted(r)
         PROVE  Orderly' /\ NavigationKnows'
    <2>1. r.op \in {"create database", "delete"} BY <1>10 DEF DatabaseCreated, ShownDeleted
    <2>2. CASE r.ans = Failed
      <3>1. PICK v : Settle(r, v, kept, {}, {})
        BY <1>10, <2>2, Zenon DEF DatabaseCreated, ShownDeleted, Handle
      <3>2. GoesOn(r, v, kept, net \ {r}, {}) BY <1>r, <3>1, HandlerIsOver
      <3> QED BY <2>2, <3>2 DEF GoesOn, NavigationKnows, Quiet
    <2>3. ASSUME NEW v, NEW arg, r.ans # Failed,
                 Settle(r, v, kept, {}, Sent(r.at, {Request("list", arg)})),
                 Quiet => SideBar(v) /\ v.dbs = view.dbs,
                 Quiet /\ r.sent = FALSE /\ arg \in W \cup {None} =>
                       /\ v.dbs \subseteq W /\ v.selected \in W \cup {None}
                       /\ arg # None => v.selected # None
          PROVE  Orderly' /\ NavigationKnows'
      <3>1. PICK n : GoesOn(r, v, kept, net \ {r}, n) /\ Asks1(n, r.at, "list", arg)
        BY <1>r, <2>3, HandlerAsks
      <3>2. PICK q : n = {q} /\ q.op = "list" /\ q.arg = arg /\ q.sent = TRUE
        BY <3>1 DEF Asks1, Fresh
      <3>3. Quiet' => /\ Quiet /\ view' = v /\ at' = at /\ net' = {q} /\ r.sent = FALSE
        BY <1>a, <2>1, <3>1, <3>2 DEF GoesOn
      <3>4. Quiet' => Listing(q, v, W) BY <2>3, <3>2, <3>3 DEF Listing
      <3>5. Orderly' /\ srv' = srv BY <3>1 DEF GoesOn
      <3> QED BY <2>3, <3>3, <3>4, <3>5 DEF NavigationKnows, SideBar
    <2>4. CASE r.ans # Failed /\ DatabaseCreated(r)
      <3> DEFINE u == [CreateEnds(view) EXCEPT !.selected = r.ans.new,
                                               !.route = [page |-> "dashboard", db |-> r.ans.new]]
      <3>1. /\ r.op = "create database"
            /\ Settle(r, Settled(u), kept, {}, Sent(r.at, {Request("list", r.arg)}))
        BY <2>4 DEF DatabaseCreated, Handle
      <3>2. Quiet => /\ SideBar(u) /\ u.dbs = view.dbs /\ u.route.db = r.ans.new
                     /\ u.selected = r.ans.new
        BY DEF NavigationKnows, SideBar, CreateEnds, Idle
      <3> HIDE DEF u
      <3>3. Quiet => /\ SideBar(Settled(u)) /\ Settled(u).dbs = view.dbs
                     /\ Settled(u).selected = r.ans.new
        BY <3>2, SettledIs
      <3>4. Quiet => Listing(r, view, W) /\ None \notin W BY DEF NavigationKnows
      <3>5. Quiet /\ r.sent = FALSE => view.dbs \subseteq W /\ r.ans.new \in W /\ None \notin W
        BY <3>1, <3>4 DEF Listing
      <3> QED BY <2>3, <2>4, <3>1, <3>3, <3>5
    <2>5. CASE r.ans # Failed /\ ShownDeleted(r)
      <3> DEFINE v == [Idle(view, "delete") EXCEPT !.route = Home]
      <3>1. /\ r.op = "delete"
            /\ Settle(r, v, kept, {}, Sent(r.at, {Request("list", r.arg.selected)}))
        BY <2>5 DEF ShownDeleted, Handle
      <3>2. Quiet => SideBar(v) /\ v.dbs = view.dbs
        BY DEF NavigationKnows, SideBar, Idle, Home
      <3>3. Quiet => Listing(r, view, W) BY DEF NavigationKnows
      <3>4. Quiet /\ r.sent = FALSE => r.arg.selected \notin W \cup {None}
        BY <3>1, <3>3 DEF Listing
      <3> HIDE DEF v
      <3> QED BY <2>3, <2>5, <3>1, <3>2, <3>4
    <2> QED BY <1>10, <2>2, <2>4, <2>5
  <1>11. ASSUME NEW r \in net, NavigationServer(r) PROVE Orderly' /\ NavigationKnows'
    <2>1. ASSUME NEW s, NEW dbs, Lists(s, dbs), None \notin dbs,
                 ServerFails(r, s) \/ ServerAnswers(r, s, Failed)
          PROVE  Orderly' /\ NavigationKnows'
      <3>1. Fails(s) BY <1>r, <2>1, ServerFailsToSay, ServerRefuses
      <3> QED BY <2>1, <3>1 DEF Fails, NavigationKnows, Lists
    <2>2. ASSUME NEW s, NEW dbs, NEW a, Lists(s, dbs), None \notin dbs, ServerAnswers(r, s, a),
                 r.op \in {"create database", "delete"} \/ dbs = W,
                 Quiet => \A q : /\ q.op = r.op /\ q.arg = r.arg /\ q.sent = FALSE /\ q.ans = a
                                 /\ Listing(r, view, W)
                                 => Listing(q, view, dbs)
          PROVE  Orderly' /\ NavigationKnows'
      <3>1. PICK q : Answers(r, s, a, q) BY <1>r, <2>2, ServerSays
      <3>2. Orderly' /\ srv' = s BY <3>1 DEF Answers
      <3>3. Quiet' => /\ Quiet /\ at' = at /\ view' = view
                      /\ net' = (net \ {r}) \cup {q} /\ (r.op \notin Reads => net = {r})
        BY <3>1 DEF Answers
      <3>4. q.op = r.op /\ q.arg = r.arg /\ q.sent = FALSE /\ q.ans = a BY <3>1 DEF Answers
      <3>5. Quiet' => Listing(q, view, dbs) BY <2>2, <3>3, <3>4 DEF NavigationKnows
      <3>6. Quiet' => \A x \in net' : Listing(x, view, dbs)
        BY <1>a, <2>2, <3>3, <3>5 DEF NavigationKnows
      <3> QED BY <2>2, <3>2, <3>3, <3>6 DEF NavigationKnows, Lists
    <2>3. Lists(srv, W) /\ None \notin W BY DEF NavigationKnows, Lists
    <2>4. CASE r.op \in {"list", "load"}
      <3> DEFINE a == [dbs |-> srv[r.at].dbs, project |-> srv[r.at].project]
      <3>1. ServerAnswers(r, srv, a) \/ ServerFails(r, srv) BY <1>11, <2>4 DEF NavigationServer
      <3>2. CASE ServerAnswers(r, srv, a)
        <4>1. Quiet /\ r \in net => r.at = Server BY DEF Orderly, NavigationKnows
        <4>2. Quiet => a.dbs = W BY <4>1
        <4> HIDE DEF a
        <4>3. Quiet => \A q : /\ q.op = r.op /\ q.arg = r.arg /\ q.sent = FALSE /\ q.ans = a
                              /\ Listing(r, view, W)
                              => Listing(q, view, W)
          BY <2>4, <4>2 DEF Listing
        <4> QED BY <2>2, <2>3, <3>2, <4>3
      <3> QED BY <2>1, <2>3, <3>1, <3>2
    <2>5. CASE r.op \in {"rename", "create project"}
      <3>1. PICK s : /\ ServerAnswers(r, s, Ok) \/ ServerFails(r, s)
                     /\ s \in {srv, [srv EXCEPT ![r.at].project = r.arg]}
        BY <1>11, <2>5 DEF NavigationServer
      <3>2. Lists(s, W) BY <3>1, <2>3 DEF Lists
      <3>3. Quiet => ~Listing(r, view, W) BY <2>5 DEF Listing
      <3> QED BY <2>1, <2>2, <2>3, <3>1, <3>2, <3>3
    <2>6. CASE r.op = "create database"
      <3>1. ASSUME NEW d \in Dbs, NEW s, s = [srv EXCEPT ![r.at].dbs = @ \cup {d}],
                   NEW a, a = [new |-> d], ServerAnswers(r, s, a) \/ ServerFails(r, s)
            PROVE  Orderly' /\ NavigationKnows'
        <4> DEFINE dbs == IF r.at = Server THEN W \cup {d} ELSE W
        <4>1. Lists(s, dbs) /\ None \notin dbs BY <1>d, <2>3, <3>1 DEF Lists
        <4>2. Quiet => r.at = Server BY DEF Orderly, NavigationKnows
        <4>3. Quiet => d \in dbs /\ W \subseteq dbs BY <4>2
        <4> HIDE DEF dbs
        <4>4. a.new = d BY <3>1
        <4>5. Quiet => \A q : /\ q.op = r.op /\ q.arg = r.arg /\ q.sent = FALSE /\ q.ans = a
                              /\ Listing(r, view, W)
                              => Listing(q, view, dbs)
          BY <2>6, <4>3, <4>4 DEF Listing
        <4> QED BY <2>1, <2>2, <2>6, <3>1, <4>1, <4>5
      <3>2. CASE ServerAnswers(r, srv, Failed) BY <2>1, <2>3, <3>2
      <3>3. \/ ServerAnswers(r, srv, Failed)
            \/ \E d \in Dbs \ srv[r.at].dbs : LET s == [srv EXCEPT ![r.at].dbs = @ \cup {d}] IN
                  ServerAnswers(r, s, [new |-> d]) \/ ServerFails(r, s)
        BY <1>11, <2>6 DEF NavigationServer
      <3> QED BY <3>1, <3>2, <3>3
    <2>7. CASE r.op = "delete"
      <3> DEFINE s == [srv EXCEPT ![r.at].dbs = @ \ {r.arg.db}]
                 dbs == IF r.at = Server THEN W \ {r.arg.db} ELSE W
      <3>1. ServerAnswers(r, s, Ok) \/ ServerFails(r, s) BY <1>11, <2>7 DEF NavigationServer
      <3>2. Lists(s, dbs) /\ None \notin dbs BY <2>3 DEF Lists
      <3>3. Quiet => r.at = Server BY DEF Orderly, NavigationKnows
      <3>4. Quiet => r.arg.db \notin dbs BY <3>3
      <3> HIDE DEF s, dbs
      <3>5. Quiet => \A q : /\ q.op = r.op /\ q.arg = r.arg /\ q.sent = FALSE /\ q.ans = Ok
                            /\ Listing(r, view, W)
                            => Listing(q, view, dbs)
        BY <2>7, <3>4 DEF Listing
      <3> QED BY <2>1, <2>2, <2>7, <3>1, <3>2, <3>5
    <2> QED BY <1>11, <2>4, <2>5, <2>6, <2>7 DEF NavigationServer
  <1> QED
    BY <1>1, <1>3, <1>4, <1>5, <1>7, <1>8, <1>9, <1>10, <1>11 DEF NavigationNext

(* The projects: their list is fetched after every change.                 *)
ProjectHooksThere(v) == {"busy", "project", "edited", "dialog", "crashed"} \subseteq DOMAIN v

ProjectsKnow ==
    /\ DOMAIN srv = {Server} /\ {"dbs", "project"} \subseteq DOMAIN srv[Server]
    /\ Quiet =>
         /\ at = Server /\ ProjectHooksThere(view)
         /\ \A r \in net : r.op = "load" /\ r.sent = FALSE => r.ans.project = srv[at].project
         /\ net = {} => view.project = srv[at].project

(* Every change of the projects is followed by their list.                 *)
LEMMA ProjectsStored ==
    ASSUME Core, Orderly, page = "projects", ProjectsKnow, OpenNavigation \/ ProjectsNext
    PROVE  Orderly' /\ ProjectsKnow'
  <1>r. \A r \in net : IsRequest(r) BY DEF Core, Sound
  <1>1. CASE OpenNavigation
    <2>1. PICK may : OpenAt(Server, NavigationHooks(may), {Request("load", None)})
      BY <1>1 DEF OpenNavigation
    <2> DEFINE v == NavigationHooks(may)
    <2>2. ProjectHooksThere(v) BY DEF NavigationHooks, ProjectHooksThere
    <2> HIDE DEF v
    <2>3. PICK n : Opens(Server, v, n) /\ Asks1(n, Server, "load", None) BY <2>1, OpensWithOne DEF v
    <2>4. n # {} /\ \A q \in n : q.sent = TRUE BY <2>3 DEF Asks1, Fresh
    <2> QED BY <2>2, <2>3, <2>4 DEF ProjectsKnow, Opens
  <1>2. ASSUME NEW v, Act(v, {}), Quiet => ProjectHooksThere(v) /\ v.project = view.project
        PROVE  Orderly' /\ ProjectsKnow'
    <2>1. Acts(v, {}) BY <1>2, UserEdits
    <2> QED BY <1>2, <2>1 DEF ProjectsKnow, Acts
  <1>3. ASSUME NEW f, NEW op, NEW arg, Act(Busy(view, f), {Request(op, arg)})
        PROVE  Orderly' /\ ProjectsKnow'
    <2>1. PICK n : Acts(Busy(view, f), n) /\ Asks1(n, at, op, arg) BY <1>3, UserPresses
    <2>2. n # {} /\ \A q \in n : q.sent = TRUE BY <2>1 DEF Asks1, Fresh
    <2>3. Quiet => ProjectHooksThere(Busy(view, f)) BY DEF ProjectsKnow, ProjectHooksThere, Busy
    <2> QED BY <2>1, <2>2, <2>3 DEF ProjectsKnow, Acts
  <1>4. CASE EditProject \/ OpenCreate
    <2>1. PICK x : Act([view EXCEPT !.edited = x], {}) \/ Act([view EXCEPT !.dialog = x], {})
      BY <1>4, Zenon DEF EditProject, OpenCreate
    <2>2. Quiet => \A u \in {[view EXCEPT !.edited = x], [view EXCEPT !.dialog = x]} :
                      ProjectHooksThere(u) /\ u.project = view.project
      BY DEF ProjectsKnow, ProjectHooksThere
    <2> QED BY <1>2, <2>1, <2>2
  <1>5. CASE SaveProject
    <2>1. \/ Act([view EXCEPT !.edited = None], {})
          \/ Act(Busy(view, "rename"), {Request("rename", view.edited)})
      BY <1>5 DEF SaveProject
    <2>2. Quiet => /\ ProjectHooksThere([view EXCEPT !.edited = None])
                   /\ [view EXCEPT !.edited = None].project = view.project
      BY DEF ProjectsKnow, ProjectHooksThere
    <2> QED BY <1>2, <1>3, <2>1, <2>2
  <1>6. CASE SubmitProject BY <1>3, <1>6 DEF SubmitProject
  <1>7. ASSUME NEW r \in net, r.ans = Failed,
               ProjectsListed(r) \/ ProjectSaved(r) \/ ProjectCreated(r)
        PROVE  Orderly' /\ ProjectsKnow'
    <2>1. PICK v : Settle(r, v, kept, {}, {})
      BY <1>7, Zenon DEF ProjectsListed, ProjectSaved, ProjectCreated, Handle
    <2>2. GoesOn(r, v, kept, net \ {r}, {}) BY <1>r, <2>1, HandlerIsOver
    <2> QED BY <1>7, <2>2 DEF GoesOn, ProjectsKnow, Quiet
  <1>8. ASSUME NEW r \in net, r.ans # Failed, ProjectsListed(r) PROVE Orderly' /\ ProjectsKnow'
    <2> DEFINE w == IF r.arg = "rename" THEN [Idle(view, "rename") EXCEPT !.edited = None] ELSE view
               v == [w EXCEPT !.project = r.ans.project]
    <2>1. Settle(r, v, kept, {}, {}) /\ r.op = "load" BY <1>8 DEF ProjectsListed, Handle
    <2>2. Quiet => ProjectHooksThere(w) BY DEF ProjectsKnow, ProjectHooksThere, Idle
    <2> HIDE DEF w
    <2>3. Quiet => ProjectHooksThere(v) /\ v.project = r.ans.project BY <2>2 DEF ProjectHooksThere
    <2> HIDE DEF v
    <2>4. GoesOn(r, v, kept, net \ {r}, {}) BY <1>r, <2>1, HandlerIsOver
    <2> QED BY <2>1, <2>3, <2>4 DEF GoesOn, ProjectsKnow
  <1>9. ASSUME NEW r \in net, r.ans # Failed, ProjectSaved(r) \/ ProjectCreated(r)
        PROVE  Orderly' /\ ProjectsKnow'
    <2>1. r.op \notin Reads BY <1>9 DEF ProjectSaved, ProjectCreated, Reads, Queries
    <2> DEFINE G(v, arg) ==
                 /\ v = view \/ v = CreateEnds(view)
                 /\ Settle(r, v, kept, {}, Sent(r.at, {Request("load", arg)}))
    <2>2. \E v, arg : G(v, arg)
      <3>1. CASE ProjectSaved(r)
        <4>1. G(view, "rename") BY <1>9, <3>1 DEF ProjectSaved, Handle
        <4> QED BY <4>1, Zenon
      <3>2. CASE ProjectCreated(r)
        <4>1. G(CreateEnds(view), None) BY <1>9, <3>2 DEF ProjectCreated, Handle
        <4> QED BY <4>1, Zenon
      <3> QED BY <1>9, <3>1, <3>2
    <2>p. PICK v, arg : G(v, arg) BY <2>2
    <2>3. Quiet => ProjectHooksThere(v)
      BY <2>p DEF ProjectsKnow, ProjectHooksThere, CreateEnds, Idle
    <2>4. PICK n : GoesOn(r, v, kept, net \ {r}, n) /\ Asks1(n, r.at, "load", arg)
      BY <1>r, <2>p, HandlerAsks
    <2>5. n # {} /\ \A q \in n : q.sent = TRUE BY <2>4 DEF Asks1, Fresh
    <2>6. Quiet' => Quiet /\ view' = v /\ at' = at /\ net' = n BY <2>1, <2>4 DEF GoesOn
    <2>7. Orderly' /\ srv' = srv BY <2>4 DEF GoesOn
    <2> QED BY <2>3, <2>5, <2>6, <2>7 DEF ProjectsKnow
  <1>10. ASSUME NEW r \in net, NavigationServer(r) PROVE Orderly' /\ ProjectsKnow'
    <2>1. ASSUME NEW s, DOMAIN s = {Server}, {"dbs", "project"} \subseteq DOMAIN s[Server],
                 r.op \in Reads => s[Server].project = srv[Server].project,
                 NEW a, r.op = "load" /\ r.at = Server => a.project = srv[Server].project,
                 ServerAnswers(r, s, a) \/ ServerFails(r, s)
          PROVE  Orderly' /\ ProjectsKnow'
      <3>1. CASE ServerAnswers(r, s, a)
        <4>1. PICK q : Answers(r, s, a, q) BY <1>r, <3>1, ServerSays
        <4>2. Orderly' /\ srv' = s BY <4>1 DEF Answers
        <4>3. Quiet' => /\ Quiet /\ r.at = at /\ at' = at /\ view' = view
                        /\ net' = (net \ {r}) \cup {q} /\ (r.op \notin Reads => net = {r})
          BY <4>1 DEF Answers
        <4>4. q.op = r.op /\ q.sent = FALSE /\ q.ans = a BY <4>1 DEF Answers
        <4>5. CASE r.op \in Reads BY <2>1, <4>2, <4>3, <4>4, <4>5 DEF ProjectsKnow
        <4>6. CASE r.op \notin Reads
          <5>1. r.op # "load" BY <4>6 DEF Reads
          <5> QED BY <2>1, <4>2, <4>3, <4>4, <4>6, <5>1 DEF ProjectsKnow
        <4> QED BY <4>5, <4>6
      <3>2. CASE ServerFails(r, s)
        <4>1. Fails(s) BY <1>r, <3>2, ServerFailsToSay
        <4> QED BY <2>1, <4>1 DEF Fails, ProjectsKnow
      <3> QED BY <2>1, <3>1, <3>2
    <2>2. CASE r.op \in {"list", "load"}
      <3> DEFINE a == [dbs |-> srv[r.at].dbs, project |-> srv[r.at].project]
      <3>1. ServerAnswers(r, srv, a) \/ ServerFails(r, srv) BY <1>10, <2>2 DEF NavigationServer
      <3>2. r.at = Server => a.project = srv[Server].project OBVIOUS
      <3> HIDE DEF a
      <3> QED BY <2>1, <3>1, <3>2 DEF ProjectsKnow
    <2>3. CASE r.op \notin {"list", "load"}
      <3>1. r.op \in {"rename", "create project", "create database", "delete"}
        BY <1>10, <2>3 DEF NavigationServer
      <3>2. r.op \notin Reads BY <3>1 DEF Reads, Queries
      <3>3. PICK d, a : LET s == [srv EXCEPT ![r.at].dbs = d]
                            t == [srv EXCEPT ![r.at].project = d] IN
               \/ ServerAnswers(r, srv, a) \/ ServerAnswers(r, s, a) \/ ServerAnswers(r, t, a)
               \/ ServerFails(r, srv) \/ ServerFails(r, s) \/ ServerFails(r, t)
        BY <1>10, <3>1, Zenon DEF NavigationServer
      <3> DEFINE s == [srv EXCEPT ![r.at].dbs = d]
                 t == [srv EXCEPT ![r.at].project = d]
      <3>4. PICK u \in {srv, s, t} : ServerAnswers(r, u, a) \/ ServerFails(r, u) BY <3>3
      <3>5. DOMAIN u = {Server} /\ {"dbs", "project"} \subseteq DOMAIN u[Server]
        BY <3>4 DEF ProjectsKnow
      <3> QED BY <2>1, <2>3, <3>2, <3>4, <3>5
    <2> QED BY <2>2, <2>3
  <1> QED
    BY <1>1, <1>4, <1>5, <1>6, <1>7, <1>8, <1>9, <1>10 DEF ProjectsNext

(* The rows of a table: what is selected is what was asked for last, and   *)
(* nothing else is on its way with it.                                     *)
TablesHooksThere(v) ==
    {"busy", "active", "error", "tables", "selected", "window", "data", "edits", "relation"}
        \subseteq DOMAIN v

ShowsRows(v, d) == v.active = TRUE /\ v.data # None => v.data = Rows(d, v.selected, v.window)

RowsAsked(r, v, d) ==
    r.op = "rows" =>
        /\ r.sent = FALSE => r.ans = Rows(d, r.arg.table, r.arg.window)
        /\ v.active = TRUE => r.arg.table = v.selected /\ r.arg.window = v.window

TablesKnow ==
    Quiet =>
      /\ TablesHooksThere(view)
      /\ \A r \in net : RowsAsked(r, view, at)
      /\ (\A r \in net : r.op \notin {"list", "rows", "save"}) => ShowsRows(view, at)

(* The rows that arrive are those of the table and the page selected.      *)
LEMMA TablesStored ==
    ASSUME Core, Orderly, TablesKnow, OpenTables \/ TablesNext
    PROVE  Orderly' /\ TablesKnow'
  <1>r. \A r \in net : IsRequest(r) BY DEF Core, Sound
  <1>a. "rows" \notin Reads /\ "save" \notin Reads /\ "list" \in Reads BY DEF Reads, Queries
  <1>f. ASSUME NEW v, NEW a, TablesHooksThere(v)
        PROVE  /\ TablesHooksThere(FetchTables(v, a)) /\ FetchTables(v, a).data = None
               /\ FetchTables(v, a).active = TRUE \/ FetchTables(v, a).active = FALSE
               /\ ~a => FetchTables(v, a).active = FALSE
    <2>1. CASE a BY <1>f, <2>1 DEF FetchTables, TablesHooksThere
    <2>2. CASE ~a BY <1>f, <2>2 DEF FetchTables, TablesHooksThere
    <2> QED BY <2>1, <2>2
  <1>1. ASSUME NEW d \in Dbs, NEW w, NEW a, NEW was,
               \/ OpenAt(d, FetchTables(w, a), ListRequest(was, a))
               \/ SwitchTo(d, FetchTables(w, a), ListRequest(was, a)),
               Quiet' => TablesHooksThere(w)
        PROVE  Orderly' /\ TablesKnow'
    <2> DEFINE v == FetchTables(w, a)
               arg == [table |-> was, window |-> First, edits |-> None]
               G(n) == Opens(d, v, n) /\ \A q \in n : q.op = "list"
    <2>1. \E n : G(n)
      <3>1. CASE a
        <4> HIDE DEF v, arg
        <4>1. OpenAt(d, v, {Request("list", arg)}) \/ SwitchTo(d, v, {Request("list", arg)})
          BY <1>1, <3>1 DEF ListRequest, v, arg
        <4>2. PICK n : Opens(d, v, n) /\ Asks1(n, d, "list", arg) BY <4>1, OpensWithOne
        <4> QED BY <4>2 DEF Asks1
      <3>2. CASE ~a
        <4> HIDE DEF v, arg
        <4>1. OpenAt(d, v, {}) \/ SwitchTo(d, v, {})
          BY <1>1, <3>2 DEF ListRequest, v
        <4>2. Opens(d, v, {}) BY <4>1, OpensIdle
        <4>3. G({}) BY <4>2
        <4> QED BY <4>3
      <3> QED BY <3>1, <3>2
    <2>2. PICK n : G(n) BY <2>1
    <2>3. Quiet' => TablesHooksThere(v) /\ v.data = None BY <1>1, <1>f
    <2> HIDE DEF v
    <2>4. Quiet' => net' = n /\ view' = v /\ at' = d BY <2>2 DEF Opens
    <2>5. Orderly' BY <2>2 DEF Opens
    <2> QED BY <2>2, <2>3, <2>4, <2>5 DEF TablesKnow, RowsAsked, ShowsRows
  <1>2. CASE OpenTables
    <2>1. TablesHooksThere(TablesHooks) BY DEF TablesHooks, TablesHooksThere
    <2> QED BY <1>1, <1>2, <2>1 DEF OpenTables
  <1>3. CASE SwitchTables
    <2>1. PICK d \in Dbs :
             SwitchTo(d, FetchTables(view, view.active), ListRequest(view.selected, view.active))
      BY <1>3 DEF SwitchTables
    <2>2. Quiet' => Quiet BY <2>1, PageAssumption DEF SwitchTo, Quiet
    <2>3. Quiet' => TablesHooksThere(view) BY <2>2 DEF TablesKnow
    <2> QED BY <1>1, <2>1, <2>3
  <1>4. CASE ContextRefreshed
    <2>1. PICK a \in BOOLEAN : Act(FetchTables(view, a), ListRequest(view.selected, a))
      BY <1>4 DEF ContextRefreshed
    <2> DEFINE v == FetchTables(view, a)
               arg == [table |-> view.selected, window |-> First, edits |-> None]
    <2>2. Quiet => /\ TablesHooksThere(v) /\ v.data = None
                   /\ ~a => v.active = FALSE
      BY <1>f DEF TablesKnow
    <2> HIDE DEF v, arg
    <2>3. CASE a = TRUE
      <3>1. Act(v, {Request("list", arg)}) BY <2>1, <2>3 DEF ListRequest, v, arg
      <3>2. PICK n : Acts(v, n) /\ Asks1(n, at, "list", arg) BY <3>1, UserPresses
      <3>3. PICK q : n = {q} /\ q.op = "list" BY <3>2 DEF Asks1
      <3>4. Quiet' => Quiet /\ net' = net \cup {q} /\ view' = v /\ at' = at /\ Apart(net \cup {q})
        BY <3>2, <3>3 DEF Acts, Quiet
      <3>5. Quiet' => \A r \in net' : r.op # "rows" BY <1>a, <3>3, <3>4 DEF Apart
      <3>6. Orderly' BY <3>2 DEF Acts
      <3> QED BY <2>2, <3>3, <3>4, <3>5, <3>6 DEF TablesKnow, RowsAsked
    <2>4. CASE a = FALSE
      <3>1. Act(v, {}) BY <2>1, <2>4 DEF ListRequest, v
      <3>2. Acts(v, {}) BY <3>1, UserEdits
      <3> QED BY <2>2, <2>4, <3>2 DEF TablesKnow, RowsAsked, ShowsRows, Acts
    <2> QED BY <2>3, <2>4
  <1>5. ASSUME NEW v, NEW n, Acts(v, n), \A q \in n : q.op \in {"database", "save"},
               Quiet => /\ TablesHooksThere(v) /\ v.active = view.active /\ v.selected = view.selected
                        /\ v.window = view.window /\ v.data = view.data
        PROVE  Orderly' /\ TablesKnow'
    <2>2. Acts(v, n) BY <1>5
    <2>3. Quiet' => Quiet /\ net' = net \cup n /\ view' = v /\ at' = at BY <2>2 DEF Acts
    <2>4. Orderly' BY <2>2 DEF Acts
    <2>5. Quiet' => \A q \in net' : RowsAsked(q, v, at)
      BY <1>5, <2>3 DEF TablesKnow, RowsAsked
    <2>6. Quiet' /\ (\A q \in net' : q.op \notin {"list", "rows", "save"}) => ShowsRows(v, at)
      BY <1>5, <2>3 DEF TablesKnow, ShowsRows
    <2> QED BY <1>5, <2>2, <2>3, <2>4, <2>5, <2>6 DEF TablesKnow
  <1>6. CASE EditCell \/ DiscardEdits \/ CloseRelation
    <2>1. PICK x : Act([view EXCEPT !.edits = x], {}) \/ Act([view EXCEPT !.relation = x], {})
      BY <1>6, Zenon DEF EditCell, DiscardEdits, CloseRelation
    <2>2. Quiet => \A v \in {[view EXCEPT !.edits = x], [view EXCEPT !.relation = x]} :
             /\ TablesHooksThere(v) /\ v.active = view.active /\ v.selected = view.selected
             /\ v.window = view.window /\ v.data = view.data
      BY DEF TablesKnow, TablesHooksThere
    <2>3. PICK v : /\ Act(v, {}) /\ v \in {[view EXCEPT !.edits = x], [view EXCEPT !.relation = x]}
      BY <2>1
    <2> DEFINE n == {}
    <2>4. Acts(v, n) BY <2>3, UserEdits
    <2>5. \A q \in n : q.op \in {"database", "save"} OBVIOUS
    <2> HIDE DEF n
    <2>6. Quiet => /\ TablesHooksThere(v) /\ v.active = view.active /\ v.selected = view.selected
                   /\ v.window = view.window /\ v.data = view.data
      BY <2>2, <2>3
    <2> QED BY <1>5, <2>4, <2>5, <2>6
  <1>7. CASE SaveRows \/ OpenRelation
    <2>1. PICK v, op, arg : /\ Act(v, {Request(op, arg)}) /\ op \in {"database", "save"}
                            /\ v = Busy(view, "save") \/ v = [view EXCEPT !.relation = "loading"]
      <3>1. CASE SaveRows BY <3>1, Zenon DEF SaveRows
      <3>2. CASE OpenRelation BY <3>2, Zenon DEF OpenRelation
      <3> QED BY <1>7, <3>1, <3>2
    <2>2. Quiet => /\ TablesHooksThere(v) /\ v.active = view.active /\ v.selected = view.selected
                   /\ v.window = view.window /\ v.data = view.data
      BY <2>1 DEF TablesKnow, TablesHooksThere, Busy
    <2>3. PICK n : Acts(v, n) /\ Asks1(n, at, op, arg) BY <2>1, UserPresses
    <2>4. \A q \in n : q.op \in {"database", "save"} BY <2>1, <2>3 DEF Asks1
    <2> QED BY <1>5, <2>2, <2>3, <2>4
  <1>8. ASSUME NEW v, NEW t, NEW w, Act(v, RowsRequest(t, w)),
               Quiet => TablesHooksThere(v) /\ v.selected = t /\ v.window = w
        PROVE  Orderly' /\ TablesKnow'
    <2> DEFINE arg == [table |-> t, window |-> w, edits |-> None]
    <2>1. Act(v, {Request("rows", arg)}) /\ arg.table = t /\ arg.window = w BY <1>8 DEF RowsRequest
    <2> HIDE DEF arg
    <2>2. PICK n : Acts(v, n) /\ Asks1(n, at, "rows", arg) BY <2>1, UserPresses
    <2>3. PICK q : n = {q} /\ q.op = "rows" /\ q.arg = arg /\ q.sent = TRUE BY <2>2 DEF Asks1, Fresh
    <2>4. Quiet' => Quiet /\ net' = net \cup {q} /\ view' = v /\ at' = at /\ Apart(net \cup {q})
      BY <2>2, <2>3 DEF Acts, Quiet
    <2>5. Quiet' => net' = {q} BY <1>a, <2>3, <2>4 DEF Apart
    <2>6. Orderly' BY <2>2 DEF Acts
    <2> QED BY <1>8, <2>1, <2>3, <2>4, <2>5, <2>6 DEF TablesKnow, RowsAsked
  <1>w. ASSUME NEW t, NEW w
        PROVE  LET v == FetchRows(view, t, w) IN
               Quiet => TablesHooksThere(v) /\ v.selected = t /\ v.window = w
    BY DEF TablesKnow, TablesHooksThere, FetchRows, Busy
  <1>9. ASSUME NEW t, NEW w, Act(FetchRows(view, t, w), RowsRequest(t, w))
        PROVE  Orderly' /\ TablesKnow'
    BY <1>8, <1>9, <1>w
  <1>10. CASE \/ RefreshRows \/ \E t \in Items : SelectTable(t)
              \/ \E w \in Windows : SortRows(w) \/ FilterRows(w) \/ TurnPage(w)
    <2>1. PICK t, w : Act(FetchRows(view, t, w), RowsRequest(t, w))
      BY <1>10, Zenon DEF RefreshRows, SelectTable, SortRows, FilterRows, TurnPage, ChangeWindow
    <2> QED BY <1>9, <2>1
  <1>11. ASSUME NEW t \in Items, OpenReferenced(t) PROVE Orderly' /\ TablesKnow'
    <2>1. PICK w \in Windows :
             Act([FetchRows(view, t, w) EXCEPT !.relation = "closed"], RowsRequest(t, w))
      BY <1>11 DEF OpenReferenced
    <2> DEFINE f == FetchRows(view, t, w)
    <2>2. Quiet => TablesHooksThere(f) /\ f.selected = t /\ f.window = w BY <1>w
    <2> HIDE DEF f
    <2> DEFINE v == [f EXCEPT !.relation = "closed"]
    <2>3. Quiet => TablesHooksThere(v) /\ v.selected = t /\ v.window = w
      BY <2>2 DEF TablesHooksThere
    <2>4. Act(v, RowsRequest(t, w)) BY <2>1 DEF f
    <2> QED BY <1>8, <2>3, <2>4
  <1>12. ASSUME NEW r \in net, r.ans = Failed,
                TablesListed(r) \/ RowsFetched(r) \/ RowsSaved(r)
         PROVE  Orderly' /\ TablesKnow'
    <2>1. PICK v : Settle(r, v, kept, {}, {})
      BY <1>12, Zenon DEF TablesListed, RowsFetched, RowsSaved, Handle
    <2>2. GoesOn(r, v, kept, net \ {r}, {}) BY <1>r, <2>1, HandlerIsOver
    <2> QED BY <1>12, <2>2 DEF GoesOn, TablesKnow, Quiet
  <1>13. ASSUME NEW r \in net, r.ans # Failed, NEW v, NEW t, NEW w,
                Handle(r, v, Sent(r.at, RowsRequest(t, w))),
                Quiet => TablesHooksThere(v) /\ v.selected = t /\ v.window = w
         PROVE  Orderly' /\ TablesKnow'
    <2> DEFINE arg == [table |-> t, window |-> w, edits |-> None]
    <2>1. Settle(r, v, kept, {}, Sent(r.at, {Request("rows", arg)})) /\ arg.table = t /\ arg.window = w
      BY <1>13 DEF RowsRequest, Handle
    <2> HIDE DEF arg
    <2>2. PICK n : GoesOn(r, v, kept, net \ {r}, n) /\ Asks1(n, r.at, "rows", arg)
      BY <1>r, <2>1, HandlerAsks
    <2>3. PICK q : n = {q} /\ q.op = "rows" /\ q.arg = arg /\ q.sent = TRUE BY <2>2 DEF Asks1, Fresh
    <2> DEFINE m == (net \ {r}) \cup {q}
    <2>4. Quiet' => Quiet /\ net' = m /\ view' = v /\ at' = at /\ Apart(m)
      BY <2>2, <2>3 DEF GoesOn
    <2>5. Quiet' => net' = {q} BY <1>a, <2>3, <2>4 DEF Apart
    <2>6. Orderly' BY <2>2 DEF GoesOn
    <2> QED BY <1>13, <2>1, <2>3, <2>4, <2>5, <2>6 DEF TablesKnow, RowsAsked
  <1>14. ASSUME NEW r \in net, r.ans # Failed, TablesListed(r) PROVE Orderly' /\ TablesKnow'
    <2> DEFINE same == r.ans.table = r.arg.table
               u == [Idle(view, "list") EXCEPT !.tables = Items]
               f == Busy(u, "rows")
    <2>1. PICK w \in IF same THEN Windows ELSE {First} :
             Handle(r, [f EXCEPT !.selected = r.ans.table, !.window = w,
                                 !.data = IF same THEN @ ELSE None,
                                 !.relation = IF same THEN @ ELSE "closed"],
                    Sent(r.at, RowsRequest(r.ans.table, w)))
      BY <1>14 DEF TablesListed
    <2>2. Quiet => TablesHooksThere(f) BY DEF TablesKnow, TablesHooksThere, Busy, Idle
    <2> HIDE DEF f, same
    <2> DEFINE v == [f EXCEPT !.selected = r.ans.table, !.window = w,
                              !.data = IF same THEN @ ELSE None,
                              !.relation = IF same THEN @ ELSE "closed"]
    <2>3. Quiet => TablesHooksThere(v) /\ v.selected = r.ans.table /\ v.window = w
      BY <2>2 DEF TablesHooksThere
    <2>4. Handle(r, v, Sent(r.at, RowsRequest(r.ans.table, w))) BY <2>1
    <2> HIDE DEF v
    <2> QED BY <1>13, <1>14, <2>3, <2>4
  <1>15. ASSUME NEW r \in net, r.ans # Failed, RowsSaved(r) PROVE Orderly' /\ TablesKnow'
    <2> DEFINE u == Idle(view, "save")
    <2>1. PICK w \in Windows :
             Handle(r, [u EXCEPT !.busy = @ \cup {"rows"}, !.edits = None,
                                 !.selected = r.arg.table, !.window = w],
                    Sent(r.at, RowsRequest(r.arg.table, w)))
      BY <1>15 DEF RowsSaved
    <2>2. Quiet => TablesHooksThere(u) BY DEF TablesKnow, TablesHooksThere, Idle
    <2> HIDE DEF u
    <2> DEFINE v == [u EXCEPT !.busy = @ \cup {"rows"}, !.edits = None,
                              !.selected = r.arg.table, !.window = w]
    <2>3. Quiet => TablesHooksThere(v) /\ v.selected = r.arg.table /\ v.window = w
      BY <2>2 DEF TablesHooksThere
    <2>4. Handle(r, v, Sent(r.at, RowsRequest(r.arg.table, w))) BY <2>1
    <2> HIDE DEF v
    <2> QED BY <1>13, <1>15, <2>3, <2>4
  <1>16. ASSUME NEW r \in net, r.ans # Failed, RowsFetched(r) PROVE Orderly' /\ TablesKnow'
    <2> DEFINE v == [Idle(view, "rows") EXCEPT !.data = r.ans]
    <2>1. Settle(r, v, kept, {}, {}) /\ r.op = "rows" BY <1>16 DEF RowsFetched, Handle
    <2>2. Quiet => /\ TablesHooksThere(v) /\ v.data = r.ans /\ v.active = view.active
                   /\ v.selected = view.selected /\ v.window = view.window
      BY DEF TablesKnow, TablesHooksThere, Idle
    <2> HIDE DEF v
    <2>3. GoesOn(r, v, kept, net \ {r}, {}) BY <1>r, <2>1, HandlerIsOver
    <2>4. Quiet' => /\ Quiet /\ net = {r} /\ net' = {} /\ view' = v /\ at' = at
                    /\ r.sent = FALSE
      BY <1>a, <2>1, <2>3 DEF GoesOn
    <2>5. Quiet => RowsAsked(r, view, at) BY DEF TablesKnow
    <2>6. Quiet' => ShowsRows(v, at) BY <2>1, <2>2, <2>4, <2>5 DEF RowsAsked, ShowsRows
    <2>7. Orderly' BY <2>3 DEF GoesOn
    <2> QED BY <2>2, <2>4, <2>6, <2>7 DEF TablesKnow
  <1>17. ASSUME NEW r \in net, RelationFetched(r) PROVE Orderly' /\ TablesKnow'
    <2> DEFINE v == [view EXCEPT !.relation = IF @ = "closed" THEN @ ELSE "loaded"]
    <2>1. Settle(r, v, kept, {}, {}) /\ r.op = "database" BY <1>17 DEF RelationFetched, Handle
    <2>2. Quiet => /\ TablesHooksThere(v) /\ v.data = view.data /\ v.active = view.active
                   /\ v.selected = view.selected /\ v.window = view.window
      BY DEF TablesKnow, TablesHooksThere
    <2> HIDE DEF v
    <2>3. GoesOn(r, v, kept, net \ {r}, {}) BY <1>r, <2>1, HandlerIsOver
    <2>4. Quiet' => Quiet /\ net' = net \ {r} /\ view' = v /\ at' = at BY <2>3 DEF GoesOn
    <2>5. Quiet' => \A q \in net' : RowsAsked(q, v, at)
      BY <2>2, <2>4 DEF TablesKnow, RowsAsked
    <2>6. Quiet' /\ (\A q \in net' : q.op \notin {"list", "rows", "save"}) => ShowsRows(v, at)
      BY <2>1, <2>2, <2>4 DEF TablesKnow, ShowsRows
    <2>7. Orderly' BY <2>3 DEF GoesOn
    <2> QED BY <2>2, <2>4, <2>5, <2>6, <2>7 DEF TablesKnow
  <1>18. ASSUME NEW r \in net, TablesServer(r) PROVE Orderly' /\ TablesKnow'
    <2> DEFINE a == Rows(r.at, IF r.op = "list" THEN srv[r.at] ELSE r.arg.table, r.arg.window)
    <2>1. ServerAnswers(r, srv, a) \/ ServerFails(r, srv) BY <1>18 DEF TablesServer
    <2>2. r.op = "rows" => a = Rows(r.at, r.arg.table, r.arg.window) OBVIOUS
    <2> HIDE DEF a
    <2>3. CASE ServerAnswers(r, srv, a)
      <3>1. PICK q : Answers(r, srv, a, q) BY <1>r, <2>3, ServerSays
      <3>2. Quiet' => Quiet /\ net' = (net \ {r}) \cup {q} /\ view' = view /\ at' = at /\ r.at = at
        BY <3>1 DEF Answers
      <3>3. q.op = r.op /\ q.arg = r.arg /\ q.sent = FALSE /\ q.ans = a BY <3>1 DEF Answers
      <3>4. Quiet' => RowsAsked(q, view, at) BY <2>2, <3>2, <3>3 DEF TablesKnow, RowsAsked
      <3>5. Orderly' BY <3>1 DEF Answers
      <3> QED BY <3>2, <3>3, <3>4, <3>5 DEF TablesKnow
    <2>4. CASE ServerFails(r, srv)
      <3>1. Fails(srv) BY <1>r, <2>4, ServerFailsToSay
      <3> QED BY <3>1 DEF TablesKnow, Fails
    <2> QED BY <2>1, <2>3, <2>4
  <1>19. ASSUME NEW r \in net, TablesListed(r) \/ RowsFetched(r) \/ RelationFetched(r) \/ RowsSaved(r)
         PROVE  Orderly' /\ TablesKnow'
    BY <1>12, <1>14, <1>15, <1>16, <1>17, <1>19
  <1> QED
    BY <1>2, <1>3, <1>4, <1>6, <1>7, <1>10, <1>11, <1>18, <1>19 DEF TablesNext

(* A database: what the cache has for one is its status, unless it has     *)
(* been marked as old, or is being changed, or fetched again.              *)
DbOps == {"detail", "load", "rotate"} \cup DatabaseActions
Changing(n, d) == \E r \in n : r.at = d /\ r.op \in {"detail"} \cup DatabaseActions
SaysStatus(k, s, d) == s[d].status # "gone" => k["detail"][d].status = s[d].status

Answered(r, s) ==
    r.sent = FALSE =>
       /\ r.op = "detail" => r.ans.status = s[r.at].status
       /\ r.op \in {"load", "rotate"} => r.ans.string = [of |-> r.at, token |-> s[r.at].token]
       /\ r.op = "delete" => s[r.at].status = "gone"

CacheKnows(n, k, s) ==
    /\ \A r \in n : Answered(r, s)
    /\ \A d \in Dbs : \/ d \in k["stale"] \/ k["detail"][d] = None
                      \/ Changing(n, d) \/ SaysStatus(k, s, d)

StringKnows(v, s) ==
    v.string = None \/ (v.string.of \in Dbs /\ v.string.token = s[v.string.of].token)

Stores(s) == DOMAIN s = Dbs /\ \A d \in Dbs : {"status", "token"} \subseteq DOMAIN s[d]
Keeps(k) == DOMAIN k = {"detail", "stale", "broken"} /\ DOMAIN k["detail"] = Dbs
DatabaseHooksThere(v) == {"busy", "connect", "string", "confirm"} \subseteq DOMAIN v

DatabaseKnows ==
    /\ Stores(srv) /\ Keeps(kept)
    /\ at # None => at \in Dbs
    /\ \A r \in net : r.at \in Dbs /\ r.op \in DbOps
    /\ ~upset => CacheKnows(net, kept, srv)
    /\ Quiet => /\ DatabaseHooksThere(view)
                /\ Changing(net, at) \/ SaysStatus(kept, srv, at)
                /\ (\E r \in net : r.op = "rotate") \/ StringKnows(view, srv)

(* Who changes a database has its page open.                               *)
LEMMA ChangerHasPage ==
    ASSUME Core, page \in DatabasePages, NEW r \in net, r.op \in DatabaseActions, r.mine = TRUE
    PROVE  at # None
  <1>1. page \notin {"connections", "branches", "webserver", "users", "user access", "notifications",
                     "navigation", "projects", "project"} \cup ContainersPages \cup TopologyPages
    BY DEF DatabasePages, ContainersPages, TopologyPages
  <1>2. r.op \notin Queries \cup {"load"} BY DEF DatabaseActions, Queries
  <1>3. Raised(page, r) = {r.op} BY <1>1, <1>2 DEF Raised
  <1> QED BY <1>3 DEF Core

(* Every action marks the status old, and what is shown is fetched again.  *)
LEMMA DatabaseStored ==
    ASSUME Core, Orderly, page \in DatabasePages, DatabaseKnows, OpenDatabase \/ DatabaseNext
    PROVE  Orderly' /\ DatabaseKnows'
  <1>r. \A r \in net : IsRequest(r) BY DEF Core, Sound
  <1>a. /\ "detail" \in Reads /\ "load" \in Reads
        /\ ({"rotate"} \cup DatabaseActions) \cap Reads = {}
        /\ {"rotate", "load"} \cap DatabaseActions = {} /\ "detail" \notin DatabaseActions
    BY DEF Reads, Queries, DatabaseActions
  <1>n. None \notin Dbs BY PageAssumption
  <1>1. CASE OpenDatabase \/ SwitchDatabase
    <2>1. PICK d \in Dbs : \E asked \in MayRefetch("detail", d) :
             OpenAt(d, DatabaseHooks, asked) \/ SwitchTo(d, view, asked)
      BY <1>1 DEF OpenDatabase, SwitchDatabase
    <2>2. PICK asked \in MayRefetch("detail", d) :
             OpenAt(d, DatabaseHooks, asked) \/ SwitchTo(d, view, asked)
      BY <2>1
    <2>3. PICK v : /\ OpenAt(d, v, asked) \/ SwitchTo(d, v, asked)
                   /\ v = DatabaseHooks \/ (v = view /\ SwitchTo(d, v, asked))
      BY <2>2
    <2>4. v = view => (~upset' => Quiet) \/ v = DatabaseHooks BY <1>n, <2>3 DEF SwitchTo, Quiet
    <2>5. PICK n : /\ Opens(d, v, n)
                   /\ (n = {} /\ AtHand("detail", d)) \/ Asks1(n, d, "detail", None)
      BY <2>3, OpensFrom
    <2>6. Remembers BY DEF Remembers, DatabasePages
    <2>7. ~upset' => ~upset /\ net = {} /\ net' = n BY <2>5, <2>6 DEF Opens
    <2>8. Orderly' /\ at' = d /\ net' = net \cup n /\ view' = v /\ UNCHANGED <<kept, srv>>
      BY <2>5 DEF Opens
    <2>9. \A r \in n : r.sent = TRUE /\ r.at = d /\ r.op = "detail" BY <2>5 DEF Asks1, Fresh
    <2>10. ~upset' => Changing(n, d) \/ SaysStatus(kept, srv, d)
      <3>1. CASE n = {} /\ AtHand("detail", d)
        <4>1. ~upset' => /\ kept["detail"][d] # None /\ d \notin kept["stale"]
          BY <2>7, <3>1 DEF AtHand
        <4>2. ~Changing({}, d) BY DEF Changing
        <4> QED BY <2>7, <4>1, <4>2 DEF DatabaseKnows, CacheKnows
      <3>2. CASE Asks1(n, d, "detail", None) BY <3>2 DEF Asks1, Fresh, Changing
      <3> QED BY <2>5, <3>1, <3>2
    <2>11. ~upset' => CacheKnows(n, kept, srv)
      <3>1. ~upset' => \A e \in Dbs : \/ e \in kept["stale"] \/ kept["detail"][e] = None
                                      \/ SaysStatus(kept, srv, e)
        BY <2>7 DEF DatabaseKnows, CacheKnows, Changing
      <3> QED BY <2>9, <3>1 DEF CacheKnows, Answered
    <2>12. ~upset' => DatabaseHooksThere(v) /\ StringKnows(v, srv)
      <3>1. CASE v = DatabaseHooks BY <3>1 DEF DatabaseHooks, DatabaseHooksThere, StringKnows
      <3>2. CASE v = view /\ v # DatabaseHooks BY <2>4, <2>7, <3>2 DEF DatabaseKnows
      <3> QED BY <2>3, <3>1, <3>2
    <2>13. Quiet' => ~upset' BY DEF Quiet
    <2>14. \A r \in net' : r.at \in Dbs /\ r.op \in DbOps BY <2>8, <2>9 DEF DatabaseKnows, DbOps
    <2> QED BY <2>7, <2>8, <2>10, <2>11, <2>12, <2>13, <2>14 DEF DatabaseKnows
  <1>2. ASSUME NEW v, NEW n, Acts(v, n),
               \A q \in n : q.sent = TRUE /\ q.at = at /\ q.op \in DbOps,
               Quiet => DatabaseHooksThere(v) /\ v.string = view.string
        PROVE  Orderly' /\ DatabaseKnows'
    <2>1. /\ Orderly' /\ at # None /\ net' = net \cup n /\ view' = v
          /\ UNCHANGED <<at, kept, srv>> /\ (~upset' => ~upset) /\ (Quiet' => Quiet)
      BY <1>2 DEF Acts
    <2>2. \A r \in net' : r.at \in Dbs /\ r.op \in DbOps BY <1>2, <2>1 DEF DatabaseKnows
    <2>3. \A d : Changing(net, d) => Changing(net', d) BY <2>1 DEF Changing
    <2>4. ~upset' => CacheKnows(net', kept, srv)
      BY <1>2, <2>1, <2>3 DEF DatabaseKnows, CacheKnows, Answered
    <2>5. Quiet' => /\ Changing(net', at) \/ SaysStatus(kept, srv, at)
                    /\ (\E r \in net' : r.op = "rotate") \/ StringKnows(v, srv)
      BY <1>2, <2>1, <2>3 DEF DatabaseKnows, StringKnows
    <2> QED BY <1>2, <2>1, <2>2, <2>4, <2>5 DEF DatabaseKnows
  <1>3. CASE AskConfirmation \/ CloseDialogs
    <2>1. PICK x : Act([view EXCEPT !.confirm = x], {}) \/ Act([view EXCEPT !.connect = x], {})
      BY <1>3, Zenon DEF AskConfirmation, CloseDialogs
    <2>2. PICK v : Act(v, {}) /\ v \in {[view EXCEPT !.confirm = x], [view EXCEPT !.connect = x]}
      BY <2>1
    <2>3. Quiet => DatabaseHooksThere(v) /\ v.string = view.string
      BY <2>2 DEF DatabaseKnows, DatabaseHooksThere
    <2> DEFINE n == {}
    <2>4. Acts(v, n) BY <2>2, UserEdits
    <2>5. \A q \in n : q.sent = TRUE /\ q.at = at /\ q.op \in DbOps OBVIOUS
    <2> HIDE DEF n
    <2> QED BY <1>2, <2>3, <2>4, <2>5
  <1>4. ASSUME NEW v, NEW op \in DbOps, Act(v, {Request(op, None)}),
               Quiet => DatabaseHooksThere(v) /\ v.string = view.string
        PROVE  Orderly' /\ DatabaseKnows'
    <2>1. PICK n : Acts(v, n) /\ Asks1(n, at, op, None) BY <1>4, UserPresses
    <2>2. \A q \in n : q.sent = TRUE /\ q.at = at /\ q.op \in DbOps BY <2>1 DEF Asks1, Fresh
    <2> QED BY <1>2, <1>4, <2>1, <2>2
  <1>5. CASE PollDatabase
    <2> DEFINE n == Sent(at, {Request("detail", None)})
    <2>1. Act(view, n) BY <1>5 DEF PollDatabase, Refetch
    <2>2. Asks1(n, at, "detail", None) BY AsksOne
    <2> HIDE DEF n
    <2>3. AllFresh(n, at) BY <2>2, OneFresh
    <2>4. Acts(view, n) BY <2>1, <2>3, UserActs
    <2>5. \A q \in n : q.sent = TRUE /\ q.at = at /\ q.op \in DbOps
      BY <2>2 DEF Asks1, Fresh, DbOps
    <2> QED BY <1>2, <2>4, <2>5 DEF DatabaseKnows
  <1>6. ASSUME NEW op, DatabaseAction(op) PROVE Orderly' /\ DatabaseKnows'
    <2>1. op \in DbOps /\ Act(Busy(view, op), {Request(op, None)})
      BY <1>6 DEF DatabaseAction, DbOps
    <2>2. Quiet => DatabaseHooksThere(Busy(view, op)) /\ Busy(view, op).string = view.string
      BY DEF DatabaseKnows, DatabaseHooksThere, Busy
    <2> QED BY <1>4, <2>1, <2>2
  <1>7. CASE OpenConnect
    <2> DEFINE f == Busy(view, "connection")
               v == [f EXCEPT !.connect = TRUE]
    <2>1. Act(v, {Request("load", None)}) BY <1>7 DEF OpenConnect
    <2>2. Quiet => DatabaseHooksThere(v) /\ v.string = view.string
      BY DEF DatabaseKnows, DatabaseHooksThere, Busy
    <2>3. "load" \in DbOps BY DEF DbOps
    <2> HIDE DEF v
    <2> QED BY <1>4, <2>1, <2>2, <2>3
  <1>8. ASSUME NEW r \in net, DetailFetched(r) PROVE Orderly' /\ DatabaseKnows'
    <2> DEFINE b == IF r.ans = Failed THEN kept.broken \cup {r.at} ELSE kept.broken \ {r.at}
               g == Fetched(r)
               k == [g EXCEPT !.broken = IF r.ans = Failed THEN @ \cup {r.at} ELSE @ \ {r.at}]
               secured == "secure" \in view.busy /\ ~\E q \in net : q.mine /\ q.op = "secure"
               v == IF secured THEN [Idle(view, "secure") EXCEPT
                                        !.confirm = IF @ = "secure" THEN None ELSE @] ELSE view
    <2>1. Settle(r, v, k, {}, {}) /\ r.op = "detail" BY <1>8 DEF DetailFetched
    <2>2. r.at \in Dbs BY DEF DatabaseKnows
    <2>3. r.ans # Failed => /\ DOMAIN g = DOMAIN kept
                            /\ g["detail"] = [kept["detail"] EXCEPT ![r.at] = r.ans]
                            /\ g["stale"] = kept["stale"] \ {r.at}
      BY <2>1, <2>2, FetchedIs DEF DatabaseKnows, Keeps
    <2>4. r.ans = Failed => g = kept BY DEF Fetched
    <2> HIDE DEF g
    <2>5. /\ Keeps(k)
          /\ r.ans # Failed => /\ k["detail"] = [kept["detail"] EXCEPT ![r.at] = r.ans]
                               /\ k["stale"] = kept["stale"] \ {r.at}
      BY <2>3, <2>4 DEF DatabaseKnows, Keeps
    <2>6. Quiet => DatabaseHooksThere(v) /\ v.string = view.string
      BY DEF DatabaseKnows, DatabaseHooksThere, Idle
    <2> HIDE DEF k, v
    <2>7. GoesOn(r, v, k, net \ {r}, {}) BY <1>r, <2>1, HandlerIsOver
    <2>8. net' = net \ {r} BY <2>1 DEF Settle
    <2>9. /\ Orderly' /\ kept' = k /\ UNCHANGED <<at, srv>>
          /\ (~upset' => ~upset) /\ (Quiet' => Quiet /\ view' = v)
      BY <2>7 DEF GoesOn
    <2>10. ~upset' => r.sent = FALSE /\ r.ans # Failed BY <2>7, <2>9 DEF GoesOn
    <2>11. ~upset' => \A d \in Dbs : k["detail"][d] = IF d = r.at THEN r.ans ELSE kept["detail"][d]
      BY <2>5, <2>10 DEF DatabaseKnows, Keeps
    <2>12. ~upset' => r.ans.status = srv[r.at].status
      BY <2>1, <2>9, <2>10 DEF DatabaseKnows, CacheKnows, Answered
    <2>13. ~upset' => SaysStatus(k, srv, r.at) BY <2>2, <2>11, <2>12 DEF SaysStatus
    <2>14. \A d : d # r.at /\ Changing(net, d) => Changing(net', d) BY <2>8 DEF Changing
    <2>15. ~upset' => \A d \in Dbs \ {r.at} :
                         /\ SaysStatus(kept, srv, d) => SaysStatus(k, srv, d)
                         /\ d \in kept["stale"] => d \in k["stale"]
                         /\ k["detail"][d] = kept["detail"][d]
      BY <2>5, <2>10, <2>11 DEF SaysStatus
    <2>16. ~upset' => CacheKnows(net', k, srv)
      BY <2>8, <2>9, <2>13, <2>14, <2>15 DEF DatabaseKnows, CacheKnows
    <2>17. Quiet' => Changing(net', at) \/ SaysStatus(k, srv, at)
      BY <2>9, <2>13, <2>14, <2>15 DEF DatabaseKnows, Quiet
    <2>18. Quiet' => (\E q \in net' : q.op = "rotate") \/ StringKnows(v, srv)
      BY <2>1, <2>6, <2>8, <2>9 DEF DatabaseKnows, StringKnows
    <2> QED BY <2>5, <2>6, <2>8, <2>9, <2>16, <2>17, <2>18 DEF DatabaseKnows
  <1>9. ASSUME NEW r \in net, r.ans = Failed, NEW v, Settle(r, v, kept, {}, {})
        PROVE  Orderly' /\ DatabaseKnows'
    <2>1. GoesOn(r, v, kept, net \ {r}, {}) BY <1>9, <1>r, HandlerIsOver
    <2>2. net' = net \ {r} BY <1>9 DEF Settle
    <2>3. Orderly' /\ UNCHANGED <<at, kept, srv>> /\ (~upset' => ~upset) /\ (Quiet' => Quiet)
      BY <2>1 DEF GoesOn
    <2>4. upset /\ ~Quiet BY <1>9, <2>1 DEF GoesOn
    <2> QED BY <2>2, <2>3, <2>4 DEF DatabaseKnows
  <1>10. ASSUME NEW r \in net, r.ans # Failed, ActionDone(r) PROVE Orderly' /\ DatabaseKnows'
    <2> DEFINE v == IF r.op = "secure" THEN view ELSE ActionEnds(view, r.op)
               d == IF r.mine THEN at ELSE r.at
               D == InFlight("detail", d)
               k == [kept EXCEPT !.stale = @ \cup {d}]
               asked == Sent(d, {Request("detail", None)})
    <2>1. r.op \in DatabaseActions \ {"delete"} BY <1>10 DEF ActionDone
    <2>2. r.op \notin Reads /\ r.op \notin {"detail", "rotate", "load"} BY <1>a, <2>1
    <2>3. d \in Dbs
      <3>1. r.mine = TRUE => at # None BY <2>1, ChangerHasPage
      <3> QED BY <1>r, <3>1 DEF DatabaseKnows, IsRequest
    <2>4. Quiet => DatabaseHooksThere(v) /\ v.string = view.string
      BY DEF DatabaseKnows, DatabaseHooksThere, ActionEnds
    <2>5. CASE at = d
      <3>1. Settle(r, v, kept, D, asked) BY <1>10, <2>5 DEF ActionDone, Invalidate
      <3>2. Asks1(asked, d, "detail", None) BY AsksOne
      <3>3. AllFresh(asked, d) BY <3>2, OneFresh
      <3> HIDE DEF v, d, D, asked
      <3>4. GoesOn(r, v, kept, net \ ({r} \cup D), asked) BY <1>r, <2>5, <3>1, <3>3, HandlerGoesOn
      <3>5. /\ Orderly' /\ UNCHANGED <<at, kept, srv>> /\ (~upset' => ~upset)
            /\ (Quiet' => Quiet /\ view' = v)
        BY <3>4 DEF GoesOn
      <3>6. ~upset' => net = {r} BY <2>2, <3>4 DEF GoesOn
      <3>7. PICK q : asked = {q} /\ Fresh(q, d) /\ q.op = "detail" BY <3>2 DEF Asks1
      <3> DEFINE x == [q EXCEPT !.mine = r.mine \/ q.op \in Queries]
      <3>8. net' = (net \ ({r} \cup D)) \cup {x} BY <3>1, <3>7 DEF Settle
      <3>9. x.at = d /\ x.op = "detail" /\ x.sent = TRUE
        BY <3>7 DEF Fresh, IsRequest, RequestFields
      <3> HIDE DEF x
      <3>10. \A y \in net' : y.at \in Dbs /\ y.op \in DbOps
        BY <2>3, <3>8, <3>9 DEF DatabaseKnows, DbOps
      <3>11. ~upset' => net' = {x} BY <3>6, <3>8
      <3>12. Changing(net', d) BY <3>8, <3>9 DEF Changing
      <3>13. ~upset' => r.at = d
        <4>1. r.mine = TRUE => at # None BY <2>1, ChangerHasPage
        <4> QED BY <1>r, <2>5, <3>5, <4>1 DEF Orderly, Quiet, IsRequest, d
      <3>14. ~upset' => \A e \in Dbs : Changing(net, e) => e = d BY <3>6, <3>13 DEF Changing
      <3>15. ~upset' => CacheKnows(net', kept, srv)
        BY <3>5, <3>9, <3>11, <3>12, <3>14 DEF DatabaseKnows, CacheKnows, Answered
      <3>16. Quiet' => StringKnows(v, srv)
        <4>1. Quiet' => \A y \in net : y.op # "rotate" BY <2>2, <3>6 DEF Quiet
        <4> QED BY <2>4, <3>5, <4>1 DEF DatabaseKnows, StringKnows
      <3> QED BY <2>4, <2>5, <3>5, <3>10, <3>12, <3>15, <3>16 DEF DatabaseKnows
    <2>6. CASE at # d
      <3>1. Settle(r, v, k, {}, {}) BY <1>10, <2>6 DEF ActionDone, Invalidate
      <3>2. Keeps(k) /\ k["detail"] = kept["detail"] /\ k["stale"] = kept["stale"] \cup {d}
        BY DEF DatabaseKnows, Keeps
      <3>3. d = r.at /\ ~r.mine BY <2>6
      <3> HIDE DEF v, k, d
      <3>4. GoesOn(r, v, k, net \ {r}, {}) BY <3>1, <1>r, HandlerIsOver
      <3>5. ~Quiet BY <3>3 DEF Orderly
      <3>6. /\ Orderly' /\ kept' = k /\ UNCHANGED <<at, srv>> /\ (~upset' => ~upset)
            /\ (Quiet' => Quiet) /\ net' = net \ {r}
        BY <3>1, <3>4 DEF GoesOn, Settle
      <3>7. \A e \in Dbs : e # d /\ Changing(net, e) => Changing(net', e)
        BY <3>3, <3>6 DEF Changing
      <3>8. \A e \in Dbs : SaysStatus(kept, srv, e) => SaysStatus(k, srv, e) BY <3>2 DEF SaysStatus
      <3>9. ~upset' => CacheKnows(net', k, srv)
        BY <3>2, <3>6, <3>7, <3>8 DEF DatabaseKnows, CacheKnows
      <3> QED BY <3>2, <3>5, <3>6, <3>9 DEF DatabaseKnows
    <2> QED BY <2>5, <2>6
  <1>11. ASSUME NEW r \in net, r.ans # Failed, DeleteDone(r) PROVE Orderly' /\ DatabaseKnows'
    <2>1. r.op = "delete" /\ ~r.sent BY <1>11 DEF DeleteDone, Back
    <2>2. at' = None /\ net' = Left(net \ {r}) /\ UNCHANGED <<page, kept, srv, upset>>
      BY <1>11 DEF DeleteDone
    <2>3. Leaves(net \ {r}) BY <2>2, PageIsLeft
    <2>4. Orderly' /\ ~Quiet' BY <2>3 DEF Leaves
    <2>5. \A x \in net' : \E q \in net : Like(x, q) BY <2>3 DEF Leaves
    <2>6. \A x \in net' : x.at \in Dbs /\ x.op \in DbOps BY <2>5 DEF DatabaseKnows, Like
    <2>7. r.op \notin Reads BY <1>a, <2>1 DEF DatabaseActions
    <2>8. ~upset => net = {r} BY <2>7 DEF Orderly, Apart
    <2>9. ~upset => net' = {} BY <2>3, <2>8 DEF Leaves
    <2>10. ~upset => r.sent = FALSE BY <2>1 DEF Orderly
    <2>11. ~upset => srv[r.at].status = "gone"
      BY <2>1, <2>10 DEF DatabaseKnows, CacheKnows, Answered
    <2>12. ~upset => SaysStatus(kept, srv, r.at) BY <2>11 DEF SaysStatus
    <2>13. ~upset => CacheKnows(net', kept, srv)
      BY <2>8, <2>9, <2>12 DEF DatabaseKnows, CacheKnows, Changing
    <2> QED BY <2>2, <2>4, <2>6, <2>13 DEF DatabaseKnows
  <1>12. ASSUME NEW r \in net, r.ans # Failed, ConnectionStringFetched(r) \/ TokenRotated(r)
         PROVE  Orderly' /\ DatabaseKnows'
    <2> DEFINE f == IF r.op = "load" THEN Idle(view, "connection") ELSE ActionEnds(view, "rotate")
               v == [f EXCEPT !.string = r.ans.string]
    <2>1. Settle(r, v, kept, {}, {}) /\ r.op \in {"load", "rotate"}
      BY <1>12 DEF ConnectionStringFetched, TokenRotated, Handle
    <2>2. Quiet => DatabaseHooksThere(f)
      BY DEF DatabaseKnows, DatabaseHooksThere, ActionEnds, Idle
    <2> HIDE DEF f
    <2>3. Quiet => DatabaseHooksThere(v) /\ v.string = r.ans.string
      BY <2>2 DEF DatabaseHooksThere
    <2> HIDE DEF v
    <2>4. GoesOn(r, v, kept, net \ {r}, {}) BY <1>r, <2>1, HandlerIsOver
    <2>5. /\ Orderly' /\ UNCHANGED <<at, kept, srv>> /\ (~upset' => ~upset)
          /\ (Quiet' => Quiet /\ view' = v) /\ net' = net \ {r}
      BY <2>1, <2>4 DEF GoesOn, Settle
    <2>6. Quiet' => r.sent = FALSE /\ ~upset BY <2>4, <2>5 DEF GoesOn, Quiet
    <2>7. \A d : Changing(net, d) => Changing(net', d)
      BY <1>a, <2>1, <2>5 DEF Changing
    <2>8. ~upset' => CacheKnows(net', kept, srv)
      BY <2>5, <2>7 DEF DatabaseKnows, CacheKnows
    <2>9. Quiet' => r.ans.string = [of |-> r.at, token |-> srv[r.at].token]
      BY <2>1, <2>6 DEF DatabaseKnows, CacheKnows, Answered
    <2>10. Quiet' => StringKnows(v, srv) BY <2>3, <2>5, <2>9 DEF StringKnows, DatabaseKnows
    <2> QED BY <2>3, <2>5, <2>7, <2>8, <2>10 DEF DatabaseKnows
  <1>13. ASSUME NEW r \in net,
                \/ DetailFetched(r) \/ ActionDone(r) \/ DeleteDone(r)
                \/ ConnectionStringFetched(r) \/ TokenRotated(r)
         PROVE  Orderly' /\ DatabaseKnows'
    <2>1. CASE r.ans = Failed /\ ~DetailFetched(r)
      <3>1. PICK v : Settle(r, v, kept, {}, {})
        BY <1>13, <2>1, Zenon DEF ActionDone, DeleteDone, ConnectionStringFetched, TokenRotated, Handle
      <3> QED BY <1>9, <2>1, <3>1
    <2> QED BY <1>8, <1>10, <1>11, <1>12, <1>13, <2>1
  <1>14. ASSUME NEW r \in net, DatabaseServer(r) PROVE Orderly' /\ DatabaseKnows'
    <2>1. r.at \in Dbs /\ r.op \in DbOps BY DEF DatabaseKnows
    <2>2. ASSUME NEW s, Stores(s), ServerAnswers(r, s, Failed) \/ ServerFails(r, s)
          PROVE  Orderly' /\ DatabaseKnows'
      <3>1. Fails(s) BY <1>r, <2>2, ServerRefuses, ServerFailsToSay
      <3>2. /\ Orderly' /\ ~Quiet' /\ upset' = TRUE /\ srv' \in {srv, s} /\ UNCHANGED <<at, kept>>
            /\ \A x \in net' : \E q \in net : x.op = q.op /\ x.at = q.at
        BY <3>1 DEF Fails
      <3> QED BY <2>2, <3>2 DEF DatabaseKnows
    <2>3. CASE srv[r.at].status = "gone"
      <3>1. ServerAnswers(r, srv, Failed) BY <1>14, <2>3 DEF DatabaseServer
      <3> QED BY <2>2, <3>1 DEF DatabaseKnows
    <2>4. CASE srv[r.at].status # "gone"
      <3> DEFINE w == srv[r.at]
                 status == IF r.op = "stop" THEN "stopped"
                           ELSE IF r.op = "restart" THEN "active"
                           ELSE IF r.op = "delete" THEN "gone" ELSE w.status
                 token == IF r.op = "rotate" THEN 1 - w.token ELSE w.token
                 after == [w EXCEPT !.status = status, !.token = token]
                 s == [srv EXCEPT ![r.at] = after]
                 a == IF r.op = "detail" THEN [status |-> w.status]
                      ELSE [string |-> [of |-> r.at, token |-> after.token]]
      <3>1. ServerAnswers(r, s, a) \/ ServerFails(r, s) BY <1>14, <2>4 DEF DatabaseServer
      <3>2. /\ r.op \notin DatabaseActions => status = w.status
            /\ r.op = "delete" => status = "gone"
            /\ r.op # "rotate" => token = w.token
        BY DEF DatabaseActions
      <3>3. {"status", "token"} \subseteq DOMAIN w BY <2>1 DEF DatabaseKnows, Stores
      <3> HIDE DEF status, token
      <3>4. after.status = status /\ after.token = token /\ DOMAIN after = DOMAIN w BY <3>3
      <3> HIDE DEF after
      <3>5. /\ r.op = "detail" => a.status = w.status
            /\ r.op \in {"load", "rotate"} => a.string = [of |-> r.at, token |-> token]
        BY <3>4
      <3>6. Stores(s) BY <2>1, <3>3, <3>4 DEF DatabaseKnows, Stores
      <3>7. /\ s[r.at].status = status /\ s[r.at].token = token
            /\ \A d \in Dbs \ {r.at} : s[d] = srv[d]
        BY <2>1, <3>4 DEF DatabaseKnows, Stores
      <3> HIDE DEF s, a
      <3>8. CASE ServerAnswers(r, s, a)
        <4>1. PICK q : Answers(r, s, a, q) BY <1>r, <3>8, ServerSays
        <4>2. /\ Orderly' /\ srv' = s /\ UNCHANGED <<at, kept, view>>
              /\ (~upset' => ~upset) /\ (Quiet' => Quiet) /\ net' = (net \ {r}) \cup {q}
              /\ (~upset' => (r.op \notin Reads => net = {r}))
          BY <4>1 DEF Answers
        <4>3. q.op = r.op /\ q.arg = r.arg /\ q.at = r.at /\ q.sent = FALSE /\ q.ans = a
          BY <4>1 DEF Answers
        <4>4. \A x \in net' : x.at \in Dbs /\ x.op \in DbOps BY <2>1, <4>2, <4>3 DEF DatabaseKnows
        <4>5. \A d : Changing(net', d) <=> Changing(net, d) BY <4>2, <4>3 DEF Changing
        <4>6. Answered(q, s)
          <5>1. CASE r.op = "detail" BY <1>a, <3>2, <3>5, <3>7, <4>3, <5>1 DEF Answered
          <5>2. CASE r.op # "detail" BY <3>2, <3>5, <3>7, <4>3, <5>2 DEF Answered
          <5> QED BY <5>1, <5>2
        <4>7. CASE r.op \in Reads
          <5>1. r.op \notin DatabaseActions /\ r.op # "rotate" BY <1>a, <4>7
          <5>2. \A d \in Dbs : s[d].status = srv[d].status /\ s[d].token = srv[d].token
            BY <3>2, <3>7, <5>1
          <5>3. \A x \in net : Answered(x, srv) => Answered(x, s)
            BY <5>2 DEF Answered, DatabaseKnows
          <5>4. \A d \in Dbs : SaysStatus(kept, srv, d) => SaysStatus(kept, s, d)
            BY <5>2 DEF SaysStatus
          <5>5. ~upset' => CacheKnows(net', kept, s)
            BY <4>2, <4>5, <4>6, <5>3, <5>4 DEF DatabaseKnows, CacheKnows
          <5>6. StringKnows(view, srv) => StringKnows(view, s) BY <5>2 DEF StringKnows
          <5>7. Quiet' => (\E x \in net' : x.op = "rotate") \/ StringKnows(view, s)
            BY <4>2, <4>3, <5>6 DEF DatabaseKnows
          <5>8. Quiet' => /\ DatabaseHooksThere(view)
                          /\ Changing(net', at) \/ SaysStatus(kept, s, at)
            BY <4>2, <4>5, <5>4 DEF DatabaseKnows, Quiet
          <5> QED BY <3>6, <4>2, <4>4, <5>5, <5>7, <5>8 DEF DatabaseKnows
        <4>8. CASE r.op \notin Reads
          <5>1. ~upset' => net' = {q} BY <4>2, <4>8
          <5>2. r.op \in DatabaseActions \/ r.op = "rotate" BY <1>a, <2>1, <4>8 DEF DbOps
          <5>3. \A d \in Dbs : Changing(net', d) \/ s[d].status = srv[d].status
            BY <3>2, <3>7, <4>2, <4>3 DEF Changing
          <5>4. \A d \in Dbs : SaysStatus(kept, srv, d) => Changing(net', d) \/ SaysStatus(kept, s, d)
            BY <5>3 DEF SaysStatus
          <5>5. ~upset' => CacheKnows(net', kept, s)
            BY <4>2, <4>5, <4>6, <5>1, <5>4 DEF DatabaseKnows, CacheKnows
          <5>6. r.op = "rotate" \/ \A d \in Dbs : s[d].token = srv[d].token BY <3>2, <3>7
          <5>7. Quiet' => (\E x \in net' : x.op = "rotate") \/ StringKnows(view, s)
            BY <4>2, <4>3, <5>6 DEF DatabaseKnows, StringKnows
          <5>8. Quiet' => /\ DatabaseHooksThere(view)
                          /\ Changing(net', at) \/ SaysStatus(kept, s, at)
            BY <4>2, <4>5, <5>4 DEF DatabaseKnows, Quiet
          <5> QED BY <3>6, <4>2, <4>4, <5>5, <5>7, <5>8 DEF DatabaseKnows
        <4> QED BY <4>7, <4>8
      <3> QED BY <2>2, <3>1, <3>6, <3>8
    <2> QED BY <2>3, <2>4
  <1> QED
    BY <1>1, <1>3, <1>5, <1>6, <1>7, <1>13, <1>14 DEF DatabaseNext

(* A change of a database goes on when its page is left.                   *)
LEMMA DatabaseLeft ==
    ASSUME Core, Orderly, page \in DatabasePages, DatabaseKnows, Leaves(net) PROVE DatabaseKnows'
  <1>1. \A x \in net' : \E q \in net : Like(x, q) BY DEF Leaves
  <1>2. at' = None /\ ~Quiet' /\ UNCHANGED <<kept, srv, upset>> BY DEF Leaves
  <1>3. \A x \in net' : x.at \in Dbs /\ x.op \in DbOps BY <1>1 DEF DatabaseKnows, Like
  <1>4. \A d : Changing(net, d) => Changing(net', d)
    <2> SUFFICES ASSUME NEW r \in net, r.op \in {"detail"} \cup DatabaseActions
                 PROVE  Changing(net', r.at)
      BY DEF Changing
    <2>1. r.op \notin Reads \ Queries BY DEF Reads, Queries, DatabaseActions
    <2> QED BY <2>1 DEF Leaves, Like, Changing
  <1>5. ~upset => \A x \in net' : Answered(x, srv)
    <2> SUFFICES ASSUME ~upset, NEW x \in net' PROVE Answered(x, srv) OBVIOUS
    <2>1. PICK q \in net : Like(x, q) BY <1>1
    <2>2. Answered(q, srv) BY DEF DatabaseKnows, CacheKnows
    <2> QED BY <2>1, <2>2 DEF Answered, Like
  <1> QED BY <1>2, <1>3, <1>4, <1>5 DEF DatabaseKnows, CacheKnows

(* The cards of the map, where they are removed: the document is taken from*)
(* the server, or sent to it whole, and then nothing else is out.          *)
CardHooksThere(v) ==
    /\ {"busy", "hydrated", "dbs", "settings", "doc", "last", "assign", "remove"} \subseteq DOMAIN v
    /\ v.hydrated \in BOOLEAN /\ v.assign = None

SameCards(v, u) ==
    /\ CardHooksThere(v)
    /\ v.hydrated = u.hydrated /\ v.doc = u.doc /\ v.last = u.last

CardsAsked(r, v, doc) ==
    /\ r.op \in {"load", "list", "clear", "discard", "save cards", "delete"}
    /\ r.op = "load" /\ r.sent = FALSE => r.ans.doc = doc
    /\ r.op = "list" => r.arg.of.doc = doc
    /\ r.op = "save cards" => /\ r.arg.doc = v.doc
                              /\ r.arg.then \in {"effect", "remove"}
                              /\ r.sent = FALSE => doc = r.arg.doc

CardsKnown(v, n, doc) ==
    /\ CardHooksThere(v)
    /\ \A r \in n : CardsAsked(r, v, doc)
    /\ (\A r \in n : r.op # "save cards") =>
          v.hydrated = FALSE \/ (v.doc = doc /\ v.last = doc)

RemovalKnows ==
    /\ DOMAIN srv = {Server} /\ {"dbs", "settings", "doc"} \subseteq DOMAIN srv[Server]
    /\ Quiet => at = Server /\ CardsKnown(view, net, srv[Server].doc)

(* The document is being saved, and nothing else goes on.                  *)
LEMMA SaveAlone ==
    ASSUME NEW v, CardHooksThere(v), NEW n, NEW q, NEW doc, NEW arg, Apart(n \cup {q}),
           q = Request("save cards", arg), arg.doc = v.doc, arg.then \in {"effect", "remove"}
    PROVE  CardsKnown(v, n \cup {q}, doc)
  <1>2. q.op = "save cards" /\ q.arg = arg /\ q.sent = TRUE BY MakesFresh DEF Fresh
  <1>3. CardsAsked(q, v, doc) BY <1>2 DEF CardsAsked
  <1>4. "save cards" \notin Reads BY DEF Reads, Queries
  <1>5. n \cup {q} = {q} BY <1>2, <1>4 DEF Apart
  <1> QED BY <1>2, <1>3, <1>5 DEF CardsKnown

(* So it is when the document is the one that is shown.                    *)
LEMMA SavingKnows ==
    ASSUME NEW v, CardHooksThere(v), NEW then \in {"effect", "remove"}, NEW n, NEW q, NEW doc,
           q = Request("save cards", [doc |-> v.doc, then |-> then]), Apart(n \cup {q})
    PROVE  CardsKnown(v, n \cup {q}, doc)
  <1> DEFINE arg == [doc |-> v.doc, then |-> then]
  <1>1. arg.doc = v.doc /\ arg.then = then /\ q = Request("save cards", arg) OBVIOUS
  <1> HIDE DEF arg
  <1> QED BY <1>1, SaveAlone

(* Something is asked for that leaves the document alone.                  *)
LEMMA AskingKnows ==
    ASSUME NEW v, NEW n, NEW q, NEW doc, NEW op, NEW arg, CardsKnown(v, n, doc),
           q = Request(op, arg),
           op \in {"load", "clear", "discard", "delete"} \/ (op = "list" /\ arg.of.doc = doc)
    PROVE  CardsKnown(v, n \cup {q}, doc)
  <1>1. q.op = op /\ q.arg = arg /\ q.sent = TRUE BY MakesFresh DEF Fresh
  <1>2. CardsAsked(q, v, doc) BY <1>1 DEF CardsAsked
  <1> QED BY <1>1, <1>2 DEF CardsKnown

(* Nothing is asked for, and what is over was not a save.                  *)
LEMMA RestingKnows ==
    ASSUME NEW v, NEW u, NEW n, NEW r, NEW doc, CardsKnown(u, n, doc), SameCards(v, u),
           r.op # "save cards"
    PROVE  CardsKnown(v, n, doc) /\ CardsKnown(v, n \ {r}, doc)
BY DEF CardsKnown, SameCards, CardsAsked

(* The cards are as they should be, and are sent if they are not stored.   *)
LEMMA EffectKnows ==
    ASSUME NEW v, CardHooksThere(v), NEW then \in {"effect", "remove"}, NEW n, NEW doc, NEW asked,
           asked = SaveCards(v, then), Apart(n \cup asked),
           v.last = doc,
           \A x \in n : x.op \in {"load", "list", "clear", "discard", "delete"} /\ CardsAsked(x, v, doc)
    PROVE  CardsKnown(v, n \cup asked, doc)
  <1>1. CASE Unsaved(v)
    <2> DEFINE q == Request("save cards", [doc |-> v.doc, then |-> then])
    <2>1. asked = {q} BY <1>1 DEF SaveCards
    <2> HIDE DEF q
    <2>2. Apart(n \cup {q}) BY <2>1
    <2>3. CardsKnown(v, n \cup {q}, doc) BY <2>2, SavingKnows DEF q
    <2> QED BY <2>1, <2>3
  <1>2. CASE ~Unsaved(v)
    <2>1. n \cup asked = n BY <1>2 DEF SaveCards
    <2>2. v.hydrated = FALSE \/ v.doc = v.last BY <1>2 DEF CardHooksThere, Unsaved
    <2> QED BY <2>1, <2>2 DEF CardsKnown
  <1> QED BY <1>1, <1>2

(* What a page at work sends.                                              *)
AllAsked(n) == \A q \in n : \E op, arg : q = Request(op, arg)

(* What it sends is as the page that is open sends it.                     *)
LEMMA AllAskedFresh == ASSUME NEW n, AllAsked(n) PROVE AllFresh(n, at)
BY MakesFresh DEF AllAsked, AllFresh

(* What is sent is made by Request.                                        *)
LEMMA SaveIsAsked == ASSUME NEW v, NEW then PROVE AllAsked(SaveCards(v, then))
BY DEF AllAsked, SaveCards

(* So are two sets of requests.                                            *)
LEMMA BothAsked == ASSUME NEW n, NEW m, AllAsked(n), AllAsked(m) PROVE AllAsked(n \cup m)
BY DEF AllAsked

(* And one request.                                                        *)
LEMMA OneAsked == ASSUME NEW op, NEW arg PROVE AllAsked({Request(op, arg)})
BY DEF AllAsked

(* And none.                                                               *)
LEMMA NoneAsked == AllAsked({})
BY DEF AllAsked

(* The map is fetched after the cards were changed, unless they are saved. *)
LEMMA FetchKnows ==
    ASSUME NEW v, NEW u, NEW n, NEW q, NEW doc, NEW then, q = Request("load", then), ~Unsaved(v),
           CardsKnown(u, n, doc), CardHooksThere(v), v.hydrated = u.hydrated, v.last = u.last,
           Apart(n \cup {q})
    PROVE  CardsKnown(v, n \cup {q}, doc)
  <1>1. q.op = "load" /\ q.sent = TRUE BY MakesFresh DEF Fresh
  <1>2. "save cards" \notin Reads BY DEF Reads, Queries
  <1>3. ASSUME NEW x \in n, x.op = "save cards" PROVE FALSE
    <2>1. x # q /\ x \in n \cup {q} /\ q \in n \cup {q} BY <1>1, <1>3
    <2>2. {x.op, q.op} \subseteq Reads BY <2>1 DEF Apart
    <2> QED BY <1>2, <1>3, <2>2
  <1>4. v.hydrated = FALSE \/ v.doc = v.last BY DEF CardHooksThere, Unsaved
  <1>5. CardsKnown(v, n, doc) BY <1>3, <1>4 DEF CardsKnown, CardsAsked
  <1> QED BY <1>5, AskingKnows

(* Cards leave the document here, and what is left is sent.                *)
LEMMA RemovalStored ==
    ASSUME Core, Orderly, page = "card removal", RemovalKnows, OpenTopology \/ TopologyNext
    PROVE  Orderly' /\ RemovalKnows'
  <1> DEFINE doc == srv[Server].doc
  <1>r. \A r \in net : IsRequest(r) BY DEF Core, Sound
  <1>f. ASSUME NEW r \in net, Quiet, Back(r) PROVE r.ans # Failed /\ r.mine = TRUE /\ r.sent = FALSE
    BY <1>f, <1>r DEF IsRequest, Back, Orderly, Quiet
  <1>k. Quiet => CardsKnown(view, net, doc) BY DEF RemovalKnows
  <1>1. CASE OpenTopology
    <2>1. PICK n : Opens(Server, TopologyHooks, n) /\ Asks1(n, Server, "load", "poll")
      BY <1>1, OpensWithOne DEF OpenTopology, FetchMap
    <2>2. \A q \in n : q.sent = TRUE /\ q.op = "load" BY <2>1 DEF Asks1, Fresh
    <2>3. CardHooksThere(TopologyHooks) /\ TopologyHooks.hydrated = FALSE
      BY DEF TopologyHooks, CardHooksThere
    <2>4. Orderly' /\ srv' = srv BY <2>1 DEF Opens
    <2>5. Quiet' => net' = n /\ at' = Server /\ view' = TopologyHooks BY <2>1 DEF Opens
    <2>6. CardsKnown(TopologyHooks, n, doc) BY <2>2, <2>3 DEF CardsKnown, CardsAsked
    <2> QED BY <2>4, <2>5, <2>6 DEF RemovalKnows
  (* The user does something, or a handler goes on.                        *)
  <1>2. ASSUME NEW v, NEW asked, Act(v, asked), AllAsked(asked),
               Quiet /\ Apart(net \cup asked) => CardsKnown(v, net \cup asked, doc)
        PROVE  Orderly' /\ RemovalKnows'
    <2>1. Acts(v, asked) BY <1>2, AllAskedFresh, UserActs
    <2>2. Orderly' /\ srv' = srv BY <2>1 DEF Acts
    <2>3. Quiet' => /\ Quiet /\ net' = net \cup asked /\ at' = at /\ view' = v
                    /\ Apart(net \cup asked)
      BY <2>1 DEF Acts, Quiet
    <2> QED BY <1>2, <2>2, <2>3 DEF RemovalKnows
  <1>3. ASSUME NEW r \in net, NEW v, NEW asked, Settle(r, v, kept, {}, asked), AllAsked(asked),
               Quiet /\ Apart((net \ {r}) \cup asked) => CardsKnown(v, (net \ {r}) \cup asked, doc)
        PROVE  Orderly' /\ RemovalKnows'
    <2> DEFINE none == {}
    <2>0. net \ ({r} \cup none) = net \ {r} /\ Settle(r, v, kept, none, asked) BY <1>3
    <2> HIDE DEF none
    <2>1. GoesOn(r, v, kept, net \ {r}, asked) BY <1>r, <1>3, <2>0, AllAskedFresh, HandlerGoesOn
    <2>2. Orderly' /\ srv' = srv BY <2>1 DEF GoesOn
    <2>3. Quiet' => /\ Quiet /\ net' = (net \ {r}) \cup asked /\ at' = at /\ view' = v
                    /\ Apart((net \ {r}) \cup asked)
      BY <2>1 DEF GoesOn, Quiet
    <2> QED BY <1>3, <2>2, <2>3 DEF RemovalKnows
  (* Neither asks for what touches the cards.                              *)
  <1>4. ASSUME NEW v, Act(v, {}), Quiet => SameCards(v, view) PROVE Orderly' /\ RemovalKnows'
    <2> DEFINE none == {}
    <2>1. Act(v, none) /\ AllAsked(none) /\ net \cup none = net BY <1>4 DEF AllAsked
    <2> HIDE DEF none
    <2>2. Quiet => CardsKnown(v, net, doc) BY <1>4, <1>k DEF CardsKnown, SameCards, CardsAsked
    <2> QED BY <1>2, <2>1, <2>2
  <1>5. ASSUME NEW v, NEW op \in {"load", "clear", "discard", "delete"}, NEW arg,
               Act(v, {Request(op, arg)}), Quiet => SameCards(v, view)
        PROVE  Orderly' /\ RemovalKnows'
    <2> DEFINE q == Request(op, arg)
    <2>1. Act(v, {q}) /\ AllAsked({q}) BY <1>5 DEF AllAsked
    <2>2. Quiet => CardsKnown(v, net, doc) BY <1>5, <1>k DEF CardsKnown, SameCards, CardsAsked
    <2>3. Quiet => CardsKnown(v, net \cup {q}, doc) BY <2>2, AskingKnows
    <2> HIDE DEF q
    <2> QED BY <1>2, <2>1, <2>3
  <1>6. ASSUME NEW r \in net, NEW v, Settle(r, v, kept, {}, {}),
               Quiet => CardsKnown(v, net \ {r}, doc)
        PROVE  Orderly' /\ RemovalKnows'
    <2> DEFINE none == {}
    <2>1. Settle(r, v, kept, {}, none) /\ AllAsked(none) /\ (net \ {r}) \cup none = net \ {r}
      BY <1>6 DEF AllAsked
    <2> HIDE DEF none
    <2> QED BY <1>3, <1>6, <2>1
  <1>7. ASSUME NEW r \in net, NEW v, NEW op, NEW arg, Settle(r, v, kept, {}, {Request(op, arg)}),
               Quiet => \/ op \in {"load", "clear", "discard", "delete"}
                        \/ op = "list" /\ arg.of.doc = doc,
               Quiet => CardsKnown(v, net \ {r}, doc)
        PROVE  Orderly' /\ RemovalKnows'
    <2> DEFINE q == Request(op, arg)
    <2>1. Settle(r, v, kept, {}, {q}) /\ AllAsked({q}) BY <1>7 DEF AllAsked
    <2>2. Quiet => CardsKnown(v, (net \ {r}) \cup {q}, doc) BY <1>7, AskingKnows
    <2> HIDE DEF q
    <2> QED BY <1>3, <2>1, <2>2
  <1>8. ASSUME NEW r \in net, NEW v, NEW asked, ~Quiet, Settle(r, v, kept, {}, asked), AllAsked(asked)
        PROVE  Orderly' /\ RemovalKnows'
    BY <1>3, <1>8
  <1>9. ASSUME NEW r \in net, NEW v, NEW then, r.op # "save cards",
               Settle(r, v, kept, {}, Refresh(r, then)), Quiet => SameCards(v, view)
        PROVE  Orderly' /\ RemovalKnows'
    <2>1. Quiet => CardsKnown(v, net \ {r}, doc) BY <1>9, <1>k, RestingKnows
    <2>2. CASE r.mine = TRUE
      <3>1. Settle(r, v, kept, {}, {Request("load", then)}) BY <1>9, <2>2 DEF Refresh, FetchMap
      <3> QED BY <1>7, <2>1, <3>1
    <2>3. CASE ~r.mine
      <3>1. Settle(r, v, kept, {}, {}) BY <1>9, <2>3 DEF Refresh
      <3> QED BY <1>6, <2>1, <3>1
    <2> QED BY <2>2, <2>3, <1>r DEF IsRequest
  (* The cards change, and are saved, or the map is fetched.               *)
  <1>10. ASSUME NEW d, NEW w, w = [Busy(view, "remove") EXCEPT !.doc = d],
                Act(w, IF Unsaved(w) THEN SaveCards(w, "remove") ELSE {FetchMap("remove")})
         PROVE  Orderly' /\ RemovalKnows'
    <2>0. Quiet => CardHooksThere(w) /\ w.hydrated = view.hydrated /\ w.last = view.last
      BY <1>10, <1>k DEF CardsKnown, CardHooksThere, Busy
    <2>1. CASE Unsaved(w)
      <3> DEFINE q == Request("save cards", [doc |-> w.doc, then |-> "remove"])
      <3>1. Act(w, {q}) BY <1>10, <2>1 DEF SaveCards
      <3>2. AllAsked({q}) BY OneAsked
      <3>3. Quiet /\ Apart(net \cup {q}) => CardsKnown(w, net \cup {q}, doc)
        BY <2>0, SavingKnows
      <3> HIDE DEF q
      <3> QED BY <1>2, <3>1, <3>2, <3>3
    <2>2. CASE ~Unsaved(w)
      <3> DEFINE q == Request("load", "remove")
      <3>1. Act(w, {q}) BY <1>10, <2>2 DEF FetchMap
      <3>2. AllAsked({q}) BY OneAsked
      <3>3. Quiet /\ Apart(net \cup {q}) => CardsKnown(w, net \cup {q}, doc)
        BY <2>0, <2>2, <1>k, FetchKnows
      <3> HIDE DEF q
      <3> QED BY <1>2, <3>1, <3>2, <3>3
    <2> QED BY <2>1, <2>2
  <1> HIDE DEF doc
  <1>11. CASE PollMap
    <2>1. Quiet => SameCards(Busy(view, "load"), view)
      BY <1>k DEF CardsKnown, CardHooksThere, SameCards, Busy
    <2>2. Act(Busy(view, "load"), {Request("load", "poll")}) BY <1>11 DEF PollMap, FetchMap
    <2> QED BY <1>5, <2>1, <2>2
  <1>12. CASE CloseMapDialog
    <2>1. Quiet => view.assign = None BY <1>k DEF CardsKnown, CardHooksThere
    <2>2. Quiet => SameCards([view EXCEPT !.assign = None], view)
      BY <1>k DEF CardsKnown, CardHooksThere, SameCards
    <2>3. Quiet => SameCards([view EXCEPT !.remove = None], view)
      BY <1>k DEF CardsKnown, CardHooksThere, SameCards
    <2>4. Act([view EXCEPT !.assign = None], {}) \/ Act([view EXCEPT !.remove = None], {})
      BY <1>12 DEF CloseMapDialog
    <2> QED BY <1>4, <2>2, <2>3, <2>4
  <1>13. ~CreateBackupCard /\ ~CreateAutomationCard /\ ~DropBackupOnDatabase /\ ~LinkAutomation
    BY DEF CreateBackupCard, CreateAutomationCard, DropBackupOnDatabase, LinkAutomation, MapShown
  <1>14. CASE ConfirmAssignment
    <2>1. ~Quiet BY <1>14, <1>k DEF ConfirmAssignment, CardsKnown, CardHooksThere
    <2>2. PICK arg : Act(Busy(view, "assign"), {Request("apply", arg)})
      BY <1>14, Zenon DEF ConfirmAssignment
    <2> QED BY <1>2, <2>1, <2>2, OneAsked
  <1>15. CASE AskDeletion
    <2>1. PICK x : Act([view EXCEPT !.remove = x], {}) BY <1>15, Zenon DEF AskDeletion
    <2>2. Quiet => SameCards([view EXCEPT !.remove = x], view)
      BY <1>k DEF CardsKnown, CardHooksThere, SameCards
    <2> QED BY <1>4, <2>1, <2>2
  <1>16. CASE ConfirmDeletion
    <2>1. Quiet => SameCards(Busy(view, "remove"), view)
      BY <1>k DEF CardsKnown, CardHooksThere, SameCards, Busy
    <2>2. ASSUME NEW op \in {"clear", "discard", "delete"}, NEW arg,
                 Act(Busy(view, "remove"), {Request(op, arg)})
          PROVE  Orderly' /\ RemovalKnows'
      BY <1>5, <2>1, <2>2
    <2>3. \/ \E op \in {"clear", "discard", "delete"} : \E arg :
                 Act(Busy(view, "remove"), {Request(op, arg)})
          \/ \E d : LET w == [Busy(view, "remove") EXCEPT !.doc = d] IN
                 Act(w, IF Unsaved(w) THEN SaveCards(w, "remove") ELSE {FetchMap("remove")})
      BY <1>16, Zenon DEF ConfirmDeletion
    <2> QED BY <1>10, <2>2, <2>3
  <1>17. ASSUME NEW r \in net, MapFetched(r) PROVE Orderly' /\ RemovalKnows'
    <2>1. r.op = "load" BY <1>17 DEF MapFetched
    <2>2. CASE r.ans = Failed
      <3>1. Settle(r, HandlerEnds(Idle(view, "load"), r.arg), kept, {}, {})
        BY <1>17, <2>2 DEF MapFetched, Handle
      <3>2. ~Quiet BY <1>f, <2>2, <3>1 DEF Settle
      <3> QED BY <1>6, <3>1, <3>2
    <2>3. CASE r.ans # Failed
      <3> DEFINE v == [view EXCEPT !.dbs = r.ans.dbs]
                 arg == [of |-> r.ans, then |-> r.arg]
      <3>1. Settle(r, v, kept, {}, {Request("list", arg)}) BY <1>17, <2>3 DEF MapFetched, Handle
      <3>2. arg.of.doc = r.ans.doc OBVIOUS
      <3>3. Quiet => r.ans.doc = doc
        BY <1>f, <1>k, <2>1, <3>1 DEF Settle, CardsKnown, CardsAsked
      <3>4. Quiet => SameCards(v, view) BY <1>k DEF CardsKnown, CardHooksThere, SameCards
      <3>5. Quiet => CardsKnown(v, net \ {r}, doc) BY <1>k, <2>1, <3>4, RestingKnows
      <3> HIDE DEF v, arg
      <3> QED BY <1>7, <3>1, <3>2, <3>3, <3>5
    <2> QED BY <2>2, <2>3
  <1>18. ASSUME NEW r \in net, SettingsListed(r) PROVE Orderly' /\ RemovalKnows'
    <2> DEFINE raw == r.arg.of.doc
               settings == [d \in Dbs |-> IF d \in r.arg.of.dbs THEN r.ans[d] ELSE "off"]
               new == [view EXCEPT !.settings = settings, !.hydrated = TRUE]
               v == IF ~r.mine THEN view
                    ELSE IF raw = view.last THEN new
                    ELSE [new EXCEPT !.doc = Normalised(raw, r.arg.of.dbs, settings), !.last = raw]
               u == HandlerEnds(Idle(v, "load"), r.arg.then)
    <2>1. r.op = "list" /\ Back(r) BY <1>18 DEF SettingsListed
    <2>2. PICK asked : /\ Settle(r, u, kept, {}, asked)
                       /\ asked = IF r.mine /\ (v.doc # view.doc \/ ~view.hydrated)
                                  THEN SaveCards(v, "effect") ELSE {}
      BY <1>18, Zenon DEF SettingsListed, Handle
    <2>3. AllAsked(asked) BY <2>2, SaveIsAsked, NoneAsked
    <2> HIDE DEF settings
    <2> DEFINE n == net \ {r}
    <2> SUFFICES ASSUME Quiet, Apart(n \cup asked) PROVE CardsKnown(u, n \cup asked, doc)
      BY <1>3, <2>2, <2>3
    <2>5. r.mine = TRUE /\ raw = doc BY <1>f, <1>k, <2>1 DEF CardsKnown, CardsAsked
    <2>6. \A x \in net : x.op # "save cards"
      <3>1. "save cards" \notin Reads BY DEF Reads, Queries
      <3>2. Apart(net) BY DEF Orderly, Quiet
      <3> QED BY <2>1, <3>1, <3>2 DEF Apart
    <2>7. view.hydrated = FALSE \/ (view.doc = doc /\ view.last = doc) BY <1>k, <2>6 DEF CardsKnown
    <2>8. CardHooksThere(view) BY <1>k DEF CardsKnown
    <2>9. CardHooksThere(v) /\ v.last = doc /\ v.hydrated = TRUE
      BY <2>5, <2>8 DEF CardHooksThere
    <2>10. \A x \in n : x.op \in {"load", "list", "clear", "discard", "delete"} /\ CardsAsked(x, view, doc)
      BY <1>k, <2>6 DEF CardsKnown, CardsAsked
    <2> HIDE DEF v
    <2>11. \A x \in n : CardsAsked(x, v, doc) BY <2>10 DEF CardsAsked
    <2>12. CardsKnown(v, n \cup asked, doc)
      <3>1. CASE asked = SaveCards(v, "effect") BY <2>9, <2>10, <2>11, <3>1, EffectKnows
      <3>2. CASE asked # SaveCards(v, "effect")
        <4>1. asked = {} /\ v.doc = view.doc /\ view.hydrated = TRUE
          BY <2>2, <2>5, <2>8, <3>2 DEF CardHooksThere
        <4>2. n \cup asked = n BY <4>1
        <4> QED BY <2>7, <2>9, <2>11, <4>1, <4>2 DEF CardsKnown
      <3> QED BY <3>1, <3>2
    <2>13. SameCards(u, v) BY <2>9 DEF SameCards, CardHooksThere, HandlerEnds, Idle
    <2> HIDE DEF u, n
    <2> QED BY <2>1, <2>12, <2>13, RestingKnows
  (* A card is not made here, nor attached, nor is a line drawn.           *)
  <1>19. ASSUME NEW r \in net, r.op \notin {"load", "list", "clear", "discard", "save cards", "delete"}
         PROVE  ~Quiet
    BY <1>k, <1>19 DEF CardsKnown, CardsAsked
  <1>20. ASSUME NEW r \in net, NEW d, NEW old, NEW then, r.op # "save cards",
                Quiet => then = "remove", SaveThen(r, d, old, then)
         PROVE  Orderly' /\ RemovalKnows'
    <2> DEFINE v == [view EXCEPT !.doc = d]
               q == Request("save cards", [doc |-> d, then |-> then])
               b == (r.mine /\ Unsaved(v)) \/ (~r.mine /\ d # old)
               u == IF then = "assign" THEN [v EXCEPT !.assign = None] ELSE v
    <2>0. Quiet => /\ CardHooksThere(v) /\ v.hydrated = view.hydrated /\ v.last = view.last
                   /\ v.doc = d
      BY <1>k DEF CardsKnown, CardHooksThere
    <2>1. IF b THEN Settle(r, v, kept, {}, {q}) ELSE Settle(r, u, kept, {}, Refresh(r, then))
      BY <1>20 DEF SaveThen, Handle
    <2>2. Quiet => u = v BY <1>20
    <2>3. Quiet => r.mine = TRUE BY DEF Orderly
    <2>4. Quiet /\ Apart((net \ {r}) \cup {q}) => CardsKnown(v, (net \ {r}) \cup {q}, doc)
      BY <1>20, <2>0, SavingKnows
    <2>5. CASE b
      <3>1. AllAsked({q}) BY OneAsked
      <3> HIDE DEF q, v, u
      <3> QED BY <1>3, <2>1, <2>4, <2>5, <3>1
    <2>6. CASE ~b
      <3>1. Settle(r, u, kept, {}, Refresh(r, then)) BY <2>1, <2>6
      <3>2. CASE Quiet
        <4> DEFINE x == Request("load", then)
        <4>1. Refresh(r, then) = {x} BY <2>3, <3>2 DEF Refresh, FetchMap
        <4>2. ~Unsaved(v) BY <2>3, <2>6, <3>2
        <4>3. CardsKnown(view, net \ {r}, doc) BY <1>20, <1>k, <2>0, <3>2 DEF CardsKnown
        <4>4. Apart((net \ {r}) \cup {x}) => CardsKnown(v, (net \ {r}) \cup {x}, doc)
          BY <2>0, <3>2, <4>2, <4>3, FetchKnows
        <4>5. AllAsked({x}) BY OneAsked
        <4>6. Settle(r, v, kept, {}, {x}) BY <2>2, <3>1, <3>2, <4>1
        <4> HIDE DEF x, v, u
        <4> QED BY <1>3, <4>4, <4>5, <4>6
      <3>3. CASE ~Quiet
        <4>1. AllAsked(Refresh(r, then)) BY OneAsked, NoneAsked DEF Refresh, FetchMap
        <4> HIDE DEF u
        <4> QED BY <1>8, <3>1, <3>3, <4>1
      <3> QED BY <3>2, <3>3
    <2> QED BY <2>5, <2>6
  <1>21. ASSUME NEW r \in net, BackupCardCreated(r) PROVE Orderly' /\ RemovalKnows'
    <2>1. ~Quiet BY <1>19, <1>21 DEF BackupCardCreated
    <2>2. PICK v, asked : Settle(r, v, kept, {}, asked)
                          /\ (asked = {} \/ asked = SaveCards(v, "effect"))
      BY <1>21, Zenon DEF BackupCardCreated, Handle
    <2>3. AllAsked(asked) BY <2>2, SaveIsAsked, NoneAsked
    <2> QED BY <1>8, <2>1, <2>2, <2>3
  <1>22. ASSUME NEW r \in net, Applied(r) PROVE Orderly' /\ RemovalKnows'
    <2>1. ~Quiet /\ r.op # "save cards" BY <1>19, <1>22 DEF Applied
    <2>2. \/ \E v : Settle(r, v, kept, {}, {})
          \/ \E v, w, m : /\ m = (IF r.mine THEN SaveCards(w, "effect") ELSE {})
                          /\ \/ Settle(r, v, kept, {}, m)
                             \/ Settle(r, v, kept, {}, m \cup {Request("automate", r.arg)})
          \/ \E d, old : SaveThen(r, d, old, "assign")
      BY <1>22, Zenon DEF Applied, Handle
    <2>3. ASSUME NEW v, NEW w, NEW m, m = (IF r.mine THEN SaveCards(w, "effect") ELSE {}),
                 \/ Settle(r, v, kept, {}, m)
                 \/ Settle(r, v, kept, {}, m \cup {Request("automate", r.arg)})
          PROVE  Orderly' /\ RemovalKnows'
      <3>1. AllAsked(m) BY <2>3, SaveIsAsked, NoneAsked
      <3>2. AllAsked(m \cup {Request("automate", r.arg)}) BY <3>1, OneAsked, BothAsked
      <3> QED BY <1>8, <2>1, <2>3, <3>1, <3>2
    <2>4. ASSUME NEW v, Settle(r, v, kept, {}, {}) PROVE Orderly' /\ RemovalKnows'
      BY <1>6, <2>1, <2>4
    <2>5. ASSUME NEW d, NEW old, SaveThen(r, d, old, "assign") PROVE Orderly' /\ RemovalKnows'
      BY <1>20, <2>1, <2>5
    <2> QED BY <2>2, <2>3, <2>4, <2>5
  <1>23. ASSUME NEW r \in net, Automated(r) PROVE Orderly' /\ RemovalKnows'
    <2>1. ~Quiet /\ r.op # "save cards" BY <1>19, <1>23 DEF Automated
    <2>2. \/ \E v : Settle(r, v, kept, {}, {}) \/ Settle(r, v, kept, {}, Refresh(r, "link"))
          \/ \E d, old : SaveThen(r, d, old, "assign")
      BY <1>23, Zenon DEF Automated, Handle
    <2>3. ASSUME NEW v, Settle(r, v, kept, {}, {}) PROVE Orderly' /\ RemovalKnows'
      BY <1>6, <2>1, <2>3
    <2>4. ASSUME NEW v, Settle(r, v, kept, {}, Refresh(r, "link")) PROVE Orderly' /\ RemovalKnows'
      BY <1>9, <2>1, <2>4
    <2>5. ASSUME NEW d, NEW old, SaveThen(r, d, old, "assign") PROVE Orderly' /\ RemovalKnows'
      BY <1>20, <2>1, <2>5
    <2> QED BY <2>2, <2>3, <2>4, <2>5
  <1>24. ASSUME NEW r \in net, CardsSaved(r) PROVE Orderly' /\ RemovalKnows'
    <2> DEFINE v == [view EXCEPT !.last = r.arg.doc]
    <2>1. r.op = "save cards" /\ Back(r) BY <1>24 DEF CardsSaved
    <2>2. Quiet => /\ r.arg.then \in {"effect", "remove"} /\ r.arg.doc = doc /\ view.doc = doc
                   /\ r.ans # Failed /\ CardHooksThere(view)
      BY <1>f, <1>k, <2>1 DEF CardsKnown, CardsAsked
    <2>3. Quiet => net \ {r} = {}
      <3>1. "save cards" \notin Reads BY DEF Reads, Queries
      <3> QED BY <2>1, <3>1 DEF Orderly, Quiet, Apart
    <2>4. Quiet => CardHooksThere(v) /\ v.last = doc /\ v.doc = doc
      BY <2>2 DEF CardHooksThere
    <2>5. Quiet => CardsKnown(v, net \ {r}, doc) BY <2>3, <2>4 DEF CardsKnown
    <2> HIDE DEF v
    <2>6. \/ \E w : Settle(r, w, kept, {}, {}) /\ (~Quiet \/ w = v)
          \/ \E w, then : Settle(r, w, kept, {}, Refresh(r, then)) /\ (~Quiet \/ w = v)
          \/ \E arg : Settle(r, v, kept, {}, {Request("automate", arg)}) /\ ~Quiet
      <3> USE DEF Handle
      <3>1. CASE r.ans = Failed
        <4>1. \E w : Settle(r, w, kept, {}, {}) BY <1>24, <3>1, Zenon DEF CardsSaved
        <4> QED BY <2>2, <3>1, <4>1
      <3>2. CASE r.ans # Failed /\ r.arg.then \in {"assign", "remove"}
        <4> DEFINE w == IF r.arg.then = "assign" THEN [v EXCEPT !.assign = None] ELSE v
        <4>1. Settle(r, w, kept, {}, Refresh(r, r.arg.then)) BY <1>24, <3>2 DEF CardsSaved, v
        <4>2. ~Quiet \/ w = v BY <2>2
        <4> QED BY <4>1, <4>2
      <3>3. CASE r.ans # Failed /\ r.arg.then \notin {"assign", "remove"}
                 /\ r.arg.then = "link" /\ r.arg.db # None
        <4> DEFINE arg == [db |-> r.arg.db, then |-> "link"]
        <4>1. Settle(r, v, kept, {}, {Request("automate", arg)}) BY <1>24, <3>3 DEF CardsSaved, v
        <4>2. ~Quiet BY <2>2, <3>3
        <4> HIDE DEF arg
        <4> QED BY <4>1, <4>2
      <3>4. CASE r.ans # Failed /\ r.arg.then \notin {"assign", "remove"}
                 /\ ~(r.arg.then = "link" /\ r.arg.db # None)
        <4>1. Settle(r, v, kept, {}, {}) BY <1>24, <3>4 DEF CardsSaved, v
        <4> QED BY <4>1
      <3> QED BY <3>1, <3>2, <3>3, <3>4
    <2>7. ASSUME NEW w, Settle(r, w, kept, {}, {}), ~Quiet \/ w = v
          PROVE  Orderly' /\ RemovalKnows'
      BY <1>6, <2>5, <2>7
    <2>8. ASSUME NEW w, NEW then, Settle(r, w, kept, {}, Refresh(r, then)), ~Quiet \/ w = v
          PROVE  Orderly' /\ RemovalKnows'
      <3>1. CASE r.mine = TRUE
        <4>1. Settle(r, w, kept, {}, {Request("load", then)}) BY <2>8, <3>1 DEF Refresh, FetchMap
        <4>2. Quiet => CardsKnown(w, net \ {r}, doc) BY <2>5, <2>8
        <4> QED BY <1>7, <4>1, <4>2
      <3>2. CASE ~r.mine
        <4>1. Settle(r, w, kept, {}, {}) BY <2>8, <3>2 DEF Refresh
        <4> QED BY <1>6, <2>5, <2>8, <4>1
      <3> QED BY <3>1, <3>2, <1>r DEF IsRequest
    <2>9. ASSUME NEW arg, Settle(r, v, kept, {}, {Request("automate", arg)}), ~Quiet
          PROVE  Orderly' /\ RemovalKnows'
      BY <1>8, <2>9, OneAsked
    <2> QED BY <2>6, <2>7, <2>8, <2>9
  <1>25. ASSUME NEW r \in net, DeletionGoesOn(r) PROVE Orderly' /\ RemovalKnows'
    <2>1. r.op \in {"clear", "discard"} /\ r.op # "save cards" BY <1>25 DEF DeletionGoesOn
    <2>2. Quiet => SameCards(view, view) BY <1>k DEF CardsKnown, SameCards
    <2>3. Quiet => CardsKnown(view, net \ {r}, doc) BY <1>k, <2>1, <2>2, RestingKnows
    <2>4. \/ Settle(r, Idle(view, "remove"), kept, {}, {}) /\ r.ans = Failed
          \/ Settle(r, view, kept, {}, {Request("discard", r.arg)})
          \/ Settle(r, view, kept, {}, Refresh(r, "remove"))
          \/ SaveThen(r, r.arg.new, r.arg.doc, "remove")
      BY <1>25, Zenon DEF DeletionGoesOn, Handle
    <2>5. CASE Settle(r, Idle(view, "remove"), kept, {}, {}) /\ r.ans = Failed
      <3>1. ~Quiet BY <1>f, <2>5 DEF Settle
      <3> QED BY <1>6, <2>5, <3>1
    <2>6. CASE Settle(r, view, kept, {}, {Request("discard", r.arg)}) BY <1>7, <2>3, <2>6
    <2>7. CASE Settle(r, view, kept, {}, Refresh(r, "remove")) BY <1>9, <2>1, <2>2, <2>7
    <2>8. CASE SaveThen(r, r.arg.new, r.arg.doc, "remove") BY <1>20, <2>1, <2>8
    <2> QED BY <2>4, <2>5, <2>6, <2>7, <2>8
  <1>26. ASSUME NEW r \in net, DatabasesDeleted(r) PROVE Orderly' /\ RemovalKnows'
    <2> DEFINE cards == WithoutDatabases(view.doc, r.arg.gone, r.arg.ids)
               v == [view EXCEPT !.doc = cards]
               m == IF v.doc = view.doc THEN {} ELSE SaveCards(v, "effect")
    <2>1. r.op = "delete" /\ Back(r) BY <1>26 DEF DatabasesDeleted
    <2>2. CASE r.ans = Failed \/ ~r.mine
      <3>1. Settle(r, Idle(view, "remove"), kept, {}, {}) BY <1>26, <2>2 DEF DatabasesDeleted, Handle
      <3>2. ~Quiet BY <1>f, <2>1, <2>2
      <3> QED BY <1>6, <3>1, <3>2
    <2>3. CASE ~(r.ans = Failed \/ ~r.mine)
      <3> DEFINE x == Request("load", "remove")
      <3>1. Settle(r, v, kept, {}, {x} \cup m)
        BY <1>26, <2>3 DEF DatabasesDeleted, Handle, Refresh, FetchMap
      <3> HIDE DEF cards
      <3>2. Quiet => CardHooksThere(view) BY <1>k DEF CardsKnown
      <3>3. Quiet => /\ CardHooksThere(v) /\ v.hydrated = view.hydrated /\ v.last = view.last
                     /\ v.doc = cards
        BY <3>2 DEF CardHooksThere
      <3>4. Quiet => CardsKnown(view, net \ {r}, doc) BY <1>k, <2>1, <3>2 DEF CardsKnown
      <3>5. AllAsked(m) BY SaveIsAsked, NoneAsked
      <3>6. AllAsked({x} \cup m) BY <3>5, OneAsked, BothAsked
      <3>7. ASSUME Quiet, Apart((net \ {r}) \cup ({x} \cup m))
            PROVE  CardsKnown(v, (net \ {r}) \cup ({x} \cup m), doc)
        <4>1. CASE v.doc = view.doc
          <5>1. SameCards(v, view) BY <3>3, <3>7, <4>1 DEF SameCards
          <5>2. CardsKnown(v, net \ {r}, doc) BY <1>k, <2>1, <3>7, <5>1, RestingKnows
          <5>3. {x} \cup m = {x} BY <4>1
          <5>4. CardsKnown(v, (net \ {r}) \cup {x}, doc) BY <5>2, AskingKnows
          <5> QED BY <5>3, <5>4
        <4>2. CASE v.doc # view.doc /\ ~Unsaved(v)
          <5>1. {x} \cup m = {x} BY <4>2 DEF SaveCards
          <5>2. Apart((net \ {r}) \cup {x}) BY <3>7, <5>1
          <5> HIDE DEF v
          <5>3. CardsKnown(v, (net \ {r}) \cup {x}, doc) BY <3>3, <3>4, <3>7, <4>2, <5>2, FetchKnows
          <5> QED BY <5>1, <5>3
        <4>3. CASE v.doc # view.doc /\ Unsaved(v)
          <5> DEFINE arg == [doc |-> v.doc, then |-> "effect"]
                     y == Request("save cards", arg)
          <5>1. m = {y} BY <4>3 DEF SaveCards
          <5> HIDE DEF arg, m
          <5>2. y.op = "save cards" /\ x.op = "load" BY MakesFresh
          <5>3. "save cards" \notin Reads BY DEF Reads, Queries
          <5> HIDE DEF x, y
          <5>4. x # y /\ x \in {x} \cup m /\ y \in {x} \cup m BY <5>1, <5>2
          <5> QED BY <3>7, <5>2, <5>3, <5>4 DEF Apart
        <4> QED BY <4>1, <4>2, <4>3
      <3> HIDE DEF v, m, x
      <3> QED BY <1>3, <3>1, <3>6, <3>7
    <2> QED BY <2>2, <2>3
  (* The server answers, or fails, or fails in part.                       *)
  <1> DEFINE There(s) == DOMAIN s = {Server} /\ {"dbs", "settings", "doc"} \subseteq DOMAIN s[Server]
  <1>s. There(srv) BY DEF RemovalKnows
  <1>27. ASSUME NEW r \in net, NEW s, NEW a, ServerAnswers(r, s, a), There(s),
                r.op \notin {"load", "list", "save cards"} => s[Server].doc = doc,
                r.op = "save cards" => s[Server].doc = r.arg.doc,
                r.op \in {"load", "list"} => s = srv,
                r.op = "load" => a = Failed \/ a.doc = doc
         PROVE  Orderly' /\ RemovalKnows'
    <2>1. PICK q : Answers(r, s, a, q) BY <1>27, <1>r, ServerSays
    <2>2. Orderly' /\ srv' = s BY <2>1 DEF Answers
    <2>3. SUFFICES ASSUME Quiet' PROVE at' = Server /\ CardsKnown(view', net', s[Server].doc)
      BY <1>27, <2>2 DEF RemovalKnows
    <2>4. /\ Quiet /\ a # Failed /\ net' = (net \ {r}) \cup {q} /\ at' = at /\ view' = view
          /\ r.sent = TRUE /\ (r.op \notin Reads => net = {r})
          /\ q.op = r.op /\ q.arg = r.arg /\ q.sent = FALSE /\ q.ans = a
      BY <2>1, <2>3 DEF Answers, Quiet
    <2>5. at' = Server BY <2>4 DEF RemovalKnows
    <2>6. CASE r.op = "save cards"
      <3>1. net' = {q}
        <4>1. "save cards" \notin Reads BY DEF Reads, Queries
        <4> QED BY <2>4, <2>6, <4>1
      <3>2. s[Server].doc = r.arg.doc BY <1>27, <2>6
      <3> QED BY <1>k, <2>4, <2>5, <2>6, <3>1, <3>2 DEF CardsKnown, CardsAsked
    <2>7. CASE r.op # "save cards"
      <3>1. s[Server].doc = doc BY <1>27, <2>7 DEF doc
      <3> QED BY <1>27, <1>k, <2>4, <2>5, <2>7, <3>1 DEF CardsKnown, CardsAsked
    <2> QED BY <2>6, <2>7
  <1>28. ASSUME NEW r \in net, NEW s, There(s), ServerFails(r, s) PROVE Orderly' /\ RemovalKnows'
    <2>1. Fails(s) BY <1>28, <1>r, ServerFailsToSay
    <2>2. Orderly' /\ ~Quiet' /\ srv' \in {srv, s} BY <2>1 DEF Fails
    <2> QED BY <1>s, <1>28, <2>2 DEF RemovalKnows
  <1>29. ASSUME NEW r \in net, NEW a, PartOf(r, a) PROVE Orderly' /\ RemovalKnows'
    BY <1>s, <1>29 DEF PartOf, Orderly, Quiet, RemovalKnows
  <1>30. ASSUME NEW r \in net, NEW s, There(s), ServerAnswers(r, s, Ok) \/ ServerFails(r, s),
                r.op \notin {"load", "list"},
                r.op # "save cards" => s[Server].doc = doc,
                r.op = "save cards" => s[Server].doc = r.arg.doc
         PROVE  Orderly' /\ RemovalKnows'
    BY <1>27, <1>28, <1>30
  <1>31. ASSUME NEW r \in net, TopologyServer(r) PROVE Orderly' /\ RemovalKnows'
    <2> DEFINE w == srv[Server]
               set(d, x) == [srv EXCEPT ![Server].settings[d] = x]
    <2>1. w.doc = doc BY DEF doc
    <2>2. \A d, x : There(set(d, x)) /\ set(d, x)[Server].doc = doc BY <1>s, <2>1
    <2>3. CASE r.op = "load"
      <3> DEFINE a == [dbs |-> w.dbs, doc |-> w.doc]
      <3>1. \/ ServerAnswers(r, srv, a) \/ PartOf(r, [dbs |-> {}, doc |-> w.doc])
            \/ ServerFails(r, srv)
        BY <1>31, <2>3 DEF TopologyServer
      <3>2. a.doc = doc BY <2>1
      <3> HIDE DEF a
      <3> QED BY <1>s, <1>27, <1>28, <1>29, <2>3, <3>1, <3>2
    <2>4. CASE r.op = "list"
      <3>1. \/ ServerAnswers(r, srv, w.settings) \/ \E a : PartOf(r, a)
        BY <1>31, <2>4, Zenon DEF TopologyServer
      <3> QED BY <1>s, <1>27, <1>29, <2>4, <3>1
    <2>5. CASE r.op \in {"create", "discard"}
      <3>1. ServerAnswers(r, srv, Ok) \/ ServerFails(r, srv) BY <1>31, <2>5 DEF TopologyServer
      <3> QED BY <1>s, <1>30, <2>1, <2>5, <3>1
    <2>6. CASE r.op = "save cards"
      <3> DEFINE s == [srv EXCEPT ![Server].doc = r.arg.doc]
      <3>1. ServerAnswers(r, s, Ok) \/ ServerFails(r, s) BY <1>31, <2>6 DEF TopologyServer
      <3>2. There(s) /\ s[Server].doc = r.arg.doc BY <1>s
      <3> HIDE DEF s
      <3> QED BY <1>30, <2>6, <3>1, <3>2
    <2>7. CASE r.op \in {"apply", "automate", "clear"}
      <3> HIDE DEF set
      <3>1. \/ ServerAnswers(r, srv, Failed)
            \/ \E d, x : ServerAnswers(r, set(d, x), Ok) \/ ServerFails(r, set(d, x))
        BY <1>31, <2>7 DEF TopologyServer, set
      <3>2. CASE ServerAnswers(r, srv, Failed) BY <1>s, <1>27, <2>1, <2>7, <3>2
      <3>3. ASSUME NEW d, NEW x, ServerAnswers(r, set(d, x), Ok) \/ ServerFails(r, set(d, x))
            PROVE  Orderly' /\ RemovalKnows'
        <4> DEFINE s == set(d, x)
        <4>1. There(s) /\ s[Server].doc = doc BY <2>2
        <4>2. ServerAnswers(r, s, Ok) \/ ServerFails(r, s) BY <3>3
        <4> HIDE DEF s
        <4> QED BY <1>30, <2>7, <4>1, <4>2
      <3> QED BY <3>1, <3>2, <3>3
    <2>8. CASE r.op = "delete"
      <3> DEFINE s == [srv EXCEPT ![Server].dbs = @ \ r.arg.gone]
      <3>1. ServerAnswers(r, s, Ok) \/ ServerFails(r, s) BY <1>31, <2>8 DEF TopologyServer
      <3>2. There(s) /\ s[Server].doc = doc BY <1>s, <2>1
      <3> HIDE DEF s
      <3> QED BY <1>30, <2>8, <3>1, <3>2
    <2>9. r.op \in {"load", "list", "create", "discard", "save cards", "apply", "automate", "clear",
                     "delete"}
      BY <1>31 DEF TopologyServer
    <2> QED BY <2>3, <2>4, <2>5, <2>6, <2>7, <2>8, <2>9
  <1>32. CASE ChangedElsewhere
    <2>1. PICK d, x : srv' = [srv EXCEPT ![Server].settings[d] = x] BY <1>32 DEF ChangedElsewhere
    <2>2. There(srv') /\ srv'[Server].doc = doc BY <1>s, <2>1 DEF doc
    <2>3. UNCHANGED <<page, at, view, kept, net, upset>> BY <1>32 DEF ChangedElsewhere
    <2>4. Orderly' /\ (Quiet' => Quiet) BY <2>3 DEF Orderly, Quiet, Apart
    <2> QED BY <1>k, <2>2, <2>3, <2>4 DEF RemovalKnows
  <1> QED
    BY <1>1, <1>11, <1>12, <1>13, <1>14, <1>15, <1>16, <1>17, <1>18, <1>21, <1>22, <1>23, <1>24,
       <1>25, <1>26, <1>31, <1>32
    DEF TopologyNext

-----------------------------------------------------------------------------
(* All pages together.                                                     *)

(* A behaviour is about one page.                                          *)
LEMMA PageStays == ASSUME PagesNext PROVE page' = page
  <1> USE DEF Act, Handle, Settle, OpenAt, SwitchTo, ServerAnswers, ServerFails
  <1>1. CASE Leave BY <1>1 DEF Leave
  <1>2. CASE OpenMonitoring \/ MonitoringNext
    BY <1>2
    DEF MonitoringEdit, MonitoringLoaded, MonitoringNext, MonitoringReset, MonitoringSave,
        MonitoringSaved, MonitoringServer, OpenMonitoring
  <1>3. CASE OpenNotifications \/ NotificationsNext
    BY <1>3
    DEF ChannelTested, DocumentSaved, EditChannels, EditMaster, NotificationsLoaded,
        NotificationsNext, NotificationsServer, OpenNotifications, SaveNotifications, TestChannel
  <1>4. CASE OpenPreferences \/ PreferencesNext
    BY <1>4
    DEF OpenPreferences, PreferencesEdit, PreferencesLoaded, PreferencesNext, PreferencesSave,
        PreferencesSaved, PreferencesServer, SwitchPreferences
  <1>5. CASE OpenConnections \/ ConnectionsNext
    BY <1>5
    DEF AskTermination, CloseTermination, ConnectionsListed, ConnectionsNext, ConnectionsServer,
        DatabaseNamed, OpenConnections, PollConnections, SessionsChange, SwitchConnections,
        Terminate, Terminated
  <1>6. CASE OpenLimits \/ LimitsNext
    BY <1>6
    DEF LimitsDatabase, LimitsEdit, LimitsLoaded, LimitsNext, LimitsReset, LimitsRestart,
        LimitsRestarted, LimitsSave, LimitsSaved, LimitsServer, OpenLimits, SwitchLimits
  <1>7. CASE OpenBranches \/ BranchesNext
    BY <1>7
    DEF BranchAction, BranchOperationDone, BranchesListed, BranchesNext, BranchesServer,
        CloseBranchDialog, CreateBranch, OpenBranchDialog, OpenBranches, SwitchBranches
  <1>8. CASE OpenWebServer \/ WebServerNext
    BY <1>8
    DEF CheckDNS, DNSChecked, EditDomain, OpenWebServer, ProvisionSSL, SaveDomain, StatusFetched,
        WebServerActionDone, WebServerNext, WebServerServer
  <1>9. CASE OpenSQL \/ SQLNext
    BY <1>9
    DEF AskAssistant, AssistantDone, ClearHistory, ContextSaysActive, EditSQL, OpenSQL, QueryDone,
        RunQuery, SQLNext, SQLServer, SwitchSQL, WritePrompt
  <1>10. CASE OpenProfile \/ ProfileNext
    BY <1>10
    DEF ChangePassword, EditProfile, KeySaved, KeyStatusLoaded, OpenProfile, PasswordChanged,
        ProfileNext, ProfileServer, SaveKey, UpdateProfile, UploadAvatar, UserSaved
  <1>11. CASE OpenUsers \/ UsersNext
    BY <1>11
    DEF AddEmail, AskToRemove, CloseConfirmation, ConfirmRemoval, OpenUsers, UsersChanged,
        UsersListed, UsersNext, UsersServer
  <1>12. CASE OpenPanel \/ AccessNext
    BY <1>12
    DEF AccessLoaded, AccessNext, AccessSaved, AccessServer, CloseAccess, OpenAccess, OpenPanel,
        SaveAccess, ToggleAccess
  <1>13. CASE OpenUpdates \/ UpdatesNext
    BY <1>13
    DEF CheckUpdates, ChooseSection, OpenUpdates, ServerChecks, UpdateStatusFetched, UpdatesNext,
        UpdatesServer
  <1>14. CASE OpenBackupSettings \/ BackupSettingsNext
    BY <1>14
    DEF ApplyAutomation, BackupSettingsNext, BackupSettingsSaved, BackupSettingsServer,
        EditBackupSettings, EditFields, Invalidate, OpenBackupSettings, ResetBackupSettings,
        SaveBackupSettings, SettingsFetched, SwitchBackupSettings
  <1>15. CASE OpenBackupList \/ BackupListNext
    BY <1>15
    DEF AskRollback, BackupEnds, BackupListNext, BackupListServer, BackupRequest, BackupsFetched,
        CloseDecrypt, CloseRollback, Decrypted, ExternalRestoreStarted, Invalidate,
        ManualBackupStarted, OpenBackupList, OpenDecrypt, PollBackups, RollbackStarted,
        SwitchBackupList, TypeKey
  <1>16. CASE OpenTables \/ TablesNext
    BY <1>16
    DEF ChangeWindow, CloseRelation, ContextRefreshed, DiscardEdits, EditCell, FilterRows,
        OpenReferenced, OpenRelation, OpenTables, RefreshRows, RelationFetched, RowsFetched,
        RowsSaved, SaveRows, SelectTable, SortRows, SwitchTables, TablesListed, TablesNext,
        TablesServer, TurnPage
  <1>17. CASE OpenDatabase \/ DatabaseNext
    BY <1>17
    DEF ActionDone, AskConfirmation, CloseDialogs, ConnectionStringFetched, DatabaseAction,
        DatabaseNext, DatabaseServer, DeleteDone, DetailFetched, Invalidate, OpenConnect,
        OpenDatabase, PollDatabase, SwitchDatabase, TokenRotated
  <1>18. CASE OpenNavigation \/ NavigationNext
    BY <1>18
    DEF DatabaseCreated, DatabasesListed, DeleteShown, FollowLink, NavigationNext,
        NavigationServer, OpenCreate, OpenNavigation, PickDatabase, ShownDeleted, SubmitDatabase,
        TypeAddress
  <1>19. CASE OpenNavigation \/ ProjectsNext
    BY <1>19
    DEF EditProject, NavigationServer, OpenCreate, OpenNavigation, ProjectCreated, ProjectSaved,
        ProjectsListed, ProjectsNext, SaveProject, SubmitProject
  <1>20. CASE OpenProject \/ ProjectNext
    BY <1>20
    DEF EditProjectDialog, OpenProject, ProjectLoaded, ProjectNext, ProjectPartSaved,
        ProjectServer, SaveProjectDialog, SwitchProject
  <1>21. CASE OpenContainers \/ ContainersNext
    BY <1>21
    DEF AskContainerAction, CloseMapDialogs, ConfirmContainerAction, ContainerActionDone,
        ContainersFetched, ContainersNext, ContainersServer, Execute, Executed, LogsFetched,
        MoveToProject, MovedToProject, OpenContainers, OpenLogs, OpenTerminal, PollContainers
  <1>22. CASE OpenTopology \/ TopologyNext
    <2>1. CASE OpenTopology BY <2>1 DEF OpenTopology
    <2>2. CASE \/ PollMap \/ CloseMapDialog \/ CreateBackupCard \/ CreateAutomationCard
               \/ DropBackupOnDatabase \/ ConfirmAssignment \/ LinkAutomation \/ AskDeletion
      BY <2>2 DEF PollMap, CloseMapDialog, CreateBackupCard, CreateAutomationCard,
                  DropBackupOnDatabase, ConfirmAssignment, LinkAutomation, AskDeletion
    <2>3. CASE ConfirmDeletion BY <2>3 DEF ConfirmDeletion
    <2>4. ASSUME NEW r \in net, \/ MapFetched(r) \/ SettingsListed(r) \/ BackupCardCreated(r)
                                \/ CardsSaved(r) \/ DatabasesDeleted(r)
          PROVE  page' = page
      BY <2>4 DEF MapFetched, SettingsListed, BackupCardCreated, CardsSaved, DatabasesDeleted
    <2>5. ASSUME NEW r, NEW doc, NEW old, NEW then, SaveThen(r, doc, old, then) PROVE page' = page
      BY <2>5 DEF SaveThen
    <2> USE <2>5
    <2>6. ASSUME NEW r \in net, Applied(r) PROVE page' = page
      <3>1. \/ \E v, asked : Settle(r, v, kept, {}, asked)
            \/ SaveThen(r, Assigned(r.arg), r.arg.doc, "assign")
        BY <2>6, Zenon DEF Applied
      <3> QED BY <3>1
    <2>7. ASSUME NEW r \in net, Automated(r) PROVE page' = page BY <2>7 DEF Automated
    <2>8. ASSUME NEW r \in net, DeletionGoesOn(r) PROVE page' = page BY <2>8 DEF DeletionGoesOn
    <2>9. ASSUME NEW r \in net, TopologyServer(r) PROVE page' = page
      BY <2>9 DEF TopologyServer, PartOf
    <2>10. CASE ChangedElsewhere BY <2>10 DEF ChangedElsewhere
    <2> QED BY <1>22, <2>1, <2>2, <2>3, <2>4, <2>6, <2>7, <2>8, <2>9, <2>10 DEF TopologyNext
  <1> QED
    BY <1>1, <1>2, <1>3, <1>4, <1>5, <1>6, <1>7, <1>8, <1>9, <1>10, <1>11, <1>12, <1>13, <1>14,
       <1>15, <1>16, <1>17, <1>18, <1>19, <1>20, <1>21, <1>22
    DEF PagesNext, OpenPage

(* What it does is left, or what its page does.                            *)
LEMMA OwnStep ==
    ASSUME PagesNext
    PROVE  \/ Leave
           \/ page = "monitoring" /\ (OpenMonitoring \/ MonitoringNext)
           \/ page = "notifications" /\ (OpenNotifications \/ NotificationsNext)
           \/ page = "preferences" /\ (OpenPreferences \/ PreferencesNext)
           \/ page = "limits" /\ (OpenLimits \/ LimitsNext)
           \/ page = "branches" /\ (OpenBranches \/ BranchesNext)
           \/ page = "webserver" /\ (OpenWebServer \/ WebServerNext)
           \/ page = "profile" /\ (OpenProfile \/ ProfileNext)
           \/ page = "users" /\ (OpenUsers \/ UsersNext)
           \/ page = "user access" /\ (OpenPanel \/ AccessNext)
           \/ page = "backup settings" /\ (OpenBackupSettings \/ BackupSettingsNext)
           \/ page = "navigation" /\ (OpenNavigation \/ NavigationNext)
           \/ page = "projects" /\ (OpenNavigation \/ ProjectsNext)
           \/ page = "project" /\ (OpenProject \/ ProjectNext)
           \/ page \in ContainersPages /\ (OpenContainers \/ ContainersNext)
           \/ page \in TablesPages /\ (OpenTables \/ TablesNext)
           \/ page \in DatabasePages /\ (OpenDatabase \/ DatabaseNext)
           \/ page = "connections" /\ (OpenConnections \/ ConnectionsNext)
           \/ page = "sql" /\ (OpenSQL \/ SQLNext)
           \/ page = "updates" /\ (OpenUpdates \/ UpdatesNext)
           \/ page = "backups" /\ (OpenBackupList \/ BackupListNext)
           \/ page \in TopologyPages /\ (OpenTopology \/ TopologyNext)
  <1>1. OpenMonitoring \/ MonitoringNext => page = "monitoring" BY DEF OpenMonitoring, MonitoringNext
  <1>2. OpenNotifications \/ NotificationsNext => page = "notifications"
    BY DEF OpenNotifications, NotificationsNext
  <1>3. OpenPreferences \/ PreferencesNext => page = "preferences" BY DEF OpenPreferences, PreferencesNext
  <1>4. OpenLimits \/ LimitsNext => page = "limits" BY DEF OpenLimits, LimitsNext
  <1>5. OpenBranches \/ BranchesNext => page = "branches" BY DEF OpenBranches, BranchesNext
  <1>6. OpenWebServer \/ WebServerNext => page = "webserver" BY DEF OpenWebServer, WebServerNext
  <1>7. OpenProfile \/ ProfileNext => page = "profile" BY DEF OpenProfile, ProfileNext
  <1>8. OpenUsers \/ UsersNext => page = "users" BY DEF OpenUsers, UsersNext
  <1>9. OpenPanel \/ AccessNext => page = "user access" BY DEF OpenPanel, AccessNext
  <1>10. OpenBackupSettings \/ BackupSettingsNext => page = "backup settings"
    BY DEF OpenBackupSettings, BackupSettingsNext
  <1>11. OpenProject \/ ProjectNext => page = "project" BY DEF OpenProject, ProjectNext
  <1>12. OpenContainers \/ ContainersNext => page \in ContainersPages BY DEF OpenContainers, ContainersNext
  <1>13. OpenTables \/ TablesNext => page \in TablesPages BY DEF OpenTables, TablesNext
  <1>14. OpenDatabase \/ DatabaseNext => page \in DatabasePages BY DEF OpenDatabase, DatabaseNext
  <1>15. OpenConnections \/ ConnectionsNext => page = "connections" BY DEF OpenConnections, ConnectionsNext
  <1>16. OpenSQL \/ SQLNext => page = "sql" BY DEF OpenSQL, SQLNext
  <1>17. OpenUpdates \/ UpdatesNext => page = "updates" BY DEF OpenUpdates, UpdatesNext
  <1>18. OpenBackupList \/ BackupListNext => page = "backups" BY DEF OpenBackupList, BackupListNext
  <1>19. OpenTopology \/ TopologyNext => page \in TopologyPages BY DEF OpenTopology, TopologyNext
  <1>20. OpenNavigation => page = "navigation" \/ page = "projects" BY DEF OpenNavigation
  <1>21. NavigationNext => page = "navigation" BY DEF NavigationNext
  <1>22. ProjectsNext => page = "projects" BY DEF ProjectsNext
  <1> QED
    BY <1>1, <1>2, <1>3, <1>4, <1>5, <1>6, <1>7, <1>8, <1>9, <1>10, <1>11, <1>12, <1>13, <1>14,
       <1>15, <1>16, <1>17, <1>18, <1>19, <1>20, <1>21, <1>22
    DEF PagesNext, OpenPage

(* Whoever leaves a page leaves behind what was not only read.             *)
LEMMA Departs == ASSUME Core, Orderly, Leave PROVE Leaves(net)
  <1>1. at' = None /\ net' = Left(net) /\ UNCHANGED <<page, kept, srv, upset>> BY DEF Leave
  <1>2. net \ {} = net OBVIOUS
  <1> DEFINE S == {}
  <1>3. net' = Left(net \ S) BY <1>1, <1>2
  <1> HIDE DEF S
  <1>4. Leaves(net \ S) BY <1>1, <1>3, PageIsLeft
  <1> QED BY <1>2, <1>4 DEF S

(* The pages whose screen is followed: where cards are made and linked is  *)
(* not one (two documents that SelectSeq, a recursive definition, filters  *)
(* would have to be compared), and what the others show nobody else stores.*)
FollowedPages ==
    {"monitoring", "notifications", "preferences", "limits", "branches", "webserver", "profile",
     "users", "user access", "backup settings", "navigation", "projects", "project",
     "card removal"}
    \cup ContainersPages \cup TablesPages \cup DatabasePages

PageKnows ==
    /\ page = "monitoring" => MonitoringKnows
    /\ page = "notifications" => NotificationsKnows
    /\ page = "preferences" => PreferencesKnows
    /\ page = "limits" => LimitsKnows
    /\ page = "branches" => BranchesKnows
    /\ page = "webserver" => WebServerKnows
    /\ page = "profile" => ProfileKnows
    /\ page = "users" => UsersKnows
    /\ page = "user access" => AccessKnows
    /\ page = "backup settings" => SettingsOwned /\ SettingsKnow
    /\ page = "navigation" => NavigationKnows
    /\ page = "projects" => ProjectsKnow
    /\ page = "project" => ProjectKnows
    /\ page \in ContainersPages => ContainersKnow
    /\ page \in TablesPages => TablesKnow
    /\ page \in DatabasePages => DatabaseKnows
    /\ page = "card removal" => RemovalKnows

StoredInv == page \in FollowedPages => Orderly /\ PageKnows

(* One step of "monitoring".                                              *)
LEMMA MonitoringFollows ==
    ASSUME PagesInv, page = "monitoring", Orderly, MonitoringKnows, PagesNext \/ UNCHANGED pageVars
    PROVE  Orderly' /\ MonitoringKnows'
  <1>1. CASE UNCHANGED pageVars BY <1>1 DEF pageVars, Orderly, Quiet, Apart, MonitoringKnows
  <1>2. CASE Leave
    <2>1. Leaves(net) BY <1>2, Departs DEF PagesInv
    <2> QED BY <2>1 DEF Leaves, Like, MonitoringKnows
  <1>3. CASE OpenMonitoring \/ MonitoringNext BY <1>3, MonitoringStored DEF PagesInv
  <1> QED BY <1>1, <1>2, <1>3, OwnStep DEF ContainersPages, TablesPages, DatabasePages, TopologyPages

(* One step of "notifications".                                           *)
LEMMA NotificationsFollows ==
    ASSUME PagesInv, page = "notifications", Orderly, NotificationsKnows, PagesNext \/ UNCHANGED pageVars
    PROVE  Orderly' /\ NotificationsKnows'
  <1>1. CASE UNCHANGED pageVars BY <1>1 DEF pageVars, Orderly, Quiet, Apart, NotificationsKnows, IsForm
  <1>2. CASE Leave
    <2>1. Leaves(net) BY <1>2, Departs DEF PagesInv
    <2> QED BY <2>1, NotificationsLeft DEF Leaves, PagesInv
  <1>3. CASE OpenNotifications \/ NotificationsNext BY <1>3, NotificationsStored DEF PagesInv
  <1> QED BY <1>1, <1>2, <1>3, OwnStep DEF ContainersPages, TablesPages, DatabasePages, TopologyPages

(* One step of "preferences".                                             *)
LEMMA PreferencesFollows ==
    ASSUME PagesInv, page = "preferences", Orderly, PreferencesKnows, PagesNext \/ UNCHANGED pageVars
    PROVE  Orderly' /\ PreferencesKnows'
  <1>1. CASE UNCHANGED pageVars BY <1>1 DEF pageVars, Orderly, Quiet, Apart, PreferencesKnows
  <1>2. CASE Leave
    <2>1. Leaves(net) BY <1>2, Departs DEF PagesInv
    <2> QED BY <2>1 DEF Leaves, Like, PreferencesKnows
  <1>3. CASE OpenPreferences \/ PreferencesNext BY <1>3, PreferencesStored DEF PagesInv
  <1> QED BY <1>1, <1>2, <1>3, OwnStep DEF ContainersPages, TablesPages, DatabasePages, TopologyPages

(* One step of "limits".                                                  *)
LEMMA LimitsFollows ==
    ASSUME PagesInv, page = "limits", Orderly, LimitsKnows, PagesNext \/ UNCHANGED pageVars
    PROVE  Orderly' /\ LimitsKnows'
  <1>1. CASE UNCHANGED pageVars BY <1>1 DEF pageVars, Orderly, Quiet, Apart, LimitsKnows
  <1>2. CASE Leave
    <2>1. Leaves(net) BY <1>2, Departs DEF PagesInv
    <2> QED BY <2>1 DEF Leaves, Like, LimitsKnows
  <1>3. CASE OpenLimits \/ LimitsNext BY <1>3, LimitsStored DEF PagesInv
  <1> QED BY <1>1, <1>2, <1>3, OwnStep DEF ContainersPages, TablesPages, DatabasePages, TopologyPages

(* One step of "branches".                                                *)
LEMMA BranchesFollows ==
    ASSUME PagesInv, page = "branches", Orderly, BranchesKnows, PagesNext \/ UNCHANGED pageVars
    PROVE  Orderly' /\ BranchesKnows'
  <1>1. CASE UNCHANGED pageVars BY <1>1 DEF pageVars, Orderly, Quiet, Apart, BranchesKnows
  <1>2. CASE Leave
    <2>1. Leaves(net) BY <1>2, Departs DEF PagesInv
    <2> QED BY <2>1 DEF Leaves, Like, BranchesKnows
  <1>3. CASE OpenBranches \/ BranchesNext BY <1>3, BranchesStored DEF PagesInv
  <1> QED BY <1>1, <1>2, <1>3, OwnStep DEF ContainersPages, TablesPages, DatabasePages, TopologyPages

(* One step of "webserver".                                               *)
LEMMA WebServerFollows ==
    ASSUME PagesInv, page = "webserver", Orderly, WebServerKnows, PagesNext \/ UNCHANGED pageVars
    PROVE  Orderly' /\ WebServerKnows'
  <1>1. CASE UNCHANGED pageVars BY <1>1 DEF pageVars, Orderly, Quiet, Apart, WebServerKnows, Certified
  <1>2. CASE Leave
    <2>1. Leaves(net) BY <1>2, Departs DEF PagesInv
    <2> QED BY <2>1 DEF Leaves, Like, WebServerKnows
  <1>3. CASE OpenWebServer \/ WebServerNext BY <1>3, WebServerStored DEF PagesInv
  <1> QED BY <1>1, <1>2, <1>3, OwnStep DEF ContainersPages, TablesPages, DatabasePages, TopologyPages

(* One step of "profile".                                                 *)
LEMMA ProfileFollows ==
    ASSUME PagesInv, page = "profile", Orderly, ProfileKnows, PagesNext \/ UNCHANGED pageVars
    PROVE  Orderly' /\ ProfileKnows'
  <1>1. CASE UNCHANGED pageVars BY <1>1 DEF pageVars, Orderly, Quiet, Apart, ProfileKnows, IsUser
  <1>2. CASE Leave
    <2>1. Leaves(net) BY <1>2, Departs DEF PagesInv
    <2> QED BY <2>1, ProfileLeft DEF Leaves, PagesInv
  <1>3. CASE OpenProfile \/ ProfileNext BY <1>3, ProfileStored DEF PagesInv
  <1> QED BY <1>1, <1>2, <1>3, OwnStep DEF ContainersPages, TablesPages, DatabasePages, TopologyPages

(* One step of "users".                                                   *)
LEMMA UsersFollows ==
    ASSUME PagesInv, page = "users", Orderly, UsersKnows, PagesNext \/ UNCHANGED pageVars
    PROVE  Orderly' /\ UsersKnows'
  <1>1. CASE UNCHANGED pageVars BY <1>1 DEF pageVars, Orderly, Quiet, Apart, UsersKnows
  <1>2. CASE Leave
    <2>1. Leaves(net) BY <1>2, Departs DEF PagesInv
    <2> QED BY <2>1 DEF Leaves, Like, UsersKnows
  <1>3. CASE OpenUsers \/ UsersNext BY <1>3, UsersStored DEF PagesInv
  <1> QED BY <1>1, <1>2, <1>3, OwnStep DEF ContainersPages, TablesPages, DatabasePages, TopologyPages

(* One step of "user access".                                             *)
LEMMA AccessFollows ==
    ASSUME PagesInv, page = "user access", Orderly, AccessKnows, PagesNext \/ UNCHANGED pageVars
    PROVE  Orderly' /\ AccessKnows'
  <1>1. CASE UNCHANGED pageVars BY <1>1 DEF pageVars, Orderly, Quiet, Apart, AccessKnows
  <1>2. CASE Leave
    <2>1. Leaves(net) BY <1>2, Departs DEF PagesInv
    <2> QED BY <2>1 DEF Leaves, Like, AccessKnows
  <1>3. CASE OpenPanel \/ AccessNext BY <1>3, AccessStored DEF PagesInv
  <1> QED BY <1>1, <1>2, <1>3, OwnStep DEF ContainersPages, TablesPages, DatabasePages, TopologyPages

(* One step of "backup settings".                                         *)
LEMMA SettingsFollows ==
    ASSUME PagesInv, page = "backup settings", Orderly, SettingsOwned, SettingsKnow,
           PagesNext \/ UNCHANGED pageVars
    PROVE  Orderly' /\ SettingsOwned' /\ SettingsKnow'
  <1>1. CASE UNCHANGED pageVars
    BY <1>1 DEF pageVars, Orderly, Quiet, Apart, SettingsOwned, Owned, Of, IsSettings, SettingsKnow,
                Masked
  <1>2. CASE Leave BY <1>2, SettingsLeft DEF PagesInv
  <1>3. CASE OpenBackupSettings \/ BackupSettingsNext BY <1>3, SettingsStored, SettingsOwnedKeeps DEF PagesInv
  <1> QED BY <1>1, <1>2, <1>3, OwnStep DEF ContainersPages, TablesPages, DatabasePages, TopologyPages

(* One step of "navigation".                                              *)
LEMMA NavigationFollows ==
    ASSUME PagesInv, page = "navigation", Orderly, NavigationKnows, PagesNext \/ UNCHANGED pageVars
    PROVE  Orderly' /\ NavigationKnows'
  <1>1. CASE UNCHANGED pageVars BY <1>1 DEF pageVars, Orderly, Quiet, Apart, NavigationKnows, Listing, Choice
  <1>2. CASE Leave
    <2>1. Leaves(net) BY <1>2, Departs DEF PagesInv
    <2> QED BY <2>1 DEF Leaves, Like, NavigationKnows
  <1>3. CASE OpenNavigation \/ NavigationNext BY <1>3, NavigationStored DEF PagesInv
  <1> QED BY <1>1, <1>2, <1>3, OwnStep DEF ContainersPages, TablesPages, DatabasePages, TopologyPages

(* One step of "projects".                                                *)
LEMMA ProjectsFollows ==
    ASSUME PagesInv, page = "projects", Orderly, ProjectsKnow, PagesNext \/ UNCHANGED pageVars
    PROVE  Orderly' /\ ProjectsKnow'
  <1>1. CASE UNCHANGED pageVars BY <1>1 DEF pageVars, Orderly, Quiet, Apart, ProjectsKnow, ProjectHooksThere
  <1>2. CASE Leave
    <2>1. Leaves(net) BY <1>2, Departs DEF PagesInv
    <2> QED BY <2>1 DEF Leaves, Like, ProjectsKnow
  <1>3. CASE OpenNavigation \/ ProjectsNext BY <1>3, ProjectsStored DEF PagesInv
  <1> QED BY <1>1, <1>2, <1>3, OwnStep DEF ContainersPages, TablesPages, DatabasePages, TopologyPages

(* One step of "project".                                                 *)
LEMMA ProjectFollows ==
    ASSUME PagesInv, page = "project", Orderly, ProjectKnows, PagesNext \/ UNCHANGED pageVars
    PROVE  Orderly' /\ ProjectKnows'
  <1>1. CASE UNCHANGED pageVars BY <1>1 DEF pageVars, Orderly, Quiet, Apart, ProjectKnows
  <1>2. CASE Leave
    <2>1. Leaves(net) BY <1>2, Departs DEF PagesInv
    <2> QED BY <2>1 DEF Leaves, Like, ProjectKnows
  <1>3. CASE OpenProject \/ ProjectNext BY <1>3, ProjectStored DEF PagesInv
  <1> QED BY <1>1, <1>2, <1>3, OwnStep DEF ContainersPages, TablesPages, DatabasePages, TopologyPages

(* One step of a page \in ContainersPages.                                *)
LEMMA ContainersFollows ==
    ASSUME PagesInv, page \in ContainersPages, Orderly, ContainersKnow, PagesNext \/ UNCHANGED pageVars
    PROVE  Orderly' /\ ContainersKnow'
  <1>1. CASE UNCHANGED pageVars BY <1>1 DEF pageVars, Orderly, Quiet, Apart, ContainersKnow
  <1>2. CASE Leave
    <2>1. Leaves(net) BY <1>2, Departs DEF PagesInv
    <2> QED BY <2>1 DEF Leaves, Like, ContainersKnow
  <1>3. CASE OpenContainers \/ ContainersNext BY <1>3, ContainersStored DEF PagesInv
  <1> QED BY <1>1, <1>2, <1>3, OwnStep DEF ContainersPages, TablesPages, DatabasePages, TopologyPages

(* One step of a page \in TablesPages.                                    *)
LEMMA TablesFollows ==
    ASSUME PagesInv, page \in TablesPages, Orderly, TablesKnow, PagesNext \/ UNCHANGED pageVars
    PROVE  Orderly' /\ TablesKnow'
  <1>1. CASE UNCHANGED pageVars
    BY <1>1 DEF pageVars, Orderly, Quiet, Apart, TablesKnow, TablesHooksThere, RowsAsked, ShowsRows
  <1>2. CASE Leave
    <2>1. Leaves(net) BY <1>2, Departs DEF PagesInv
    <2> QED BY <2>1 DEF Leaves, Like, TablesKnow
  <1>3. CASE OpenTables \/ TablesNext BY <1>3, TablesStored DEF PagesInv
  <1> QED BY <1>1, <1>2, <1>3, OwnStep DEF ContainersPages, TablesPages, DatabasePages, TopologyPages

(* One step of a page \in DatabasePages.                                  *)
LEMMA DatabaseFollows ==
    ASSUME PagesInv, page \in DatabasePages, Orderly, DatabaseKnows, PagesNext \/ UNCHANGED pageVars
    PROVE  Orderly' /\ DatabaseKnows'
  <1>1. CASE UNCHANGED pageVars
    BY <1>1 DEF pageVars, Orderly, Quiet, Apart, DatabaseKnows, Stores, Keeps, CacheKnows, Answered,
                Changing, SaysStatus, StringKnows, DatabaseHooksThere
  <1>2. CASE Leave
    <2>1. Leaves(net) BY <1>2, Departs DEF PagesInv
    <2> QED BY <2>1, DatabaseLeft DEF Leaves, PagesInv
  <1>3. CASE OpenDatabase \/ DatabaseNext BY <1>3, DatabaseStored DEF PagesInv
  <1> QED BY <1>1, <1>2, <1>3, OwnStep DEF ContainersPages, TablesPages, DatabasePages, TopologyPages

(* One step of "card removal".                                            *)
LEMMA RemovalFollows ==
    ASSUME PagesInv, page = "card removal", Orderly, RemovalKnows, PagesNext \/ UNCHANGED pageVars
    PROVE  Orderly' /\ RemovalKnows'
  <1>1. CASE UNCHANGED pageVars BY <1>1 DEF pageVars, Orderly, Quiet, Apart, RemovalKnows
  <1>2. CASE Leave
    <2>1. Leaves(net) BY <1>2, Departs DEF PagesInv
    <2> QED BY <2>1 DEF Leaves, Like, RemovalKnows
  <1>3. CASE OpenTopology \/ TopologyNext BY <1>3, RemovalStored DEF PagesInv
  <1> QED BY <1>1, <1>2, <1>3, OwnStep DEF ContainersPages, TablesPages, DatabasePages, TopologyPages

(* It is known what a page knows once its own part is.                     *)
LEMMA OnItsPage ==
    ASSUME page' = page,
           page = "monitoring" => Orderly' /\ MonitoringKnows',
           page = "notifications" => Orderly' /\ NotificationsKnows',
           page = "preferences" => Orderly' /\ PreferencesKnows',
           page = "limits" => Orderly' /\ LimitsKnows',
           page = "branches" => Orderly' /\ BranchesKnows',
           page = "webserver" => Orderly' /\ WebServerKnows',
           page = "profile" => Orderly' /\ ProfileKnows',
           page = "users" => Orderly' /\ UsersKnows',
           page = "user access" => Orderly' /\ AccessKnows',
           page = "backup settings" => Orderly' /\ SettingsOwned' /\ SettingsKnow',
           page = "navigation" => Orderly' /\ NavigationKnows',
           page = "projects" => Orderly' /\ ProjectsKnow',
           page = "project" => Orderly' /\ ProjectKnows',
           page \in ContainersPages => Orderly' /\ ContainersKnow',
           page \in TablesPages => Orderly' /\ TablesKnow',
           page \in DatabasePages => Orderly' /\ DatabaseKnows',
           page = "card removal" => Orderly' /\ RemovalKnows'
    PROVE  StoredInv'
BY DEF StoredInv, PageKnows, FollowedPages, ContainersPages, TablesPages, DatabasePages, TopologyPages

(* Every step keeps it.                                                    *)
LEMMA StoredStep ==
    ASSUME PagesInv, StoredInv, PagesNext \/ UNCHANGED pageVars PROVE StoredInv'
  <1>0. page' = page BY PageStays DEF pageVars
  <1>1. page = "monitoring" => Orderly' /\ MonitoringKnows'
    BY MonitoringFollows DEF StoredInv, PageKnows, FollowedPages
  <1>2. page = "notifications" => Orderly' /\ NotificationsKnows'
    BY NotificationsFollows DEF StoredInv, PageKnows, FollowedPages
  <1>3. page = "preferences" => Orderly' /\ PreferencesKnows'
    BY PreferencesFollows DEF StoredInv, PageKnows, FollowedPages
  <1>4. page = "limits" => Orderly' /\ LimitsKnows'
    BY LimitsFollows DEF StoredInv, PageKnows, FollowedPages
  <1>5. page = "branches" => Orderly' /\ BranchesKnows'
    BY BranchesFollows DEF StoredInv, PageKnows, FollowedPages
  <1>6. page = "webserver" => Orderly' /\ WebServerKnows'
    BY WebServerFollows DEF StoredInv, PageKnows, FollowedPages
  <1>7. page = "profile" => Orderly' /\ ProfileKnows'
    BY ProfileFollows DEF StoredInv, PageKnows, FollowedPages
  <1>8. page = "users" => Orderly' /\ UsersKnows'
    BY UsersFollows DEF StoredInv, PageKnows, FollowedPages
  <1>9. page = "user access" => Orderly' /\ AccessKnows'
    BY AccessFollows DEF StoredInv, PageKnows, FollowedPages
  <1>10. page = "backup settings" => Orderly' /\ SettingsOwned' /\ SettingsKnow'
    BY SettingsFollows DEF StoredInv, PageKnows, FollowedPages
  <1>11. page = "navigation" => Orderly' /\ NavigationKnows'
    BY NavigationFollows DEF StoredInv, PageKnows, FollowedPages
  <1>12. page = "projects" => Orderly' /\ ProjectsKnow'
    BY ProjectsFollows DEF StoredInv, PageKnows, FollowedPages
  <1>13. page = "project" => Orderly' /\ ProjectKnows'
    BY ProjectFollows DEF StoredInv, PageKnows, FollowedPages
  <1>14. page \in ContainersPages => Orderly' /\ ContainersKnow'
    BY ContainersFollows DEF StoredInv, PageKnows, FollowedPages
  <1>15. page \in TablesPages => Orderly' /\ TablesKnow'
    BY TablesFollows DEF StoredInv, PageKnows, FollowedPages
  <1>16. page \in DatabasePages => Orderly' /\ DatabaseKnows'
    BY DatabaseFollows DEF StoredInv, PageKnows, FollowedPages
  <1>17. page = "card removal" => Orderly' /\ RemovalKnows'
    BY RemovalFollows DEF StoredInv, PageKnows, FollowedPages
  <1> QED
    BY <1>0, <1>1, <1>2, <1>3, <1>4, <1>5, <1>6, <1>7, <1>8, <1>9, <1>10, <1>11, <1>12, <1>13, <1>14,
       <1>15, <1>16, <1>17, OnItsPage

(* When nothing is open, nothing is out, and what is kept is nothing yet.  *)
LEMMA StoredStart == ASSUME PagesInit PROVE StoredInv
  <1>0. at = None /\ net = {} /\ ~Quiet /\ upset = FALSE /\ srv \in Stored(page) /\ kept = Remembered(page)
    BY DEF PagesInit, Quiet
  <1>1. Orderly BY <1>0 DEF Orderly, Apart
  <1>2. ASSUME page = "monitoring" PROVE MonitoringKnows
    <2>1. page \notin DatabasePages \cup TablesPages BY <1>2 DEF DatabasePages, TablesPages
    <2>2. srv \in [{Server} -> [on : {TRUE}, rate : Vals]]
      BY <1>0, <1>2, <2>1, Zenon DEF Stored
    <2> QED BY <1>0, <2>2 DEF MonitoringKnows
  <1>3. ASSUME page = "notifications" PROVE NotificationsKnows
    <2>1. page \notin DatabasePages \cup TablesPages BY <1>3 DEF DatabasePages, TablesPages
    <2>2. srv \in [{Server} -> [channels : {Default}, events : Vals, master : {FALSE}]]
      BY <1>0, <1>3, <2>1, Zenon DEF Stored
    <2> QED BY <1>0, <2>2 DEF NotificationsKnows, IsForm
  <1>4. ASSUME page = "preferences" PROVE PreferencesKnows
    <2>1. page \notin DatabasePages \cup TablesPages BY <1>4 DEF DatabasePages, TablesPages
    <2>2. srv \in [Dbs -> Vals]
      BY <1>0, <1>4, <2>1, Zenon DEF Stored
    <2> QED BY <1>0, <2>2 DEF PreferencesKnows
  <1>5. ASSUME page = "limits" PROVE LimitsKnows
    <2>1. page \notin DatabasePages \cup TablesPages BY <1>5 DEF DatabasePages, TablesPages
    <2>2. srv \in [Dbs -> Vals]
      BY <1>0, <1>5, <2>1, Zenon DEF Stored
    <2> QED BY <1>0, <2>2 DEF LimitsKnows
  <1>6. ASSUME page = "branches" PROVE BranchesKnows
    <2>1. page \notin DatabasePages \cup TablesPages BY <1>6 DEF DatabasePages, TablesPages
    <2>2. srv \in [Dbs -> {NoBranches}]
      BY <1>0, <1>6, <2>1, Zenon DEF Stored
    <2> QED BY <1>0, <2>2 DEF BranchesKnows
  <1>7. ASSUME page = "webserver" PROVE WebServerKnows
    <2>1. page \notin DatabasePages \cup TablesPages BY <1>7 DEF DatabasePages, TablesPages
    <2>2. srv \in [{Server} -> [domain : Vals \cup {None}, ssl : {FALSE}, cert : {None}]]
      BY <1>0, <1>7, <2>1, Zenon DEF Stored
    <2> QED BY <1>0, <2>2 DEF WebServerKnows
  <1>8. ASSUME page = "profile" PROVE ProfileKnows
    <2>1. page \notin DatabasePages \cup TablesPages BY <1>8 DEF DatabasePages, TablesPages
    <2>2. srv \in [{Server} -> [name : {Default}, avatar : {Default}, key : BOOLEAN]]
      BY <1>0, <1>8, <2>1, Zenon DEF Stored
    <2>3. kept = [name |-> Default, avatar |-> Default]
      BY <1>0, <1>8, <2>1, Zenon DEF Remembered
    <2> QED BY <1>0, <2>2, <2>3 DEF ProfileKnows, IsUser
  <1>9. ASSUME page = "users" PROVE UsersKnows
    <2>1. page \notin DatabasePages \cup TablesPages BY <1>9 DEF DatabasePages, TablesPages
    <2>2. srv \in [{Server} -> [mail : BOOLEAN, users : {Items}]]
      BY <1>0, <1>9, <2>1, Zenon DEF Stored
    <2> QED BY <1>0, <2>2 DEF UsersKnows
  <1>10. AccessKnows BY <1>0 DEF AccessKnows
  <1>11. ASSUME page = "backup settings" PROVE SettingsOwned /\ SettingsKnow
    <2>1. page \notin DatabasePages \cup TablesPages BY <1>11 DEF DatabasePages, TablesPages
    <2>2. srv = [d \in Dbs |-> [FreshForm(d) EXCEPT !.access = Default]]
      BY <1>0, <1>11, <2>1, Zenon DEF Stored
    <2>3. kept = [settings |-> [d \in Dbs |-> None], stale |-> {}]
      BY <1>0, <1>11, <2>1, Zenon DEF Remembered
    <2>4. \A d \in Dbs : srv[d] = [of |-> d, fields |-> Default, access |-> Default]
      BY <2>2 DEF FreshForm
    <2>5. ASSUME NEW d \in Dbs PROVE Of(srv[d], d)
      <3> DEFINE f == [of |-> d, fields |-> Default, access |-> Default]
      <3>1. f.of = d /\ f = [of |-> f.of, fields |-> f.fields, access |-> f.access] OBVIOUS
      <3> HIDE DEF f
      <3>2. Of(f, d) BY <3>1 DEF Of, IsSettings
      <3>3. srv[d] = f BY <2>4 DEF f
      <3> QED BY <3>2, <3>3
    <2>6. DOMAIN srv = Dbs BY <2>2
    <2>7. SettingsOwned BY <1>0, <2>3, <2>5, <2>6 DEF SettingsOwned
    <2>8. SettingsKnow BY <1>0, <2>3 DEF SettingsKnow
    <2> QED BY <2>7, <2>8
  <1>12. ASSUME page = "navigation" PROVE NavigationKnows
    <2>1. page \notin DatabasePages \cup TablesPages BY <1>12 DEF DatabasePages, TablesPages
    <2>2. srv \in [{Server} -> [dbs : SUBSET Dbs, project : {None}]]
      BY <1>0, <1>12, <2>1, Zenon DEF Stored
    <2>3. None \notin Dbs BY PageAssumption
    <2> QED BY <1>0, <2>2, <2>3 DEF NavigationKnows
  <1>13. ASSUME page = "projects" PROVE ProjectsKnow
    <2>1. page \notin DatabasePages \cup TablesPages BY <1>13 DEF DatabasePages, TablesPages
    <2>2. srv \in [{Server} -> [dbs : {Dbs}, project : {Default}]]
      BY <1>0, <1>13, <2>1, Zenon DEF Stored
    <2> QED BY <1>0, <2>2 DEF ProjectsKnow
  <1>14. ProjectKnows BY <1>0 DEF ProjectKnows
  <1>15. page \in ContainersPages => ContainersKnow
    <2>1. CASE page = "containers"
      <3>1. page \notin DatabasePages \cup TablesPages BY <2>1 DEF DatabasePages, TablesPages
      <3>2. srv \in [{Server} -> [Items -> [running : BOOLEAN, project : {Default}]]]
        BY <1>0, <2>1, <3>1, Zenon DEF Stored
      <3> QED BY <1>0, <3>2 DEF ContainersKnow
    <2>2. CASE page \in {"moves", "logs", "terminal"}
      <3>1. page \notin DatabasePages \cup TablesPages BY <2>2 DEF DatabasePages, TablesPages
      <3>2. srv \in [{Server} -> [Items -> {[running |-> TRUE, project |-> Default]}]]
        BY <1>0, <2>2, <3>1, Zenon DEF Stored
      <3> QED BY <1>0, <3>2 DEF ContainersKnow
    <2> QED BY <2>1, <2>2 DEF ContainersPages
  <1>16. TablesKnow BY <1>0 DEF TablesKnow
  <1>17. ASSUME page \in DatabasePages PROVE DatabaseKnows
    <2>1. page \in {"database", "connection string"} /\ page \notin TablesPages
      BY <1>17 DEF DatabasePages, TablesPages
    <2>2. srv \in [Dbs -> [status : {"active"}, token : {0}]]
      BY <1>0, <1>17, <2>1, Zenon DEF Stored
    <2>3. kept = [detail |-> [d \in Dbs |-> None], stale |-> {}, broken |-> {}]
      BY <1>0, <1>17, <2>1, Zenon DEF Remembered
    <2> QED BY <1>0, <2>2, <2>3 DEF DatabaseKnows, Stores, Keeps, CacheKnows
  <1>18. ASSUME page = "card removal" PROVE RemovalKnows
    <2>1. page \notin DatabasePages \cup TablesPages BY <1>18 DEF DatabasePages, TablesPages
    <2>2. srv \in [{Server} -> [dbs : {Dbs}, settings : [Dbs -> {"off", "auto"}], doc : CardsBefore]]
      BY <1>0, <1>18, <2>1, Zenon DEF Stored
    <2> QED BY <1>0, <2>2 DEF RemovalKnows
  <1> QED
    BY <1>1, <1>2, <1>3, <1>4, <1>5, <1>6, <1>7, <1>8, <1>9, <1>10, <1>11, <1>12, <1>13,
       <1>14, <1>15, <1>16, <1>17, <1>18
    DEF StoredInv, PageKnows, FollowedPages

(* What every page that is followed knows, of what it shows and of what it *)
(* has asked for: an answer on its way is true, or there is a fetch to come*)
(* after it.                                                               *)
THEOREM StoredInvariant == PagesSpec => []StoredInv
  <1>1. PagesInit => StoredInv BY StoredStart
  <1>2. PagesInv /\ StoredInv /\ [PagesNext]_pageVars => StoredInv' BY StoredStep
  <1> QED BY <1>1, <1>2, PagesInvariant, PTL DEF PagesSpec

-----------------------------------------------------------------------------
(* What follows from it.                                                   *)

(* A page at rest agrees with the server.                                  *)
LEMMA AtRest ==
    ASSUME StoredInv, page # "cards" PROVE KnowsWhatIsStored
  <1> SUFFICES ASSUME at # None, net = {}, ~upset PROVE Agrees
    BY DEF KnowsWhatIsStored
  <1>0. Quiet BY DEF Quiet
  <1> DEFINE Single == {"monitoring", "notifications", "preferences", "limits", "branches",
                        "webserver", "profile", "users", "user access", "backup settings",
                        "navigation", "projects", "project"}
  <1>1. CASE page = "monitoring"
    <2>1. page \notin DatabasePages \cup TablesPages \cup TopologyPages
      BY <1>1 DEF DatabasePages, TablesPages, TopologyPages
    <2>2. MonitoringKnows BY <1>1 DEF StoredInv, PageKnows, FollowedPages
    <2>3. view.stored.on = srv[at].on /\ view.stored.rate = srv[at].rate
      BY <1>0, <2>2 DEF MonitoringKnows
    <2> QED BY <1>1, <2>1, <2>3, Zenon DEF Agrees
  <1>2. CASE page = "notifications"
    <2>1. page \notin DatabasePages \cup TablesPages \cup TopologyPages
      BY <1>2 DEF DatabasePages, TablesPages, TopologyPages
    <2>2. NotificationsKnows BY <1>2 DEF StoredInv, PageKnows, FollowedPages
    <2>3. view.stored = srv[at]
      BY <1>0, <2>2 DEF NotificationsKnows
    <2> QED BY <1>2, <2>1, <2>3, Zenon DEF Agrees
  <1>3. CASE page = "preferences"
    <2>1. page \notin DatabasePages \cup TablesPages \cup TopologyPages
      BY <1>3 DEF DatabasePages, TablesPages, TopologyPages
    <2>2. PreferencesKnows BY <1>3 DEF StoredInv, PageKnows, FollowedPages
    <2>3. view.stored = srv[at]
      BY <1>0, <2>2 DEF PreferencesKnows
    <2> QED BY <1>3, <2>1, <2>3, Zenon DEF Agrees
  <1>4. CASE page = "limits"
    <2>1. page \notin DatabasePages \cup TablesPages \cup TopologyPages
      BY <1>4 DEF DatabasePages, TablesPages, TopologyPages
    <2>2. LimitsKnows BY <1>4 DEF StoredInv, PageKnows, FollowedPages
    <2>3. view.stored = srv[at]
      BY <1>0, <2>2 DEF LimitsKnows
    <2> QED BY <1>4, <2>1, <2>3, Zenon DEF Agrees
  <1>5. CASE page = "branches"
    <2>1. page \notin DatabasePages \cup TablesPages \cup TopologyPages
      BY <1>5 DEF DatabasePages, TablesPages, TopologyPages
    <2>2. BranchesKnows BY <1>5 DEF StoredInv, PageKnows, FollowedPages
    <2>3. view.list = srv[at]
      BY <1>0, <2>2 DEF BranchesKnows
    <2> QED BY <1>5, <2>1, <2>3, Zenon DEF Agrees
  <1>6. CASE page = "webserver"
    <2>1. page \notin DatabasePages \cup TablesPages \cup TopologyPages
      BY <1>6 DEF DatabasePages, TablesPages, TopologyPages
    <2>2. WebServerKnows BY <1>6 DEF StoredInv, PageKnows, FollowedPages
    <2>3. view.status.domain = srv[at].domain /\ view.status.ssl = srv[at].ssl
      BY <1>0, <2>2 DEF WebServerKnows, Certified
    <2> QED BY <1>6, <2>1, <2>3, Zenon DEF Agrees
  <1>7. CASE page = "profile"
    <2>1. page \notin DatabasePages \cup TablesPages \cup TopologyPages
      BY <1>7 DEF DatabasePages, TablesPages, TopologyPages
    <2>2. ProfileKnows BY <1>7 DEF StoredInv, PageKnows, FollowedPages
    <2>3. kept = [name |-> srv[at].name, avatar |-> srv[at].avatar] /\ view.configured = srv[at].key
      BY <1>0, <2>2 DEF ProfileKnows, IsUser
    <2> QED BY <1>7, <2>1, <2>3, Zenon DEF Agrees
  <1>8. CASE page = "users"
    <2>1. page \notin DatabasePages \cup TablesPages \cup TopologyPages
      BY <1>8 DEF DatabasePages, TablesPages, TopologyPages
    <2>2. UsersKnows BY <1>8 DEF StoredInv, PageKnows, FollowedPages
    <2>3. view.mail = srv[at].mail /\ view.users = srv[at].users
      BY <1>0, <2>2 DEF UsersKnows
    <2> QED BY <1>8, <2>1, <2>3, Zenon DEF Agrees
  <1>9. CASE page = "user access"
    <2>1. page \notin DatabasePages \cup TablesPages \cup TopologyPages
      BY <1>9 DEF DatabasePages, TablesPages, TopologyPages
    <2>2. AccessKnows BY <1>9 DEF StoredInv, PageKnows, FollowedPages
    <2>3. view.open = FALSE \/ view.from = view.active
      BY <1>0, <2>2 DEF AccessKnows
    <2> QED BY <1>9, <2>1, <2>3, Zenon DEF Agrees
  <1>10. CASE page = "backup settings"
    <2>1. page \notin DatabasePages \cup TablesPages \cup TopologyPages
      BY <1>10 DEF DatabasePages, TablesPages, TopologyPages
    <2>2. SettingsOwned /\ SettingsKnow BY <1>10 DEF StoredInv, PageKnows, FollowedPages
    <2>3. kept["settings"][at] = Masked(srv[at])
      BY <1>0, <2>2 DEF SettingsKnow
    <2> QED BY <1>10, <2>1, <2>3, Zenon DEF Agrees, Masked
  <1>11. CASE page = "navigation"
    <2>1. page \notin DatabasePages \cup TablesPages \cup TopologyPages
      BY <1>11 DEF DatabasePages, TablesPages, TopologyPages
    <2>2. NavigationKnows BY <1>11 DEF StoredInv, PageKnows, FollowedPages
    <2>3. view.dbs = srv[at].dbs /\ Choice(view, srv[at].dbs) BY <1>0, <2>2 DEF NavigationKnows
    <2> QED BY <1>11, <2>1, <2>3, Zenon DEF Agrees, Choice
  <1>12. CASE page = "projects"
    <2>1. page \notin DatabasePages \cup TablesPages \cup TopologyPages
      BY <1>12 DEF DatabasePages, TablesPages, TopologyPages
    <2>2. ProjectsKnow BY <1>12 DEF StoredInv, PageKnows, FollowedPages
    <2>3. view.project = srv[at].project
      BY <1>0, <2>2 DEF ProjectsKnow
    <2> QED BY <1>12, <2>1, <2>3, Zenon DEF Agrees
  <1>13. CASE page = "project"
    <2>1. page \notin DatabasePages \cup TablesPages \cup TopologyPages
      BY <1>13 DEF DatabasePages, TablesPages, TopologyPages
    <2>2. ProjectKnows BY <1>13 DEF StoredInv, PageKnows, FollowedPages
    <2>3. view.from = at
      BY <1>0, <2>2 DEF ProjectKnows
    <2> QED BY <1>13, <2>1, <2>3, Zenon DEF Agrees
  <1>14. CASE page \in ContainersPages
    <2>1. page \notin TablesPages \cup DatabasePages /\ page \notin Single
      BY <1>14 DEF ContainersPages, TablesPages, DatabasePages, TopologyPages
    <2>2. ContainersKnow BY <1>14 DEF StoredInv, PageKnows, FollowedPages
    <2>3. view.containers = srv[at] /\ view.logs.text = view.logs.name
      BY <1>0, <2>2 DEF ContainersKnow
    <2>4. page \notin TopologyPages BY <1>14 DEF ContainersPages, TopologyPages
    <2>5. page \in {"containers", "moves", "logs", "terminal"} BY <1>14 DEF ContainersPages
    <2> QED BY <2>1, <2>3, <2>4, <2>5, Zenon DEF Agrees
  <1>15. CASE page \in TablesPages
    <2>1. page \notin ContainersPages \cup DatabasePages \cup TopologyPages /\ page \notin Single
      BY <1>15 DEF ContainersPages, TablesPages, DatabasePages, TopologyPages
    <2>2. TablesKnow BY <1>15 DEF StoredInv, PageKnows, FollowedPages
    <2>3. ShowsRows(view, at) BY <1>0, <2>2 DEF TablesKnow
    <2>4. view.active /\ view.data # None => view.data = Rows(at, view.selected, view.window)
      BY <2>3 DEF ShowsRows
    <2>5. page \in {"tables", "relations"} BY <1>15 DEF TablesPages
    <2> QED BY <1>15, <2>1, <2>4, <2>5, Zenon DEF Agrees
  <1>16. CASE page \in DatabasePages
    <2>1. page \notin ContainersPages \cup TablesPages \cup TopologyPages /\ page \notin Single
      BY <1>16 DEF ContainersPages, TablesPages, DatabasePages, TopologyPages
    <2>2. DatabaseKnows BY <1>16 DEF StoredInv, PageKnows, FollowedPages
    <2>3. SaysStatus(kept, srv, at) /\ StringKnows(view, srv)
      BY <1>0, <2>2 DEF DatabaseKnows, Changing
    <2>4. srv[at].status # "gone" => kept["detail"][at].status = srv[at].status
      BY <2>3 DEF SaysStatus
    <2>5. view.string # None /\ view.string.of = at => view.string.token = srv[at].token
      BY <2>3 DEF StringKnows
    <2>6. page \in {"database", "connection string"} BY <1>16 DEF DatabasePages
    <2> QED BY <1>16, <2>1, <2>4, <2>5, <2>6, Zenon DEF Agrees
  <1>17. CASE page = "card removal"
    <2>1. page \in TopologyPages /\ page \notin DatabasePages \cup TablesPages
      BY <1>17 DEF DatabasePages, TablesPages, TopologyPages
    <2>2. RemovalKnows BY <1>17 DEF StoredInv, PageKnows, FollowedPages
    <2>3. view.hydrated => view.doc = srv[at].doc /\ view.last = srv[at].doc
      BY <1>0, <2>2 DEF RemovalKnows, CardsKnown
    <2>4. page \notin Single /\ page \notin {"containers", "moves", "logs"} BY <1>17
    <2> QED BY <1>17, <2>1, <2>3, <2>4, Zenon DEF Agrees
  <1>18. CASE page \notin FollowedPages
    <2>1. page \notin Single BY <1>18 DEF FollowedPages
    <2>2. page \notin DatabasePages \cup TablesPages \cup ContainersPages BY <1>18 DEF FollowedPages
    <2>3. page \notin {"containers", "moves", "logs"} BY <2>2 DEF ContainersPages
    <2>4. page \notin TopologyPages BY <1>18 DEF FollowedPages, TopologyPages
    <2> QED BY <2>1, <2>2, <2>3, <2>4, Zenon DEF Agrees
  <1> QED
    BY <1>1, <1>2, <1>3, <1>4, <1>5, <1>6, <1>7, <1>8, <1>9, <1>10, <1>11, <1>12, <1>13,
       <1>14, <1>15, <1>16, <1>17, <1>18
    DEF FollowedPages

(* A page at rest says what is stored: in whatever order answers come, and *)
(* wherever the user goes in the meantime, what a page shows once nothing  *)
(* is out is what the server holds for it.  Not where cards are linked.     *)
THEOREM PagesKnow == PagesSpec => [](page # "cards" => KnowsWhatIsStored)
  <1>1. StoredInv => (page # "cards" => KnowsWhatIsStored) BY AtRest
  <1> QED BY <1>1, StoredInvariant, PTL

(* The settings of a database's backups are saved as its own: what a form  *)
(* that outlives a move holds cannot be sent before it is replaced.        *)
THEOREM SavedToOwn == PagesSpec => []SavedToItsOwnDatabase
  <1>1. StoredInv => SavedToItsOwnDatabase
    BY DEF StoredInv, PageKnows, FollowedPages, SavedToItsOwnDatabase, SettingsOwned, Owned, Of
  <1> QED BY <1>1, StoredInvariant, PTL

(* When the master switch is sent, what was chosen with it is stored.      *)
THEOREM MasterLast == PagesSpec => []MasterComesLast
  <1>1. StoredInv => MasterComesLast
    BY DEF StoredInv, PageKnows, FollowedPages, MasterComesLast, NotificationsKnows
  <1> QED BY <1>1, StoredInvariant, PTL

=============================================================================
