---------------------------- MODULE DatabasesProofs ----------------------------
(***************************************************************************)
(* What happens to a database, for any number of databases, branches,      *)
(* backups, restores, migrations, overlapping requests and crashes: its    *)
(* rows and containers, then its backups, then its public port, and at the *)
(* end all of it together.                                                 *)
(***************************************************************************)
EXTENDS MCDatabases, SequenceTheorems, TLAPS

-----------------------------------------------------------------------------
(***************************************************************************)
(* Rows and containers agree, and what was deleted stays deleted, for any  *)
(* number of databases, branches, overlapping requests and crashes.        *)
(*                                                                         *)
(* Neither is inductive.  What makes them so: ids and container names are  *)
(* fresh, so that nothing else touches a unit before its INSERT; and a     *)
(* deletion that still has a DELETE of a unit to do covers it.             *)
(***************************************************************************)
States == {"none", "up", "down"}
LifecycleRecs == [op : {"none", "create", "start", "stop", "restart", "delete", "switch", "read"},
         unit : Units \cup {NoUnit},
         at : {"idle", "make", "launch", "insert", "discard", "provision", "undo", "docker",
               "status", "inspect", "correct", "sweep", "force", "drop", "clear", "set"},
         name : Names \cup {NoName}, list : SUBSET Units, cur : Units \cup {NoUnit},
         seen : States]

Making(q) == q.op = "create" /\ q.at \in {"make", "launch", "insert"}
Creates(q, u) == q.op = "create" /\ q.unit = u /\ q.at \in {"make", "launch", "insert", "discard"}
Deletes(q, u) == q.op = "delete" /\ q.unit = u
Covers(q, u) == \/ Deletes(q, u)
                \/ u \in Branches /\ Deletes(q, Parent[u]) /\ q.at \in {"sweep", "force"}

(* Which handler has which steps, on which units.                          *)
Shape(q) ==
    /\ q.op = "create" => q.at \notin {"idle", "docker", "inspect", "correct", "sweep", "force", "drop",
                                       "clear", "set"}
    /\ q.at \in {"make", "launch", "insert", "discard", "undo"} => q.op = "create" /\ q.unit \in Units
    /\ q.at \in {"provision", "undo"} \/ (q.at = "status" /\ q.op = "create") => q.unit \in Databases
    /\ q.at \in {"sweep", "force", "drop"} <=> q.op = "delete"
    /\ q.op = "delete" => /\ q.unit \in Units
                          /\ \A u \in q.list : u = q.unit \/ (u \in Branches /\ Parent[u] = q.unit)
    /\ q.at = "force" => q.cur \in q.list
    /\ q.at = "drop" => q.unit \in Databases /\ q.list = {}
    /\ q.at \in {"docker", "status", "inspect", "correct"} => q.unit \in Units
    /\ q.at = "correct" => q.seen # "none"
    /\ q.at \in {"clear", "set"} => q.unit \in Branches

Known(q) == q.unit \in used \cup {NoUnit} /\ q.list \subseteq used

(* Nothing refers to a unit that was never created.                        *)
Fresh ==
    /\ \A u \in Units : row[u] # "none" \/ container[u] # "none" => u \in used
    /\ deleted \subseteq used
    /\ \A b \in Branches : b \in used => Parent[b] \in used

Unique ==
    \A r, s \in Requests :
        req[r].op = "create" /\ req[s].op = "create" /\ req[r].unit = req[s].unit => r = s

(* Before its INSERT a unit is its creation's alone.                       *)
Alone(q) ==
    /\ row[q.unit] = "none" /\ q.unit \notin deleted
    /\ container[q.unit] = "none" <=> q.at = "make"
    /\ \A b \in Branches : Parent[b] = q.unit => b \notin used
    /\ \A s \in Requests : req[s].op = "delete" => req[s].unit # q.unit /\ q.unit \notin req[s].list

Unborn == \A r \in Requests : Making(req[r]) => Alone(req[r])

Gone ==
    \A r \in Requests : req[r].at = "discard" => row[req[r].unit] = "none" \/ req[r].unit \in broken

RowsCovered ==
    \A u \in Units :
        row[u] # "none" /\ container[u] = "none" => u \in broken \/ \E r \in Requests : Covers(req[r], u)

ContainersCovered ==
    \A u \in Units :
        container[u] # "none" /\ row[u] = "none" =>
            \/ u \in broken
            \/ \E r \in Requests : Creates(req[r], u)
            \/ u \in Branches /\ row[Parent[u]] = "none"
            \/ u \in Branches /\ \E r \in Requests : Deletes(req[r], Parent[u])

Swept ==
    \A r \in Requests :
        req[r].op = "delete" /\ req[r].unit \notin req[r].list =>
            container[req[r].unit] = "none" \/ req[r].unit \in broken

LifecycleIInv ==
    /\ TypeOK
    /\ \A r \in Requests : Shape(req[r]) /\ Known(req[r])
    /\ Fresh /\ Unique /\ Unborn /\ Gone
    /\ RowsCovered /\ ContainersCovered /\ Swept
    /\ DeletedStaysDeleted

-----------------------------------------------------------------------------
LEMMA UnitFacts ==
    /\ Units = Databases \cup Branches /\ NoUnit \notin Units
    /\ \A b \in Branches : b \notin Databases /\ Parent[b] \in Databases
    /\ \A d \in Databases : d \notin Branches
  BY UnitsAssumption DEF Units

LEMMA LifecycleIdleFacts ==
    /\ Idle \in LifecycleRecs /\ Shape(Idle) /\ Known(Idle)
    /\ Idle.op = "none" /\ Idle.at = "idle" /\ Idle.unit = NoUnit /\ Idle.list = {}
  BY UnitFacts DEF Idle, LifecycleRecs, States, Shape, Known

LEMMA TypesFacts ==
    TypeOK <=> /\ row \in [Units -> States] /\ container \in [Units -> States]
               /\ name \in [Branches -> Names \cup {NoName}]
               /\ default \subseteq {b \in Branches : row[b] # "none"}
               /\ used \subseteq Units /\ req \in [Requests -> LifecycleRecs]
               /\ booting \subseteq Databases /\ bootFailed \in BOOLEAN
               /\ deleted \subseteq Databases /\ broken \subseteq Units /\ crashes \in 0..MaxCrashes
  BY DEF TypeOK, Exists, LifecycleRecs, States

LEMMA LifecycleInitOK == Init => LifecycleIInv
<1> SUFFICES ASSUME Init PROVE LifecycleIInv
  OBVIOUS
<1>1. TypeOK
  <2>1. row \in [Units -> States] /\ container \in [Units -> States]
        /\ name \in [Branches -> Names \cup {NoName}]
    BY DEF Init, States
  <2>2. req \in [Requests -> LifecycleRecs]
    BY LifecycleIdleFacts DEF Init
  <2>3. crashes \in 0..MaxCrashes
    BY BoundAssumption DEF Init
  <2>4. default = {} /\ used = {} /\ deleted = {} /\ broken = {} /\ booting = Databases
        /\ bootFailed = FALSE
    BY DEF Init
  <2> QED
    BY <2>1, <2>2, <2>3, <2>4, TypesFacts
<1>2. \A r \in Requests : req[r] = Idle
  BY DEF Init
<1>3. \A u \in Units : row[u] = "none" /\ container[u] = "none"
  BY DEF Init
<1>4. Fresh /\ DeletedStaysDeleted
  BY <1>3, UnitFacts DEF Init, Fresh, DeletedStaysDeleted
<1>5. Unique /\ Unborn /\ Gone /\ RowsCovered /\ ContainersCovered /\ Swept
  BY <1>2, <1>3, LifecycleIdleFacts DEF Unique, Unborn, Making, Gone, RowsCovered, ContainersCovered, Swept
<1> QED
  <2>1. \A r \in Requests : Shape(req[r]) /\ Known(req[r])
    BY <1>2, LifecycleIdleFacts
  <2> QED
    BY <1>1, <1>4, <1>5, <2>1 DEF LifecycleIInv

-----------------------------------------------------------------------------
(* All but four actions give no unit a row or a container that it did not  *)
(* have, and move requests forward: Removes and LifecycleFollows say what is enough *)
(* of them to keep the invariant.  q is a request before, s it after.      *)
Removes ==
    /\ used' = used /\ broken \subseteq broken' /\ deleted \subseteq deleted'
    /\ \A u \in Units :
          /\ row[u] = "none" => row'[u] = "none"
          /\ container[u] = "none" => container'[u] = "none"
          /\ row[u] # "none" /\ row'[u] = "none" =>
                \/ container'[u] = "none" \/ u \in broken'
                \/ \E r \in Requests : Creates(req'[r], u)
                \/ u \in Branches /\ \E r \in Requests : Deletes(req'[r], Parent[u])
          /\ container[u] # "none" /\ container'[u] = "none" =>
                /\ row'[u] = "none" \/ u \in broken' \/ \E r \in Requests : Covers(req'[r], u)
                /\ \A r \in Requests : Making(req'[r]) => req'[r].unit # u
    /\ \A d \in deleted' \ deleted :
          /\ d \in used /\ row'[d] = "none" /\ (container'[d] = "none" \/ d \in broken')
          /\ \A r \in Requests : Making(req'[r]) => req'[r].unit # d

LifecycleFollows(q, s) ==
    /\ s.op = "create" => q.op = "create" /\ s.unit = q.unit
    /\ Making(s) => Making(q) /\ (s.at = "make" <=> q.at = "make")
    /\ s.op = "delete" =>
          \/ /\ q.op = "delete" /\ s.unit = q.unit /\ s.list \subseteq q.list
             /\ s.unit \in q.list => \/ s.unit \in s.list
                                     \/ container'[s.unit] = "none" \/ s.unit \in broken'
          \/ /\ row[s.unit] # "none" /\ s.unit \in s.list
             /\ \A u \in s.list : row[u] # "none"
    /\ \A u \in Units : Covers(q, u) => Covers(s, u) \/ u \in broken' \/ row'[u] = "none"
    /\ \A u \in Branches :
          Deletes(q, Parent[u]) => Deletes(s, Parent[u]) \/ u \in broken' \/ row'[Parent[u]] = "none"
    /\ s.at = "discard" =>
          (q.at = "discard" /\ s.unit = q.unit) \/ row'[s.unit] = "none" \/ s.unit \in broken'
    /\ \A u \in Units :
          Creates(q, u) => Creates(s, u) \/ row'[u] # "none" \/ container'[u] = "none" \/ u \in broken'

LEMMA RemovalStep ==
    ASSUME LifecycleIInv, TypeOK', \A r \in Requests : Shape(req'[r]) /\ Known(req'[r]),
           Removes, \A r \in Requests : LifecycleFollows(req[r], req'[r])
    PROVE  LifecycleIInv'
<1>1. TypeOK /\ Fresh /\ Unique /\ Unborn /\ Gone /\ RowsCovered /\ ContainersCovered /\ Swept
      /\ DeletedStaysDeleted /\ \A r \in Requests : Shape(req[r]) /\ Known(req[r])
  BY DEF LifecycleIInv
<1>2. /\ used' = used /\ broken \subseteq broken' /\ deleted \subseteq deleted'
      /\ deleted \subseteq Units /\ deleted' \subseteq Units /\ used \subseteq Units
  <2>1. deleted \subseteq Databases /\ deleted' \subseteq Databases /\ used \subseteq Units
    BY <1>1 DEF TypeOK
  <2> QED
    BY <2>1, UnitFacts DEF Removes
<1>3. Fresh'
  BY <1>1, <1>2 DEF Fresh, Removes
<1>4. Unique'
  BY <1>1 DEF Unique, LifecycleFollows
<1>5. Unborn'
  <2>1. SUFFICES ASSUME NEW r \in Requests, Making(req'[r])
                 PROVE  /\ row'[req'[r].unit] = "none" /\ req'[r].unit \notin deleted'
                        /\ container'[req'[r].unit] = "none" <=> req'[r].at = "make"
                        /\ \A b \in Branches : Parent[b] = req'[r].unit => b \notin used'
                        /\ \A s \in Requests : req'[s].op = "delete" =>
                              req'[s].unit # req'[r].unit /\ req'[r].unit \notin req'[s].list
    BY DEF Unborn, Alone, Making
  <2>2. PICK u \in Units : u = req'[r].unit /\ u = req[r].unit
    BY <1>1, <2>1 DEF LifecycleFollows, Making, Shape
  <2>3. Alone(req[r])
    BY <1>1, <2>1 DEF LifecycleFollows, Unborn
  <2>4. row'[u] = "none" /\ u \notin deleted'
    BY <1>2, <2>1, <2>2, <2>3 DEF Removes, Alone
  <2>5. container'[u] = "none" <=> req'[r].at = "make"
    <3>1. req'[r].at = "make" <=> req[r].at = "make"
      BY <2>1 DEF LifecycleFollows
    <3>2. container[u] = "none" <=> req[r].at = "make"
      BY <2>2, <2>3 DEF Alone
    <3>3. container[u] # "none" => container'[u] # "none"
      BY <2>1, <2>2 DEF Removes
    <3> QED
      BY <3>1, <3>2, <3>3 DEF Removes
  <2>6. \A b \in Branches : Parent[b] = u => b \notin used'
    BY <1>2, <2>2, <2>3 DEF Alone
  <2>7. ASSUME NEW s \in Requests, req'[s].op = "delete" PROVE req'[s].unit # u /\ u \notin req'[s].list
    BY <2>2, <2>3, <2>7 DEF LifecycleFollows, Alone
  <2> QED
    BY <2>2, <2>4, <2>5, <2>6, <2>7
<1>6. Gone'
  <2>1. ASSUME NEW r \in Requests, req'[r].at = "discard"
        PROVE  row'[req'[r].unit] = "none" \/ req'[r].unit \in broken'
    <3>1. req'[r].unit \in Units
      BY <1>1, <2>1 DEF Shape
    <3> QED
      BY <1>1, <1>2, <2>1, <3>1 DEF LifecycleFollows, Gone, Removes
  <2> QED
    BY <2>1 DEF Gone
<1>7. RowsCovered'
  <2>1. ASSUME NEW u \in Units, row'[u] # "none", container'[u] = "none", u \notin broken'
        PROVE  \E r \in Requests : Covers(req'[r], u)
    <3>1. row[u] # "none" /\ u \notin broken
      BY <1>2, <2>1 DEF Removes
    <3>2. CASE container[u] # "none"
      BY <2>1, <3>2 DEF Removes
    <3>3. CASE container[u] = "none"
      <4>1. PICK r \in Requests : Covers(req[r], u)
        BY <1>1, <3>1, <3>3 DEF RowsCovered
      <4> QED
        BY <2>1, <4>1 DEF LifecycleFollows
    <3> QED
      BY <3>2, <3>3
  <2> QED
    BY <2>1 DEF RowsCovered, Covers, Deletes
<1>8. ContainersCovered'
  <2>1. ASSUME NEW u \in Units, container'[u] # "none", row'[u] = "none", u \notin broken',
               u \in Branches => row'[Parent[u]] # "none"
        PROVE  \/ \E r \in Requests : Creates(req'[r], u)
               \/ u \in Branches /\ \E r \in Requests : Deletes(req'[r], Parent[u])
    <3>1. container[u] # "none" /\ u \notin broken
      BY <1>2, <2>1 DEF Removes
    <3>2. CASE row[u] # "none"
      BY <2>1, <3>2 DEF Removes
    <3>3. CASE row[u] = "none" /\ \E r \in Requests : Creates(req[r], u)
      BY <2>1, <3>3 DEF LifecycleFollows
    <3>4. CASE u \in Branches /\ \E r \in Requests : Deletes(req[r], Parent[u])
      BY <2>1, <3>4 DEF LifecycleFollows
    <3>5. CASE u \in Branches /\ row[Parent[u]] = "none"
      BY <2>1, <3>5, UnitFacts DEF Removes
    <3> QED
      BY <1>1, <3>1, <3>2, <3>3, <3>4, <3>5 DEF ContainersCovered
  <2> QED
    BY <2>1 DEF ContainersCovered, Creates, Deletes
<1>9. Swept'
  <2>1. ASSUME NEW r \in Requests, req'[r].op = "delete", req'[r].unit \notin req'[r].list
        PROVE  container'[req'[r].unit] = "none" \/ req'[r].unit \in broken'
    <3>1. req'[r].unit \in Units
      BY <1>1, <2>1 DEF Shape
    <3>2. req[r].op = "delete" /\ req'[r].unit = req[r].unit
      BY <2>1 DEF LifecycleFollows
    <3>3. CASE req[r].unit \in req[r].list
      BY <2>1, <3>2, <3>3 DEF LifecycleFollows
    <3>4. CASE req[r].unit \notin req[r].list
      BY <1>1, <1>2, <3>1, <3>2, <3>4 DEF Swept, Removes
    <3> QED
      BY <3>3, <3>4
  <2> QED
    BY <2>1 DEF Swept
<1>10. DeletedStaysDeleted'
  <2>1. ASSUME NEW d \in deleted' PROVE row'[d] = "none" /\ (container'[d] = "none" \/ d \in broken')
    <3>1. CASE d \in deleted
      BY <1>1, <1>2, <3>1 DEF DeletedStaysDeleted, Exists, Removes
    <3>2. CASE d \notin deleted
      BY <2>1, <3>2 DEF Removes
    <3> QED
      BY <3>1, <3>2
  <2> QED
    BY <2>1 DEF DeletedStaysDeleted, Exists
<1>11. \A r \in Requests : (Shape(req[r]) /\ Known(req[r]))'
  BY <1>2 DEF Shape, Known
<1> QED
  BY <1>3, <1>4, <1>5, <1>6, <1>7, <1>8, <1>9, <1>10, <1>11 DEF LifecycleIInv

-----------------------------------------------------------------------------
(* One request moves.                                                      *)
Plain ==
    /\ row \in [Units -> States] /\ container \in [Units -> States]
    /\ name \in [Branches -> Names \cup {NoName}]
    /\ default \subseteq {b \in Branches : row[b] # "none"}
    /\ used \subseteq Units
    /\ booting \subseteq Databases /\ bootFailed \in BOOLEAN
    /\ deleted \subseteq Databases /\ broken \subseteq Units /\ crashes \in 0..MaxCrashes

LEMMA PlainTypes == TypeOK <=> Plain /\ req \in [Requests -> LifecycleRecs]
  BY TypesFacts DEF Plain

LEMMA FollowsItself == \A q : LifecycleFollows(q, q)
  BY DEF LifecycleFollows

LEMMA Moves ==
    ASSUME LifecycleIInv, Plain', NEW r \in Requests, NEW q \in LifecycleRecs, Shape(q), Known(q),
           req' = [req EXCEPT ![r] = q], Removes, LifecycleFollows(req[r], q)
    PROVE  LifecycleIInv'
<1>1. req \in [Requests -> LifecycleRecs] /\ \A s \in Requests : Shape(req[s]) /\ Known(req[s])
  BY PlainTypes DEF LifecycleIInv
<1>2. req' \in [Requests -> LifecycleRecs] /\ \A s \in Requests : req'[s] = IF s = r THEN q ELSE req[s]
  BY <1>1
<1>3. TypeOK'
  BY <1>2, PlainTypes DEF LifecycleRecs, Plain, TypeOK, Exists, States
<1>4. \A s \in Requests : Shape(req'[s]) /\ Known(req'[s]) /\ LifecycleFollows(req[s], req'[s])
  BY <1>1, <1>2, FollowsItself
<1> QED
  BY <1>3, <1>4, RemovalStep

(* Nothing appears and nothing goes.                                       *)
Kept ==
    /\ used' = used /\ deleted' = deleted /\ broken \subseteq broken'
    /\ \A u \in Units : row'[u] = "none" <=> row[u] = "none"
    /\ \A u \in Units : container'[u] = "none" <=> container[u] = "none"

LEMMA KeptRemoves == Kept => Removes
  BY DEF Kept, Removes

(* A request that neither makes a unit nor deletes one, before or after.   *)
LEMMA Bystander ==
    ASSUME NEW q, NEW s, q.op # "delete", s.op # "delete",
           q.at \notin {"make", "launch", "insert", "discard"},
           s.at \notin {"make", "launch", "insert", "discard"},
           s.op = "create" => q.op = "create" /\ s.unit = q.unit
    PROVE  LifecycleFollows(q, s)
  BY DEF LifecycleFollows, Making, Covers, Deletes, Creates

(* q is the request r when it has gone on to x.                            *)
Advance(r, x, q) ==
    /\ [req EXCEPT ![r].at = x] = [req EXCEPT ![r] = q]
    /\ q.at = x /\ q.op = req[r].op /\ q.unit = req[r].unit
    /\ q.list = req[r].list /\ q.seen = req[r].seen /\ q.cur = req[r].cur

LEMMA Advanced ==
    ASSUME TypeOK, NEW r \in Requests,
           NEW x \in {"launch", "insert", "discard", "provision", "undo", "status", "drop", "set"}
    PROVE  \E q \in LifecycleRecs : Advance(r, x, q)
<1> DEFINE q == [req[r] EXCEPT !.at = x]
<1>1. req[r] \in LifecycleRecs
  BY TypesFacts
<1>2. /\ q \in LifecycleRecs /\ q.at = x /\ q.op = req[r].op /\ q.unit = req[r].unit
      /\ q.list = req[r].list /\ q.seen = req[r].seen /\ q.cur = req[r].cur
  BY <1>1 DEF LifecycleRecs
<1>3. [req EXCEPT ![r].at = x] = [req EXCEPT ![r] = q]
  OBVIOUS
<1> HIDE DEF q
<1> QED
  BY <1>2, <1>3 DEF Advance

LEMMA Now ==
    ASSUME LifecycleIInv, NEW r \in Requests
    PROVE  /\ TypeOK /\ Plain /\ req \in [Requests -> LifecycleRecs] /\ req[r] \in LifecycleRecs
           /\ Shape(req[r]) /\ Known(req[r])
  BY PlainTypes DEF LifecycleIInv

-----------------------------------------------------------------------------
(* Requests arrive.                                                        *)
LEMMA ControlStep ==
    ASSUME LifecycleIInv, NEW r \in Requests, NEW u \in Units, NEW op \in {"start", "stop", "restart"},
           Control(r, op, u)
    PROVE  LifecycleIInv'
<1>1. TypeOK /\ Plain /\ u \in used
  BY PlainTypes DEF LifecycleIInv, Control, Exists, Fresh
<1> DEFINE q == [Idle EXCEPT !.op = op, !.unit = u, !.at = "docker"]
<1>2. q \in LifecycleRecs /\ q.op = op /\ q.unit = u /\ q.at = "docker" /\ q.list = {}
  BY LifecycleIdleFacts DEF LifecycleRecs
<1>3. /\ req' = [req EXCEPT ![r] = q] /\ req[r].at = "idle"
      /\ UNCHANGED <<row, name, default, container, booting, bootFailed, deleted, broken, crashes, used>>
  BY DEF Control, Begin, rows, boot, history
<1> HIDE DEF q
<1>4. Shape(q) /\ Known(q)
  BY <1>1, <1>2 DEF Shape, Known
<1>5. Plain' /\ Kept
  BY <1>1, <1>3 DEF Plain, Kept
<1>6. LifecycleFollows(req[r], q)
  BY <1>2, <1>3, Now, Bystander DEF Shape
<1> QED
  BY <1>2, <1>3, <1>4, <1>5, <1>6, KeptRemoves, Moves

LEMMA SwitchStep ==
    ASSUME LifecycleIInv, NEW r \in Requests, NEW u \in Branches, Switch(r, u)
    PROVE  LifecycleIInv'
<1>1. TypeOK /\ Plain /\ u \in used /\ u \in Units
  BY PlainTypes, UnitFacts DEF LifecycleIInv, Switch, Exists, Fresh
<1> DEFINE q == [Idle EXCEPT !.op = "switch", !.unit = u, !.at = "clear"]
<1>2. q \in LifecycleRecs /\ q.op = "switch" /\ q.unit = u /\ q.at = "clear" /\ q.list = {}
  BY <1>1, LifecycleIdleFacts DEF LifecycleRecs
<1>3. /\ req' = [req EXCEPT ![r] = q] /\ req[r].at = "idle"
      /\ UNCHANGED <<row, name, default, container, booting, bootFailed, deleted, broken, crashes, used>>
  BY DEF Switch, Begin, rows, boot, history
<1> HIDE DEF q
<1>4. Shape(q) /\ Known(q)
  BY <1>1, <1>2 DEF Shape, Known
<1>5. Plain' /\ Kept
  BY <1>1, <1>3 DEF Plain, Kept
<1>6. LifecycleFollows(req[r], q)
  BY <1>2, <1>3, Now, Bystander DEF Shape
<1> QED
  BY <1>2, <1>3, <1>4, <1>5, <1>6, KeptRemoves, Moves

LEMMA ReadRowStep ==
    ASSUME LifecycleIInv, NEW r \in Requests, NEW u \in Databases, ReadRow(r, u)
    PROVE  LifecycleIInv'
<1>1. TypeOK /\ Plain /\ u \in used /\ u \in Units
  BY PlainTypes, UnitFacts DEF LifecycleIInv, ReadRow, Exists, Fresh
<1> DEFINE q == [Idle EXCEPT !.op = "read", !.unit = u, !.at = "inspect", !.seen = row[u]]
<1>2. q \in LifecycleRecs /\ q.op = "read" /\ q.unit = u /\ q.at = "inspect" /\ q.list = {}
  <2>1. row[u] \in States
    BY <1>1 DEF Plain
  <2> QED
    BY <1>1, <2>1, LifecycleIdleFacts DEF LifecycleRecs
<1>3. /\ req' = [req EXCEPT ![r] = q] /\ req[r].at = "idle"
      /\ UNCHANGED <<row, name, default, container, booting, bootFailed, deleted, broken, crashes, used>>
  BY DEF ReadRow, At, rows, boot, history
<1> HIDE DEF q
<1>4. Shape(q) /\ Known(q)
  BY <1>1, <1>2 DEF Shape, Known
<1>5. Plain' /\ Kept
  BY <1>1, <1>3 DEF Plain, Kept
<1>6. LifecycleFollows(req[r], q)
  BY <1>2, <1>3, Now, Bystander DEF Shape
<1> QED
  BY <1>2, <1>3, <1>4, <1>5, <1>6, KeptRemoves, Moves

(* A deletion of u is accepted, with the units of list to sweep.           *)
Sweeps(r, u, list) ==
    /\ row[u] # "none" /\ u \in list
    /\ \A x \in list : row[x] # "none" /\ (x = u \/ (x \in Branches /\ Parent[x] = u))
    /\ req' = [req EXCEPT ![r] = [Idle EXCEPT !.op = "delete", !.unit = u, !.at = "sweep", !.list = list]]

LEMMA DeleteStep ==
    ASSUME LifecycleIInv, NEW r \in Requests,
           (\E d \in Databases : DeleteDatabase(r, d)) \/ (\E b \in Branches : DeleteBranch(r, b))
    PROVE  LifecycleIInv'
<1>1. PICK u \in Units, list \in SUBSET Units : Sweeps(r, u, list)
  <2>1. ASSUME NEW d \in Databases, DeleteDatabase(r, d) PROVE \E u \in Units, list \in SUBSET Units : Sweeps(r, u, list)
    <3> DEFINE list == {d} \cup {b \in BranchesOf(d) : Exists(b)}
    <3>1. d \in Units /\ list \in SUBSET Units /\ row[d] # "none" /\ d \in list
          /\ \A x \in list : row[x] # "none" /\ (x = d \/ (x \in Branches /\ Parent[x] = d))
      BY <2>1, UnitFacts DEF DeleteDatabase, Exists, BranchesOf
    <3>2. req' = [req EXCEPT ![r] = [Idle EXCEPT !.op = "delete", !.unit = d, !.at = "sweep", !.list = list]]
      BY <2>1 DEF DeleteDatabase
    <3> QED
      BY <3>1, <3>2 DEF Sweeps
  <2>2. ASSUME NEW b \in Branches, DeleteBranch(r, b) PROVE \E u \in Units, list \in SUBSET Units : Sweeps(r, u, list)
    <3> DEFINE list == {b}
    <3>1. b \in Units /\ list \in SUBSET Units /\ row[b] # "none" /\ b \in list
          /\ \A x \in list : row[x] # "none" /\ (x = b \/ (x \in Branches /\ Parent[x] = b))
      BY <2>2, UnitFacts DEF DeleteBranch, Exists
    <3>2. req' = [req EXCEPT ![r] = [Idle EXCEPT !.op = "delete", !.unit = b, !.at = "sweep", !.list = list]]
      BY <2>2 DEF DeleteBranch
    <3> QED
      BY <3>1, <3>2 DEF Sweeps
  <2> QED
    BY <2>1, <2>2
<1>2. TypeOK /\ Plain /\ u \in used /\ list \subseteq used
  BY <1>1, PlainTypes DEF LifecycleIInv, Fresh, Sweeps
<1> DEFINE q == [Idle EXCEPT !.op = "delete", !.unit = u, !.at = "sweep", !.list = list]
<1>3. q \in LifecycleRecs /\ q.op = "delete" /\ q.unit = u /\ q.at = "sweep" /\ q.list = list
  BY LifecycleIdleFacts DEF LifecycleRecs
<1>4. /\ req' = [req EXCEPT ![r] = q] /\ req[r].at = "idle"
      /\ UNCHANGED <<row, name, default, container, booting, bootFailed, deleted, broken, crashes, used>>
  BY <1>1 DEF Sweeps, DeleteDatabase, DeleteBranch, At, rows, boot, history
<1> HIDE DEF q
<1>5. Shape(q) /\ Known(q)
  BY <1>1, <1>2, <1>3 DEF Sweeps, Shape, Known
<1>6. Plain' /\ Kept
  BY <1>2, <1>4 DEF Plain, Kept
<1>7. req[r].op # "delete" /\ req[r].op # "create"
  BY <1>4, Now DEF Shape
<1>8. LifecycleFollows(req[r], q)
  BY <1>1, <1>3, <1>7 DEF Sweeps, LifecycleFollows, Making, Covers, Deletes, Creates
<1> QED
  BY <1>3, <1>4, <1>5, <1>6, <1>8, KeptRemoves, Moves

-----------------------------------------------------------------------------
(* Steps of requests that neither make a unit nor delete one.              *)
LEMMA WriteFacts ==
    ASSUME Plain, NEW u \in Units, NEW status \in {"up", "down"}, WriteStatus(u, status)
    PROVE  /\ row' \in [Units -> States]
           /\ \A x \in Units : row'[x] = "none" <=> row[x] = "none"
  BY DEF Plain, WriteStatus, Exists, States

LEMMA ReturnsPlain ==
    ASSUME LifecycleIInv, NEW r \in Requests, req[r].op # "delete", Return(r), Plain', Kept,
           req[r].at \notin {"make", "launch", "insert", "discard"}
    PROVE  LifecycleIInv'
<1>1. Idle \in LifecycleRecs /\ Shape(Idle) /\ Known(Idle) /\ LifecycleFollows(req[r], Idle)
  BY LifecycleIdleFacts, Bystander
<1> QED
  BY <1>1, KeptRemoves, Moves DEF Return

LEMMA GoesPlain ==
    ASSUME LifecycleIInv, NEW r \in Requests, NEW x \in {"provision", "undo", "status", "set"}, Go(r, x),
           Plain', Kept, req[r].op # "delete",
           req[r].at \notin {"make", "launch", "insert", "discard"},
           x = "undo" => req[r].op = "create",
           x \in {"provision", "undo"} => req[r].unit \in Databases,
           x = "status" => req[r].unit \in Units /\ (req[r].op = "create" => req[r].unit \in Databases),
           x = "set" => req[r].unit \in Branches /\ req[r].op # "create"
    PROVE  LifecycleIInv'
<1>1. PICK q \in LifecycleRecs : /\ req' = [req EXCEPT ![r] = q]
                                 /\ q.at = x /\ q.op = req[r].op /\ q.unit = req[r].unit
                                 /\ q.list = req[r].list /\ q.seen = req[r].seen /\ q.cur = req[r].cur
  <2>1. TypeOK /\ x \in {"launch", "insert", "discard", "provision", "undo", "status", "drop", "set"}
    BY Now
  <2>2. \E q \in LifecycleRecs : Advance(r, x, q)
    BY <2>1, Advanced
  <2> QED
    BY <2>2 DEF Go, Advance
<1>2. Shape(q) /\ Known(q)
  BY <1>1, Now, UnitFacts DEF Shape, Known
<1>3. LifecycleFollows(req[r], q)
  BY <1>1, Bystander
<1> QED
  BY <1>1, <1>2, <1>3, KeptRemoves, Moves

LEMMA ProvisionStep ==
    ASSUME LifecycleIInv, NEW r \in Requests, Provision(r)
    PROVE  LifecycleIInv'
<1>1. req[r].at = "provision" /\ req[r].op # "delete" /\ req[r].unit \in Databases
      /\ req[r].unit \in Units
  BY Now, UnitFacts DEF Provision, At, Shape
<1>2. Plain' /\ Kept
  <2>1. UNCHANGED <<row, name, default, container, booting, bootFailed, deleted, broken, crashes, used>>
    BY DEF Provision, rows, boot, history
  <2> QED
    BY <2>1, Now DEF Plain, Kept
<1>3. Go(r, "status") \/ (req[r].op = "create" /\ Go(r, "undo")) \/ Return(r)
  BY DEF Provision
<1> QED
  BY <1>1, <1>2, <1>3, ReturnsPlain, GoesPlain

LEMMA DockerCallStep ==
    ASSUME LifecycleIInv, NEW r \in Requests, DockerCall(r)
    PROVE  LifecycleIInv'
<1>1. req[r].at = "docker" /\ req[r].op # "delete" /\ req[r].op # "create" /\ req[r].unit \in Units
  BY Now DEF DockerCall, At, Shape
<1>2. UNCHANGED <<row, name, default, booting, bootFailed, deleted, broken, crashes, used>>
  BY DEF DockerCall, rows, boot, history
<1>3. \/ UNCHANGED container
      \/ \E now \in {"up", "down"} : container[req[r].unit] # "none"
                                      /\ container' = [container EXCEPT ![req[r].unit] = now]
  BY DEF DockerCall
<1>4. Plain' /\ Kept
  BY <1>1, <1>2, <1>3, Now DEF Plain, Kept, States
<1>5. \/ Return(r) \/ Go(r, "status")
      \/ req[r].unit \in Databases /\ Go(r, "provision")
  BY DEF DockerCall
<1> QED
  BY <1>1, <1>4, <1>5, ReturnsPlain, GoesPlain

LEMMA StatusSteps ==
    ASSUME LifecycleIInv, NEW r \in Requests, SetStatus(r) \/ CorrectStatus(r)
    PROVE  LifecycleIInv'
<1>1. req[r].at \in {"status", "correct"} /\ req[r].op # "delete" /\ req[r].unit \in Units
      /\ (req[r].at = "correct" => req[r].seen \in {"up", "down"})
  <2>1. req[r].seen \in States
    BY Now DEF LifecycleRecs
  <2> QED
    BY <2>1, Now DEF SetStatus, CorrectStatus, At, Shape, States
<1>2. UNCHANGED <<name, default, container, booting, bootFailed, deleted, broken, crashes, used>>
      /\ Return(r)
  BY DEF SetStatus, CorrectStatus, rows, boot, history
<1>3. UNCHANGED row \/ \E status \in {"up", "down"} : WriteStatus(req[r].unit, status)
  BY <1>1 DEF SetStatus, CorrectStatus, At
<1>4. row' \in [Units -> States] /\ \A x \in Units : row'[x] = "none" <=> row[x] = "none"
  BY <1>1, <1>3, Now, WriteFacts DEF Plain
<1>5. Plain' /\ Kept
  BY <1>2, <1>4, Now, UnitFacts DEF Plain, Kept
<1> QED
  BY <1>1, <1>2, <1>5, ReturnsPlain

LEMMA InspectStep ==
    ASSUME LifecycleIInv, NEW r \in Requests, InspectContainer(r)
    PROVE  LifecycleIInv'
<1>1. req[r].at = "inspect" /\ req[r].op # "delete" /\ req[r].op # "create" /\ req[r].unit \in Units
  BY Now DEF InspectContainer, At, Shape
<1>2. Plain' /\ Kept
  <2>1. UNCHANGED <<row, name, default, container, booting, bootFailed, deleted, broken, crashes, used>>
    BY DEF InspectContainer, rows, boot, history
  <2> QED
    BY <2>1, Now DEF Plain, Kept
<1> DEFINE now == container[req[r].unit]
           q == [req[r] EXCEPT !.at = "correct", !.seen = now]
<1>3. CASE Return(r)
  BY <1>1, <1>2, <1>3, ReturnsPlain
<1>4. CASE now # "none" /\ req' = [req EXCEPT ![r].at = "correct", ![r].seen = now]
  <2>1. now \in States
    BY <1>1, Now DEF Plain
  <2>2. q \in LifecycleRecs /\ q.op = req[r].op /\ q.unit = req[r].unit /\ q.list = req[r].list
        /\ q.cur = req[r].cur /\ q.at = "correct" /\ q.seen = now
    BY <2>1, Now DEF LifecycleRecs
  <2>3. req' = [req EXCEPT ![r] = q]
    BY <1>4
  <2> HIDE DEF q
  <2>4. Shape(q) /\ Known(q)
    BY <1>1, <1>4, <2>2, Now DEF Shape, Known
  <2>5. LifecycleFollows(req[r], q)
    BY <1>1, <2>2, Bystander
  <2> QED
    BY <1>2, <2>2, <2>3, <2>4, <2>5, KeptRemoves, Moves
<1> QED
  BY <1>3, <1>4 DEF InspectContainer

LEMMA DefaultSteps ==
    ASSUME LifecycleIInv, NEW r \in Requests, ClearDefault(r) \/ SetDefault(r)
    PROVE  LifecycleIInv'
<1>1. req[r].at \in {"clear", "set"} /\ req[r].op # "delete" /\ req[r].op # "create"
      /\ req[r].unit \in Branches
  BY Now DEF ClearDefault, SetDefault, At, Shape
<1>2. UNCHANGED <<row, name, container, booting, bootFailed, deleted, broken, crashes, used>>
  BY DEF ClearDefault, SetDefault, rows, boot, history
<1>3. default' \subseteq {b \in Branches : row[b] # "none"}
  BY <1>1, Now DEF ClearDefault, SetDefault, Plain, Exists
<1>4. Plain' /\ Kept
  BY <1>2, <1>3, Now DEF Plain, Kept
<1>5. Return(r) \/ Go(r, "set")
  BY DEF ClearDefault, SetDefault
<1> QED
  BY <1>1, <1>4, <1>5, ReturnsPlain, GoesPlain

-----------------------------------------------------------------------------
(* Steps of creations that bring nothing about.                            *)
LEMMA CreationFacts ==
    ASSUME LifecycleIInv, NEW r \in Requests, req[r].at \in {"make", "launch", "insert", "discard", "undo"}
    PROVE  /\ req[r].op = "create" /\ req[r].unit \in Units /\ req[r].unit \in used
           /\ req[r].at \in {"make", "launch", "insert"} => Making(req[r]) /\ Alone(req[r])
           /\ req[r].at = "discard" => row[req[r].unit] = "none" \/ req[r].unit \in broken
           /\ \A s \in Requests : req[s].op = "create" /\ req[s].unit = req[r].unit => s = r
<1>1. req[r].op = "create" /\ req[r].unit \in Units /\ req[r].unit \in used
  BY Now, UnitFacts DEF Shape, Known
<1>2. req[r].at \in {"make", "launch", "insert"} => Making(req[r]) /\ Alone(req[r])
  BY <1>1 DEF Making, LifecycleIInv, Unborn
<1>3. req[r].at = "discard" => row[req[r].unit] = "none" \/ req[r].unit \in broken
  BY DEF LifecycleIInv, Gone
<1>4. \A s \in Requests : req[s].op = "create" /\ req[s].unit = req[r].unit => s = r
  BY <1>1 DEF LifecycleIInv, Unique
<1> QED
  BY <1>1, <1>2, <1>3, <1>4

(* The creation gives up; what it made is gone or is left behind.          *)
LEMMA GivesUp ==
    ASSUME LifecycleIInv, NEW r \in Requests, Plain', Removes, Return(r),
           req[r].at \in {"make", "insert", "discard"},
           container'[req[r].unit] = "none" \/ req[r].unit \in broken'
    PROVE  LifecycleIInv'
<1>1. req[r].op = "create"
  BY CreationFacts
<1>2. LifecycleFollows(req[r], Idle)
  BY <1>1, LifecycleIdleFacts DEF LifecycleFollows, Making, Covers, Deletes, Creates
<1> QED
  BY <1>2, LifecycleIdleFacts, Moves DEF Return

(* The creation goes on to remove its container.                           *)
LEMMA GoesToDiscard ==
    ASSUME LifecycleIInv, NEW r \in Requests, Plain', Removes, Go(r, "discard"),
           req[r].at \in {"launch", "insert", "undo"},
           row'[req[r].unit] = "none" \/ req[r].unit \in broken'
    PROVE  LifecycleIInv'
<1>1. req[r].op = "create" /\ req[r].unit \in Units
  BY CreationFacts
<1>2. PICK q \in LifecycleRecs : Advance(r, "discard", q)
  BY Now, Advanced
<1>3. q.at = "discard" /\ q.op = "create" /\ q.unit = req[r].unit /\ q.list = req[r].list
      /\ req' = [req EXCEPT ![r] = q]
  BY <1>1, <1>2 DEF Advance, Go
<1>4. Shape(q) /\ Known(q)
  BY <1>1, <1>3, Now DEF Shape, Known
<1>5. LifecycleFollows(req[r], q)
  BY <1>1, <1>3 DEF LifecycleFollows, Making, Covers, Deletes, Creates
<1> QED
  BY <1>3, <1>4, <1>5, Moves

LEMMA MakeFails ==
    ASSUME LifecycleIInv, NEW r \in Requests, At(r, "make"), Return(r),
           UNCHANGED <<rows, container, used, boot, history, crashes>>
    PROVE  LifecycleIInv'
<1>1. req[r].at = "make" /\ container[req[r].unit] = "none"
  BY CreationFacts DEF At, Alone
<1>2. Plain' /\ Kept
  BY Now DEF Plain, Kept, rows, boot, history
<1>3. container'[req[r].unit] = "none"
  BY <1>1
<1> QED
  BY <1>1, <1>2, <1>3, KeptRemoves, GivesUp

LEMMA LaunchStep ==
    ASSUME LifecycleIInv, NEW r \in Requests, Launch(r)
    PROVE  LifecycleIInv'
<1>1. req[r].at = "launch" /\ req[r].op = "create" /\ req[r].unit \in Units
      /\ Making(req[r]) /\ Alone(req[r])
  BY CreationFacts DEF Launch, At
<1>2. UNCHANGED <<row, name, default, booting, bootFailed, deleted, broken, crashes, used>>
  BY DEF Launch, rows, boot, history
<1>3. CASE container' = [container EXCEPT ![req[r].unit] = "up"] /\ Go(r, "insert")
  <2>1. container[req[r].unit] # "none"
    BY <1>1 DEF Alone
  <2>2. Plain' /\ Kept
    BY <1>1, <1>2, <1>3, <2>1, Now DEF Plain, Kept, States
  <2>3. PICK q \in LifecycleRecs : Advance(r, "insert", q)
    BY Now, Advanced
  <2>4. q.at = "insert" /\ q.op = "create" /\ q.unit = req[r].unit /\ q.list = req[r].list
        /\ req' = [req EXCEPT ![r] = q]
    BY <1>1, <1>3, <2>3 DEF Advance, Go
  <2>5. Shape(q) /\ Known(q)
    BY <1>1, <2>4, Now DEF Shape, Known
  <2>6. LifecycleFollows(req[r], q)
    BY <1>1, <2>4 DEF LifecycleFollows, Making, Covers, Deletes, Creates
  <2> QED
    BY <2>2, <2>4, <2>5, <2>6, KeptRemoves, Moves
<1>4. CASE Go(r, "discard") /\ UNCHANGED container
  <2>1. Plain' /\ Kept
    BY <1>2, <1>4, Now DEF Plain, Kept
  <2>2. row'[req[r].unit] = "none"
    BY <1>1, <1>2 DEF Alone
  <2> QED
    BY <1>1, <1>4, <2>1, <2>2, KeptRemoves, GoesToDiscard
<1> QED
  BY <1>3, <1>4 DEF Launch

(* The INSERT fails.                                                       *)
LEMMA InsertFails ==
    ASSUME LifecycleIInv, NEW r \in Requests, At(r, "insert"),
           \/ Go(r, "discard") /\ UNCHANGED broken
           \/ Return(r) /\ broken' = broken \cup {req[r].unit},
           UNCHANGED <<row, name, container, default, used, boot, deleted, crashes>>
    PROVE  LifecycleIInv'
<1>1. req[r].at = "insert" /\ req[r].unit \in Units /\ row[req[r].unit] = "none"
  BY CreationFacts DEF At, Alone
<1>2. Plain' /\ Kept
  BY <1>1, Now DEF Plain, Kept, boot
<1>3. CASE Go(r, "discard")
  BY <1>1, <1>2, <1>3, KeptRemoves, GoesToDiscard
<1>4. CASE Return(r) /\ broken' = broken \cup {req[r].unit}
  BY <1>1, <1>2, <1>4, KeptRemoves, GivesUp
<1> QED
  BY <1>3, <1>4

LEMMA DiscardStep ==
    ASSUME LifecycleIInv, NEW r \in Requests, Discard(r)
    PROVE  LifecycleIInv'
<1>1. req[r].at = "discard" /\ req[r].op = "create" /\ req[r].unit \in Units
      /\ (row[req[r].unit] = "none" \/ req[r].unit \in broken)
      /\ \A s \in Requests : req[s].op = "create" /\ req[s].unit = req[r].unit => s = r
  BY CreationFacts DEF Discard, At
<1>2. UNCHANGED <<row, name, default, booting, bootFailed, deleted, crashes, used>> /\ Return(r)
  BY DEF Discard, rows, boot
<1>3. CASE container' = [container EXCEPT ![req[r].unit] = "none"] /\ UNCHANGED broken
  <2>1. Plain'
    BY <1>1, <1>2, <1>3, Now DEF Plain, States
  <2>2. \A s \in Requests : Making(req'[s]) => req'[s].unit # req[r].unit
    BY <1>1, <1>2, Now, LifecycleIdleFacts DEF Return, Making
  <2>3. Removes
    BY <1>1, <1>2, <1>3, <2>2, Now DEF Removes, Plain
  <2>4. container'[req[r].unit] = "none"
    BY <1>1, <1>3, Now DEF Plain
  <2> QED
    BY <1>1, <1>2, <2>1, <2>3, <2>4, GivesUp
<1>4. CASE broken' = broken \cup {req[r].unit} /\ UNCHANGED container
  <2>1. Plain' /\ Kept
    BY <1>1, <1>2, <1>4, Now DEF Plain, Kept
  <2> QED
    BY <1>1, <1>2, <1>4, <2>1, KeptRemoves, GivesUp
<1> QED
  BY <1>3, <1>4 DEF Discard

LEMMA UndoStep ==
    ASSUME LifecycleIInv, NEW r \in Requests, Undo(r)
    PROVE  LifecycleIInv'
<1>1. req[r].at = "undo" /\ req[r].op = "create" /\ req[r].unit \in Units /\ req[r].unit \in Databases
  BY Now, CreationFacts DEF Undo, At, Shape
<1>2. UNCHANGED <<container, name, default, booting, bootFailed, deleted, crashes, used>>
      /\ Go(r, "discard")
  BY DEF Undo, boot
<1>3. CASE row' = [row EXCEPT ![req[r].unit] = "none"] /\ UNCHANGED broken
  <2>1. row' \in [Units -> States] /\ \A u \in Units : row'[u] = IF u = req[r].unit THEN "none" ELSE row[u]
    BY <1>1, <1>3, Now DEF Plain, States
  <2>2. default \subseteq {b \in Branches : row'[b] # "none"}
    BY <1>1, <2>1, Now, UnitFacts DEF Plain
  <2>3. Plain'
    BY <1>2, <1>3, <2>1, <2>2, Now DEF Plain
  <2>4. PICK q \in LifecycleRecs : Advance(r, "discard", q)
    BY Now, Advanced
  <2>5. Creates(req'[r], req[r].unit)
    BY <1>1, <1>2, <2>4, Now DEF Advance, Go, Creates
  <2>6. Removes
    BY <1>2, <1>3, <2>1, <2>5 DEF Removes
  <2> QED
    BY <1>1, <1>2, <2>1, <2>3, <2>6, GoesToDiscard
<1>4. CASE broken' = broken \cup {req[r].unit} /\ UNCHANGED row
  <2>1. Plain' /\ Kept
    BY <1>1, <1>2, <1>4, Now DEF Plain, Kept
  <2> QED
    BY <1>1, <1>2, <1>4, <2>1, KeptRemoves, GoesToDiscard
<1> QED
  BY <1>3, <1>4 DEF Undo

-----------------------------------------------------------------------------
(* Deletions.                                                              *)
LEMMA DeletionFacts ==
    ASSUME LifecycleIInv, NEW r \in Requests, req[r].at \in {"sweep", "force", "drop"}
    PROVE  /\ req[r].op = "delete" /\ req[r].unit \in Units /\ req[r].list \in SUBSET Units
           /\ \A u \in req[r].list : u = req[r].unit \/ (u \in Branches /\ Parent[u] = req[r].unit)
           /\ req[r].unit \notin req[r].list =>
                 container[req[r].unit] = "none" \/ req[r].unit \in broken
           /\ \A s \in Requests : Making(req[s]) => req[s].unit # req[r].unit /\ req[s].unit \notin req[r].list
<1>1. req[r].op = "delete" /\ req[r].unit \in Units
      /\ \A u \in req[r].list : u = req[r].unit \/ (u \in Branches /\ Parent[u] = req[r].unit)
  BY Now DEF Shape
<1>2. req[r].list \in SUBSET Units
  BY Now DEF LifecycleRecs
<1>3. req[r].unit \notin req[r].list => container[req[r].unit] = "none" \/ req[r].unit \in broken
  BY <1>1 DEF LifecycleIInv, Swept
<1>4. \A s \in Requests : Making(req[s]) => req[s].unit # req[r].unit /\ req[s].unit \notin req[r].list
  BY <1>1 DEF LifecycleIInv, Unborn, Alone
<1> QED
  BY <1>1, <1>2, <1>3, <1>4

LEMMA StopListedStep ==
    ASSUME LifecycleIInv, NEW r \in Requests, NEW u \in Units, StopListed(r, u)
    PROVE  LifecycleIInv'
<1>1. req[r].at = "sweep" /\ req[r].op = "delete" /\ req[r].unit \in Units /\ u \in req[r].list
  BY DeletionFacts DEF StopListed, At
<1>2. UNCHANGED <<row, name, default, booting, bootFailed, deleted, broken, crashes, used>>
  BY DEF StopListed, rows, boot, history
<1>3. Plain' /\ Kept
  BY <1>2, Now DEF StopListed, Plain, Kept, States
<1> DEFINE q == [req[r] EXCEPT !.at = "force", !.cur = u]
<1>4. q \in LifecycleRecs /\ q.op = "delete" /\ q.unit = req[r].unit /\ q.list = req[r].list
      /\ q.cur = u /\ q.at = "force"
  BY <1>1, Now DEF LifecycleRecs
<1>5. req' = [req EXCEPT ![r] = q]
  BY DEF StopListed
<1> HIDE DEF q
<1>6. Shape(q) /\ Known(q)
  BY <1>1, <1>4, Now DEF Shape, Known
<1>7. LifecycleFollows(req[r], q)
  BY <1>1, <1>4 DEF LifecycleFollows, Making, Covers, Deletes, Creates
<1> QED
  BY <1>3, <1>4, <1>5, <1>6, <1>7, KeptRemoves, Moves

LEMMA RemoveListedStep ==
    ASSUME LifecycleIInv, NEW r \in Requests, RemoveListed(r)
    PROVE  LifecycleIInv'
<1> DEFINE u == req[r].cur
           q == [req[r] EXCEPT !.at = "sweep", !.list = @ \ {u}, !.cur = NoUnit]
<1>1. req[r].at = "force" /\ req[r].op = "delete" /\ req[r].unit \in Units /\ req[r].list \in SUBSET Units
      /\ u \in req[r].list /\ u \in Units
      /\ (u = req[r].unit \/ (u \in Branches /\ Parent[u] = req[r].unit))
  BY Now, DeletionFacts DEF RemoveListed, At, Shape
<1>2. UNCHANGED <<row, name, default, booting, bootFailed, deleted, crashes, used>>
      /\ req' = [req EXCEPT ![r] = q]
  BY DEF RemoveListed, rows, boot
<1>3. q \in LifecycleRecs /\ q.op = "delete" /\ q.unit = req[r].unit /\ q.list = req[r].list \ {u}
      /\ q.at = "sweep"
  BY <1>1, Now DEF LifecycleRecs
<1> HIDE DEF q
<1>4. Shape(q) /\ Known(q)
  BY <1>1, <1>3, Now DEF Shape, Known
<1>5. req'[r] = q /\ \A s \in Requests : s # r => req'[s] = req[s]
  BY <1>2, Now
<1>6. ASSUME container'[u] = "none" \/ u \in broken'
      PROVE  LifecycleFollows(req[r], q)
  BY <1>1, <1>3, <1>6 DEF LifecycleFollows, Making, Covers, Deletes, Creates
<1>7. CASE container' = [container EXCEPT ![u] = "none"] /\ UNCHANGED broken
  <2>1. Plain'
    BY <1>1, <1>2, <1>7, Now DEF Plain, States
  <2>2. \A s \in Requests : Making(req'[s]) => req'[s].unit # u
    BY <1>1, <1>3, <1>5, DeletionFacts DEF Making
  <2>3. Covers(req'[r], u)
    BY <1>1, <1>3, <1>5 DEF Covers, Deletes
  <2>4. Removes
    BY <1>1, <1>2, <1>7, <2>2, <2>3, Now DEF Removes, Plain
  <2>5. container'[u] = "none"
    BY <1>1, <1>7, Now DEF Plain
  <2> QED
    BY <1>2, <1>3, <1>4, <1>6, <2>1, <2>4, <2>5, Moves
<1>8. CASE broken' = broken \cup {u} /\ UNCHANGED container
  <2>1. Plain' /\ Kept
    BY <1>1, <1>2, <1>8, Now DEF Plain, Kept
  <2> QED
    BY <1>2, <1>3, <1>4, <1>6, <1>8, <2>1, KeptRemoves, Moves
<1> QED
  BY <1>7, <1>8 DEF RemoveListed

LEMMA DropBranchesStep ==
    ASSUME LifecycleIInv, NEW r \in Requests, DropBranches(r)
    PROVE  LifecycleIInv'
<1> DEFINE u == req[r].unit
           gone == IF u \in Databases THEN BranchesOf(u) ELSE {u}
<1>1. req[r].at = "sweep" /\ req[r].op = "delete" /\ u \in Units /\ req[r].list = {}
      /\ (container[u] = "none" \/ u \in broken)
  BY DeletionFacts DEF DropBranches, At
<1>2. UNCHANGED <<container, booting, bootFailed, deleted, crashes, used>>
  BY DEF DropBranches, boot
<1>3. gone \subseteq Branches /\ gone \subseteq Units
      /\ \A x \in Branches : Parent[x] = u => u \in Databases /\ x \in gone
  BY <1>1, UnitFacts DEF BranchesOf
<1>4. PICK q \in LifecycleRecs : /\ req' = [req EXCEPT ![r] = q] /\ Shape(q) /\ Known(q)
                                 /\ IF u \in Databases THEN q.op = "delete" /\ q.unit = u /\ q.list = {} /\ q.at = "drop"
                                    ELSE q = Idle
  <2>1. CASE u \in Databases
    <3>1. PICK q \in LifecycleRecs : Advance(r, "drop", q)
      BY Now, Advanced
    <3>2. q.op = "delete" /\ q.unit = u /\ q.list = {} /\ q.at = "drop" /\ req' = [req EXCEPT ![r] = q]
      BY <1>1, <2>1, <3>1 DEF DropBranches, Advance, Go
    <3>3. Shape(q) /\ Known(q)
      BY <1>1, <2>1, <3>2, Now DEF Shape, Known
    <3> QED
      BY <2>1, <3>2, <3>3
  <2>2. CASE u \notin Databases
    <3>1. req' = [req EXCEPT ![r] = Idle]
      BY <2>2 DEF DropBranches, Return
    <3> QED
      BY <2>2, <3>1, LifecycleIdleFacts
  <2> QED
    BY <2>1, <2>2
<1>5. req'[r] = q
  BY <1>4, Now
<1>6. ASSUME broken \subseteq broken', \A x \in gone : row'[x] = "none" \/ x \in broken'
      PROVE  LifecycleFollows(req[r], q)
  <2>1. CASE u \in Databases
    BY <1>1, <1>3, <1>4, <1>6, <2>1 DEF LifecycleFollows, Making, Covers, Deletes, Creates
  <2>2. CASE u \notin Databases
    BY <1>1, <1>3, <1>4, <1>6, <2>2, LifecycleIdleFacts DEF LifecycleFollows, Making, Covers, Deletes, Creates
  <2> QED
    BY <2>1, <2>2
<1>7. CASE /\ row' = [x \in Units |-> IF x \in gone THEN "none" ELSE row[x]]
           /\ name' = [b \in Branches |-> IF b \in gone THEN NoName ELSE name[b]]
           /\ default' = default \ gone
           /\ UNCHANGED broken
  <2>1. row' \in [Units -> States] /\ \A x \in Units : row'[x] = IF x \in gone THEN "none" ELSE row[x]
    BY <1>7, Now DEF Plain, States
  <2>2. default' \subseteq {b \in Branches : row'[b] # "none"}
    BY <1>7, <2>1, Now, UnitFacts DEF Plain
  <2>3. Plain'
    BY <1>2, <1>7, <2>1, <2>2, Now DEF Plain
  <2>4. \A x \in gone : container[x] = "none" \/ x \in broken
                        \/ (x \in Branches /\ Deletes(req'[r], Parent[x]))
    BY <1>1, <1>3, <1>4, <1>5 DEF Deletes, BranchesOf
  <2>5. Removes
    BY <1>2, <1>7, <2>1, <2>4 DEF Removes
  <2>6. \A x \in gone : row'[x] = "none"
    BY <1>3, <2>1
  <2> QED
    BY <1>4, <1>6, <1>7, <2>3, <2>5, <2>6, Moves
<1>8. CASE broken' = broken \cup gone /\ UNCHANGED <<row, name, default>>
  <2>1. Plain' /\ Kept
    BY <1>2, <1>3, <1>8, Now DEF Plain, Kept
  <2> QED
    BY <1>4, <1>6, <1>8, <2>1, KeptRemoves, Moves
<1> QED
  BY <1>7, <1>8 DEF DropBranches, rows

LEMMA DropDatabaseStep ==
    ASSUME LifecycleIInv, NEW r \in Requests, DropDatabase(r)
    PROVE  LifecycleIInv'
<1> DEFINE d == req[r].unit
<1>1. req[r].at = "drop" /\ req[r].op = "delete" /\ d \in Databases /\ d \in Units /\ d \in used
      /\ req[r].list = {} /\ (container[d] = "none" \/ d \in broken)
      /\ \A s \in Requests : Making(req[s]) => req[s].unit # d
  <2>1. req[r].at = "drop"
    BY DEF DropDatabase, At
  <2>2. d \in Databases /\ req[r].list = {} /\ Known(req[r])
    BY <2>1, Now DEF Shape
  <2> QED
    BY <2>1, <2>2, DeletionFacts, UnitFacts DEF Known
<1>2. UNCHANGED <<name, default, container, booting, bootFailed, crashes, used>>
      /\ req' = [req EXCEPT ![r] = Idle]
  BY DEF DropDatabase, boot, Return
<1>3. ASSUME \A x \in Units : x = d \/ (x \in Branches /\ Parent[x] = d) =>
                                x \in broken' \/ row'[d] = "none"
      PROVE  LifecycleFollows(req[r], Idle)
  BY <1>1, <1>3, LifecycleIdleFacts, UnitFacts DEF LifecycleFollows, Making, Covers, Deletes, Creates
<1>4. CASE row' = [row EXCEPT ![d] = "none"] /\ deleted' = deleted \cup {d} /\ UNCHANGED broken
  <2>1. row' \in [Units -> States] /\ \A x \in Units : row'[x] = IF x = d THEN "none" ELSE row[x]
    BY <1>1, <1>4, Now DEF Plain, States
  <2>2. default \subseteq {b \in Branches : row'[b] # "none"}
    BY <1>1, <2>1, Now, UnitFacts DEF Plain
  <2>3. Plain'
    BY <1>1, <1>2, <1>4, <2>1, <2>2, Now DEF Plain
  <2>4. \A s \in Requests : Making(req'[s]) => req'[s].unit # d
    BY <1>1, <1>2, Now, LifecycleIdleFacts DEF Making
  <2>5. Removes
    BY <1>1, <1>2, <1>4, <2>1, <2>4 DEF Removes
  <2> QED
    BY <1>1, <1>2, <1>3, <2>1, <2>3, <2>5, LifecycleIdleFacts, Moves
<1>5. CASE broken' = broken \cup {d} \cup BranchesOf(d) /\ UNCHANGED <<row, deleted>>
  <2>1. Plain' /\ Kept
    BY <1>1, <1>2, <1>5, Now, UnitFacts DEF Plain, Kept, BranchesOf
  <2>2. \A x \in Units : x = d \/ (x \in Branches /\ Parent[x] = d) => x \in broken'
    BY <1>5 DEF BranchesOf
  <2> QED
    BY <1>2, <1>3, <2>1, <2>2, LifecycleIdleFacts, KeptRemoves, Moves
<1> QED
  BY <1>4, <1>5 DEF DropDatabase

-----------------------------------------------------------------------------
(* Steps that no request takes.                                            *)
LEMMA ProcessSteps ==
    ASSUME LifecycleIInv, (\E u \in Units : ToggleContainer(u)) \/ (\E d \in Databases : Visit(d)) \/ ExitAndRestart
    PROVE  LifecycleIInv'
<1>0. TypeOK /\ Plain
  BY PlainTypes DEF LifecycleIInv
<1>1. Plain' /\ Kept /\ UNCHANGED req
  <2>1. ASSUME NEW u \in Units, ToggleContainer(u) PROVE Plain' /\ Kept /\ UNCHANGED req
    BY <1>0, <2>1 DEF ToggleContainer, Plain, Kept, States, rows, boot, history
  <2>2. ASSUME NEW d \in Databases, Visit(d) PROVE Plain' /\ Kept /\ UNCHANGED req
    <3>1. UNCHANGED <<name, default, container, used, req, deleted, broken, crashes>>
          /\ booting' \subseteq Databases /\ bootFailed' \in BOOLEAN
      BY <1>0, <2>2 DEF Visit, history, Plain
    <3>2. UNCHANGED row \/ WriteStatus(d, "up")
      BY <2>2 DEF Visit
    <3>3. row' \in [Units -> States] /\ \A x \in Units : row'[x] = "none" <=> row[x] = "none"
      BY <1>0, <3>2, WriteFacts, UnitFacts DEF Plain
    <3> QED
      BY <1>0, <3>1, <3>3, UnitFacts DEF Plain, Kept
  <2>3. ASSUME ExitAndRestart PROVE Plain' /\ Kept /\ UNCHANGED req
    BY <1>0, <2>3 DEF ExitAndRestart, Plain, Kept, rows, history
  <2> QED
    BY <2>1, <2>2, <2>3
<1>2. TypeOK'
  BY <1>0, <1>1, PlainTypes DEF Plain, TypeOK, Exists, States, LifecycleRecs
<1>3. \A r \in Requests : Shape(req'[r]) /\ Known(req'[r])
  BY <1>1 DEF LifecycleIInv
<1>4. \A r \in Requests : LifecycleFollows(req[r], req'[r])
  BY <1>1, FollowsItself
<1> QED
  BY <1>1, <1>2, <1>3, <1>4, KeptRemoves, RemovalStep

LEMMA LifecycleCrashStep ==
    ASSUME LifecycleIInv, Crash
    PROVE  LifecycleIInv'
<1>1. TypeOK /\ Plain /\ \A r \in Requests : Shape(req[r])
  BY PlainTypes DEF LifecycleIInv
<1>2. UNCHANGED <<row, name, default, container, used, deleted>> /\ booting' = Databases
      /\ bootFailed' = FALSE /\ crashes' \in 0..MaxCrashes
      /\ broken' = broken \cup {u \in Units : \E r \in Requests : WorksOn(r, u)}
      /\ req' = [r \in Requests |-> Idle]
  BY <1>1, BoundAssumption DEF Crash, rows, Plain
<1>3. Plain' /\ Kept
  BY <1>1, <1>2 DEF Plain, Kept
<1>4. TypeOK'
  <2>1. req' \in [Requests -> LifecycleRecs]
    BY <1>2, LifecycleIdleFacts
  <2> QED
    BY <1>3, <2>1, PlainTypes DEF Plain, TypeOK, Exists, States, LifecycleRecs
<1>5. \A r \in Requests : req'[r] = Idle
  BY <1>2
<1>6. \A r \in Requests : Shape(req'[r]) /\ Known(req'[r])
  BY <1>5, LifecycleIdleFacts
<1>7. ASSUME NEW r \in Requests PROVE LifecycleFollows(req[r], Idle)
  <2>1. ASSUME NEW u \in Units, Creates(req[r], u) \/ Covers(req[r], u)
                                \/ (u \in Branches /\ Deletes(req[r], Parent[u]))
        PROVE  u \in broken'
    <3>1. req[r].at # "idle" /\ (u = req[r].unit
                                 \/ (u \in Branches /\ Parent[u] = req[r].unit /\ req[r].op = "delete"))
      BY <1>1, <2>1 DEF Creates, Covers, Deletes, Shape
    <3> QED
      BY <1>2, <3>1 DEF WorksOn
  <2>2. Idle.op # "create" /\ Idle.op # "delete" /\ Idle.at # "discard" /\ ~Making(Idle)
    BY LifecycleIdleFacts DEF Making
  <2> QED
    BY <2>1, <2>2, UnitFacts DEF LifecycleFollows
<1> QED
  BY <1>3, <1>4, <1>5, <1>6, <1>7, KeptRemoves, RemovalStep

-----------------------------------------------------------------------------
(* The four steps by which something appears.                              *)
LEMMA Arrives ==
    ASSUME LifecycleIInv, NEW r \in Requests, NEW u \in Units, u \notin used, NEW q \in LifecycleRecs,
           req' = [req EXCEPT ![r] = q], req[r].at = "idle",
           q.op = "create", q.unit = u, q.at = "make", q.list = {},
           u \in Branches => row[Parent[u]] # "none",
           used' = used \cup {u},
           UNCHANGED <<row, name, default, container, booting, bootFailed, deleted, broken, crashes>>
    PROVE  LifecycleIInv'
<1>1. TypeOK /\ Plain /\ Fresh /\ Unique /\ Unborn /\ Gone /\ RowsCovered /\ ContainersCovered /\ Swept
      /\ DeletedStaysDeleted /\ req \in [Requests -> LifecycleRecs]
      /\ \A s \in Requests : Shape(req[s]) /\ Known(req[s])
  BY PlainTypes DEF LifecycleIInv
<1>2. req' \in [Requests -> LifecycleRecs] /\ \A s \in Requests : req'[s] = IF s = r THEN q ELSE req[s]
  BY <1>1
<1>3. row[u] = "none" /\ container[u] = "none" /\ u \notin deleted
      /\ (\A b \in Branches : Parent[b] = u => b \notin used)
      /\ \A s \in Requests : req[s].unit # u /\ u \notin req[s].list
  BY <1>1, UnitFacts DEF Fresh, Known
<1>4. req[r].op # "create" /\ req[r].op # "delete"
  BY <1>1 DEF Shape
<1>5. TypeOK'
  BY <1>1, <1>2, PlainTypes DEF Plain, TypeOK, Exists, States, LifecycleRecs
<1>6. \A s \in Requests : Shape(req'[s]) /\ Known(req[s])'
  BY <1>1, <1>2, UnitFacts DEF Shape, Known
<1>7. Fresh'
  <2>1. \A b \in Branches : b \in used' => Parent[b] \in used'
    BY <1>1, UnitFacts DEF Fresh
  <2> QED
    BY <1>1, <2>1 DEF Fresh
<1>8. Unique'
  BY <1>1, <1>2, <1>3 DEF Unique
<1>9. ASSUME NEW s \in Requests, Making(req'[s]) PROVE Alone(req[s])'
  <2>1. ASSUME NEW t \in Requests, req'[t].op = "delete" PROVE t # r /\ req'[t] = req[t]
    BY <1>2, <2>1
  <2>2. CASE s = r
    <3>1. q.unit \notin Branches \/ \A b \in Branches : Parent[b] # u
      BY UnitFacts
    <3>2. \A b \in Branches : Parent[b] = u => b \notin used'
      BY <1>3, UnitFacts
    <3> QED
      BY <1>2, <1>3, <2>1, <2>2, <3>2 DEF Alone
  <2>3. CASE s # r
    <3>1. Alone(req[s]) /\ req'[s] = req[s]
      BY <1>1, <1>2, <1>9, <2>3 DEF Unborn
    <3>2. u \in Branches => Parent[u] # req[s].unit
      BY <3>1 DEF Alone
    <3>3. \A b \in Branches : Parent[b] = req[s].unit => b \notin used'
      BY <3>1, <3>2 DEF Alone
    <3> QED
      BY <2>1, <3>1, <3>3 DEF Alone
  <2> QED
    BY <2>2, <2>3
<1>10. Gone'
  BY <1>1, <1>2 DEF Gone
<1>11. RowsCovered' /\ Swept'
  <2>1. ASSUME NEW x \in Units, NEW s \in Requests, Covers(req[s], x) PROVE Covers(req'[s], x)
    BY <1>2, <1>4, <2>1 DEF Covers, Deletes
  <2>2. RowsCovered'
    BY <1>1, <2>1 DEF RowsCovered, Covers, Deletes
  <2>3. Swept'
    BY <1>1, <1>2 DEF Swept
  <2> QED
    BY <2>2, <2>3
<1>12. ContainersCovered'
  <2>1. ASSUME NEW x \in Units, NEW s \in Requests PROVE Creates(req[s], x) => Creates(req'[s], x)
    BY <1>2, <1>4 DEF Creates
  <2>2. ASSUME NEW x \in Branches, NEW s \in Requests
        PROVE Deletes(req[s], Parent[x]) => Deletes(req'[s], Parent[x])
    BY <1>2, <1>4 DEF Deletes
  <2> QED
    BY <1>1, <2>1, <2>2 DEF ContainersCovered, Creates, Deletes
<1>13. DeletedStaysDeleted'
  BY <1>1 DEF DeletedStaysDeleted, Exists
<1>14. Unborn' /\ \A s \in Requests : (Shape(req[s]) /\ Known(req[s]))'
  BY <1>6, <1>9 DEF Unborn, Making, Shape
<1> QED
  BY <1>5, <1>7, <1>8, <1>10, <1>11, <1>12, <1>13, <1>14 DEF LifecycleIInv

LEMMA CreateSteps ==
    ASSUME LifecycleIInv, NEW r \in Requests,
           \/ \E d \in Databases : CreateDatabase(r, d)
           \/ \E b \in Branches, n \in Names : CreateBranch(r, b, n)
    PROVE  LifecycleIInv'
<1>1. ASSUME NEW d \in Databases, CreateDatabase(r, d) PROVE LifecycleIInv'
  <2> DEFINE q == [Idle EXCEPT !.op = "create", !.unit = d, !.at = "make"]
  <2>1. d \in Units
    BY UnitFacts
  <2>2. q \in LifecycleRecs /\ q.op = "create" /\ q.unit = d /\ q.at = "make" /\ q.list = {}
    BY <2>1, LifecycleIdleFacts DEF LifecycleRecs
  <2>3. /\ req' = [req EXCEPT ![r] = q] /\ req[r].at = "idle" /\ d \notin used /\ used' = used \cup {d}
        /\ UNCHANGED <<row, name, default, container, booting, bootFailed, deleted, broken, crashes>>
    BY <1>1 DEF CreateDatabase, Begin, rows, boot, history
  <2> HIDE DEF q
  <2> QED
    BY <2>1, <2>2, <2>3, UnitFacts, Arrives
<1>2. ASSUME NEW b \in Branches, NEW n \in Names, CreateBranch(r, b, n) PROVE LifecycleIInv'
  <2> DEFINE q == [Idle EXCEPT !.op = "create", !.unit = b, !.at = "make", !.name = n]
  <2>1. b \in Units
    BY UnitFacts
  <2>2. q \in LifecycleRecs /\ q.op = "create" /\ q.unit = b /\ q.at = "make" /\ q.list = {}
    BY <2>1, LifecycleIdleFacts DEF LifecycleRecs
  <2>3. /\ req' = [req EXCEPT ![r] = q] /\ req[r].at = "idle" /\ b \notin used /\ used' = used \cup {b}
        /\ row[Parent[b]] # "none"
        /\ UNCHANGED <<row, name, default, container, booting, bootFailed, deleted, broken, crashes>>
    BY <1>2 DEF CreateBranch, Exists, At, rows, boot, history
  <2> HIDE DEF q
  <2> QED
    BY <2>1, <2>2, <2>3, Arrives
<1> QED
  BY <1>1, <1>2

LEMMA MakeStep ==
    ASSUME LifecycleIInv, NEW r \in Requests, MakeContainer(r)
    PROVE  LifecycleIInv'
<1> DEFINE u == req[r].unit
<1>1. req[r].at = "make" /\ req[r].op = "create" /\ u \in Units /\ u \in used
      /\ Making(req[r]) /\ Alone(req[r])
      /\ \A s \in Requests : req[s].op = "create" /\ req[s].unit = u => s = r
  BY CreationFacts DEF MakeContainer, At
<1>2. UNCHANGED <<row, name, default, booting, bootFailed, deleted, broken, crashes, used>>
  BY DEF MakeContainer, rows, boot, history
<1>3. CASE Return(r) /\ UNCHANGED container
  BY <1>1, <1>3, MakeFails DEF MakeContainer
<1>4. CASE container' = [container EXCEPT ![u] = "down"] /\ Go(r, "launch")
  <2>1. TypeOK /\ Plain /\ Fresh /\ Unique /\ Unborn /\ Gone /\ RowsCovered /\ ContainersCovered /\ Swept
        /\ DeletedStaysDeleted /\ req \in [Requests -> LifecycleRecs]
        /\ \A s \in Requests : Shape(req[s]) /\ Known(req[s])
    BY PlainTypes DEF LifecycleIInv
  <2>2. PICK q \in LifecycleRecs : Advance(r, "launch", q)
    BY Now, Advanced
  <2>3. q.at = "launch" /\ q.op = "create" /\ q.unit = u /\ q.list = req[r].list
        /\ req' = [req EXCEPT ![r] = q]
    BY <1>1, <1>4, <2>2 DEF Advance, Go
  <2>4. req' \in [Requests -> LifecycleRecs] /\ \A s \in Requests : req'[s] = IF s = r THEN q ELSE req[s]
    BY <2>1, <2>3
  <2>5. container' \in [Units -> States] /\ \A x \in Units : container'[x] = IF x = u THEN "down" ELSE container[x]
    BY <1>1, <1>4, <2>1 DEF Plain, States
  <2>6. Plain'
    BY <1>2, <2>1, <2>5 DEF Plain
  <2>7. TypeOK'
    BY <2>4, <2>6, PlainTypes DEF Plain, TypeOK, Exists, States, LifecycleRecs
  <2>8. \A s \in Requests : (Shape(req[s]) /\ Known(req[s]))'
    BY <1>1, <1>2, <2>1, <2>3, <2>4 DEF Shape, Known
  <2>9. Fresh'
    BY <1>1, <1>2, <2>1, <2>5 DEF Fresh
  <2>10. Unique'
    BY <1>1, <2>1, <2>3, <2>4 DEF Unique
  <2>11. ASSUME NEW s \in Requests, Making(req'[s]) PROVE Alone(req[s])'
    <3>1. ASSUME NEW t \in Requests, req'[t].op = "delete" PROVE t # r /\ req'[t] = req[t]
      BY <2>3, <2>4, <3>1
    <3>2. CASE s = r
      BY <1>1, <1>2, <2>3, <2>4, <2>5, <3>1, <3>2 DEF Alone
    <3>3. CASE s # r
      <4>1. Alone(req[s]) /\ req'[s] = req[s] /\ req[s].unit # u /\ req[s].unit \in Units
        BY <1>1, <2>1, <2>4, <2>11, <3>3 DEF Unborn, Making, Shape
      <4>2. container'[req[s].unit] = container[req[s].unit]
        BY <2>5, <4>1
      <4> QED
        BY <1>2, <3>1, <4>1, <4>2 DEF Alone
    <3> QED
      BY <3>2, <3>3
  <2>12. Gone'
    BY <1>2, <2>1, <2>3, <2>4 DEF Gone
  <2>13. ASSUME NEW s \in Requests, NEW x
         PROVE  /\ Covers(req[s], x) => Covers(req'[s], x)
                /\ Creates(req[s], x) => Creates(req'[s], x)
                /\ Deletes(req[s], Parent[x]) => Deletes(req'[s], Parent[x])
    BY <1>1, <2>3, <2>4 DEF Covers, Deletes, Creates
  <2>14. RowsCovered'
    BY <1>2, <2>1, <2>5, <2>13 DEF RowsCovered, Covers, Deletes
  <2>15. Creates(req'[r], u)
    BY <2>3, <2>4 DEF Creates
  <2>16. ContainersCovered'
    BY <1>2, <2>1, <2>5, <2>13, <2>15 DEF ContainersCovered, Creates, Deletes
  <2>17. Swept'
    <3>1. ASSUME NEW s \in Requests, req'[s].op = "delete"
          PROVE req'[s] = req[s] /\ req[s].unit # u /\ req[s].unit \in Units
      BY <1>1, <2>1, <2>3, <2>4, <3>1 DEF Alone, Shape
    <3> QED
      BY <1>2, <2>1, <2>5, <3>1 DEF Swept
  <2>18. DeletedStaysDeleted'
    BY <1>1, <1>2, <2>1, <2>5, UnitFacts DEF DeletedStaysDeleted, Exists, Alone, Plain
  <2>19. Unborn'
    BY <2>11 DEF Unborn, Making
  <2> QED
    BY <2>7, <2>8, <2>9, <2>10, <2>12, <2>14, <2>16, <2>17, <2>18, <2>19 DEF LifecycleIInv
<1> QED
  BY <1>3, <1>4 DEF MakeContainer

LEMMA InsertStep ==
    ASSUME LifecycleIInv, NEW r \in Requests, Insert(r)
    PROVE  LifecycleIInv'
<1> DEFINE u == req[r].unit
<1>1. req[r].at = "insert" /\ req[r].op = "create" /\ u \in Units /\ u \in used
      /\ Making(req[r]) /\ Alone(req[r])
      /\ \A s \in Requests : req[s].op = "create" /\ req[s].unit = u => s = r
  BY CreationFacts DEF Insert, At
<1>2. UNCHANGED <<container, default, booting, bootFailed, deleted, crashes, used>>
  BY DEF Insert, boot
<1>3. CASE /\ \/ Go(r, "discard") /\ UNCHANGED broken
              \/ Return(r) /\ broken' = broken \cup {u}
           /\ UNCHANGED <<row, name>>
  BY <1>1, <1>3, InsertFails DEF Insert
<1>4. CASE /\ row' = [row EXCEPT ![u] = "up"]
           /\ name' = IF u \in Branches THEN [name EXCEPT ![u] = req[r].name] ELSE name
           /\ IF u \in Branches THEN Return(r) ELSE Go(r, "provision")
           /\ UNCHANGED broken
  <2>1. TypeOK /\ Plain /\ Fresh /\ Unique /\ Unborn /\ Gone /\ RowsCovered /\ ContainersCovered /\ Swept
        /\ DeletedStaysDeleted /\ req \in [Requests -> LifecycleRecs]
        /\ \A s \in Requests : Shape(req[s]) /\ Known(req[s])
    BY PlainTypes DEF LifecycleIInv
  <2>2. PICK q \in LifecycleRecs : /\ req' = [req EXCEPT ![r] = q] /\ Shape(q) /\ Known(q)
                                   /\ q.op # "delete" /\ ~Making(q) /\ q.at # "discard"
                                   /\ q.op = "create" => q.unit = u
    <3>1. CASE u \in Branches
      BY <1>4, <3>1, LifecycleIdleFacts DEF Return, Making
    <3>2. CASE u \notin Branches
      <4>1. PICK q \in LifecycleRecs : Advance(r, "provision", q)
        BY Now, Advanced
      <4>2. q.at = "provision" /\ q.op = "create" /\ q.unit = u /\ q.list = req[r].list
            /\ req' = [req EXCEPT ![r] = q]
        BY <1>1, <1>4, <3>2, <4>1 DEF Advance, Go
      <4>3. Shape(q) /\ Known(q)
        BY <1>1, <2>1, <3>2, <4>2, UnitFacts DEF Shape, Known
      <4> QED
        BY <4>2, <4>3 DEF Making
    <3> QED
      BY <3>1, <3>2
  <2>3. req' \in [Requests -> LifecycleRecs] /\ \A s \in Requests : req'[s] = IF s = r THEN q ELSE req[s]
    BY <2>1, <2>2
  <2>4. row' \in [Units -> States] /\ \A x \in Units : row'[x] = IF x = u THEN "up" ELSE row[x]
    BY <1>1, <1>4, <2>1 DEF Plain, States
  <2>5. Plain'
    <3>1. name' \in [Branches -> Names \cup {NoName}]
      BY <1>4, <2>1, Now DEF Plain, LifecycleRecs
    <3>2. default \subseteq {b \in Branches : row'[b] # "none"}
      BY <2>1, <2>4, UnitFacts DEF Plain
    <3> QED
      BY <1>2, <1>4, <2>1, <2>4, <3>1, <3>2 DEF Plain
  <2>6. TypeOK'
    BY <2>3, <2>5, PlainTypes DEF Plain, TypeOK, Exists, States, LifecycleRecs
  <2>7. \A s \in Requests : (Shape(req[s]) /\ Known(req[s]))'
    BY <1>2, <2>1, <2>2, <2>3 DEF Shape, Known
  <2>8. Fresh'
    BY <1>1, <1>2, <2>1, <2>4 DEF Fresh
  <2>9. Unique'
    BY <1>1, <2>1, <2>2, <2>3 DEF Unique
  <2>10. ASSUME NEW t \in Requests, req'[t].op = "delete" PROVE t # r /\ req'[t] = req[t]
    BY <2>2, <2>3, <2>10
  <2>11. ASSUME NEW s \in Requests, Making(req'[s]) PROVE Alone(req[s])'
    <3>1. s # r /\ req'[s] = req[s] /\ Making(req[s])
      BY <2>2, <2>3, <2>11
    <3>2. Alone(req[s]) /\ req[s].unit # u /\ req[s].unit \in Units
      BY <1>1, <2>1, <3>1 DEF Unborn, Making, Shape
    <3>3. row'[req[s].unit] = row[req[s].unit]
      BY <2>4, <3>2
    <3> QED
      BY <1>2, <2>10, <3>1, <3>2, <3>3 DEF Alone
  <2>12. Gone'
    <3>1. ASSUME NEW s \in Requests, req'[s].at = "discard"
          PROVE req'[s] = req[s] /\ req[s].unit # u /\ req[s].unit \in Units
      BY <1>1, <2>1, <2>2, <2>3, <3>1 DEF Shape
    <3> QED
      BY <1>4, <2>1, <2>4, <3>1 DEF Gone
  <2>13. ASSUME NEW s \in Requests, NEW x
         PROVE  /\ Covers(req[s], x) => Covers(req'[s], x)
                /\ Creates(req[s], x) /\ x # u => Creates(req'[s], x)
                /\ Deletes(req[s], Parent[x]) => Deletes(req'[s], Parent[x])
    BY <1>1, <2>2, <2>3 DEF Covers, Deletes, Creates
  <2>14. RowsCovered'
    <3>1. container[u] # "none"
      BY <1>1 DEF Alone
    <3> QED
      BY <1>2, <1>4, <2>1, <2>4, <2>13, <3>1 DEF RowsCovered, Covers, Deletes
  <2>15. ContainersCovered'
    <3>1. ASSUME NEW x \in Units, container'[x] # "none", row'[x] = "none"
          PROVE  \/ x \in broken'
                 \/ \E s \in Requests : Creates(req'[s], x)
                 \/ x \in Branches /\ row'[Parent[x]] = "none"
                 \/ x \in Branches /\ \E s \in Requests : Deletes(req'[s], Parent[x])
      <4>1. x # u /\ row[x] = "none" /\ container[x] # "none" /\ x \in used
        BY <1>2, <2>1, <2>4, <3>1 DEF Fresh
      <4>2. x \in Branches => Parent[x] # u /\ row'[Parent[x]] = row[Parent[x]]
        BY <1>1, <2>4, <4>1, UnitFacts DEF Alone
      <4> QED
        BY <1>4, <2>1, <2>13, <4>1, <4>2 DEF ContainersCovered
    <3> QED
      BY <3>1 DEF ContainersCovered, Creates, Deletes
  <2>16. Swept'
    BY <1>2, <1>4, <2>1, <2>10 DEF Swept
  <2>17. DeletedStaysDeleted'
    BY <1>1, <1>2, <1>4, <2>1, <2>4, UnitFacts DEF DeletedStaysDeleted, Exists, Alone, Plain
  <2>18. Unborn'
    BY <2>11 DEF Unborn, Making
  <2> QED
    BY <2>6, <2>7, <2>8, <2>9, <2>12, <2>14, <2>15, <2>16, <2>17, <2>18 DEF LifecycleIInv
<1> QED
  BY <1>3, <1>4 DEF Insert

-----------------------------------------------------------------------------
LEMMA LifecycleInductive == LifecycleIInv /\ [Next]_vars => LifecycleIInv'
<1> SUFFICES ASSUME LifecycleIInv, [Next]_vars PROVE LifecycleIInv'
  OBVIOUS
<1>1. ASSUME NEW r \in Requests, Accept(r) PROVE LifecycleIInv'
  BY <1>1, CreateSteps, DeleteStep, ReadRowStep, SwitchStep, ControlStep DEF Accept
<1>2. ASSUME NEW r \in Requests, Step(r) PROVE LifecycleIInv'
  <2>1. CASE MakeContainer(r) \/ Launch(r) \/ Insert(r) \/ Discard(r) \/ Undo(r)
    BY <2>1, MakeStep, LaunchStep, InsertStep, DiscardStep, UndoStep
  <2>2. CASE Provision(r) \/ DockerCall(r) \/ SetStatus(r) \/ InspectContainer(r) \/ CorrectStatus(r)
    BY <2>2, ProvisionStep, DockerCallStep, StatusSteps, InspectStep
  <2>3. CASE (\E u \in Units : StopListed(r, u)) \/ RemoveListed(r) \/ DropBranches(r) \/ DropDatabase(r)
    BY <2>3, StopListedStep, RemoveListedStep, DropBranchesStep, DropDatabaseStep
  <2>4. CASE ClearDefault(r) \/ SetDefault(r)
    BY <2>4, DefaultSteps
  <2> QED
    BY <1>2, <2>1, <2>2, <2>3, <2>4 DEF Step
<1>3. CASE (\E u \in Units : ToggleContainer(u)) \/ (\E d \in Databases : Visit(d)) \/ ExitAndRestart
  BY <1>3, ProcessSteps
<1>4. CASE Crash
  BY <1>4, LifecycleCrashStep
<1>5. CASE UNCHANGED vars
  <2>1. UNCHANGED <<row, container, name, default, used, req, booting, bootFailed, deleted, broken,
                    crashes>>
    BY <1>5 DEF vars
  <2>2. TypeOK' /\ (\A r \in Requests : (Shape(req[r]) /\ Known(req[r]))') /\ Fresh' /\ Unique' /\ Gone'
    BY <2>1 DEF LifecycleIInv, TypeOK, Exists, Shape, Known, Fresh, Unique, Gone
  <2>3. Unborn' /\ Swept' /\ DeletedStaysDeleted'
    BY <2>1 DEF LifecycleIInv, Unborn, Alone, Making, Swept, DeletedStaysDeleted, Exists
  <2>4. RowsCovered' /\ ContainersCovered'
    BY <2>1 DEF LifecycleIInv, RowsCovered, ContainersCovered, Covers, Creates, Deletes
  <2> QED
    BY <2>2, <2>3, <2>4 DEF LifecycleIInv
<1> QED
  BY <1>1, <1>2, <1>3, <1>4, <1>5 DEF Next

THEOREM LifecycleInvariance == Spec => []LifecycleIInv
  BY LifecycleInitOK, LifecycleInductive, PTL DEF Spec

(* Rows, containers and requests are what they are declared to be; only    *)
(* branches that exist are default.                                        *)
THEOREM LifecycleTyped == Spec => []TypeOK
  BY LifecycleInvariance, PTL DEF LifecycleIInv

(* The handlers of main.go leave no row without a container and no         *)
(* container without a row, up to what they are still working on, what     *)
(* failed and the branches made while their database was being deleted.    *)
THEOREM RowsAgree == Spec => []RowsMatchContainers
<1>1. LifecycleIInv => RowsMatchContainers
  <2> SUFFICES ASSUME LifecycleIInv PROVE RowsMatchContainers
    OBVIOUS
  <2>1. ASSUME NEW r \in Requests, NEW u, Deletes(req[r], u)
        PROVE  req[r].at # "idle" /\ req[r].op = "delete" /\ req[r].unit = u
    BY <2>1 DEF LifecycleIInv, Shape, Deletes
  <2>2. RowHasContainer
    <3>1. ASSUME NEW u \in Units, NEW r \in Requests, Covers(req[r], u) PROVE Deleting(u)
      BY <2>1, <3>1 DEF Covers, Deleting, WorksOn
    <3> QED
      BY <3>1 DEF LifecycleIInv, RowsCovered, RowHasContainer, Exists
  <2>3. ContainerHasRow
    <3>1. ASSUME NEW u \in Units, NEW r \in Requests, Creates(req[r], u) PROVE Creating(u)
      BY <3>1 DEF Creates, Creating
    <3>2. ASSUME NEW u \in Branches, NEW r \in Requests, Deletes(req[r], Parent[u])
          PROVE Deleting(Parent[u])
      BY <2>1, <3>2 DEF Deleting, WorksOn
    <3> QED
      BY <3>1, <3>2 DEF LifecycleIInv, ContainersCovered, ContainerHasRow, Exists
  <2> QED
    BY <2>2, <2>3 DEF RowsMatchContainers
<1> QED
  BY <1>1, LifecycleInvariance, PTL

(* A database whose deletion was answered with success stays deleted,      *)
(* whatever starts, restarts, creations and corrections still run on it.   *)
THEOREM StaysDeleted == Spec => []DeletedStaysDeleted
  BY LifecycleInvariance, PTL DEF LifecycleIInv

-----------------------------------------------------------------------------
(***************************************************************************)
(* What the table of backups says of the object store, and what a restore  *)
(* that was alone leaves, for any number of overlapping jobs, parts, rows  *)
(* and crashes.                                                            *)
(***************************************************************************)
Working == {"exec", "dump", "uploaded", "failing"}
BackupStages == Working \cup {"idle", "terminate", "drop", "create", "attach", "replay", "severed",
                        "restored"}
Rows == [status : {"pending", "completed", "failed"}, key : Keys, url : Buckets,
         held : [Parts -> Values]]
Dumps == {s \in Seq(Values) : Len(s) <= MaxPart}
BackupRecs == [at : BackupStages, row : 0..MaxRows, bucket : Buckets \cup {None}, dump : Dumps,
         pos : 0..MaxPart, intact : BOOLEAN, alone : BOOLEAN]

(* The database, the table and the object store.  The second a key is made *)
(* of never runs ahead of the rows.  What was dropped is empty.            *)
Tables ==
    /\ exists \in BOOLEAN
    /\ data \in [Parts -> Values]
    /\ exists = FALSE => data = Empty
    /\ backupRows \in Seq(Rows) /\ Len(backupRows) <= MaxRows
    /\ \A r \in 1..Len(backupRows) : backupRows[r].key <= r
    /\ objects \in [Buckets \X Keys -> Dumps \cup {None}]
    /\ bucket \in Buckets
    /\ orphans \subseteq 1..Len(backupRows)
    /\ backupCrashes \in 0..MaxBackupCrashes

Shown(q) == [p \in Parts |-> IF p <= q.pos THEN q.dump[p] ELSE Nothing]

(* What a job knows: its row and its bucket, that its object is there once *)
(* it was uploaded and, when it restores alone, what the database holds.   *)
Sound(q) ==
    /\ q.row <= Len(backupRows)
    /\ q.at \in Working => q.row # 0
    /\ q.row # 0 /\ q.at \in Working \cup {"terminate", "drop", "create", "attach"} => q.bucket \in Buckets
    /\ q.at # "replay" => q.pos = 0
    /\ q.pos <= Len(q.dump) \/ q.at # "replay"
    /\ q.at = "dump" /\ q.intact = TRUE => Len(q.dump) = MaxPart
    /\ q.at = "uploaded" => objects[<<q.bucket, backupRows[q.row].key>>] # None
    /\ q.alone = TRUE /\ q.at = "attach" => data = Empty
    /\ q.at = "replay" => exists = TRUE
    /\ q.alone = TRUE /\ q.at = "replay" => data = Shown(q)

BackupIInv ==
    /\ Tables
    /\ jobs \in [Jobs -> BackupRecs]
    /\ \A j \in Jobs : Sound(jobs[j])
    /\ CompletedHasObject
    /\ PendingIsWorkedOn

-----------------------------------------------------------------------------
LEMMA Numbers == /\ MaxPart \in Nat \ {0} /\ MaxRows \in Nat /\ MaxVersion \in Nat \ {0}
                 /\ Values \subseteq Nat /\ Nothing \in Values /\ Foreign \in Values /\ Mixed \in Values
  BY PartsAssumption, BoundsAssumption DEF Values, Nothing, Foreign, Mixed

(* The dumps are what the types of the module call contents.               *)
LEMMA DumpsAreContents == Dumps = Contents /\ None \notin Dumps /\ None \notin Buckets
<1>1. Dumps = Contents
  <2>1. ASSUME NEW s \in Dumps PROVE s \in Contents
    <3>1. s \in Seq(Values) /\ Len(s) <= MaxPart
      BY DEF Dumps
    <3>2. Len(s) \in Nat /\ s \in [1..Len(s) -> Values]
      BY <3>1, LenProperties
    <3>3. Len(s) \in 0..MaxPart
      BY <3>1, <3>2, Numbers
    <3> QED
      BY <3>2, <3>3 DEF Contents
  <2>2. ASSUME NEW s \in Contents PROVE s \in Dumps
    <3>1. PICK n \in 0..MaxPart : s \in [1..n -> Values]
      BY DEF Contents
    <3>2. n \in Nat /\ n <= MaxPart
      BY <3>1, Numbers
    <3>3. s \in Seq(Values)
      <4>1. Seq(Values) = UNION {[1..m -> Values] : m \in Nat}
        BY SeqDef
      <4> QED
        BY <3>1, <3>2, <4>1
    <3>4. Len(s) \in Nat /\ DOMAIN s = 1..Len(s) /\ DOMAIN s = 1..n
      BY <3>1, <3>3, LenProperties
    <3>5. Len(s) = n
      <4>1. PICK m \in Nat : m = Len(s)
        BY <3>4
      <4>2. 1..m = 1..n
        BY <3>4, <4>1
      <4>3. n = 0 \/ n \in 1..m
        BY <3>2, <4>2
      <4>4. m = 0 \/ m \in 1..n
        BY <4>1, <4>2
      <4> QED
        BY <3>2, <4>1, <4>3, <4>4, <4>2
    <3> QED
      BY <3>2, <3>3, <3>5 DEF Dumps
  <2> QED
    BY <2>1, <2>2
<1>2. None \notin Buckets /\ None \notin Contents
  BY NoneAssumption DEF Contents, Values, Mixed
<1> QED
  BY <1>1, <1>2

LEMMA Dumped ==
    /\ <<>> \in Dumps /\ Len(<<>>) = 0
    /\ \A f \in [Parts -> Values] : /\ [p \in Parts |-> f[p]] \in Dumps
                                     /\ Len([p \in Parts |-> f[p]]) = MaxPart
    /\ [p \in Parts |-> Foreign] \in Dumps
    /\ \A s \in Dumps : /\ Len(s) \in 0..MaxPart
                        /\ \A n \in 0..Len(s) : SubSeq(s, 1, n) \in Dumps
                        /\ \A p \in 1..Len(s) : s[p] \in Values
<1>1. <<>> \in Dumps /\ Len(<<>>) = 0
  BY EmptySeq, Numbers DEF Dumps
<1>2. \A f \in [Parts -> Values] : f \in Contents
  BY Numbers DEF Contents, Parts
<1>3. ASSUME NEW f \in [Parts -> Values] PROVE f \in Dumps /\ Len(f) = MaxPart /\ f = [p \in Parts |-> f[p]]
  <2>1. f \in Dumps
    BY <1>2, DumpsAreContents
  <2>2. PICK m \in Nat : m = Len(f) /\ 1..m = 1..MaxPart /\ m <= MaxPart
    BY <2>1, LenProperties DEF Dumps, Parts
  <2>3. MaxPart \in 1..m
    BY <2>2, Numbers
  <2> QED
    BY <2>1, <2>2, <2>3, Numbers
<1>4. [p \in Parts |-> Foreign] \in Dumps
  BY <1>2, Numbers, DumpsAreContents
<1>5. ASSUME NEW s \in Dumps PROVE /\ Len(s) \in 0..MaxPart
                                   /\ \A n \in 0..Len(s) : SubSeq(s, 1, n) \in Dumps
                                   /\ \A p \in 1..Len(s) : s[p] \in Values
  <2>1. s \in Seq(Values) /\ Len(s) <= MaxPart
    BY DEF Dumps
  <2>2. Len(s) \in Nat /\ s \in [1..Len(s) -> Values]
    BY <2>1, LenProperties
  <2>3. \A p \in 1..Len(s) : s[p] \in Values
    BY <2>2
  <2>4. ASSUME NEW n \in 0..Len(s) PROVE SubSeq(s, 1, n) \in Dumps
    <3>1. n \in Int /\ \A i \in 1..n : s[i] \in Values
      BY <2>2, <2>3
    <3>2. SubSeq(s, 1, n) \in Seq(Values) /\ Len(SubSeq(s, 1, n)) = IF 1 <= n THEN n - 1 + 1 ELSE 0
      BY <3>1, SubSeqProperties
    <3>3. Len(SubSeq(s, 1, n)) <= MaxPart
      BY <2>1, <2>2, <3>2, Numbers
    <3> QED
      BY <3>2, <3>3 DEF Dumps
  <2> QED
    BY <2>1, <2>2, <2>3, <2>4, Numbers
<1> QED
  BY <1>1, <1>3, <1>4, <1>5

LEMMA BackupIdleFacts ==
    /\ IdleJob \in BackupRecs
    /\ IdleJob.at = "idle" /\ IdleJob.row = 0 /\ IdleJob.pos = 0 /\ IdleJob.bucket = None
  BY Dumped, Numbers DEF IdleJob, BackupRecs, BackupStages

LEMMA IdleSound == Len(backupRows) \in Nat => Sound(IdleJob)
  BY DEF IdleJob, Sound, Working

LEMMA BackupInitOK == BackupInit => BackupIInv
<1> SUFFICES ASSUME BackupInit PROVE BackupIInv
  OBVIOUS
<1>1. backupRows \in Seq(Rows) /\ Len(backupRows) = 0
  BY EmptySeq DEF BackupInit
<1>2. Tables
  BY <1>1, Numbers, BoundsAssumption DEF BackupInit, Tables, Values, Mixed
<1>3. jobs \in [Jobs -> BackupRecs] /\ \A j \in Jobs : Sound(jobs[j])
  BY <1>1, BackupIdleFacts, IdleSound DEF BackupInit
<1>4. CompletedHasObject /\ PendingIsWorkedOn
  BY <1>1 DEF CompletedHasObject, PendingIsWorkedOn
<1> QED
  BY <1>2, <1>3, <1>4 DEF BackupIInv

-----------------------------------------------------------------------------
(* Steps of one job that leave the tables alone, and its row to it.        *)
LEMMA QuietStep ==
    ASSUME BackupIInv, NEW j \in Jobs, NEW q \in BackupRecs, jobs' = [jobs EXCEPT ![j] = q], Sound(q),
           BackingUp(j) => q.at \in Working /\ q.row = jobs[j].row,
           UNCHANGED <<exists, data, backupRows, objects, bucket, orphans, backupCrashes>>
    PROVE  BackupIInv'
<1>1. jobs' \in [Jobs -> BackupRecs] /\ \A k \in Jobs : jobs'[k] = IF k = j THEN q ELSE jobs[k]
  BY DEF BackupIInv
<1>2. Tables' /\ CompletedHasObject'
  BY DEF BackupIInv, Tables, CompletedHasObject
<1>3. ASSUME NEW k \in Jobs PROVE Sound(jobs[k])'
  <2>1. PICK rec : rec = jobs'[k] /\ Sound(rec)
    BY <1>1 DEF BackupIInv
  <2>2. Sound(rec)'
    BY <2>1 DEF Sound, Shown
  <2> QED
    BY <2>1, <2>2
<1>4. PendingIsWorkedOn'
  BY <1>1 DEF BackupIInv, PendingIsWorkedOn, BackingUp, Working
<1> QED
  BY <1>1, <1>2, <1>3, <1>4 DEF BackupIInv

(* The job is done, or was never more than asked for.                      *)
LEMMA ReturnStep ==
    ASSUME BackupIInv, NEW j \in Jobs, ~BackingUp(j), jobs' = [jobs EXCEPT ![j] = IdleJob],
           UNCHANGED <<exists, data, backupRows, objects, bucket, orphans, backupCrashes>>
    PROVE  BackupIInv'
<1>1. Len(backupRows) \in Nat
  BY LenProperties DEF BackupIInv, Tables
<1> QED
  BY <1>1, BackupIdleFacts, IdleSound, QuietStep

LEMMA QuietBackupSteps ==
    ASSUME BackupIInv, NEW j \in Jobs, ExecFails(j) \/ DumpDies(j) \/ UploadFails(j)
    PROVE  BackupIInv'
<1>1. jobs[j] \in BackupRecs /\ Sound(jobs[j]) /\ jobs \in [Jobs -> BackupRecs]
  BY DEF BackupIInv
<1> USE DEF database, store
<1>2. CASE ExecFails(j)
  <2> DEFINE q == [jobs[j] EXCEPT !.at = "failing"]
  <2>1. q \in BackupRecs /\ q.row = jobs[j].row /\ q.bucket = jobs[j].bucket /\ q.at = "failing"
        /\ q.pos = jobs[j].pos
    BY <1>1 DEF BackupRecs, BackupStages, Working
  <2>2. jobs' = [jobs EXCEPT ![j] = q] /\ jobs[j].at = "exec"
        /\ UNCHANGED <<exists, data, backupRows, objects, bucket, orphans, backupCrashes>>
    BY <1>1, <1>2 DEF ExecFails, JobGoes, JobAt, BackupRecs
  <2> HIDE DEF q
  <2>3. Sound(q)
    BY <1>1, <2>1, <2>2 DEF Sound, Working
  <2> QED
    BY <2>1, <2>2, <2>3, QuietStep DEF Working
<1>3. CASE DumpDies(j)
  <2> DEFINE q == [jobs[j] EXCEPT !.intact = FALSE]
  <2>1. q \in BackupRecs /\ q.row = jobs[j].row /\ q.bucket = jobs[j].bucket /\ q.at = jobs[j].at
        /\ q.pos = jobs[j].pos /\ q.intact = FALSE
    BY <1>1 DEF BackupRecs
  <2>2. jobs' = [jobs EXCEPT ![j] = q] /\ jobs[j].at = "dump"
        /\ UNCHANGED <<exists, data, backupRows, objects, bucket, orphans, backupCrashes>>
    BY <1>1, <1>3 DEF DumpDies, JobAt, BackupRecs
  <2> HIDE DEF q
  <2>3. Sound(q)
    BY <1>1, <2>1, <2>2 DEF Sound, Working
  <2> QED
    BY <2>1, <2>2, <2>3, QuietStep DEF Working
<1>4. CASE UploadFails(j)
  <2> DEFINE q == [jobs[j] EXCEPT !.at = "failing", !.dump = <<>>, !.intact = TRUE]
  <2>1. q \in BackupRecs /\ q.row = jobs[j].row /\ q.bucket = jobs[j].bucket /\ q.at = "failing"
        /\ q.pos = jobs[j].pos
    BY <1>1, Dumped DEF BackupRecs, BackupStages, Working
  <2>2. jobs' = [jobs EXCEPT ![j] = q] /\ jobs[j].at = "dump"
        /\ UNCHANGED <<exists, data, backupRows, objects, bucket, orphans, backupCrashes>>
    BY <1>1, <1>4 DEF UploadFails, JobAt, BackupRecs
  <2> HIDE DEF q
  <2>3. Sound(q)
    BY <1>1, <2>1, <2>2 DEF Sound, Working
  <2> QED
    BY <2>1, <2>2, <2>3, QuietStep DEF Working
<1> QED
  BY <1>2, <1>3, <1>4

(* A restore is asked for.                                                 *)
LEMMA RestoreArrives ==
    ASSUME BackupIInv, NEW j \in Jobs, RestoreRow(j) \/ RestoreForeign(j)
    PROVE  BackupIInv'
<1>1. jobs[j] \in BackupRecs /\ jobs \in [Jobs -> BackupRecs] /\ bucket \in Buckets
      /\ Len(backupRows) \in Nat /\ Len(backupRows) <= MaxRows
  BY LenProperties DEF BackupIInv, Tables
<1> USE DEF database, store
<1>2. CASE RestoreRow(j)
  <2>1. PICK r \in 1..Len(backupRows) :
           jobs' = [jobs EXCEPT ![j] = [IdleJob EXCEPT !.at = "terminate", !.row = r, !.bucket = bucket]]
    BY <1>2 DEF RestoreRow
  <2> DEFINE q == [IdleJob EXCEPT !.at = "terminate", !.row = r, !.bucket = bucket]
  <2>2. r \in 0..MaxRows
    BY <1>1, Numbers
  <2>3. q \in BackupRecs /\ q.row = r /\ q.bucket = bucket /\ q.at = "terminate" /\ q.pos = 0
    BY <1>1, <2>2, BackupIdleFacts DEF BackupRecs, BackupStages
  <2>4. jobs' = [jobs EXCEPT ![j] = q] /\ jobs[j].at = "idle"
        /\ UNCHANGED <<exists, data, backupRows, objects, bucket, orphans, backupCrashes>>
    BY <1>2, <2>1 DEF RestoreRow, JobAt
  <2> HIDE DEF q
  <2>5. Sound(q)
    BY <1>1, <2>1, <2>3 DEF Sound, Working
  <2> QED
    BY <2>3, <2>4, <2>5, QuietStep DEF BackingUp
<1>3. CASE RestoreForeign(j)
  <2> DEFINE q == [IdleJob EXCEPT !.at = "terminate"]
  <2>1. q \in BackupRecs /\ q.row = 0 /\ q.at = "terminate" /\ q.pos = 0
    BY BackupIdleFacts DEF BackupRecs, BackupStages
  <2>2. jobs' = [jobs EXCEPT ![j] = q] /\ jobs[j].at = "idle"
        /\ UNCHANGED <<exists, data, backupRows, objects, bucket, orphans, backupCrashes>>
    BY <1>3 DEF RestoreForeign, JobAt
  <2> HIDE DEF q
  <2>3. Sound(q)
    BY <1>1, <2>1 DEF Sound, Working
  <2> QED
    BY <2>1, <2>2, <2>3, QuietStep DEF BackingUp
<1> QED
  BY <1>2, <1>3

LEMMA Returns ==
    ASSUME BackupIInv, NEW j \in Jobs, StatementFails(j) \/ Severed(j) \/ Notify(j)
    PROVE  BackupIInv'
<1>1. ~BackingUp(j) /\ jobs' = [jobs EXCEPT ![j] = IdleJob]
      /\ UNCHANGED <<exists, data, backupRows, objects, bucket, orphans, backupCrashes>>
  BY DEF StatementFails, Severed, Notify, BackingUp, JobAt, database, store
<1> QED
  BY <1>1, ReturnStep

(* A row whose backup is asked for has an object's place, or nobody wrote. *)
LEMMA Sources ==
    ASSUME BackupIInv, NEW j \in Jobs, jobs[j].at = "attach"
    PROVE  /\ Source(j) \in Dumps
           /\ (jobs[j].row = 0 \/ Object(j) # None) \in BOOLEAN
<1>1. jobs[j] \in BackupRecs /\ Sound(jobs[j]) /\ Tables
  BY DEF BackupIInv
<1>2. CASE jobs[j].row = 0
  BY <1>2, Dumped DEF Source
<1>3. CASE jobs[j].row # 0
  <2>1. PICK r \in 1..Len(backupRows) : r = jobs[j].row
    <3>1. jobs[j].row \in 0..MaxRows /\ jobs[j].row <= Len(backupRows) /\ Len(backupRows) \in Nat
      BY <1>1, LenProperties DEF BackupRecs, Sound, Tables
    <3> QED
      BY <1>3, <3>1
  <2>2. backupRows[r].key \in Keys
    <3>1. backupRows[r] \in Rows
      BY <1>1, ElementOfSeq DEF Tables
    <3> QED
      BY <3>1 DEF Rows
  <2>3. jobs[j].bucket \in Buckets
    BY <1>1, <1>3 DEF Sound
  <2>4. Object(j) \in Dumps \cup {None}
    BY <1>1, <2>1, <2>2, <2>3 DEF Object, Tables
  <2> QED
    BY <1>3, <2>4, Dumped DEF Source
<1> QED
  BY <1>2, <1>3

LEMMA QuietRestoreSteps ==
    ASSUME BackupIInv, NEW j \in Jobs, Attach(j) \/ SourceFails(j) \/ ReplayEnds(j)
    PROVE  BackupIInv'
<1>1. jobs[j] \in BackupRecs /\ Sound(jobs[j]) /\ jobs \in [Jobs -> BackupRecs]
      /\ exists \in BOOLEAN /\ Len(backupRows) \in Nat
  BY LenProperties DEF BackupIInv, Tables
<1> USE DEF database, store
<1>2. CASE Attach(j)
  <2>1. jobs[j].at = "attach" /\ exists = TRUE
    BY <1>1, <1>2 DEF Attach, JobAt
  <2>2. Source(j) \in Dumps
    BY <2>1, Sources
  <2> DEFINE ok == jobs[j].row = 0 \/ Object(j) # None
             q == [jobs[j] EXCEPT !.at = "replay", !.dump = Source(j), !.bucket = IdleJob.bucket,
                                  !.intact = ok]
  <2>3. ok \in BOOLEAN
    BY <2>1, Sources
  <2>4. jobs' = [jobs EXCEPT ![j] = q]
        /\ UNCHANGED <<exists, data, backupRows, objects, bucket, orphans, backupCrashes>>
    BY <1>1, <1>2 DEF Attach, BackupRecs
  <2> HIDE DEF ok
  <2>5. q \in BackupRecs /\ q.row = jobs[j].row /\ q.at = "replay" /\ q.pos = jobs[j].pos
        /\ q.dump = Source(j) /\ q.alone = jobs[j].alone
    BY <1>1, <2>2, <2>3, BackupIdleFacts DEF BackupRecs, BackupStages
  <2> HIDE DEF q
  <2>6. q.pos = 0 /\ Len(q.dump) \in 0..MaxPart
    BY <1>1, <2>1, <2>2, <2>5, Dumped DEF Sound
  <2>7. Shown(q) = Empty
    BY <2>6 DEF Shown, Empty, Parts
  <2>8. Sound(q)
    BY <1>1, <2>1, <2>5, <2>6, <2>7 DEF Sound, Working
  <2> QED
    BY <2>1, <2>4, <2>5, <2>8, QuietStep DEF BackingUp
<1>3. CASE SourceFails(j)
  <2> DEFINE q == [jobs[j] EXCEPT !.intact = FALSE]
  <2>1. q \in BackupRecs /\ q.row = jobs[j].row /\ q.bucket = jobs[j].bucket /\ q.at = jobs[j].at
        /\ q.pos = jobs[j].pos /\ q.dump = jobs[j].dump /\ q.alone = jobs[j].alone
    BY <1>1 DEF BackupRecs
  <2>2. jobs' = [jobs EXCEPT ![j] = q] /\ jobs[j].at = "replay"
        /\ UNCHANGED <<exists, data, backupRows, objects, bucket, orphans, backupCrashes>>
    BY <1>1, <1>3 DEF SourceFails, JobAt, BackupRecs
  <2> HIDE DEF q
  <2>3. Sound(q)
    BY <1>1, <2>1, <2>2 DEF Sound, Shown, Working
  <2> QED
    BY <2>1, <2>2, <2>3, QuietStep DEF BackingUp
<1>4. CASE ReplayEnds(j)
  <2> DEFINE q == [IdleJob EXCEPT !.at = "restored"]
  <2>1. q \in BackupRecs /\ q.row = 0 /\ q.at = "restored" /\ q.pos = 0
    BY BackupIdleFacts DEF BackupRecs, BackupStages
  <2>2. jobs' = [jobs EXCEPT ![j] = q] /\ jobs[j].at = "replay"
        /\ UNCHANGED <<exists, data, backupRows, objects, bucket, orphans, backupCrashes>>
    BY <1>4 DEF ReplayEnds, JobAt
  <2> HIDE DEF q
  <2>3. Sound(q)
    BY <1>1, <2>1 DEF Sound, Working
  <2> QED
    BY <2>1, <2>2, <2>3, QuietStep DEF BackingUp
<1> QED
  BY <1>2, <1>3, <1>4

(* Steps that leave the table of backups and the object store alone and    *)
(* keep every backup that is under way at its row.                         *)
LEMMA DatabaseStep ==
    ASSUME BackupIInv, jobs' \in [Jobs -> BackupRecs], \A k \in Jobs : Sound(jobs[k])',
           \A k \in Jobs : BackingUp(k) => jobs'[k].at \in Working /\ jobs'[k].row = jobs[k].row,
           exists' \in BOOLEAN, data' \in [Parts -> Values], exists' = FALSE => data' = Empty,
           bucket' \in Buckets, UNCHANGED <<backupRows, objects, orphans, backupCrashes>>
    PROVE  BackupIInv'
<1>1. Tables' /\ CompletedHasObject'
  BY DEF BackupIInv, Tables, CompletedHasObject
<1>2. PendingIsWorkedOn'
  BY DEF BackupIInv, PendingIsWorkedOn, BackingUp, Working
<1> QED
  BY <1>1, <1>2 DEF BackupIInv

LEMMA TerminateStep ==
    ASSUME BackupIInv, NEW j \in Jobs, Terminate(j)
    PROVE  BackupIInv'
<1>1. jobs \in [Jobs -> BackupRecs] /\ Tables
  BY DEF BackupIInv
<1>2. UNCHANGED <<exists, data, backupRows, objects, bucket, orphans, backupCrashes>>
  BY DEF Terminate, database, store
<1>3. ASSUME NEW k \in Jobs
      PROVE  /\ jobs'[k] \in BackupRecs /\ Sound(jobs'[k])
             /\ BackingUp(k) => jobs'[k].at \in Working /\ jobs'[k].row = jobs[k].row
  <2>1. jobs[k] \in BackupRecs /\ Sound(jobs[k]) /\ Len(backupRows) \in Nat
    BY LenProperties DEF BackupIInv, Tables
  <2>2. CASE k = j
    <3> DEFINE q == [jobs[k] EXCEPT !.at = "drop"]
    <3>1. jobs'[k] = q /\ jobs[k].at = "terminate"
      BY <2>2 DEF Terminate, JobAt
    <3>2. q \in BackupRecs /\ q.row = jobs[k].row /\ q.bucket = jobs[k].bucket /\ q.at = "drop"
          /\ q.pos = jobs[k].pos
      BY <2>1 DEF BackupRecs, BackupStages
    <3> HIDE DEF q
    <3>3. Sound(q)
      BY <2>1, <3>1, <3>2 DEF Sound, Working
    <3> QED
      BY <3>1, <3>2, <3>3 DEF BackingUp
  <2>3. CASE k # j /\ ~Connected(k)
    BY <2>1, <2>3 DEF Terminate, BackingUp, Working
  <2>4. CASE k # j /\ Connected(k) /\ JobAt(k, "dump")
    <3> DEFINE q == [jobs[k] EXCEPT !.intact = FALSE]
    <3>1. jobs'[k] = q /\ jobs[k].at = "dump"
      BY <2>4 DEF Terminate, JobAt
    <3>2. q \in BackupRecs /\ q.row = jobs[k].row /\ q.bucket = jobs[k].bucket /\ q.at = "dump"
          /\ q.pos = jobs[k].pos /\ q.intact = FALSE
      BY <2>1, <3>1 DEF BackupRecs
    <3> HIDE DEF q
    <3>3. Sound(q)
      BY <2>1, <3>1, <3>2 DEF Sound, Working
    <3> QED
      BY <3>1, <3>2, <3>3 DEF Working
  <2>5. CASE k # j /\ Connected(k) /\ ~JobAt(k, "dump")
    <3> DEFINE q == [IdleJob EXCEPT !.at = "severed"]
    <3>1. jobs'[k] = q /\ jobs[k].at = "replay"
      BY <2>5 DEF Terminate, JobAt, Connected
    <3>2. q \in BackupRecs /\ q.row = 0 /\ q.at = "severed" /\ q.pos = 0
      BY BackupIdleFacts DEF BackupRecs, BackupStages
    <3> HIDE DEF q
    <3>3. Sound(q)
      BY <2>1, <3>2 DEF Sound, Working
    <3> QED
      BY <3>1, <3>2, <3>3 DEF BackingUp
  <2> QED
    BY <2>2, <2>3, <2>4, <2>5
<1>4. jobs' \in [Jobs -> BackupRecs]
  <2>1. jobs' = [k \in Jobs |-> jobs'[k]]
    BY DEF Terminate
  <2> QED
    BY <1>3, <2>1
<1>5. ASSUME NEW k \in Jobs PROVE Sound(jobs[k])'
  <2>1. PICK rec : rec = jobs'[k] /\ Sound(rec)
    BY <1>3
  <2>2. Sound(rec)'
    BY <1>2, <2>1 DEF Sound, Shown
  <2> QED
    BY <2>1, <2>2
<1> QED
  BY <1>1, <1>2, <1>3, <1>4, <1>5, DatabaseStep DEF Tables

LEMMA DropStep ==
    ASSUME BackupIInv, NEW j \in Jobs, Drop(j)
    PROVE  BackupIInv'
<1>1. jobs \in [Jobs -> BackupRecs] /\ Tables /\ jobs[j] \in BackupRecs
  BY DEF BackupIInv
<1> DEFINE q == [jobs[j] EXCEPT !.at = "create"]
<1>2. q \in BackupRecs /\ q.row = jobs[j].row /\ q.bucket = jobs[j].bucket /\ q.at = "create"
      /\ q.pos = jobs[j].pos
  BY <1>1 DEF BackupRecs, BackupStages
<1>3. jobs' = [jobs EXCEPT ![j] = q] /\ jobs[j].at = "drop"
      /\ UNCHANGED <<backupRows, objects, bucket, orphans, backupCrashes>>
  BY <1>1 DEF Drop, JobGoes, JobAt, store, BackupRecs
<1> HIDE DEF q
<1>4. jobs' \in [Jobs -> BackupRecs] /\ \A k \in Jobs : jobs'[k] = IF k = j THEN q ELSE jobs[k]
  BY <1>1, <1>2, <1>3
<1>5. exists' \in BOOLEAN /\ data' = Empty /\ Empty \in [Parts -> Values]
  BY Numbers DEF Drop, Empty
<1>6. ASSUME NEW k \in Jobs PROVE Sound(jobs[k])'
  <2>1. jobs[k].at # "replay" /\ Sound(jobs[k])
    BY DEF Drop, Connected, JobAt, BackupIInv
  <2>2. PICK rec : rec = jobs'[k]
    OBVIOUS
  <2>3. Sound(rec)'
    BY <1>2, <1>3, <1>4, <1>5, <2>1, <2>2 DEF Sound, Working
  <2> QED
    BY <2>2, <2>3
<1>7. \A k \in Jobs : BackingUp(k) => jobs'[k].at \in Working /\ jobs'[k].row = jobs[k].row
  BY <1>3, <1>4 DEF BackingUp, Working
<1> QED
  BY <1>1, <1>3, <1>4, <1>5, <1>6, <1>7, DatabaseStep DEF Tables

LEMMA CreateStep ==
    ASSUME BackupIInv, NEW j \in Jobs, Create(j)
    PROVE  BackupIInv'
<1>1. jobs \in [Jobs -> BackupRecs] /\ Tables /\ jobs[j] \in BackupRecs
  BY DEF BackupIInv
<1> DEFINE q == [jobs[j] EXCEPT !.at = "attach"]
<1>2. q \in BackupRecs /\ q.row = jobs[j].row /\ q.bucket = jobs[j].bucket /\ q.at = "attach"
      /\ q.pos = jobs[j].pos
  BY <1>1 DEF BackupRecs, BackupStages
<1>3. jobs' = [jobs EXCEPT ![j] = q] /\ jobs[j].at = "create" /\ exists' = TRUE
      /\ UNCHANGED <<data, backupRows, objects, bucket, orphans, backupCrashes>>
  BY <1>1 DEF Create, JobGoes, JobAt, store, BackupRecs
<1> HIDE DEF q
<1>4. jobs' \in [Jobs -> BackupRecs] /\ \A k \in Jobs : jobs'[k] = IF k = j THEN q ELSE jobs[k]
  BY <1>1, <1>2, <1>3
<1>5. data = Empty
  BY <1>1 DEF Create, Tables
<1>6. ASSUME NEW k \in Jobs PROVE Sound(jobs[k])'
  <2>1. Sound(jobs[k])
    BY DEF BackupIInv
  <2>2. PICK rec : rec = jobs'[k]
    OBVIOUS
  <2>3. Sound(rec)'
    BY <1>2, <1>3, <1>4, <1>5, <2>1, <2>2 DEF Sound, Shown, Working
  <2> QED
    BY <2>2, <2>3
<1>7. \A k \in Jobs : BackingUp(k) => jobs'[k].at \in Working /\ jobs'[k].row = jobs[k].row
  BY <1>3, <1>4 DEF BackingUp, Working
<1> QED
  BY <1>1, <1>3, <1>4, <1>6, <1>7, DatabaseStep DEF Tables

(* Another writer's statements change what a job knows of nothing but its  *)
(* being alone.                                                            *)
LEMMA JoinedFacts ==
    ASSUME BackupIInv, NEW those \in SUBSET Jobs, NEW k \in Jobs
    PROVE  /\ Joined(those)[k] \in BackupRecs
           /\ Joined(those)[k].at = jobs[k].at /\ Joined(those)[k].row = jobs[k].row
           /\ Joined(those)[k].bucket = jobs[k].bucket /\ Joined(those)[k].pos = jobs[k].pos
           /\ Joined(those)[k].dump = jobs[k].dump /\ Joined(those)[k].intact = jobs[k].intact
           /\ k \notin those => Joined(those)[k] = jobs[k]
           /\ k \in those /\ jobs[k].at \in {"attach", "replay"} => Joined(those)[k].alone = FALSE
<1>1. jobs[k] \in BackupRecs
  BY DEF BackupIInv
<1> DEFINE q == [jobs[k] EXCEPT !.alone = FALSE]
<1>2. q \in BackupRecs /\ q.row = jobs[k].row /\ q.bucket = jobs[k].bucket /\ q.at = jobs[k].at
      /\ q.pos = jobs[k].pos /\ q.dump = jobs[k].dump /\ q.intact = jobs[k].intact /\ q.alone = FALSE
  BY <1>1 DEF BackupRecs
<1>3. Joined(those)[k] = IF k \in those /\ jobs[k].at \in {"attach", "replay"} THEN q ELSE jobs[k]
  BY DEF Joined
<1> HIDE DEF q
<1> QED
  BY <1>1, <1>2, <1>3

LEMMA ReplayStep ==
    ASSUME BackupIInv, NEW j \in Jobs, Replay(j)
    PROVE  BackupIInv'
<1>1. jobs[j] \in BackupRecs /\ Sound(jobs[j]) /\ Tables /\ jobs[j].at = "replay" /\ exists = TRUE
  BY DEF BackupIInv, Replay, JobAt, Sound
<1> DEFINE others == Joined(Jobs \ {j})
           p == jobs[j].pos + 1
           q == [jobs[j] EXCEPT !.pos = @ + 1]
<1>2. p \in 1..Len(jobs[j].dump) /\ Len(jobs[j].dump) \in 0..MaxPart /\ jobs[j].pos \in 0..MaxPart
  <2>1. Len(jobs[j].dump) \in 0..MaxPart /\ jobs[j].pos \in 0..MaxPart
    BY <1>1, Dumped DEF BackupRecs
  <2> QED
    BY <2>1, Numbers DEF Replay
<1>3. p \in Parts /\ jobs[j].dump[p] \in Values /\ p \in 0..MaxPart
  <2>1. jobs[j].dump[p] \in Values
    BY <1>1, <1>2, Dumped DEF BackupRecs
  <2> QED
    BY <1>2, <2>1, Numbers DEF Parts
<1>4. q \in BackupRecs /\ q.row = jobs[j].row /\ q.bucket = jobs[j].bucket /\ q.at = "replay"
      /\ q.pos = p /\ q.dump = jobs[j].dump /\ q.alone = jobs[j].alone
  BY <1>1, <1>3 DEF BackupRecs
<1>5. \A k \in Jobs : jobs'[k] = IF k = j THEN q ELSE others[k]
  <2>1. others[j] = jobs[j] /\ DOMAIN others = Jobs
    BY JoinedFacts DEF Joined
  <2> QED
    BY <2>1 DEF Replay
<1>6. data' = [data EXCEPT ![p] = IF @ = Nothing THEN jobs[j].dump[p] ELSE Mixed]
      /\ UNCHANGED <<exists, backupRows, objects, bucket, orphans, backupCrashes>>
  BY DEF Replay, store
<1> HIDE DEF q
<1>7. data' \in [Parts -> Values]
  BY <1>1, <1>3, <1>6, Numbers DEF Tables
<1>8. jobs' \in [Jobs -> BackupRecs]
  <2>1. jobs' = [k \in Jobs |-> jobs'[k]]
    BY DEF Replay, Joined
  <2>2. \A k \in Jobs : jobs'[k] \in BackupRecs
    BY <1>4, <1>5, JoinedFacts
  <2> QED
    BY <2>1, <2>2
<1>9. jobs[j].alone = TRUE => data' = Shown(q)
  <2> SUFFICES ASSUME jobs[j].alone = TRUE PROVE data' = Shown(q)
    OBVIOUS
  <2>1. data = Shown(jobs[j])
    BY <1>1 DEF Sound
  <2>2. data[p] = Nothing
    BY <1>2, <1>3, <2>1, Numbers DEF Shown
  <2>3. \A s \in Parts : data'[s] = IF s <= p THEN jobs[j].dump[s] ELSE Nothing
    <3> TAKE s \in Parts
    <3>1. PICK n \in 1..Len(jobs[j].dump) : n = p /\ n \in Parts
      BY <1>2, <1>3
    <3>2. n = jobs[j].pos + 1 /\ s \in Int /\ jobs[j].pos \in Int /\ n \in Int
      BY <1>2, <3>1, Numbers DEF Parts
    <3>3. data \in [Parts -> Values] /\ data[n] = Nothing
      BY <1>1, <2>2, <3>1 DEF Tables
    <3>4. data' = [data EXCEPT ![n] = jobs[j].dump[n]]
      BY <1>6, <3>1, <3>3
    <3>5. data[s] = IF s <= jobs[j].pos THEN jobs[j].dump[s] ELSE Nothing
      BY <2>1 DEF Shown
    <3>6. data'[s] = IF s = n THEN jobs[j].dump[n] ELSE data[s]
      BY <3>1, <3>3, <3>4
    <3>7. s <= n <=> s <= jobs[j].pos \/ s = n
      BY <3>2
    <3> QED
      BY <3>1, <3>5, <3>6, <3>7
  <2> QED
    BY <1>4, <1>7, <2>3 DEF Shown
<1>10. ASSUME NEW k \in Jobs PROVE Sound(jobs[k])'
  <2>1. CASE k = j
    <3>1. PICK rec \in BackupRecs : rec = q
      BY <1>4
    <3>2. Sound(rec)'
      BY <1>1, <1>2, <1>4, <1>6, <1>9, <3>1 DEF Sound, Shown, Working
    <3> QED
      BY <1>5, <2>1, <3>1, <3>2
  <2>2. CASE k # j
    <3>1. PICK rec \in BackupRecs : rec = others[k] /\ rec.at = jobs[k].at /\ rec.row = jobs[k].row
             /\ rec.bucket = jobs[k].bucket /\ rec.pos = jobs[k].pos /\ rec.dump = jobs[k].dump /\ rec.intact = jobs[k].intact
             /\ (jobs[k].at \in {"attach", "replay"} => rec.alone = FALSE)
      BY <2>2, JoinedFacts
    <3>2. Sound(jobs[k])
      BY DEF BackupIInv
    <3>3. Sound(rec)'
      BY <1>6, <3>1, <3>2 DEF Sound, Working
    <3> QED
      BY <1>5, <2>2, <3>1, <3>3
  <2> QED
    BY <2>1, <2>2
<1>11. ASSUME NEW k \in Jobs, BackingUp(k) PROVE jobs'[k].at \in Working /\ jobs'[k].row = jobs[k].row
  <2>1. k # j /\ jobs[k].at \in Working
    BY <1>1, <1>11 DEF BackingUp, Working
  <2>2. others[k].at = jobs[k].at /\ others[k].row = jobs[k].row
    BY JoinedFacts
  <2> QED
    BY <1>5, <2>1, <2>2
<1> QED
  BY <1>1, <1>6, <1>7, <1>8, <1>10, <1>11, DatabaseStep DEF Tables

LEMMA ClientWritesStep ==
    ASSUME BackupIInv, ClientWrites
    PROVE  BackupIInv'
<1>1. Tables /\ exists = TRUE /\ jobs' = Joined(Jobs)
      /\ UNCHANGED <<exists, backupRows, objects, bucket, orphans, backupCrashes>>
  BY DEF ClientWrites, store, BackupIInv, Tables
<1>2. data' \in [Parts -> Values]
  BY Numbers DEF ClientWrites, Values, Mixed
<1>3. jobs' \in [Jobs -> BackupRecs]
  <2>1. jobs' = [k \in Jobs |-> jobs'[k]]
    BY <1>1 DEF Joined
  <2> QED
    BY <1>1, <2>1, JoinedFacts
<1>4. ASSUME NEW k \in Jobs PROVE Sound(jobs[k])'
  <2>1. PICK rec \in BackupRecs : rec = jobs'[k] /\ rec.at = jobs[k].at /\ rec.row = jobs[k].row
           /\ rec.bucket = jobs[k].bucket /\ rec.pos = jobs[k].pos /\ rec.dump = jobs[k].dump /\ rec.intact = jobs[k].intact
           /\ (jobs[k].at \in {"attach", "replay"} => rec.alone = FALSE)
    BY <1>1, JoinedFacts
  <2>2. Sound(jobs[k])
    BY DEF BackupIInv
  <2>3. Sound(rec)'
    BY <1>1, <2>1, <2>2 DEF Sound, Working
  <2> QED
    BY <2>1, <2>3
<1>5. \A k \in Jobs : BackingUp(k) => jobs'[k].at \in Working /\ jobs'[k].row = jobs[k].row
  BY <1>1, JoinedFacts DEF BackingUp, Working
<1> QED
  BY <1>1, <1>2, <1>3, <1>4, <1>5, DatabaseStep DEF Tables

LEMMA SaveSettingsStep ==
    ASSUME BackupIInv, SaveSettings
    PROVE  BackupIInv'
<1>1. UNCHANGED <<exists, data, backupRows, objects, jobs, orphans, backupCrashes>>
      /\ bucket' \in Buckets
  BY DEF SaveSettings, database, store
<1>2. ASSUME NEW k \in Jobs PROVE Sound(jobs[k])'
  BY <1>1 DEF BackupIInv, Sound, Shown
<1>3. \A k \in Jobs : BackingUp(k) => jobs'[k].at \in Working /\ jobs'[k].row = jobs[k].row
  BY <1>1 DEF BackingUp, Working
<1> QED
  BY <1>1, <1>2, <1>3, DatabaseStep DEF BackupIInv, Tables

-----------------------------------------------------------------------------
(* Steps of a backup that write its row, its object or the orphans.        *)
LEMMA StartBackupStep ==
    ASSUME BackupIInv, NEW j \in Jobs, StartBackup(j)
    PROVE  BackupIInv'
<1>1. jobs \in [Jobs -> BackupRecs] /\ Tables /\ backupRows \in Seq(Rows) /\ Len(backupRows) \in Nat
  BY LenProperties DEF BackupIInv, Tables
<1> DEFINE n == Len(backupRows) + 1
<1>2. PICK key : /\ key \in IF backupRows = <<>> THEN {1}
                            ELSE {backupRows[Len(backupRows)].key, backupRows[Len(backupRows)].key + 1}
                 /\ backupRows' = Append(backupRows, [status |-> "pending", key |-> key,
                                                      url |-> bucket, held |-> Empty])
  BY DEF StartBackup
<1>3. n \in 1..MaxRows
  BY <1>1, Numbers DEF StartBackup
<1>4. key \in Keys /\ key <= n
  <2>1. CASE backupRows = <<>>
    BY <1>1, <1>2, <1>3, <2>1, EmptySeq, Numbers DEF Keys
  <2>2. CASE backupRows # <<>>
    <3>1. PICK l \in 1..Len(backupRows) : l = Len(backupRows)
      BY <1>1, <2>2, EmptySeq
    <3>2. backupRows[l] \in Rows /\ backupRows[l].key <= l
      BY <1>1, <3>1, ElementOfSeq DEF Tables
    <3>3. backupRows[l].key \in 1..MaxRows
      BY <3>2 DEF Rows, Keys
    <3>4. key = backupRows[l].key \/ key = backupRows[l].key + 1
      BY <1>2, <2>2, <3>1
    <3> QED
      BY <1>1, <1>3, <3>1, <3>2, <3>3, <3>4, Numbers DEF Keys
  <2> QED
    BY <2>1, <2>2
<1> DEFINE new == [status |-> "pending", key |-> key, url |-> bucket, held |-> Empty]
<1>5. new \in Rows
  BY <1>1, <1>4, Numbers DEF Rows, Empty, Tables
<1>6. /\ backupRows' \in Seq(Rows) /\ Len(backupRows') = n
      /\ \A r \in 1..Len(backupRows) : backupRows'[r] = backupRows[r]
      /\ backupRows'[n] = new
  BY <1>1, <1>2, <1>5, AppendProperties
<1> DEFINE q == [IdleJob EXCEPT !.at = "exec", !.row = n, !.bucket = bucket]
<1>7. q \in BackupRecs /\ q.row = n /\ q.bucket = bucket /\ q.at = "exec" /\ q.pos = 0
  <2>1. n \in 0..MaxRows /\ bucket \in Buckets
    BY <1>1, <1>3 DEF Tables
  <2> QED
    BY <2>1, BackupIdleFacts DEF BackupRecs, BackupStages, Working
<1>8. jobs' = [jobs EXCEPT ![j] = q] /\ jobs[j].at = "idle"
      /\ UNCHANGED <<exists, data, objects, bucket, orphans, backupCrashes>>
  BY DEF StartBackup, JobAt, database
<1>9. new.key = key /\ new.status = "pending"
  OBVIOUS
<1> HIDE DEF q, new
<1>10. jobs' \in [Jobs -> BackupRecs] /\ \A k \in Jobs : jobs'[k] = IF k = j THEN q ELSE jobs[k]
  BY <1>1, <1>7, <1>8
<1>11. \A r \in 1..Len(backupRows') : r = n \/ r \in 1..Len(backupRows)
  BY <1>1, <1>6
<1>12. Tables'
  <2>1. \A r \in 1..Len(backupRows') : backupRows'[r].key <= r
    BY <1>1, <1>4, <1>6, <1>9, <1>11 DEF Tables
  <2>2. Len(backupRows') <= MaxRows /\ 1..Len(backupRows) \subseteq 1..Len(backupRows')
    BY <1>1, <1>3, <1>6
  <2> QED
    BY <1>1, <1>6, <1>8, <2>1, <2>2 DEF Tables
<1>13. ASSUME NEW k \in Jobs PROVE Sound(jobs[k])'
  <2>1. PICK rec \in BackupRecs : rec = jobs'[k]
    BY <1>10
  <2>2. CASE k = j
    <3>1. Sound(rec)'
      BY <1>1, <1>6, <1>7, <1>8, <1>10, <2>1, <2>2 DEF Sound, Working, Tables
    <3> QED
      BY <2>1, <3>1
  <2>3. CASE k # j
    <3>1. Sound(rec) /\ rec = jobs[k] /\ rec.row \in 0..MaxRows
      BY <1>10, <2>1, <2>3 DEF BackupIInv, BackupRecs
    <3>2. rec.row # 0 => rec.row \in 1..Len(backupRows)
      BY <1>1, <3>1 DEF Sound
    <3>3. rec.at = "uploaded" => objects'[<<rec.bucket, backupRows'[rec.row].key>>] # None
      BY <1>6, <1>8, <3>1, <3>2 DEF Sound, Working
    <3>4. rec.row <= Len(backupRows')
      BY <1>1, <1>6, <3>1, Numbers DEF Sound
    <3>5. Sound(rec)'
      BY <1>8, <3>1, <3>3, <3>4 DEF Sound, Shown, Working
    <3> QED
      BY <2>1, <3>5
  <2> QED
    BY <2>2, <2>3
<1>14. CompletedHasObject'
  BY <1>6, <1>8, <1>9, <1>11 DEF BackupIInv, CompletedHasObject
<1>15. PendingIsWorkedOn'
  <2>1. \A r \in 1..Len(backupRows') : backupRows'[r].status = "pending" =>
           r \in orphans' \/ \E k \in Jobs : jobs'[k].at \in Working /\ jobs'[k].row = r
    <3>1. TAKE r \in 1..Len(backupRows')
    <3>2. CASE r = n
      BY <1>7, <1>10, <3>2 DEF Working
    <3>3. CASE r \in 1..Len(backupRows)
      BY <1>6, <1>8, <1>10, <3>3 DEF BackupIInv, PendingIsWorkedOn, BackingUp, Working
    <3> QED
      BY <1>11, <3>2, <3>3
  <2> QED
    BY <2>1 DEF PendingIsWorkedOn, BackingUp, Working
<1> QED
  BY <1>10, <1>12, <1>13, <1>14, <1>15 DEF BackupIInv

(* Steps that keep the database and the keys of the rows.                  *)
LEMMA RowsKept ==
    ASSUME BackupIInv, UNCHANGED <<exists, data, bucket, objects, backupCrashes>>,
           backupRows' \in Seq(Rows), Len(backupRows') = Len(backupRows),
           \A r \in 1..Len(backupRows) : backupRows'[r].key = backupRows[r].key,
           orphans' \subseteq 1..Len(backupRows)
    PROVE  /\ Tables'
           /\ \A rec \in BackupRecs : Sound(rec) => Sound(rec)'
<1>1. Tables'
  BY DEF BackupIInv, Tables
<1>2. ASSUME NEW rec \in BackupRecs, Sound(rec) PROVE Sound(rec)'
  <2>1. rec.row \in 0..MaxRows /\ Len(backupRows) \in Nat
    BY LenProperties DEF BackupRecs, BackupIInv, Tables
  <2>2. rec.row # 0 => rec.row \in 1..Len(backupRows)
    BY <1>2, <2>1 DEF Sound
  <2> QED
    BY <1>2, <2>2 DEF Sound, Shown, Working
<1> QED
  BY <1>1, <1>2

LEMMA RowOf ==
    ASSUME BackupIInv, NEW j \in Jobs, BackingUp(j)
    PROVE  /\ jobs[j].row \in 1..Len(backupRows) /\ backupRows[jobs[j].row] \in Rows
           /\ jobs[j].bucket \in Buckets /\ jobs[j].pos = 0
<1>1. jobs[j] \in BackupRecs /\ Sound(jobs[j]) /\ Tables /\ Len(backupRows) \in Nat
  BY LenProperties DEF BackupIInv, Tables
<1>2. jobs[j].row \in 0..MaxRows /\ jobs[j].row # 0 /\ jobs[j].row <= Len(backupRows)
  BY <1>1 DEF BackupRecs, Sound, BackingUp, Working
<1>3. jobs[j].row \in 1..Len(backupRows)
  BY <1>1, <1>2
<1>4. jobs[j].bucket \in Buckets /\ jobs[j].pos = 0
  BY <1>1, <1>2 DEF Sound, BackingUp, Working
<1> QED
  BY <1>1, <1>3, <1>4, ElementOfSeq DEF Tables

LEMMA DumpStartsStep ==
    ASSUME BackupIInv, NEW j \in Jobs, DumpStarts(j)
    PROVE  BackupIInv'
<1>1. jobs \in [Jobs -> BackupRecs] /\ Tables /\ backupRows \in Seq(Rows) /\ Len(backupRows) \in Nat
      /\ jobs[j] \in BackupRecs /\ Sound(jobs[j]) /\ jobs[j].at = "exec"
  BY LenProperties DEF BackupIInv, Tables, DumpStarts, JobAt
<1>2. PICK r \in 1..Len(backupRows) : r = jobs[j].row /\ backupRows[r] \in Rows
  BY <1>1, RowOf DEF BackingUp
<1>3. PICK new : new = [backupRows[r] EXCEPT !.held = data]
  OBVIOUS
<1>4. new \in Rows /\ new.key = backupRows[r].key /\ new.url = backupRows[r].url
      /\ new.status = backupRows[r].status
  BY <1>1, <1>2, <1>3 DEF Rows, Tables
<1>5. backupRows' = [backupRows EXCEPT ![r] = new]
  BY <1>2, <1>3 DEF DumpStarts
<1>6. backupRows' \in Seq(Rows) /\ Len(backupRows') = Len(backupRows)
      /\ \A s \in 1..Len(backupRows) : backupRows'[s] = IF s = r THEN new ELSE backupRows[s]
  BY <1>1, <1>2, <1>4, <1>5, ExceptSeq
<1>7. PICK d \in Dumps : /\ d = IF exists THEN [p \in Parts |-> data[p]] ELSE <<>>
                         /\ exists = TRUE => Len(d) = MaxPart
  BY <1>1, Dumped DEF Tables
<1>8. exists \in BOOLEAN
  BY <1>1 DEF Tables
<1> DEFINE q == [jobs[j] EXCEPT !.at = "dump", !.intact = exists, !.dump = d]
<1>9. q \in BackupRecs /\ q.row = jobs[j].row /\ q.bucket = jobs[j].bucket /\ q.at = "dump"
      /\ q.pos = jobs[j].pos /\ q.intact = exists /\ q.dump = d
  BY <1>1, <1>7, <1>8 DEF BackupRecs, BackupStages, Working
<1>10. jobs' = [jobs EXCEPT ![j] = q]
      /\ UNCHANGED <<exists, data, objects, bucket, orphans, backupCrashes>>
  BY <1>1, <1>7 DEF DumpStarts, database, BackupRecs
<1> HIDE DEF q
<1>11. jobs' \in [Jobs -> BackupRecs] /\ \A k \in Jobs : jobs'[k] = IF k = j THEN q ELSE jobs[k]
  BY <1>1, <1>9, <1>10
<1>12. Tables' /\ \A rec \in BackupRecs : Sound(rec) => Sound(rec)'
  BY <1>1, <1>4, <1>6, <1>10, RowsKept DEF Tables
<1>13. ASSUME NEW k \in Jobs PROVE Sound(jobs[k])'
  <2>1. PICK rec \in BackupRecs : rec = jobs'[k]
    BY <1>11
  <2>2. Sound(q)
    BY <1>1, <1>7, <1>9 DEF Sound, Working
  <2>3. Sound(rec)
    BY <1>11, <2>1, <2>2 DEF BackupIInv
  <2> QED
    BY <1>12, <2>1, <2>3
<1>14. CompletedHasObject'
  BY <1>4, <1>6, <1>10 DEF BackupIInv, CompletedHasObject
<1>15. PendingIsWorkedOn'
  BY <1>1, <1>4, <1>6, <1>9, <1>10, <1>11 DEF BackupIInv, PendingIsWorkedOn, BackingUp
<1> QED
  BY <1>11, <1>12, <1>13, <1>14, <1>15 DEF BackupIInv

LEMMA UploadStep ==
    ASSUME BackupIInv, NEW j \in Jobs, Upload(j)
    PROVE  BackupIInv'
<1>1. jobs \in [Jobs -> BackupRecs] /\ Tables /\ Len(backupRows) \in Nat
      /\ jobs[j] \in BackupRecs /\ Sound(jobs[j]) /\ jobs[j].at = "dump"
  BY LenProperties DEF BackupIInv, Tables, Upload, JobAt
<1>2. jobs[j].row \in 1..Len(backupRows) /\ backupRows[jobs[j].row] \in Rows
      /\ jobs[j].bucket \in Buckets /\ jobs[j].pos = 0
  BY <1>1, RowOf DEF BackingUp
<1>3. PICK place \in Buckets \X Keys : place = <<jobs[j].bucket, backupRows[jobs[j].row].key>>
  BY <1>2 DEF Rows
<1>4. PICK n \in IF jobs[j].intact THEN {MaxPart} ELSE 0..Len(jobs[j].dump) :
         objects' = [objects EXCEPT ![place] = SubSeq(jobs[j].dump, 1, n)]
  BY <1>3 DEF Upload
<1>5. SubSeq(jobs[j].dump, 1, n) \in Dumps
  <2>1. jobs[j].dump \in Dumps /\ jobs[j].intact \in BOOLEAN
    BY <1>1 DEF BackupRecs
  <2>2. Len(jobs[j].dump) \in 0..MaxPart
    BY <2>1, Dumped
  <2>3. n \in 0..Len(jobs[j].dump)
    BY <1>1, <1>4, <2>1, <2>2, Numbers DEF Sound
  <2> QED
    BY <2>1, <2>3, Dumped
<1>6. objects' \in [Buckets \X Keys -> Dumps \cup {None}] /\ objects'[place] # None
      /\ \A o \in Buckets \X Keys : objects[o] # None => objects'[o] # None
  BY <1>1, <1>4, <1>5, DumpsAreContents DEF Tables
<1> DEFINE q == [jobs[j] EXCEPT !.at = "uploaded", !.dump = <<>>, !.intact = TRUE]
<1>7. q \in BackupRecs /\ q.row = jobs[j].row /\ q.bucket = jobs[j].bucket /\ q.at = "uploaded"
      /\ q.pos = jobs[j].pos
  BY <1>1, Dumped DEF BackupRecs, BackupStages, Working
<1>8. jobs' = [jobs EXCEPT ![j] = q]
      /\ UNCHANGED <<exists, data, backupRows, bucket, orphans, backupCrashes>>
  BY <1>1 DEF Upload, database, BackupRecs
<1> HIDE DEF q
<1>9. jobs' \in [Jobs -> BackupRecs] /\ \A k \in Jobs : jobs'[k] = IF k = j THEN q ELSE jobs[k]
  BY <1>1, <1>7, <1>8
<1>10. Tables'
  BY <1>1, <1>6, <1>8 DEF Tables
<1>11. ASSUME NEW k \in Jobs PROVE Sound(jobs[k])'
  <2>1. PICK rec \in BackupRecs : rec = jobs'[k]
    BY <1>9
  <2>2. CASE k = j
    <3>1. Sound(rec)'
      BY <1>1, <1>2, <1>3, <1>6, <1>7, <1>8, <1>9, <2>1, <2>2 DEF Sound, Working
    <3> QED
      BY <2>1, <3>1
  <2>3. CASE k # j
    <3>1. Sound(rec) /\ rec = jobs[k] /\ rec.row \in 0..MaxRows
      BY <1>9, <2>1, <2>3 DEF BackupIInv, BackupRecs
    <3>2. rec.at = "uploaded" => <<rec.bucket, backupRows[rec.row].key>> \in Buckets \X Keys
      BY <1>9, <2>1, <2>3, RowOf DEF BackingUp, Rows
    <3>3. Sound(rec)'
      BY <1>6, <1>8, <3>1, <3>2 DEF Sound, Shown
    <3> QED
      BY <2>1, <3>3
  <2> QED
    BY <2>2, <2>3
<1>12. CompletedHasObject'
  <2>1. ASSUME NEW r \in 1..Len(backupRows) PROVE <<backupRows[r].url, backupRows[r].key>> \in Buckets \X Keys
    <3>1. backupRows[r] \in Rows
      BY <1>1, ElementOfSeq DEF Tables
    <3> QED
      BY <3>1 DEF Rows
  <2> QED
    BY <1>6, <1>8, <2>1 DEF BackupIInv, CompletedHasObject
<1>13. PendingIsWorkedOn'
  BY <1>1, <1>7, <1>8, <1>9 DEF BackupIInv, PendingIsWorkedOn, BackingUp
<1> QED
  BY <1>9, <1>10, <1>11, <1>12, <1>13 DEF BackupIInv

LEMMA SetBackupStatusStep ==
    ASSUME BackupIInv, NEW j \in Jobs, SetBackupStatus(j)
    PROVE  BackupIInv'
<1>1. jobs \in [Jobs -> BackupRecs] /\ Tables /\ backupRows \in Seq(Rows) /\ Len(backupRows) \in Nat
      /\ jobs[j] \in BackupRecs /\ Sound(jobs[j]) /\ jobs[j].at \in {"uploaded", "failing"}
  BY LenProperties DEF BackupIInv, Tables, SetBackupStatus
<1>2. PICK r \in 1..Len(backupRows) : r = jobs[j].row /\ backupRows[r] \in Rows
  BY <1>1, RowOf DEF BackingUp
<1>3. jobs[j].bucket \in Buckets
  BY <1>1, RowOf DEF BackingUp
<1>4. PICK status \in {"completed", "failed"} :
         status = IF JobAt(j, "uploaded") THEN "completed" ELSE "failed"
  OBVIOUS
<1>5. /\ jobs' = [jobs EXCEPT ![j] = IdleJob]
      /\ UNCHANGED <<exists, data, objects, bucket, backupCrashes>>
  BY DEF SetBackupStatus, database
<1>6. jobs' \in [Jobs -> BackupRecs] /\ \A k \in Jobs : jobs'[k] = IF k = j THEN IdleJob ELSE jobs[k]
  BY <1>1, <1>5, BackupIdleFacts
<1>7. ASSUME NEW k \in Jobs PROVE Sound(jobs'[k])
  BY <1>1, <1>6, IdleSound DEF BackupIInv
<1>8. CASE backupRows' = [backupRows EXCEPT ![r].status = status, ![r].url = jobs[j].bucket]
           /\ UNCHANGED orphans
  <2>1. PICK new : new = [backupRows[r] EXCEPT !.status = status, !.url = jobs[j].bucket]
    OBVIOUS
  <2>2. new \in Rows /\ new.key = backupRows[r].key /\ new.url = jobs[j].bucket /\ new.status = status
    BY <1>2, <1>3, <2>1 DEF Rows
  <2>3. backupRows' = [backupRows EXCEPT ![r] = new]
    BY <1>1, <1>2, <1>8, <2>1
  <2>4. backupRows' \in Seq(Rows) /\ Len(backupRows') = Len(backupRows)
        /\ \A s \in 1..Len(backupRows) : backupRows'[s] = IF s = r THEN new ELSE backupRows[s]
    BY <1>1, <1>2, <2>2, <2>3, ExceptSeq
  <2>5. Tables' /\ \A rec \in BackupRecs : Sound(rec) => Sound(rec)'
    BY <1>1, <1>5, <1>8, <2>2, <2>4, RowsKept DEF Tables
  <2>6. ASSUME NEW k \in Jobs PROVE Sound(jobs[k])'
    <3>1. PICK rec \in BackupRecs : rec = jobs'[k] /\ Sound(rec)
      BY <1>6, <1>7
    <3> QED
      BY <2>5, <3>1
  <2>7. CompletedHasObject'
    <3>1. status = "completed" => objects[<<jobs[j].bucket, backupRows[r].key>>] # None
      BY <1>1, <1>2, <1>4 DEF JobAt, Sound
    <3>2. ASSUME NEW s \in 1..Len(backupRows), backupRows'[s].status = "completed"
          PROVE  objects[<<backupRows'[s].url, backupRows'[s].key>>] # None
      BY <2>2, <2>4, <3>1, <3>2 DEF BackupIInv, CompletedHasObject
    <3> QED
      BY <1>5, <2>4, <3>2 DEF CompletedHasObject
  <2>8. PendingIsWorkedOn'
    <3>1. ASSUME NEW s \in 1..Len(backupRows), backupRows'[s].status = "pending"
          PROVE  s \in orphans' \/ \E k \in Jobs : jobs'[k].at \in Working /\ jobs'[k].row = s
      <4>1. s # r /\ backupRows[s].status = "pending"
        BY <1>4, <2>2, <2>4, <3>1
      <4>2. s \in orphans \/ \E k \in Jobs : jobs[k].at \in Working /\ jobs[k].row = s
        BY <4>1 DEF BackupIInv, PendingIsWorkedOn, BackingUp, Working
      <4> QED
        BY <1>2, <1>6, <1>8, <4>1, <4>2
    <3> QED
      BY <2>4, <3>1 DEF PendingIsWorkedOn, BackingUp, Working
  <2> QED
    BY <1>6, <2>5, <2>6, <2>7, <2>8 DEF BackupIInv
<1>9. CASE orphans' = orphans \cup {r} /\ UNCHANGED backupRows
  <2>1. Tables' /\ \A rec \in BackupRecs : Sound(rec) => Sound(rec)'
    BY <1>1, <1>2, <1>5, <1>9, RowsKept DEF Tables
  <2>2. ASSUME NEW k \in Jobs PROVE Sound(jobs[k])'
    <3>1. PICK rec \in BackupRecs : rec = jobs'[k] /\ Sound(rec)
      BY <1>6, <1>7
    <3> QED
      BY <2>1, <3>1
  <2>3. CompletedHasObject'
    BY <1>5, <1>9 DEF BackupIInv, CompletedHasObject
  <2>4. PendingIsWorkedOn'
    BY <1>2, <1>6, <1>9 DEF BackupIInv, PendingIsWorkedOn, BackingUp
  <2> QED
    BY <1>6, <2>1, <2>2, <2>3, <2>4 DEF BackupIInv
<1>10. \/ backupRows' = [backupRows EXCEPT ![r].status = status, ![r].url = jobs[j].bucket]
          /\ UNCHANGED orphans
       \/ orphans' = orphans \cup {r} /\ UNCHANGED backupRows
  BY <1>2, <1>4 DEF SetBackupStatus
<1> QED
  BY <1>8, <1>9, <1>10

LEMMA BackupCrashStep ==
    ASSUME BackupIInv, BackupCrash
    PROVE  BackupIInv'
<1>1. Tables /\ backupRows \in Seq(Rows) /\ Len(backupRows) \in Nat /\ Len(backupRows') \in Nat
      /\ UNCHANGED <<exists, data, backupRows, objects, bucket>>
  BY LenProperties DEF BackupIInv, Tables, BackupCrash, database
<1>2. orphans' \subseteq 1..Len(backupRows)
  BY RowOf DEF BackupCrash, BackupIInv, Tables
<1>3. backupCrashes' \in 0..MaxBackupCrashes
  BY <1>1, BoundsAssumption DEF BackupCrash, Tables
<1>4. jobs' = [k \in Jobs |-> IdleJob]
  BY DEF BackupCrash
<1>5. Tables' /\ CompletedHasObject'
  BY <1>1, <1>2, <1>3 DEF BackupIInv, Tables, CompletedHasObject
<1>6. Sound(IdleJob)'
  BY <1>1 DEF IdleJob, Sound, Working
<1>7. jobs' \in [Jobs -> BackupRecs] /\ \A k \in Jobs : Sound(jobs[k])'
  BY <1>4, <1>6, BackupIdleFacts
<1>8. PendingIsWorkedOn'
  BY <1>1 DEF BackupCrash, BackupIInv, PendingIsWorkedOn
<1> QED
  BY <1>5, <1>7, <1>8 DEF BackupIInv

LEMMA BackupInductive == BackupIInv /\ [BackupNext]_backupVars => BackupIInv'
<1> SUFFICES ASSUME BackupIInv, [BackupNext]_backupVars PROVE BackupIInv'
  OBVIOUS
<1>1. ASSUME NEW j \in Jobs, StartBackup(j) \/ Backup(j) PROVE BackupIInv'
  BY <1>1, StartBackupStep, DumpStartsStep, QuietBackupSteps, UploadStep, SetBackupStatusStep DEF Backup
<1>2. ASSUME NEW j \in Jobs, RestoreRow(j) \/ RestoreForeign(j) \/ Restore(j) PROVE BackupIInv'
  BY <1>2, RestoreArrives, TerminateStep, DropStep, CreateStep, Returns, QuietRestoreSteps, ReplayStep
     DEF Restore
<1>3. CASE ClientWrites \/ SaveSettings \/ BackupCrash
  BY <1>3, ClientWritesStep, SaveSettingsStep, BackupCrashStep
<1>4. CASE UNCHANGED backupVars
  <2>1. UNCHANGED <<exists, data, backupRows, objects, bucket, jobs, orphans, backupCrashes>>
    BY <1>4 DEF backupVars
  <2>2. \A k \in Jobs : Sound(jobs[k])'
    BY <2>1 DEF BackupIInv, Sound, Shown
  <2> QED
    BY <2>1, <2>2 DEF BackupIInv, Tables, CompletedHasObject, PendingIsWorkedOn, BackingUp
<1> QED
  BY <1>1, <1>2, <1>3, <1>4 DEF BackupNext

THEOREM BackupInvariance == BackupSpec => []BackupIInv
  BY BackupInitOK, BackupInductive, PTL DEF BackupSpec

-----------------------------------------------------------------------------
(* Every variable of the backups and restores keeps its type.              *)
THEOREM BackupsTyped == BackupSpec => []BackupTypeOK
<1>1. BackupIInv => BackupTypeOK
  <2> SUFFICES ASSUME BackupIInv PROVE BackupTypeOK
    OBVIOUS
  <2>1. Tables /\ Len(backupRows) \in Nat
    BY LenProperties DEF BackupIInv, Tables
  <2>2. \A r \in 1..Len(backupRows) : backupRows[r] \in Rows
    BY <2>1, ElementOfSeq DEF Tables
  <2> DEFINE Types == [at : {"idle", "exec", "dump", "uploaded", "failing", "terminate", "drop",
                             "create", "attach", "replay", "severed", "restored"},
                       row : 0..Len(backupRows), bucket : Buckets \cup {None}, dump : Contents,
                       pos : 0..MaxPart, intact : BOOLEAN, alone : BOOLEAN]
  <2>3. ASSUME NEW j \in Jobs PROVE jobs[j] \in Types
    <3>1. jobs[j] \in BackupRecs /\ jobs[j].row <= Len(backupRows)
      BY DEF BackupIInv, Sound
    <3>2. jobs[j].row \in 0..Len(backupRows)
      BY <2>1, <3>1 DEF BackupRecs
    <3> QED
      BY <3>1, <3>2, DumpsAreContents DEF BackupRecs, BackupStages, Working
  <2>4. jobs \in [Jobs -> Types]
    BY <2>3 DEF BackupIInv
  <2> QED
    BY <2>1, <2>2, <2>4, DumpsAreContents DEF BackupTypeOK, Tables, Rows
<1> QED
  BY <1>1, BackupInvariance, PTL

(* A backup that the list calls completed can be fetched where its row     *)
(* says (manager.go, PerformBackup and updateStatus), whatever backups     *)
(* share its key, change the settings, fail or crash.                      *)
THEOREM CompletedFetchable == BackupSpec => []CompletedHasObject
  BY BackupInvariance, PTL DEF BackupIInv

(* No error path of PerformBackup leaves its row pending: such a row has a *)
(* goroutine at work on it, or lost its last UPDATE.                       *)
THEOREM NonePendsForEver == BackupSpec => []PendingIsWorkedOn
  BY BackupInvariance, PTL DEF BackupIInv

(* A job comes to its notification by the end of its own replay only.      *)
LEMMA OnlyReplayEnds ==
    ASSUME BackupIInv, [BackupNext]_backupVars, NEW j \in Jobs, ~JobAt(j, "restored"),
           jobs'[j].at = "restored"
    PROVE  ReplayEnds(j)
<1>1. jobs \in [Jobs -> BackupRecs] /\ jobs[j].at # "restored" /\ \A i \in Jobs : jobs[i] \in BackupRecs
  BY DEF BackupIInv, JobAt
<1>2. ASSUME NEW i \in Jobs, ~(i = j /\ ReplayEnds(i)),
             StartBackup(i) \/ Backup(i) \/ RestoreRow(i) \/ RestoreForeign(i) \/ Restore(i)
      PROVE  FALSE
  <2>0. ASSUME NEW q, q.at # "restored", jobs' = [jobs EXCEPT ![i] = q] PROVE FALSE
    BY <1>1, <2>0
  <2>1. CASE Terminate(i)
    BY <1>1, <2>1, BackupIdleFacts DEF Terminate, BackupRecs, JobAt
  <2>2. CASE Replay(i)
    <3>1. PICK rec \in BackupRecs : rec = Joined(Jobs \ {i})[j] /\ rec.at = jobs[j].at
      BY JoinedFacts
    <3>2. jobs' = [Joined(Jobs \ {i}) EXCEPT ![i].pos = @ + 1]
      BY <2>2 DEF Replay
    <3>3. jobs'[j] = rec \/ jobs'[j] = [rec EXCEPT !.pos = @ + 1]
      BY <3>1, <3>2 DEF Joined
    <3> QED
      BY <1>1, <3>1, <3>3 DEF BackupRecs
  <2>3. CASE StartBackup(i) \/ RestoreRow(i) \/ RestoreForeign(i)
    <3>1. \A r, b : /\ [IdleJob EXCEPT !.at = "exec", !.row = r, !.bucket = b].at # "restored"
                    /\ [IdleJob EXCEPT !.at = "terminate", !.row = r, !.bucket = b].at # "restored"
                    /\ [IdleJob EXCEPT !.at = "terminate"].at # "restored"
      BY DEF IdleJob
    <3> QED
      BY <2>0, <2>3, <3>1 DEF StartBackup, RestoreRow, RestoreForeign
  <2>4. CASE Backup(i)
    <3>1. CASE DumpStarts(i)
      BY <1>1, <3>1 DEF DumpStarts, BackupRecs
    <3>2. CASE ExecFails(i) \/ DumpDies(i)
      BY <1>1, <3>2 DEF ExecFails, DumpDies, JobGoes, BackupRecs
    <3>3. CASE Upload(i)
      BY <1>1, <3>3 DEF Upload, BackupRecs
    <3>4. CASE UploadFails(i)
      BY <1>1, <3>4 DEF UploadFails, BackupRecs
    <3>5. CASE SetBackupStatus(i)
      BY <2>0, <3>5, BackupIdleFacts DEF SetBackupStatus
    <3> QED
      BY <2>4, <3>1, <3>2, <3>3, <3>4, <3>5 DEF Backup
  <2>5. CASE Drop(i) \/ Create(i) \/ Attach(i) \/ SourceFails(i)
    BY <1>1, <2>5 DEF Drop, Create, Attach, SourceFails, JobGoes, BackupRecs
  <2>6. CASE StatementFails(i) \/ Severed(i) \/ Notify(i)
    BY <1>1, <2>6, BackupIdleFacts DEF StatementFails, Severed, Notify
  <2>7. CASE ReplayEnds(i)
    BY <1>1, <1>2, <2>7 DEF ReplayEnds
  <2> QED
    BY <1>2, <2>1, <2>2, <2>3, <2>4, <2>5, <2>6, <2>7 DEF Restore
<1>3. CASE ClientWrites
  BY <1>1, <1>3, JoinedFacts DEF ClientWrites
<1>4. CASE SaveSettings \/ UNCHANGED backupVars
  BY <1>1, <1>4 DEF SaveSettings, backupVars
<1>5. CASE BackupCrash
  BY <1>5, BackupIdleFacts DEF BackupCrash
<1> QED
  BY <1>2, <1>3, <1>4, <1>5 DEF BackupNext

(* A restore reports completion (main.go, the restore routes) only of a    *)
(* database that holds what it fed to psql and nothing else, unless        *)
(* somebody else wrote to it after its CREATE.                             *)
THEOREM RestoresAreExact == BackupSpec => RestoredExactly
<1>1. BackupIInv /\ [BackupNext]_backupVars =>
         [\A j \in Jobs : ~JobAt(j, "restored") /\ jobs'[j].at = "restored" /\ jobs[j].alone =>
                             exists' /\ data' = Replayed(j)]_backupVars
  <2> SUFFICES ASSUME BackupIInv, [BackupNext]_backupVars, NEW j \in Jobs, ~JobAt(j, "restored"),
                      jobs'[j].at = "restored", jobs[j].alone
               PROVE  exists' /\ data' = Replayed(j)
    OBVIOUS
  <2>1. ReplayEnds(j)
    BY OnlyReplayEnds
  <2>2. jobs[j].at = "replay" /\ exists' = exists /\ data' = data
    BY <2>1 DEF ReplayEnds, JobAt, database
  <2>3. jobs[j].alone = TRUE /\ Sound(jobs[j])
    BY DEF BackupIInv, BackupRecs
  <2> QED
    BY <2>2, <2>3 DEF Sound, Shown, Replayed
<1> QED
  BY <1>1, BackupInvariance, PTL DEF BackupSpec, RestoredExactly

-----------------------------------------------------------------------------
(***************************************************************************)
(* Theorems of BindingMigration, for any number of overlapping requests.   *)
(* The invariant has four parts: the type; that the old container stays    *)
(* and is what every request works on; whom the row names at each stage    *)
(* of a replacement's life; and who is still to start a container when     *)
(* none runs.                                                              *)
(***************************************************************************)
BindingStages == {"idle", "inspect", "stop", "rename", "create", "start", "wait", "update",
           "provision", "remove new", "restore row", "rename back", "start old", "done"}

Request == [at : BindingStages, scope : Containers \cup {NoContainer}, updated : BOOLEAN]

Early == {"idle", "inspect", "done"}

(* The old container is never removed, and a request that has got past     *)
(* Inspect works on it.                                                    *)
OldKept ==
    /\ Old \in made
    /\ \A q \in Migrations : migration[q].at \notin Early => migration[q].scope = Old

(* A replacement exists from Create to its removal.  Before UpdateRow no   *)
(* row names it; while it is rolled back the row may name it only if the   *)
(* request will restore the row, or that write was lost.                   *)
BindingFollows(q) ==
    /\ migration[q].at \in {"start", "wait", "update", "provision"} => q \in made
    /\ record = q =>
        /\ migration[q].at \in {"provision", "remove new", "restore row", "rename back",
                          "start old", "done"}
        /\ migration[q].at \in {"provision", "remove new", "restore row"} => migration[q].updated
        /\ q \in made \/ torn \/ migration[q].at = "restore row"

RowFollows == \A q \in Migrations : BindingFollows(q)

(* Somebody who has stopped the old container is still to start one. *)
Responsible(q) ==
    migration[q].at \in {"rename", "create", "start", "remove new", "restore row", "rename back",
                   "start old"}

ServiceGuarded == running # {} \/ excused \/ \E q \in Migrations : Responsible(q)

BindingIInv == BindingTypeOK /\ OldKept /\ RowFollows /\ OneServerOnTheVolume /\ ServiceGuarded

LEMMA InitInvariant == BindingInit => BindingIInv
<1> SUFFICES ASSUME BindingInit PROVE BindingIInv
  OBVIOUS
<1> USE OldAssumption, CrashesAssumption DEF BindingInit
<1>1. BindingTypeOK
  <2>1. NotStarted \in Request
    BY DEF NotStarted, Request, BindingStages
  <2>2. migration \in [Migrations -> Request]
    BY <2>1
  <2>3. made \subseteq Containers /\ running \subseteq made /\ original \in made /\ record \in Containers
    BY DEF Containers
  <2>4. torn \in BOOLEAN /\ excused \in BOOLEAN
    BY Zenon
  <2>5. deaths \in 0..MaxDeaths
    BY SMT
  <2> HIDE DEF BindingInit
  <2> QED BY <2>2, <2>3, <2>4, <2>5 DEF BindingTypeOK, Request, BindingStages
<1>2. OldKept
  BY DEF OldKept, NotStarted, Early
<1>3. RowFollows /\ OneServerOnTheVolume /\ ServiceGuarded
  BY DEF RowFollows, BindingFollows, OneServerOnTheVolume, ServiceGuarded, NotStarted
<1> QED BY <1>1, <1>2, <1>3 DEF BindingIInv

(* The type invariant: the requests, and the rest. *)
LEMMA RequestTypes ==
    ASSUME BindingTypeOK, NEW q \in Migrations, Migrate(q) \/ Rollback(q)
    PROVE  migration' \in [Migrations -> Request]
<1>1. migration \in [Migrations -> Request] /\ migration[q] \in Request /\ record \in Containers
  BY DEF BindingTypeOK, Request, BindingStages
<1>2. ASSUME NEW r \in Request, migration' = [migration EXCEPT ![q] = r]
      PROVE  migration' \in [Migrations -> Request]
  BY <1>1, <1>2
<1>3. ASSUME NEW s \in BindingStages, GoTo(q, s) PROVE migration' \in [Migrations -> Request]
  <2>1. [migration[q] EXCEPT !.at = s] \in Request
    BY <1>1 DEF Request
  <2> QED
    BY <1>2, <1>3, <2>1 DEF GoTo
<1>4. ASSUME End(q) PROVE migration' \in [Migrations -> Request]
  <2>1. [NotStarted EXCEPT !.at = "done"] \in Request
    BY DEF NotStarted, Request, BindingStages
  <2> QED
    BY <1>2, <1>4, <2>1 DEF End
<1>5. CASE ListScopes(q)
  <2>1. [migration[q] EXCEPT !.at = "inspect", !.scope = record] \in Request
    BY <1>1 DEF Request, BindingStages
  <2>2. migration' = [migration EXCEPT ![q] = [migration[q] EXCEPT !.at = "inspect", !.scope = record]]
    BY <1>5 DEF ListScopes
  <2> QED
    BY <1>2, <2>1, <2>2
<1>6. CASE UpdateRow(q)
  <2>1. [migration[q] EXCEPT !.at = "provision", !.updated = TRUE] \in Request
    BY <1>1 DEF Request, BindingStages
  <2>2. migration' = [migration EXCEPT ![q] = [migration[q] EXCEPT !.at = "provision", !.updated = TRUE]]
    BY <1>6 DEF UpdateRow
  <2> QED
    BY <1>2, <2>1, <2>2
<1>7. \/ ListScopes(q) \/ UpdateRow(q) \/ End(q)
      \/ \E s \in BindingStages : GoTo(q, s)
  BY DEF BindingStages, Migrate, Rollback, Inspect, PassOver, Stop, StopFails, Rename, RenameFails,
     CreateReplacement, StartNew, Ready, ProvisionRole, StepFails, RemoveNew, RestoreRecord,
     RenameBack, StartOld
<1> QED
  BY <1>3, <1>4, <1>5, <1>6, <1>7

ContainersTyped == /\ made \subseteq Containers /\ running \subseteq made
                   /\ original \in made \cup {NoContainer} /\ record \in Containers
                   /\ torn \in BOOLEAN /\ excused \in BOOLEAN

LEMMA ContainerTypes ==
    ASSUME BindingTypeOK, OldKept, NEW q \in Migrations, Migrate(q) \/ Rollback(q)
    PROVE  ContainersTyped' /\ deaths' = deaths
<1>1. /\ ContainersTyped /\ Old \in made /\ q \in Containers
      /\ migration[q].at \notin Early => migration[q].scope = Old
  BY DEF BindingTypeOK, OldKept, ContainersTyped, Containers
<1> USE <1>1 DEF ContainersTyped, docker, AtStep
<1>2. CASE ListScopes(q) \/ Inspect(q) \/ PassOver(q) \/ StopFails(q) \/ RenameFails(q) \/ Ready(q)
           \/ ProvisionRole(q) \/ StepFails(q)
  BY <1>2 DEF ListScopes, Inspect, PassOver, StopFails, RenameFails, Ready, ProvisionRole, StepFails
<1>3. CASE Stop(q) \/ Rename(q)
  BY <1>3 DEF Stop, Rename
<1>4. CASE CreateReplacement(q)
  BY <1>4 DEF CreateReplacement
<1>5. CASE StartNew(q)
  BY <1>5 DEF StartNew, CanStart
<1>6. CASE UpdateRow(q)
  BY <1>6 DEF UpdateRow
<1>7. CASE RemoveNew(q)
  BY <1>7 DEF RemoveNew, Early
<1>8. CASE RestoreRecord(q)
  BY <1>8, OldAssumption DEF RestoreRecord, Early, Containers
<1>9. CASE RenameBack(q)
  BY <1>9 DEF RenameBack, Early
<1>10. CASE StartOld(q)
  <2>1. running' \subseteq made' /\ UNCHANGED <<made, original, record, torn, deaths>>
    BY <1>10 DEF StartOld, CanStart
  <2>2. excused' \in BOOLEAN
    BY <1>10 DEF StartOld
  <2> QED
    BY <2>1, <2>2
<1> QED
  BY <1>2, <1>3, <1>4, <1>5, <1>6, <1>7, <1>8, <1>9, <1>10 DEF Migrate, Rollback

LEMMA TypeStep == BindingTypeOK /\ OldKept /\ [BindingNext]_bindingVars => BindingTypeOK'
<1> SUFFICES ASSUME BindingTypeOK, OldKept, [BindingNext]_bindingVars PROVE BindingTypeOK'
  OBVIOUS
<1>0. BindingTypeOK <=> /\ ContainersTyped /\ migration \in [Migrations -> Request]
                        /\ deaths \in 0..MaxDeaths
  BY DEF BindingTypeOK, ContainersTyped, Request, BindingStages
<1>1. SUFFICES ContainersTyped' /\ migration' \in [Migrations -> Request] /\ deaths' \in 0..MaxDeaths
  BY DEF BindingTypeOK, ContainersTyped, Request, BindingStages, Containers
<1>2. ASSUME NEW q \in Migrations, Migrate(q) \/ Rollback(q)
      PROVE  ContainersTyped' /\ migration' \in [Migrations -> Request] /\ deaths' \in 0..MaxDeaths
  BY <1>0, <1>2, RequestTypes, ContainerTypes
<1>3. CASE UNCHANGED bindingVars
  BY <1>0, <1>3 DEF bindingVars, ContainersTyped
<1>4. CASE UserStarts \/ UserStops
  BY <1>0, <1>4 DEF UserStarts, UserStops, CanStart, ContainersTyped
<1>5. CASE ProcessDies
  <2>0. torn' \in BOOLEAN
    BY <1>5, Zenon DEF ProcessDies
  <2>1. excused' = TRUE /\ deaths < MaxDeaths /\ deaths' = deaths + 1
    BY <1>5, Zenon DEF ProcessDies
  <2>1a. UNCHANGED <<made, running, original, record>>
    BY <1>5 DEF ProcessDies, docker
  <2>2. deaths' \in 0..MaxDeaths
    BY <1>0, <2>1, CrashesAssumption
  <2>3. [NotStarted EXCEPT !.at = "done"] \in Request
    BY DEF NotStarted, Request, BindingStages
  <2>4. migration' \in [Migrations -> Request]
    BY <1>5, <2>3 DEF ProcessDies
  <2> QED
    BY <1>0, <2>0, <2>1, <2>1a, <2>2, <2>4 DEF ContainersTyped
<1> QED BY <1>2, <1>3, <1>4, <1>5 DEF BindingNext

LEMMA OldStep == BindingTypeOK /\ OldKept /\ [BindingNext]_bindingVars => OldKept'
<1> SUFFICES ASSUME BindingTypeOK, OldKept, [BindingNext]_bindingVars PROVE OldKept'
  OBVIOUS
<1> USE OldAssumption DEF BindingTypeOK, OldKept, Containers, Early, docker, GoTo, End, AtStep, NotStarted
<1>1. CASE UNCHANGED bindingVars
  BY <1>1 DEF bindingVars
<1>2. ASSUME NEW q \in Migrations, Migrate(q) PROVE OldKept'
  <2>1. CASE ListScopes(q) BY <2>1 DEF ListScopes
  <2>2. CASE Inspect(q) BY <2>2 DEF Inspect, Legacy
  <2>2a. CASE PassOver(q) BY <2>2a DEF PassOver
  <2>3. CASE Stop(q) BY <2>3 DEF Stop
  <2>3a. CASE StopFails(q) BY <2>3a DEF StopFails
  <2>4. CASE Rename(q) BY <2>4 DEF Rename
  <2>4a. CASE RenameFails(q) BY <2>4a DEF RenameFails
  <2>5. CASE CreateReplacement(q) BY <2>5 DEF CreateReplacement
  <2>6. CASE StartNew(q) BY <2>6 DEF StartNew
  <2>7. CASE Ready(q) BY <2>7 DEF Ready
  <2>8. CASE UpdateRow(q) BY <2>8 DEF UpdateRow
  <2>9. CASE ProvisionRole(q) BY <2>9 DEF ProvisionRole
  <2>10. CASE StepFails(q) BY <2>10 DEF StepFails
  <2> QED BY <1>2, <2>1, <2>2, <2>2a, <2>3, <2>3a, <2>4, <2>4a, <2>5, <2>6, <2>7,
           <2>8, <2>9, <2>10 DEF Migrate
<1>3. ASSUME NEW q \in Migrations, Rollback(q) PROVE OldKept'
  <2>1. CASE RemoveNew(q) BY <2>1 DEF RemoveNew
  <2>2. CASE RestoreRecord(q) BY <2>2 DEF RestoreRecord
  <2>3. CASE RenameBack(q) BY <2>3 DEF RenameBack
  <2>4. CASE StartOld(q) BY <2>4 DEF StartOld
  <2> QED BY <1>3, <2>1, <2>2, <2>3, <2>4 DEF Rollback
<1>4. CASE UserStarts \/ UserStops
  BY <1>4 DEF UserStarts, UserStops
<1>5. CASE ProcessDies
  BY <1>5 DEF ProcessDies
<1> QED BY <1>1, <1>2, <1>3, <1>4, <1>5 DEF BindingNext

(* Whatever starts a container asks for the port first; everything else    *)
(* only takes containers out of service.                                   *)
LEMMA PortStep == OneServerOnTheVolume /\ [BindingNext]_bindingVars => OneServerOnTheVolume'
<1> SUFFICES ASSUME OneServerOnTheVolume, [BindingNext]_bindingVars PROVE OneServerOnTheVolume'
  OBVIOUS
<1>1. running' \subseteq running \/ \E c \in Containers \cup made : running \subseteq {c} /\ running' = running \cup {c}
  <2> USE DEF docker
  <2>1. CASE UNCHANGED bindingVars
    BY <2>1 DEF bindingVars
  <2>2. ASSUME NEW q \in Migrations, Migrate(q)
        PROVE  running' \subseteq running \/ (running \subseteq {q} /\ running' = running \cup {q})
    BY <2>2 DEF Migrate, ListScopes, Inspect, PassOver, Stop, StopFails, Rename, RenameFails,
                CreateReplacement, StartNew, CanStart, Ready, UpdateRow, ProvisionRole, StepFails
  <2>3. ASSUME NEW q \in Migrations, Rollback(q)
        PROVE  running' \subseteq running
               \/ \E c \in made : running \subseteq {c} /\ running' = running \cup {c}
    BY <2>3 DEF Rollback, RemoveNew, RestoreRecord, RenameBack, StartOld, CanStart
  <2>4. CASE UserStarts \/ UserStops \/ ProcessDies
    BY <2>4 DEF UserStarts, UserStops, ProcessDies, CanStart
  <2> QED BY <2>1, <2>2, <2>3, <2>4 DEF BindingNext, Containers
<1> QED BY <1>1 DEF OneServerOnTheVolume

(* The row and the replacements. *)
LEMMA RowStep == BindingTypeOK /\ OldKept /\ RowFollows /\ [BindingNext]_bindingVars => RowFollows'
<1> SUFFICES ASSUME BindingTypeOK, OldKept, RowFollows, [BindingNext]_bindingVars, NEW p \in Migrations
             PROVE  BindingFollows(p)'
  BY DEF RowFollows
<1>0. BindingFollows(p)
  BY DEF RowFollows
<1> USE <1>0, OldAssumption DEF BindingTypeOK, OldKept, BindingFollows, Early, docker, GoTo, End, AtStep, NotStarted
<1>1. CASE UNCHANGED bindingVars
  BY <1>1 DEF bindingVars
<1>2. ASSUME NEW q \in Migrations, Migrate(q) PROVE BindingFollows(p)'
  <2>1. CASE ListScopes(q) BY <2>1 DEF ListScopes
  <2>2. CASE Inspect(q) BY <2>2 DEF Inspect
  <2>3. CASE PassOver(q) BY <2>3 DEF PassOver
  <2>4. CASE Stop(q) BY <2>4 DEF Stop
  <2>5. CASE StopFails(q) BY <2>5 DEF StopFails
  <2>6. CASE Rename(q) BY <2>6 DEF Rename
  <2>7. CASE RenameFails(q) BY <2>7 DEF RenameFails
  <2>8. CASE CreateReplacement(q) BY <2>8 DEF CreateReplacement
  <2>9. CASE StartNew(q) BY <2>9 DEF StartNew
  <2>10. CASE Ready(q) BY <2>10 DEF Ready
  <2>11. CASE UpdateRow(q)
    <3>1. CASE p # q BY <2>11, <3>1 DEF UpdateRow
    <3>2. CASE p = q
      <4>1. record' = p /\ made' = made /\ torn' = torn
        BY <2>11, <3>2 DEF UpdateRow
      <4>2. migration'[p].at = "provision" /\ migration'[p].updated
        BY <2>11, <3>2 DEF UpdateRow
      <4>3. p \in made
        BY <2>11, <3>2 DEF UpdateRow
      <4> QED BY <4>1, <4>2, <4>3
    <3> QED BY <3>1, <3>2
  <2>12. CASE ProvisionRole(q) BY <2>12 DEF ProvisionRole
  <2>13. CASE StepFails(q) BY <2>13 DEF StepFails
  <2> QED BY <1>2, <2>1, <2>2, <2>3, <2>4, <2>5, <2>6, <2>7, <2>8, <2>9, <2>10, <2>11, <2>12, <2>13 DEF Migrate
<1>3. ASSUME NEW q \in Migrations, Rollback(q) PROVE BindingFollows(p)'
  <2>1. CASE RemoveNew(q) BY <2>1 DEF RemoveNew
  <2>2. CASE RestoreRecord(q) BY <2>2 DEF RestoreRecord
  <2>3. CASE RenameBack(q) BY <2>3 DEF RenameBack
  <2>4. CASE StartOld(q) BY <2>4 DEF StartOld
  <2> QED BY <1>3, <2>1, <2>2, <2>3, <2>4 DEF Rollback
<1>4. CASE UserStarts \/ UserStops
  BY <1>4 DEF UserStarts, UserStops
<1>5. CASE ProcessDies
  BY <1>5 DEF ProcessDies
<1> QED BY <1>1, <1>2, <1>3, <1>4, <1>5 DEF BindingNext

(* Only a user, a crash and a refused start leave the database down with   *)
(* nobody about to start it.                                               *)
LEMMA ServiceStep == BindingTypeOK /\ OldKept /\ ServiceGuarded /\ [BindingNext]_bindingVars => ServiceGuarded'
<1> SUFFICES ASSUME BindingTypeOK, OldKept, ServiceGuarded, [BindingNext]_bindingVars PROVE ServiceGuarded'
  OBVIOUS
<1> USE OldAssumption DEF BindingTypeOK, OldKept, Early, docker, GoTo, End, AtStep, NotStarted, Responsible, ServiceGuarded
<1>1. CASE UNCHANGED bindingVars
  BY <1>1 DEF bindingVars
<1>2. ASSUME NEW q \in Migrations, Migrate(q) PROVE ServiceGuarded'
  <2>1. CASE ListScopes(q) BY <2>1 DEF ListScopes
  <2>2. CASE Inspect(q) BY <2>2 DEF Inspect
  <2>3. CASE PassOver(q) BY <2>3 DEF PassOver
  <2>4. CASE Stop(q) BY <2>4 DEF Stop
  <2>5. CASE StopFails(q) BY <2>5 DEF StopFails
  <2>6. CASE Rename(q) BY <2>6 DEF Rename
  <2>7. CASE RenameFails(q) BY <2>7 DEF RenameFails
  <2>8. CASE CreateReplacement(q) BY <2>8 DEF CreateReplacement
  <2>9. CASE StartNew(q) BY <2>9 DEF StartNew
  <2>10. CASE Ready(q) BY <2>10 DEF Ready
  <2>11. CASE UpdateRow(q) BY <2>11 DEF UpdateRow
  <2>12. CASE ProvisionRole(q) BY <2>12 DEF ProvisionRole
  <2>13. CASE StepFails(q) BY <2>13 DEF StepFails
  <2> QED BY <1>2, <2>1, <2>2, <2>3, <2>4, <2>5, <2>6, <2>7, <2>8, <2>9, <2>10, <2>11, <2>12, <2>13 DEF Migrate
<1>3. ASSUME NEW q \in Migrations, Rollback(q) PROVE ServiceGuarded'
  <2>1. CASE RemoveNew(q) BY <2>1 DEF RemoveNew
  <2>2. CASE RestoreRecord(q) BY <2>2 DEF RestoreRecord
  <2>3. CASE RenameBack(q) BY <2>3 DEF RenameBack
  <2>4. CASE StartOld(q) BY <2>4 DEF StartOld, CanStart
  <2> QED BY <1>3, <2>1, <2>2, <2>3, <2>4 DEF Rollback
<1>4. CASE UserStarts \/ UserStops
  BY <1>4 DEF UserStarts, UserStops
<1>5. CASE ProcessDies
  BY <1>5 DEF ProcessDies
<1> QED BY <1>1, <1>2, <1>3, <1>4, <1>5 DEF BindingNext

LEMMA BindingInductive == BindingIInv /\ [BindingNext]_bindingVars => BindingIInv'
  BY TypeStep, OldStep, RowStep, PortStep, ServiceStep DEF BindingIInv

LEMMA BindingInvariance == BindingSpec => []BindingIInv
  BY InitInvariant, BindingInductive, PTL DEF BindingSpec

(* Every variable keeps its type. *)
THEOREM BindingTyped == BindingSpec => []BindingTypeOK
<1>1. BindingIInv => BindingTypeOK
  BY DEF BindingIInv
<1> QED BY BindingInvariance, <1>1, PTL

(* Two servers never run on the volume that the old container and its      *)
(* replacements share: every start needs the host port they also share.    *)
THEOREM VolumeSafe == BindingSpec => []OneServerOnTheVolume
<1>1. BindingIInv => OneServerOnTheVolume
  BY DEF BindingIInv
<1> QED BY BindingInvariance, <1>1, PTL

(* The row names a container that exists unless a rollback is about to     *)
(* restore it or its write was lost.                                       *)
THEOREM RowBacked == BindingSpec => []RecordHasContainer
<1>1. BindingIInv => RecordHasContainer
  BY DEF BindingIInv, BindingTypeOK, OldKept, RowFollows, BindingFollows, RecordHasContainer, AtStep, Containers
<1> QED BY BindingInvariance, <1>1, PTL

(* A migration that found the database running does not leave it down,     *)
(* whichever of its steps failed.                                          *)
THEOREM ServiceRestored == BindingSpec => []ServiceBack
<1>1. BindingIInv => ServiceBack
  BY DEF BindingIInv, ServiceGuarded, Responsible, ServiceBack
<1> QED BY BindingInvariance, <1>1, PTL

-----------------------------------------------------------------------------
(***************************************************************************)
(* The three together.  Each keeps what it promises, whichever one a       *)
(* behaviour follows: a step of one leaves the variables of the others.    *)
(***************************************************************************)
LEMMA DatabasesStep ==
    DatabasesNext => [Next]_vars /\ [BackupNext]_backupVars /\ [BindingNext]_bindingVars
  BY DEF DatabasesNext

LEMMA Follow == DatabasesSpec => Spec /\ BackupSpec /\ BindingSpec
<1>1. DatabasesInit => Init /\ BackupInit /\ BindingInit
  BY DEF DatabasesInit
<1>2. [DatabasesNext]_<<part, vars, backupVars, bindingVars>>
         => [Next]_vars /\ [BackupNext]_backupVars /\ [BindingNext]_bindingVars
  BY DatabasesStep
<1> QED
  BY <1>1, <1>2, PTL DEF DatabasesSpec, Spec, BackupSpec, BindingSpec

(* Every variable of the three keeps its type; no row, object, request or  *)
(* container leaves the states its handlers expect.                        *)
THEOREM DatabasesTyped == DatabasesSpec => []DatabasesTypeOK
<1>1. TypeOK /\ BackupTypeOK /\ BindingTypeOK => DatabasesTypeOK
  BY DEF DatabasesTypeOK
<1> QED
  BY <1>1, Follow, LifecycleTyped, BackupsTyped, BindingTyped, PTL
=============================================================================
