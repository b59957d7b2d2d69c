-------------------------- MODULE SystemUpdateProofs --------------------------
(***************************************************************************)
(* What holds of the self-update for any number of requests, checks,       *)
(* commits and crashes.                                                    *)
(***************************************************************************)
EXTENDS SystemUpdate, TLAPS

Hashes == Versions \cup {Unknown}
Statuses == [current : Hashes, remote : Hashes, updating : BOOLEAN]
CheckRecs == [at : {"idle", "fetch", "head", "remote", "store"}, head : Hashes, remote : Hashes]
UpdateRecs == [at : {"idle", "raise", "target", "pull", "lower", "launch",
                     "sidecar", "failed", "withdrawn", "cleared", "done"}, hash : Hashes,
               overtaken : BOOLEAN]

(* A HEAD that was read, by a check under way or by the last one, lies     *)
(* between the commit that runs and the HEAD of now: pulls move HEAD       *)
(* forward, and what moves the running commit starts the process anew.     *)
HeadsBetween ==
    /\ status.current \in (built..head) \cup {Unknown}
    /\ \A c \in Checks : check[c].head \in (built..head) \cup {Unknown}

(* Memory alone says that an update is under way, whatever becomes of the  *)
(* setting, until the failed pull of another request overtakes it.         *)
RaisedInMemory ==
    \A u \in Updaters : Underway(u) /\ update[u].overtaken = FALSE => status.updating = TRUE

IInv == UpdateTypeOK /\ HeadsBetween /\ RaisedInMemory

-----------------------------------------------------------------------------
LEMMA HashFacts == /\ Unknown \in Hashes /\ Versions \subseteq Hashes /\ Unknown \notin Versions
                   /\ Unknown \in Nat /\ Versions \subseteq Nat
  BY VersionsAssumption DEF Hashes, Versions, Unknown

LEMMA NothingKnown == NoStatus \in Statuses /\ IdleCheck \in CheckRecs /\ IdleUpdate \in UpdateRecs
  BY HashFacts DEF NoStatus, IdleCheck, IdleUpdate, Statuses, CheckRecs, UpdateRecs

(* UpdateTypeOK in terms of the sets above.                                      *)
LEMMA Typed == UpdateTypeOK <=> /\ upstream \in Versions
                                /\ remoteRef \in 0..upstream
                                /\ head \in 0..remoteRef
                                /\ built \in 0..head
                                /\ status \in Statuses
                                /\ flag \in BOOLEAN
                                /\ target \in Hashes
                                /\ boot \in {"check", "flag", "clear", "done", "missed"}
                                /\ check \in [Checks -> CheckRecs]
                                /\ update \in [Updaters -> UpdateRecs]
                                /\ sidecar \in Updaters \cup {Nobody}
                                /\ crashes \in 0..MaxCrashes
  BY DEF UpdateTypeOK, Hashes, Statuses, CheckRecs, UpdateRecs

(* A process that starts knows nothing.                                    *)
LEMMA Started ==
    ASSUME StartProcess
    PROVE  /\ status' \in Statuses /\ status'.current = Unknown
           /\ boot' = "check"
           /\ check' \in [Checks -> CheckRecs]
           /\ \A c \in Checks : check'[c].head = Unknown
           /\ update' \in [Updaters -> UpdateRecs]
           /\ \A u \in Updaters : update'[u].at = "idle"
<1>1. [IdleCheck EXCEPT !.at = "fetch"] \in CheckRecs /\ [IdleCheck EXCEPT !.at = "fetch"].head = Unknown
  BY HashFacts DEF IdleCheck, CheckRecs
<1>2. IdleCheck.head = Unknown /\ IdleUpdate.at = "idle" /\ NoStatus.current = Unknown
  BY DEF IdleCheck, IdleUpdate, NoStatus
<1> QED
  BY <1>1, <1>2, NothingKnown DEF StartProcess

LEMMA InitOK == UpdateInit => IInv
<1> SUFFICES ASSUME UpdateInit PROVE IInv
  OBVIOUS
<1>1. [IdleCheck EXCEPT !.at = "fetch"] \in CheckRecs /\ [IdleCheck EXCEPT !.at = "fetch"].head = Unknown
  BY HashFacts DEF IdleCheck, CheckRecs
<1>2. IdleCheck.head = Unknown /\ IdleUpdate.at = "idle" /\ NoStatus.current = Unknown
  BY DEF IdleCheck, IdleUpdate, NoStatus
<1>3. UpdateTypeOK
  <2>1. check \in [Checks -> CheckRecs] /\ update \in [Updaters -> UpdateRecs] /\ status \in Statuses
    BY <1>1, NothingKnown DEF UpdateInit
  <2>2. upstream \in Versions /\ remoteRef \in 0..upstream /\ head \in 0..remoteRef /\ built \in 0..head
        /\ crashes \in 0..MaxCrashes
    BY VersionsAssumption DEF UpdateInit, Versions
  <2>3. flag \in BOOLEAN /\ target \in Hashes /\ sidecar \in Updaters \cup {Nobody}
        /\ boot \in {"check", "flag", "clear", "done", "missed"}
    BY HashFacts DEF UpdateInit
  <2> QED
    BY <2>1, <2>2, <2>3, Typed
<1>4. HeadsBetween
  BY <1>1, <1>2 DEF UpdateInit, HeadsBetween
<1>5. RaisedInMemory
  BY <1>2 DEF UpdateInit, RaisedInMemory, Underway
<1> QED
  BY <1>3, <1>4, <1>5 DEF IInv

(* A check moves its own record only, and a hash it reads is a hash.       *)
LEMMA CheckMoves ==
    ASSUME check \in [Checks -> CheckRecs], NEW c \in Checks, NEW h \in Hashes
    PROVE  /\ [check EXCEPT ![c].at = "fetch"] \in [Checks -> CheckRecs]
           /\ [check EXCEPT ![c].at = "head"] \in [Checks -> CheckRecs]
           /\ [check EXCEPT ![c].at = "remote", ![c].head = h] \in [Checks -> CheckRecs]
           /\ [check EXCEPT ![c] = IdleCheck] \in [Checks -> CheckRecs]
           /\ \A d \in Checks :
                /\ [check EXCEPT ![c].at = "fetch"][d].head = check[d].head
                /\ [check EXCEPT ![c].at = "head"][d].head = check[d].head
                /\ [check EXCEPT ![c].at = "remote", ![c].head = h][d].head \in {check[d].head, h}
                /\ [check EXCEPT ![c] = IdleCheck][d].head \in {check[d].head, Unknown}
<1>1. check[c] \in CheckRecs
  OBVIOUS
<1>2. IdleCheck.head = Unknown
  BY DEF IdleCheck
<1> QED
  BY <1>1, <1>2, NothingKnown DEF CheckRecs

(* An update goes on to the next stage, and may forget its hash by that.   *)
Moved(u, stage) == \/ update' = [update EXCEPT ![u].at = stage]
                   \/ update' = [update EXCEPT ![u].at = stage, ![u].hash = Unknown]

LEMMA UpdateMoves ==
    ASSUME update \in [Updaters -> UpdateRecs], NEW u \in Updaters,
           NEW s \in {"raise", "target", "pull", "lower", "launch", "sidecar", "failed", "withdrawn",
                      "cleared", "done"},
           Moved(u, s)
    PROVE  /\ update' \in [Updaters -> UpdateRecs]
           /\ \A v \in Updaters : /\ update'[v].at = IF v = u THEN s ELSE update[v].at
                                  /\ update'[v].overtaken = update[v].overtaken
<1>1. update[u] \in UpdateRecs
  OBVIOUS
<1> QED
  BY <1>1, HashFacts DEF UpdateRecs, Moved

(* The end of the sidecar.                                                 *)
LEMMA Reporting ==
    ASSUME update \in [Updaters -> UpdateRecs], NEW s \in {"failed", "done"}, Report(s)
    PROVE  /\ update' \in [Updaters -> UpdateRecs]
           /\ \A v \in Updaters :
                /\ update'[v].at = IF v = sidecar /\ update[v].at = "sidecar" THEN s ELSE update[v].at
                /\ update'[v].overtaken = update[v].overtaken
<1>1. \A u \in Updaters : /\ [update[u] EXCEPT !.at = s] \in UpdateRecs
                          /\ [update[u] EXCEPT !.at = s].at = s
                          /\ [update[u] EXCEPT !.at = s].overtaken = update[u].overtaken
  BY DEF UpdateRecs
<1> QED
  BY <1>1 DEF Report, At

-----------------------------------------------------------------------------
(* What a step leaves to be shown: the type of what it changes.            *)
LEMMA TypedNext ==
    ASSUME /\ upstream' \in Versions /\ remoteRef' \in 0..upstream'
           /\ head' \in 0..remoteRef' /\ built' \in 0..head',
           /\ status' \in Statuses /\ flag' \in BOOLEAN /\ target' \in Hashes,
           boot' \in {"check", "flag", "clear", "done", "missed"},
           check' \in [Checks -> CheckRecs], update' \in [Updaters -> UpdateRecs],
           sidecar' \in Updaters \cup {Nobody}, crashes' \in 0..MaxCrashes
    PROVE  UpdateTypeOK'
  BY DEF UpdateTypeOK, Hashes, Statuses, CheckRecs, UpdateRecs

(* The steps of a check and of the goroutine that boots.                   *)
LEMMA CheckStep ==
    ASSUME IInv,
           \/ \E c \in Checks : StartCheck(c) \/ Fetch(c) \/ ReadHead(c) \/ ReadRemote(c) \/ StoreHashes(c)
           \/ ReadFlag \/ ClearFlag \/ ClearMissed
    PROVE  IInv'
<1>1. UpdateTypeOK /\ HeadsBetween /\ RaisedInMemory
  BY DEF IInv
<1>2. /\ upstream \in Versions /\ remoteRef \in 0..upstream /\ head \in 0..remoteRef /\ built \in 0..head
      /\ status \in Statuses /\ flag \in BOOLEAN /\ target \in Hashes
      /\ boot \in {"check", "flag", "clear", "done", "missed"}
      /\ check \in [Checks -> CheckRecs] /\ update \in [Updaters -> UpdateRecs]
      /\ sidecar \in Updaters \cup {Nobody} /\ crashes \in 0..MaxCrashes
  BY <1>1, Typed
<1>3. /\ built \in Nat /\ head \in Nat /\ remoteRef \in Nat /\ upstream \in Nat
      /\ head \in Hashes /\ remoteRef \in Hashes /\ head \in built..head
  BY <1>2, VersionsAssumption, HashFacts DEF Versions
<1>4. ASSUME NEW c \in Checks, StartCheck(c) PROVE IInv'
  <2>1. check' = [check EXCEPT ![c].at = "fetch"]
        /\ UNCHANGED <<upstream, remoteRef, head, built, status, flag, target, boot, update, sidecar, crashes>>
    BY <1>4 DEF StartCheck, repo, settings
  <2>2. check' \in [Checks -> CheckRecs] /\ \A d \in Checks : check'[d].head = check[d].head
    BY <1>2, <1>3, <2>1, CheckMoves
  <2>3. UpdateTypeOK'
    BY <1>2, <2>1, <2>2, TypedNext
  <2>4. HeadsBetween'
    BY <1>1, <2>1, <2>2 DEF HeadsBetween
  <2>5. RaisedInMemory'
    BY <1>1, <2>1 DEF RaisedInMemory, Underway
  <2> QED
    BY <2>3, <2>4, <2>5 DEF IInv
<1>5. ASSUME NEW c \in Checks, Fetch(c) PROVE IInv'
  <2>1. check' = [check EXCEPT ![c].at = "head"] /\ remoteRef' \in {remoteRef, upstream}
        /\ UNCHANGED <<upstream, head, built, status, flag, target, boot, update, sidecar, crashes>>
    BY <1>5 DEF Fetch, settings
  <2>2. check' \in [Checks -> CheckRecs] /\ \A d \in Checks : check'[d].head = check[d].head
    BY <1>2, <1>3, <2>1, CheckMoves
  <2>3. remoteRef' \in 0..upstream' /\ head' \in 0..remoteRef'
    BY <1>2, <1>3, <2>1
  <2>4. UpdateTypeOK'
    BY <1>2, <2>1, <2>2, <2>3, TypedNext
  <2>5. HeadsBetween'
    BY <1>1, <2>1, <2>2 DEF HeadsBetween
  <2>6. RaisedInMemory'
    BY <1>1, <2>1 DEF RaisedInMemory, Underway
  <2> QED
    BY <2>4, <2>5, <2>6 DEF IInv
<1>6. ASSUME NEW c \in Checks, ReadHead(c) PROVE IInv'
  <2>0. PICK hash \in {head, Unknown} : check' = [check EXCEPT ![c].at = "remote", ![c].head = hash]
    BY <1>6 DEF ReadHead
  <2>1. hash \in Hashes
        /\ UNCHANGED <<upstream, remoteRef, head, built, status, flag, target, boot, update, sidecar, crashes>>
    BY <1>3, <1>6, HashFacts DEF ReadHead, repo, settings
  <2>2. /\ check' \in [Checks -> CheckRecs]
        /\ \A d \in Checks : check'[d].head \in {check[d].head, head, Unknown}
    <3>1. /\ [check EXCEPT ![c].at = "remote", ![c].head = hash] \in [Checks -> CheckRecs]
          /\ \A d \in Checks :
                [check EXCEPT ![c].at = "remote", ![c].head = hash][d].head \in {check[d].head, hash}
      BY <1>2, <2>1, CheckMoves
    <3>2. /\ check' \in [Checks -> CheckRecs]
          /\ \A d \in Checks : check'[d].head \in {check[d].head, hash}
      BY <2>0, <3>1, Zenon
    <3>3. hash \in {head, Unknown}
      OBVIOUS
    <3> QED
      BY <3>2, <3>3
  <2>3. UpdateTypeOK'
    BY <1>2, <2>1, <2>2, TypedNext
  <2>4. HeadsBetween'
    BY <1>1, <1>3, <2>1, <2>2 DEF HeadsBetween
  <2>5. RaisedInMemory'
    BY <1>1, <2>1 DEF RaisedInMemory, Underway
  <2> QED
    BY <2>3, <2>4, <2>5 DEF IInv
<1>7. ASSUME NEW c \in Checks, ReadRemote(c) PROVE IInv'
  <2>0. PICK hash \in {remoteRef, Unknown} : check' = [check EXCEPT ![c].at = "store", ![c].remote = hash]
    BY <1>7 DEF ReadRemote
  <2>1. UNCHANGED <<upstream, remoteRef, head, built, status, flag, target, boot, update, sidecar, crashes>>
    BY <1>7 DEF ReadRemote, repo, settings
  <2>2. check' \in [Checks -> CheckRecs] /\ \A d \in Checks : check'[d].head = check[d].head
    <3>1. check[c] \in CheckRecs /\ hash \in Hashes
      BY <1>2, <1>3, HashFacts
    <3> QED
      BY <1>2, <2>0, <3>1 DEF CheckRecs
  <2>3. UpdateTypeOK'
    BY <1>2, <2>1, <2>2, TypedNext
  <2>4. HeadsBetween'
    BY <1>1, <2>1, <2>2 DEF HeadsBetween
  <2>5. RaisedInMemory'
    BY <1>1, <2>1 DEF RaisedInMemory, Underway
  <2> QED
    BY <2>3, <2>4, <2>5 DEF IInv
<1>8. ASSUME NEW c \in Checks, StoreHashes(c) PROVE IInv'
  <2>1. /\ check' = [check EXCEPT ![c] = IdleCheck]
        /\ status' = [status EXCEPT !.current = check[c].head, !.remote = check[c].remote]
        /\ boot' \in {boot, "flag"}
        /\ UNCHANGED <<upstream, remoteRef, head, built, flag, target, update, sidecar, crashes>>
    BY <1>8 DEF StoreHashes, repo, settings
  <2>2. check' \in [Checks -> CheckRecs] /\ \A d \in Checks : check'[d].head \in {check[d].head, Unknown}
    BY <1>2, <1>3, <2>1, CheckMoves
  <2>3. status' \in Statuses /\ status'.current = check[c].head /\ status'.updating = status.updating
    <3>1. check[c] \in CheckRecs
      BY <1>2
    <3> QED
      BY <1>2, <2>1, <3>1 DEF Statuses, CheckRecs
  <2>4. UpdateTypeOK'
    BY <1>2, <2>1, <2>2, <2>3, TypedNext
  <2>5. HeadsBetween'
    BY <1>1, <2>1, <2>2, <2>3 DEF HeadsBetween
  <2>6. RaisedInMemory'
    <3>1. update' = update /\ status'.updating = status.updating
      BY <2>1, <2>3
    <3> QED
      BY <1>1, <3>1 DEF RaisedInMemory, Underway
  <2> QED
    BY <2>4, <2>5, <2>6 DEF IInv
<1>9. ASSUME ReadFlag \/ ClearFlag \/ ClearMissed PROVE IInv'
  <2>1. /\ boot' \in {"clear", "done", "missed"} /\ flag' \in {flag, FALSE}
        /\ UNCHANGED <<upstream, remoteRef, head, built, status, target, check, update, sidecar, crashes>>
    BY <1>9 DEF ReadFlag, ClearFlag, ClearMissed, repo, settings
  <2>2. UpdateTypeOK'
    BY <1>2, <2>1, TypedNext
  <2>3. HeadsBetween'
    BY <1>1, <2>1 DEF HeadsBetween
  <2>4. RaisedInMemory'
    BY <1>1, <2>1 DEF RaisedInMemory, Underway
  <2> QED
    BY <2>2, <2>3, <2>4 DEF IInv
<1> QED
  BY <1>4, <1>5, <1>6, <1>7, <1>8, <1>9

(* The steps of an update.  What leaves it under way leaves the flag in    *)
(* memory alone, and the pull that lowers it overtakes every other update. *)
LEMMA UpdateStep ==
    ASSUME IInv, NEW u \in Updaters,
           \/ RaiseInMemory(u) \/ RaiseFlag(u) \/ SetTarget(u)
           \/ Pull(u) \/ PullFails(u) \/ LowerFlag(u)
           \/ Launch(u) \/ LaunchFails(u) \/ SidecarFailed(u)
    PROVE  IInv'
<1>1. UpdateTypeOK /\ HeadsBetween /\ RaisedInMemory
  BY DEF IInv
<1>2. /\ upstream \in Versions /\ remoteRef \in 0..upstream /\ head \in 0..remoteRef /\ built \in 0..head
      /\ status \in Statuses /\ flag \in BOOLEAN /\ target \in Hashes
      /\ boot \in {"check", "flag", "clear", "done", "missed"}
      /\ check \in [Checks -> CheckRecs] /\ update \in [Updaters -> UpdateRecs]
      /\ sidecar \in Updaters \cup {Nobody} /\ crashes \in 0..MaxCrashes
  BY <1>1, Typed
<1>3. update[u] \in UpdateRecs /\ status.remote \in Hashes /\ update[u].hash \in Hashes
  BY <1>2 DEF UpdateRecs, Statuses
<1>4. ASSUME RaiseInMemory(u) PROVE IInv'
  <2> DEFINE rec == [at |-> "raise", hash |-> status.remote, overtaken |-> FALSE]
  <2>1. /\ status' = [status EXCEPT !.updating = TRUE] /\ update' = [update EXCEPT ![u] = rec]
        /\ UNCHANGED <<upstream, remoteRef, head, built, flag, target, boot, check, sidecar, crashes>>
    BY <1>4 DEF RaiseInMemory, repo, settings
  <2>2. status' \in Statuses /\ status'.current = status.current /\ status'.updating = TRUE
    BY <1>2, <2>1 DEF Statuses
  <2>3. rec \in UpdateRecs
    BY <1>3 DEF UpdateRecs
  <2>4. update' \in [Updaters -> UpdateRecs]
    BY <1>2, <2>1, <2>3
  <2>5. UpdateTypeOK'
    BY <1>2, <2>1, <2>2, <2>4, TypedNext
  <2>6. HeadsBetween'
    BY <1>1, <2>1, <2>2 DEF HeadsBetween
  <2>7. RaisedInMemory'
    BY <2>2, Zenon DEF RaisedInMemory
  <2> QED
    BY <2>5, <2>6, <2>7 DEF IInv
(* The steps that leave the flag in memory alone.                          *)
<1>5. ASSUME NEW from \in {"raise", "target", "pull", "lower", "launch", "failed"},
             NEW to \in {"target", "pull", "launch", "sidecar", "failed", "withdrawn", "cleared"},
             At(u, from),
             Moved(u, to),
             from \in {"lower", "failed"} => to \in {"withdrawn", "cleared"},
             UNCHANGED <<upstream, built, status, boot, check, crashes>>,
             remoteRef' \in 0..upstream' /\ head' \in 0..remoteRef' /\ head <= head',
             flag' \in BOOLEAN /\ target' \in Hashes /\ sidecar' \in Updaters \cup {Nobody}
      PROVE  IInv'
  <2>1. /\ update' \in [Updaters -> UpdateRecs]
        /\ \A v \in Updaters : /\ update'[v].at = IF v = u THEN to ELSE update[v].at
                               /\ update'[v].overtaken = update[v].overtaken
    <3>1. to \in {"raise", "target", "pull", "lower", "launch", "sidecar", "failed", "withdrawn",
                  "cleared", "done"}
      BY <1>5
    <3> QED
      BY <1>2, <1>5, <3>1, UpdateMoves
  <2>2. built' \in 0..head' /\ head \in Nat /\ head' \in Nat /\ built \in Nat
    BY <1>2, <1>5, VersionsAssumption DEF Versions
  <2>3. UpdateTypeOK'
    BY <1>2, <1>5, <2>1, <2>2, TypedNext
  <2>4. HeadsBetween'
    BY <1>1, <1>5, <2>2 DEF HeadsBetween
  <2>5. \A v \in Updaters : Underway(v)' => Underway(v)
    BY <1>5, <2>1 DEF Underway, At
  <2>6. RaisedInMemory'
    BY <1>1, <1>5, <2>1, <2>5 DEF RaisedInMemory
  <2> QED
    BY <2>3, <2>4, <2>6 DEF IInv
<1>6. head \in Nat /\ head <= head /\ upstream \in 0..upstream /\ head <= upstream
  BY <1>2, VersionsAssumption DEF Versions
<1>7. CASE RaiseFlag(u)
  <2>1. Moved(u, "target")
    BY <1>7 DEF RaiseFlag, Go, Moved
  <2> QED
    BY <1>2, <1>5, <1>6, <1>7, <2>1 DEF RaiseFlag, repo
<1>8. CASE SetTarget(u)
  <2>1. Moved(u, "pull")
    BY <1>8 DEF SetTarget, Go, Moved
  <2> QED
    BY <1>2, <1>3, <1>5, <1>6, <1>8, <2>1 DEF SetTarget, repo
<1>9. CASE Pull(u)
  <2>1. Moved(u, "launch")
    BY <1>9 DEF Pull, Go, Moved
  <2> QED
    BY <1>2, <1>5, <1>6, <1>9, <2>1 DEF Pull, settings
<1>10. CASE PullFails(u)
  <2>1. /\ status' = [status EXCEPT !.updating = FALSE]
        /\ update' = [v \in Updaters |-> [at |-> IF v = u THEN "lower" ELSE update[v].at,
                                          hash |-> update[v].hash,
                                          overtaken |-> update[v].overtaken \/ Underway(v)]]
        /\ UNCHANGED <<upstream, remoteRef, head, built, flag, target, boot, check, sidecar, crashes>>
    BY <1>10 DEF PullFails, repo, settings
  <2>2. status' \in Statuses /\ status'.current = status.current
    BY <1>2, <2>1 DEF Statuses
  <2>3. update' \in [Updaters -> UpdateRecs]
    <3>1. \A v \in Updaters : /\ update[v].at \in {"idle", "raise", "target", "pull", "lower", "launch",
                                   "sidecar", "failed", "withdrawn", "cleared", "done"}
                              /\ update[v].hash \in Hashes
                              /\ update[v].overtaken \in BOOLEAN
      BY <1>2 DEF UpdateRecs
    <3>2. \A v \in Updaters : (update[v].overtaken \/ Underway(v)) \in BOOLEAN
      BY DEF Underway
    <3> QED
      BY <2>1, <3>1, <3>2 DEF UpdateRecs
  <2>4. UpdateTypeOK'
    BY <1>2, <2>1, <2>2, <2>3, TypedNext
  <2>5. HeadsBetween'
    BY <1>1, <2>1, <2>2 DEF HeadsBetween
  <2>6. RaisedInMemory'
    <3>1. ASSUME NEW v \in Updaters, Underway(v)' PROVE update'[v].overtaken = TRUE
      <4>1. update'[v].at = update[v].at
        BY <2>1, <3>1 DEF Underway
      <4>2. Underway(v)
        BY <3>1, <4>1 DEF Underway
      <4> QED
        BY <2>1, <4>2
    <3> QED
      BY <3>1 DEF RaisedInMemory
  <2> QED
    BY <2>4, <2>5, <2>6 DEF IInv
<1>11. CASE LowerFlag(u)
  <2>1. Moved(u, "withdrawn")
    BY <1>11 DEF LowerFlag, Go, Moved
  <2> QED
    BY <1>2, <1>5, <1>6, <1>11, <2>1 DEF LowerFlag, repo
<1>12. CASE Launch(u)
  <2>1. Moved(u, "sidecar")
    BY <1>12 DEF Launch, Go, Moved
  <2> QED
    BY <1>2, <1>5, <1>6, <1>12, <2>1 DEF Launch, repo, settings
<1>13. CASE LaunchFails(u)
  <2>1. Moved(u, "failed")
    BY <1>13 DEF LaunchFails, Go, Moved
  <2> QED
    BY <1>2, <1>5, <1>6, <1>13, <2>1 DEF LaunchFails, repo, settings
<1>14. CASE SidecarFailed(u)
  <2>1. Moved(u, "cleared")
    BY <1>14 DEF SidecarFailed, Go, Moved
  <2> QED
    BY <1>2, <1>5, <1>6, <1>14, <2>1 DEF SidecarFailed, repo
<1> QED
  BY <1>4, <1>7, <1>8, <1>9, <1>10, <1>11, <1>12, <1>13, <1>14

(* The end of the sidecar, and what happens around the process.            *)
LEMMA OutsideStep ==
    ASSUME IInv, BuildFails \/ BuildUnchanged \/ Recreate \/ Crash \/ Publish
    PROVE  IInv'
<1>1. UpdateTypeOK /\ HeadsBetween /\ RaisedInMemory
  BY DEF IInv
<1>2. /\ upstream \in Versions /\ remoteRef \in 0..upstream /\ head \in 0..remoteRef /\ built \in 0..head
      /\ status \in Statuses /\ flag \in BOOLEAN /\ target \in Hashes
      /\ boot \in {"check", "flag", "clear", "done", "missed"}
      /\ check \in [Checks -> CheckRecs] /\ update \in [Updaters -> UpdateRecs]
      /\ sidecar \in Updaters \cup {Nobody} /\ crashes \in 0..MaxCrashes
  BY <1>1, Typed
<1>3. ASSUME NEW stage \in {"failed", "done"}, Report(stage), sidecar' = Nobody,
             UNCHANGED <<upstream, remoteRef, head, built, status, flag, target, boot, check, crashes>>
      PROVE  IInv'
  <2>1. /\ update' \in [Updaters -> UpdateRecs]
        /\ \A v \in Updaters :
             /\ update'[v].at = IF v = sidecar /\ update[v].at = "sidecar" THEN stage ELSE update[v].at
             /\ update'[v].overtaken = update[v].overtaken
    BY <1>2, <1>3, Reporting
  <2>2. UpdateTypeOK'
    BY <1>2, <1>3, <2>1, TypedNext
  <2>3. HeadsBetween'
    BY <1>1, <1>3 DEF HeadsBetween
  <2>5. \A v \in Updaters : Underway(v)' => Underway(v)
    BY <2>1 DEF Underway
  <2>6. RaisedInMemory'
    BY <1>1, <1>3, <2>1, <2>5 DEF RaisedInMemory
  <2> QED
    BY <2>2, <2>3, <2>6 DEF IInv
<1>4. CASE BuildFails
  BY <1>3, <1>4 DEF BuildFails, repo, settings
<1>5. CASE BuildUnchanged
  BY <1>3, <1>5 DEF BuildUnchanged, repo, settings
<1>6. ASSUME StartProcess, built' \in {built, head}, sidecar' \in Updaters \cup {Nobody},
             crashes' \in 0..MaxCrashes,
             UNCHANGED <<upstream, remoteRef, head, flag, target>>
      PROVE  IInv'
  <2>1. built' \in 0..head'
    BY <1>2, <1>6, VersionsAssumption DEF Versions
  <2>2. UpdateTypeOK'
    BY <1>2, <1>6, <2>1, Started, TypedNext
  <2>3. HeadsBetween'
    BY <1>6, Started DEF HeadsBetween
  <2>4. RaisedInMemory'
    BY <1>6, Started DEF RaisedInMemory, Underway
  <2> QED
    BY <2>2, <2>3, <2>4 DEF IInv
<1>7. CASE Recreate
  BY <1>2, <1>6, <1>7 DEF Recreate, repo, settings
<1>8. CASE Crash
  <2>1. crashes' \in 0..MaxCrashes
    BY <1>2, <1>8, VersionsAssumption DEF Crash
  <2> QED
    BY <1>2, <1>6, <1>8, <2>1 DEF Crash, repo, settings
<1>9. CASE Publish
  <2>1. /\ upstream' = upstream + 1 /\ upstream < MaxVersion
        /\ UNCHANGED <<remoteRef, head, built, status, flag, target, boot, check, update, sidecar, crashes>>
    BY <1>9 DEF Publish, settings
  <2>2. upstream' \in Versions /\ remoteRef' \in 0..upstream'
    BY <1>2, <2>1, VersionsAssumption DEF Versions
  <2>3. UpdateTypeOK'
    BY <1>2, <2>1, <2>2, TypedNext
  <2>4. HeadsBetween'
    BY <1>1, <2>1 DEF HeadsBetween
  <2>5. RaisedInMemory'
    BY <1>1, <2>1 DEF RaisedInMemory, Underway
  <2> QED
    BY <2>3, <2>4, <2>5 DEF IInv
<1> QED
  BY <1>4, <1>5, <1>7, <1>8, <1>9

LEMMA StutterStep == ASSUME IInv, UNCHANGED updateVars PROVE IInv'
<1>1. UNCHANGED <<upstream, remoteRef, head, built, status, flag, target, boot, check, update,
                  sidecar, crashes>>
  BY DEF updateVars
<1> QED
  BY <1>1 DEF IInv, UpdateTypeOK, HeadsBetween, RaisedInMemory, Underway

LEMMA Inductive == IInv /\ [UpdateNext]_updateVars => IInv'
<1> SUFFICES ASSUME IInv, [UpdateNext]_updateVars PROVE IInv'
  OBVIOUS
<1>1. CASE Booting
  <2>1. CASE Fetch(BootCheck) \/ ReadHead(BootCheck) \/ ReadRemote(BootCheck) \/ StoreHashes(BootCheck)
    BY <2>1, CheckStep, BootCheckAssumption
  <2>2. CASE ReadFlag \/ ClearFlag \/ ClearMissed
    BY <2>2, CheckStep
  <2> QED
    BY <1>1, <2>1, <2>2 DEF Booting
<1>2. CASE \E c \in Checks : StartCheck(c) \/ Fetch(c) \/ ReadHead(c) \/ ReadRemote(c) \/ StoreHashes(c)
  BY <1>2, CheckStep
<1>3. ASSUME NEW u \in Updaters,
             \/ RaiseInMemory(u) \/ RaiseFlag(u) \/ SetTarget(u)
             \/ Pull(u) \/ PullFails(u) \/ LowerFlag(u)
             \/ Launch(u) \/ LaunchFails(u) \/ SidecarFailed(u)
      PROVE  IInv'
  BY <1>3, UpdateStep
<1>4. CASE BuildFails \/ BuildUnchanged \/ Recreate \/ Crash \/ Publish
  BY <1>4, OutsideStep
<1>5. CASE UNCHANGED updateVars
  BY <1>5, StutterStep
<1> QED
  BY <1>1, <1>2, <1>3, <1>4, <1>5 DEF UpdateNext

LEMMA Invariance == UpdateSpec => []IInv
  BY InitOK, Inductive, PTL DEF UpdateSpec

-----------------------------------------------------------------------------
(* Every variable keeps its type, and the commits their order: what runs   *)
(* is not ahead of what was pulled, nor that of what was fetched.          *)
THEOREM TypeCorrect == UpdateSpec => []UpdateTypeOK
<1>1. IInv => UpdateTypeOK
  BY DEF IInv
<1> QED
  BY <1>1, Invariance, PTL

(* An update under way is reported (GetUpdateStatus) from its first step   *)
(* to the end of its sidecar, whatever the boot goroutine, lost writes and *)
(* the failing sidecars of other requests do to the setting, and however   *)
(* many requests overlap, until the pull of another one fails: RunUpdate   *)
(* then lowers the flag that they share in memory.                         *)
THEOREM ReportedUnlessOvertaken == UpdateSpec => []UpdateReported
<1>1. IInv => UpdateReported
  <2> SUFFICES ASSUME IInv, NEW u \in Updaters, Underway(u), ~update[u].overtaken
               PROVE  status.updating
    BY DEF UpdateReported, Reported
  <2>1. update[u].overtaken \in BOOLEAN
    BY DEF IInv, UpdateTypeOK
  <2>2. update[u].overtaken = FALSE
    BY <2>1
  <2>3. status.updating = TRUE
    BY <2>2 DEF IInv, RaisedInMemory
  <2> QED
    BY <2>3
<1> QED
  BY <1>1, Invariance, PTL

(* Equal hashes mean that the newest known commit runs, or that a newer    *)
(* one was pulled and is not built: the hash taken for the running         *)
(* version lies between that and HEAD.                                     *)
THEOREM UpToDate == UpdateSpec => []UpToDateUnlessUnbuilt
<1>1. IInv => UpToDateUnlessUnbuilt
  <2> SUFFICES ASSUME IInv, status.current # Unknown, status.current = status.remote, head = built
               PROVE  built = status.remote
    BY DEF UpToDateUnlessUnbuilt
  <2>1. status.current \in built..head /\ built \in Nat /\ head \in Nat
    BY VersionsAssumption DEF IInv, HeadsBetween, UpdateTypeOK, Versions
  <2> QED
    BY <2>1
<1> QED
  BY <1>1, Invariance, PTL
=============================================================================
