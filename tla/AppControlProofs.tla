--------------------------- MODULE AppControlProofs ---------------------------
(***************************************************************************)
(* That an action hits the app the client was shown, for any requests,     *)
(* names and bounds, also names that both daemons have.                    *)
(*                                                                         *)
(* The invariant follows the answer from the daemons through the views of  *)
(* the request to `shown`, and the lookup from Docker's list to `act`, for *)
(* as long as nothing has made either doubtful.                            *)
(***************************************************************************)
EXTENDS AppControl, AppSyncProofs

(* The daemon a client should be shown.                                    *)
Daemon == IF Target \in docker THEN "docker"
          ELSE IF Target \in pm2 THEN "pm2" ELSE "none"

Seen(V) == {v \in V : v.name = Target}

Later == {"begin", "upsert", "delete"}

ViewsAreTrue ==
  LET mine == Seen(views[Viewer]) IN
  /\ pc[Viewer] = "pm2" =>
       mine = IF Target \in docker
              THEN {[name |-> Target, src |-> "docker"]} ELSE {}
  /\ pc[Viewer] \in Later =>
       mine = IF Target \in Live
              THEN {[name |-> Target, src |-> Daemon]} ELSE {}

ActIsTrue ==
  /\ act # "idle" => pc[Viewer] = "idle"
  /\ act = "docker" => Target \in docker
  /\ act = "pm2" => Target \notin docker \/ doubt
  /\ act = "stale" => doubt

CInv ==
  /\ IInv
  /\ doubt \in BOOLEAN
  /\ ActIsTrue
  /\ ~doubt => ViewsAreTrue /\ (pc[Viewer] = "idle" => shown = Daemon)

(* What the client reads off views that are true.                          *)
LEMMA ShownOfSeen ==
  ASSUME NEW V, NEW s, Seen(V) = {[name |-> Target, src |-> s]}
  PROVE  ShownIn(V) = s
<1> DEFINE v0 == [name |-> Target, src |-> s]
<1>1. v0 \in V /\ v0.name = Target
  BY DEF Seen
<1>2. \A v \in V : v.name = Target => v = v0
  BY DEF Seen
<1>3. (CHOOSE v \in V : v.name = Target) = v0
  BY <1>1, <1>2
<1>4. v0.src = s
  OBVIOUS
<1> HIDE DEF v0
<1>5. ShownIn(V) = (CHOOSE v \in V : v.name = Target).src
  BY <1>1 DEF ShownIn
<1> QED
  BY <1>3, <1>4, <1>5

LEMMA ShownOfNone ==
  ASSUME NEW V, Seen(V) = {}
  PROVE  ShownIn(V) = "none"
BY DEF Seen, ShownIn

(* What a step in which nothing fails does to the viewer's request.        *)
LEMMA ViewerStep ==
  ASSUME TypeOK, Next, faults' = faults
  PROVE  \/ pc'[Viewer] = pc[Viewer] /\ views'[Viewer] = views[Viewer]
         \/ /\ UNCHANGED <<docker, pm2>>
            /\ \/ pc[Viewer] = "idle" /\ pc'[Viewer] = "docker"
               \/ /\ pc[Viewer] = "docker" /\ pc'[Viewer] = "pm2"
                  /\ views'[Viewer] = [name : docker, src : {"docker"}]
               \/ /\ pc[Viewer] = "pm2" /\ pc'[Viewer] = "begin"
                  /\ views'[Viewer] = views[Viewer] \cup
                       [name : pm2 \ NamesOf(views[Viewer]), src : {"pm2"}]
               \/ /\ pc[Viewer] \in Later /\ pc'[Viewer] \in Later
                  /\ views'[Viewer] = views[Viewer]
               \/ pc[Viewer] \in Later /\ pc'[Viewer] = "idle"
<1> DEFINE Goal ==
         \/ pc'[Viewer] = pc[Viewer] /\ views'[Viewer] = views[Viewer]
         \/ /\ UNCHANGED <<docker, pm2>>
            /\ \/ pc[Viewer] = "idle" /\ pc'[Viewer] = "docker"
               \/ /\ pc[Viewer] = "docker" /\ pc'[Viewer] = "pm2"
                  /\ views'[Viewer] = [name : docker, src : {"docker"}]
               \/ /\ pc[Viewer] = "pm2" /\ pc'[Viewer] = "begin"
                  /\ views'[Viewer] = views[Viewer] \cup
                       [name : pm2 \ NamesOf(views[Viewer]), src : {"pm2"}]
               \/ /\ pc[Viewer] \in Later /\ pc'[Viewer] \in Later
                  /\ views'[Viewer] = views[Viewer]
               \/ pc[Viewer] \in Later /\ pc'[Viewer] = "idle"
<1> USE ControlConstantsOK DEF ControlConstantsOK
<1>1. ASSUME NEW n, DockerChanges(n) \/ Pm2Changes(n) PROVE Goal
  BY <1>1 DEF DockerChanges, Pm2Changes
<1>2. ASSUME NEW r \in Reqs, Start(r) PROVE Goal
  BY <1>2 DEF Start, env, TypeOK
<1>3. ASSUME NEW r \in Reqs, ListDocker(r) PROVE Goal
  BY <1>3 DEF ListDocker, Listed, env, TypeOK
<1>4. ASSUME NEW r \in Reqs, ListPm2(r) PROVE Goal
  BY <1>4 DEF ListPm2, Listed, env, TypeOK
<1>5. ASSUME NEW r \in Reqs,
             \/ Begin(r) \/ UpsertDone(r)
             \/ \E n \in Names : Wait(r, n) \/ Upsert(r, n) \/ Delete(r, n)
      PROVE  Goal
  <2>1. UNCHANGED <<docker, pm2, views>>
    BY <1>5 DEF Begin, UpsertDone, Wait, Upsert, Delete, env
  <2>2. /\ \A q \in Reqs \ {r} : pc'[q] = pc[q]
        /\ pc[r] \in Later /\ pc'[r] \in Later
    BY <1>5 DEF Begin, UpsertDone, Wait, Upsert, Delete, InTx, TypeOK, Later
  <2> QED
    BY <2>1, <2>2
<1>6. ASSUME NEW r \in Reqs,
             Commit(r) \/ StatementFails(r) \/ DeadlockVictim(r)
      PROVE  Goal
  <2>1. Finish(r) /\ pc[r] \in Later
    <3>1. ASSUME DeadlockVictim(r) PROVE InTx(r)
      BY <3>1 DEF DeadlockVictim, Deadlocked, WaitsFor, TypeOK
    <3> QED
      BY <1>6, <3>1 DEF Commit, StatementFails, Refused, DeadlockVictim,
                        InTx, Later
  <2> QED
    BY <2>1 DEF Finish, env, TypeOK
<1>7. ASSUME NEW r \in Reqs,
             DockerListFails(r) \/ Pm2ListFails(r) \/ BreaksOff(r)
      PROVE  FALSE
  BY <1>7 DEF DockerListFails, Pm2ListFails, BreaksOff, TypeOK
<1> HIDE DEF Goal
<1>8. Goal
  BY <1>1, <1>2, <1>3, <1>4, <1>5, <1>6, <1>7 DEF Next, Serve
<1> QED
  BY <1>8 DEF Goal

(* As long as there is no doubt, the views stay true of the daemons.       *)
LEMMA ViewsStep ==
  ASSUME CInv, Listing, ~doubt'
  PROVE  ViewsAreTrue' /\ ((pc[Viewer] = "idle" => shown = Daemon)')
<1>1. /\ TypeOK /\ Next /\ faults' = faults
      /\ (Target \in docker') = (Target \in docker)
      /\ (Target \in pm2') = (Target \in pm2)
      /\ Starts \/ ~doubt
  BY DEF CInv, IInv, Listing, Changed
<1>2. Daemon' = Daemon /\ (Target \in Live') = (Target \in Live)
  BY <1>1 DEF Daemon, Live
<1>3. pc[Viewer] \in {"idle", "docker", "pm2", "begin", "upsert", "delete"}
  BY <1>1, ControlConstantsOK DEF ControlConstantsOK, TypeOK
<1>4. CASE pc'[Viewer] = pc[Viewer] /\ views'[Viewer] = views[Viewer]
  BY <1>1, <1>2, <1>4 DEF CInv, ViewsAreTrue, Listing, Starts, Answers
<1>5. CASE pc[Viewer] = "idle" /\ pc'[Viewer] = "docker"
  BY <1>5 DEF ViewsAreTrue, Later
<1>6. CASE /\ pc[Viewer] = "docker" /\ pc'[Viewer] = "pm2"
           /\ views'[Viewer] = [name : docker, src : {"docker"}]
  <2>1. Seen(views'[Viewer]) =
          IF Target \in docker
          THEN {[name |-> Target, src |-> "docker"]} ELSE {}
    BY <1>6 DEF Seen
  <2> QED
    BY <1>1, <1>6, <2>1 DEF ViewsAreTrue, Later
<1>7. CASE /\ pc[Viewer] = "pm2" /\ pc'[Viewer] = "begin"
           /\ views'[Viewer] = views[Viewer] \cup
                [name : pm2 \ NamesOf(views[Viewer]), src : {"pm2"}]
  <2> DEFINE more == [name : pm2 \ NamesOf(views[Viewer]), src : {"pm2"}]
  <2>1. Seen(views[Viewer]) =
          IF Target \in docker
          THEN {[name |-> Target, src |-> "docker"]} ELSE {}
    BY <1>1, <1>7 DEF CInv, ViewsAreTrue, Starts
  <2>2. Target \in NamesOf(views[Viewer]) <=> Target \in docker
    BY <2>1 DEF Seen, NamesOf
  <2>3. Seen(more) = IF Target \in pm2 /\ Target \notin docker
                     THEN {[name |-> Target, src |-> "pm2"]} ELSE {}
    BY <2>2 DEF Seen
  <2>4. Seen(views'[Viewer]) = Seen(views[Viewer]) \cup Seen(more)
    BY <1>7 DEF Seen
  <2>5. Seen(views'[Viewer]) =
          IF Target \in Live THEN {[name |-> Target, src |-> Daemon]} ELSE {}
    BY <2>1, <2>3, <2>4 DEF Live, Daemon
  <2> QED
    BY <1>2, <1>7, <2>5 DEF ViewsAreTrue, Later
<1>8. CASE /\ pc[Viewer] \in Later /\ pc'[Viewer] \in Later
           /\ views'[Viewer] = views[Viewer]
  BY <1>1, <1>2, <1>8 DEF CInv, ViewsAreTrue, Later, Starts
<1>9. CASE pc[Viewer] \in Later /\ pc'[Viewer] = "idle"
  <2>1. /\ ~doubt /\ shown' = ShownIn(views[Viewer])
    BY <1>1, <1>9 DEF Listing, Starts, Answers, Later
  <2>2. Seen(views[Viewer]) =
          IF Target \in Live THEN {[name |-> Target, src |-> Daemon]} ELSE {}
    BY <1>9, <2>1 DEF CInv, ViewsAreTrue
  <2>3. shown' = Daemon
    BY <2>1, <2>2, ShownOfSeen, ShownOfNone DEF Daemon, Live
  <2> QED
    BY <1>2, <1>9, <2>3 DEF ViewsAreTrue, Later
<1> QED
  BY <1>1, <1>4, <1>5, <1>6, <1>7, <1>8, <1>9, ViewerStep

(* The lookup stays true too, or is known to be stale.                     *)
LEMMA ActStep ==
  ASSUME CInv, Listing
  PROVE  ActIsTrue'
<1>1. ASSUME act' # "idle" PROVE pc'[Viewer] = "idle" /\ ~Starts
  BY <1>1 DEF CInv, ActIsTrue, Listing, Starts
<1> QED
  BY <1>1 DEF CInv, ActIsTrue, Listing, Changed

LEMMA ControlStep == CInv /\ [ControlNext]_cvars => CInv'
<1> SUFFICES ASSUME CInv, [ControlNext]_cvars PROVE CInv'
  OBVIOUS
<1>1. CASE Listing
  <2>1. IInv'
    BY <1>1, TypeOKStep, RowsTracedStep DEF CInv, IInv, Listing
  <2>2. doubt' \in BOOLEAN
    BY <1>1 DEF Listing
  <2> QED
    BY <1>1, <2>1, <2>2, ViewsStep, ActStep DEF CInv
<1>2. CASE LookupFails
  <2>1. /\ UNCHANGED <<docker, pm2, changes, tbl, pc, views, txvars, absent>>
        /\ faults < MaxFaults /\ faults' = faults + 1
    BY <1>2 DEF LookupFails
  <2>2. TypeOK'
    BY <2>1, ConstantsOK DEF ConstantsOK, CInv, IInv, TypeOK, InTx, txvars
  <2>3. RowsTraced'
    BY <2>1 DEF CInv, IInv, RowsTraced, IdMeansOneApp, GoneWasReadUnlisted,
                LoopsStayInTheirMaps, AllRows, txvars
  <2> QED
    BY <1>2, <2>2, <2>3 DEF CInv, IInv, ActIsTrue, LookupFails
<1>3. CASE /\ UNCHANGED <<vars, shown, doubt>>
           /\ Ask \/ Lookup \/ ActDocker \/ ActPm2 \/ ActFails
             \/ UNCHANGED act
  <2>1. IInv'
    BY <1>3, TypeOKStep, RowsTracedStep DEF CInv, IInv
  <2>2. UNCHANGED <<docker, pm2, pc, views>>
    BY <1>3 DEF vars
  <2>3. ViewsAreTrue' = ViewsAreTrue /\ Daemon' = Daemon
    BY <2>2 DEF ViewsAreTrue, Daemon, Live
  <2>4. ActIsTrue'
    BY <1>3, <2>2 DEF CInv, ActIsTrue, Ask, Lookup, ActDocker, ActPm2,
                      ActFails, Goes
  <2> QED
    BY <1>3, <2>1, <2>2, <2>3, <2>4 DEF CInv
<1> QED
  BY <1>1, <1>2, <1>3 DEF ControlNext, cvars, Ask, Lookup, ActDocker, ActPm2,
                          ActFails, Goes

(* An action that succeeds has hit the app the client was shown, unless    *)
(* its name came or went since it asked, or a listing or lookup failed.    *)
THEOREM ActionHitsShown == ControlSpec => ActsOnShown
<1>1. ControlInit => CInv
  BY InitInv DEF ControlInit, CInv, ActIsTrue
<1>2. CInv => /\ ActDocker => shown = "docker" \/ doubt
              /\ ActPm2 => shown = "pm2" \/ doubt
  BY DEF CInv, ActIsTrue, Daemon, ActDocker, ActPm2
<1> QED
  BY <1>1, <1>2, ControlStep, PTL DEF ControlSpec, ActsOnShown
=============================================================================
