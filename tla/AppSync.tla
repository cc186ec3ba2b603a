------------------------------- MODULE AppSync -------------------------------
(***************************************************************************)
(* GET /api/apps.  Every request lists the Docker containers, then the PM2 *)
(* processes, and writes what it saw into the MySQL table `apps` in one    *)
(* transaction (AppService.GetApps, AppRepository.SyncFromPM2).  Requests  *)
(* run concurrently; nothing in the program orders their listings against  *)
(* their transactions.                                                     *)
(*                                                                         *)
(* MySQL/InnoDB is external: REPEATABLE READ, the snapshot taken by the    *)
(* transaction's SELECT, exclusive locks (rows and the gaps of missing     *)
(* rows, both named here by the key they guard) held until the end.        *)
(***************************************************************************)
EXTENDS Naturals, FiniteSets

CONSTANTS
  Reqs,         \* the handler goroutines serving GET /api/apps
  Names,        \* app names
  DockerNames,  \* names a container may have
  Pm2Names,     \* names a PM2 process may have
  Fold,         \* Fold[n]: the key under which the UNIQUE index compares n
  Oversized,    \* names whose row exceeds a column of apps (VARCHAR(100), ...)
  SeedId,       \* the id of each row cmd/seed inserted, by name
  Ids,          \* values of apps.id
  PoolSize,     \* SetMaxOpenConns
  MaxChanges,   \* bound on the starts and removals of apps
  MaxFaults     \* bound on the failed listings and broken-off requests

Seeded == DOMAIN SeedId

ASSUME ConstantsOK ==
  /\ DockerNames \subseteq Names /\ Pm2Names \subseteq Names
  /\ Oversized \subseteq Names
  /\ Fold \in [Names -> Names]
  /\ Seeded \subseteq Names /\ SeedId \in [Seeded -> Ids]
  /\ \A m, n \in Seeded : SeedId[m] = SeedId[n] \/ Fold[m] = Fold[n] => m = n
  /\ PoolSize \in Nat \ {0} /\ MaxChanges \in Nat /\ MaxFaults \in Nat

VARIABLES
  docker, pm2,     \* the names each daemon would list now
  tbl,             \* the committed rows of apps
  pc,              \* where each request is
  views,           \* the AppViews of each request
  existing,        \* the rows its SELECT returned
  todo,            \* the names its current loop has not reached
  put, gone,       \* its uncommitted rows, and the ids of those it deleted
  locks,           \* the keys it holds locked
  want,            \* the name whose statement waits for a lock, if any
  absent,          \* history: names neither daemon had, at some moment of it,
                   \* and those of a daemon whose listing failed
  changes, faults

env    == <<docker, pm2, changes>>
txvars == <<existing, todo, put, gone, locks, want>>
vars   == <<docker, pm2, tbl, pc, views, existing, todo, put, gone, locks,
            want, absent, changes, faults>>

View == [name : Names, src : {"docker", "pm2"}]
Row  == [id : Ids, name : Names, src : {"docker", "pm2", "unset"},
         desc : BOOLEAN]          \* desc: the row has its description

NamesOf(S)  == {x.name : x \in S}
IdsOf(S)    == {x.id : x \in S}
KeysOf(S)   == {Fold[x.name] : x \in S}
Live        == docker \cup pm2
InTx(r)     == pc[r] \in {"upsert", "delete"}

(* The rows as r's own statements see them: its writes over the table.     *)
Current(r) == {x \in tbl : x.id \notin gone[r] \cup IdsOf(put[r])} \cup put[r]

AllRows == tbl \cup UNION {existing[r] \cup put[r] : r \in Reqs}
UsedIds == IdsOf(AllRows) \cup UNION {gone[r] : r \in Reqs}

(* AUTO_INCREMENT.  An id nobody refers to any more is as good as new.     *)
FreshId == CHOOSE i \in Ids : i \notin UsedIds

Init ==
  /\ docker \in SUBSET DockerNames /\ pm2 \in SUBSET Pm2Names
  /\ tbl = {[id |-> SeedId[n], name |-> n, src |-> "unset", desc |-> TRUE] :
              n \in Seeded}
  /\ pc = [r \in Reqs |-> "idle"]
  /\ views = [r \in Reqs |-> {}]
  /\ existing = [r \in Reqs |-> {}]
  /\ todo = [r \in Reqs |-> {}]
  /\ put = [r \in Reqs |-> {}]
  /\ gone = [r \in Reqs |-> {}]
  /\ locks = [r \in Reqs |-> {}]
  /\ want = [r \in Reqs |-> {}]
  /\ absent = [r \in Reqs |-> {}]
  /\ changes = 0 /\ faults = 0
-----------------------------------------------------------------------------
(* The environment: apps are deployed and removed outside this program.    *)

Toggle(S, n) == IF n \in S THEN S \ {n} ELSE S \cup {n}

NoteAbsent ==
  absent' = [r \in Reqs |-> IF pc[r] = "idle" THEN {}
                            ELSE absent[r] \cup (Names \ Live')]

DockerChanges(n) ==
  /\ changes < MaxChanges
  /\ docker' = Toggle(docker, n)
  /\ changes' = changes + 1
  /\ UNCHANGED pm2
  /\ NoteAbsent
  /\ UNCHANGED <<tbl, pc, views, txvars, faults>>

Pm2Changes(n) ==
  /\ changes < MaxChanges
  /\ pm2' = Toggle(pm2, n)
  /\ changes' = changes + 1
  /\ UNCHANGED docker
  /\ NoteAbsent
  /\ UNCHANGED <<tbl, pc, views, txvars, faults>>
-----------------------------------------------------------------------------
(* GetApps: the two listings.  An error of either is only logged, and the  *)
(* request goes on with what it has.                                       *)

Start(r) ==
  /\ pc[r] = "idle"
  /\ pc' = [pc EXCEPT ![r] = "docker"]
  /\ views' = [views EXCEPT ![r] = {}]
  /\ absent' = [absent EXCEPT ![r] = Names \ Live]
  /\ UNCHANGED <<env, tbl, txvars, faults>>

Listed(r, next, V) ==
  /\ views' = [views EXCEPT ![r] = V]
  /\ pc' = [pc EXCEPT ![r] = next]
  /\ UNCHANGED <<env, tbl, txvars>>

ListDocker(r) ==
  /\ pc[r] = "docker"
  /\ Listed(r, "pm2", [name : docker, src : {"docker"}])
  /\ UNCHANGED <<absent, faults>>

(* Mutant: the PM2 views replace the Docker views.                         *)
ListPm2Replaces(r) ==
  /\ pc[r] = "pm2"
  /\ Listed(r, "begin", [name : pm2, src : {"pm2"}])
  /\ UNCHANGED <<absent, faults>>

ListPm2(r) ==
  /\ pc[r] = "pm2"
  /\ Listed(r, "begin",
            views[r] \cup [name : pm2 \ NamesOf(views[r]), src : {"pm2"}])
  /\ UNCHANGED <<absent, faults>>

(* A server without Docker goes the same way, each time.                   *)
DockerListFails(r) ==
  /\ pc[r] = "docker" /\ faults < MaxFaults
  /\ Listed(r, "pm2", {})
  /\ absent' = [absent EXCEPT ![r] = @ \cup DockerNames]
  /\ faults' = faults + 1

Pm2ListFails(r) ==
  /\ pc[r] = "pm2" /\ faults < MaxFaults
  /\ Listed(r, "begin", views[r])
  /\ absent' = [absent EXCEPT ![r] = @ \cup Pm2Names]
  /\ faults' = faults + 1
-----------------------------------------------------------------------------
(* SyncFromPM2 inside WithTransaction.                                     *)

(* rows.Err() is not asked for: a read of the names that breaks off leaves *)
(* a shorter snapshot, on a connection on which the next statement fails.  *)
Begin(r) ==
  /\ pc[r] = "begin"
  /\ Cardinality({q \in Reqs : InTx(q)}) < PoolSize
  /\ pc' = [pc EXCEPT ![r] = "upsert"]
  /\ existing' = [existing EXCEPT ![r] = tbl]
  /\ todo' = [todo EXCEPT ![r] = NamesOf(views[r])]
  /\ UNCHANGED <<env, tbl, views, put, gone, locks, want, absent, faults>>

(* Mutant: DELETE FROM apps WHERE name = n.                                *)
VictimsByName(r, n) == {x \in Current(r) : x.name = n}

(* DELETE FROM apps WHERE id = the id the SELECT returned for n: the row   *)
(* may have been deleted since.                                            *)
Victims(r, n) ==
  {x \in Current(r) : x.id \in IdsOf({y \in existing[r] : y.name = n})}

(* The locks the statement about n takes.                                  *)
Needs(r, n) == IF pc[r] = "upsert" THEN {Fold[n]} ELSE KeysOf(Victims(r, n))

CanRun(r, n) ==
  /\ n \in todo[r] /\ want[r] \subseteq {n}
  /\ \A q \in Reqs \ {r} : Needs(r, n) \cap locks[q] = {}

(* The statement about n comes next, and another transaction is in its way.*)
Wait(r, n) ==
  /\ InTx(r) /\ n \in todo[r] /\ want[r] = {}
  /\ pc[r] = "upsert" => n \notin Oversized
  /\ ~CanRun(r, n)
  /\ want' = [want EXCEPT ![r] = {n}]
  /\ UNCHANGED <<env, tbl, pc, views, existing, todo, put, gone, locks,
                 absent, faults>>

SrcOf(r, n) == (CHOOSE v \in views[r] : v.name = n).src

(* Mutant: a listed app that has a row is left as it is.                   *)
UpdatedNever(r, n) == {}

(* UPDATE apps SET cwd, pm_id WHERE name = n: whatever row the index       *)
(* finds, possibly none.                                                   *)
Updated(r, n) ==
  {[x EXCEPT !.src = SrcOf(r, n)] :
     x \in {y \in Current(r) : Fold[y.name] = Fold[n]}}

IsNew(r, n) == n \notin NamesOf(existing[r])
Duplicate(r, n) == IsNew(r, n) /\ Fold[n] \in KeysOf(Current(r))

Upsert(r, n) ==
  /\ pc[r] = "upsert" /\ n \notin Oversized
  /\ CanRun(r, n)
  /\ ~Duplicate(r, n)
  /\ \/ /\ ~IsNew(r, n)
        /\ put' = [put EXCEPT ![r] =
             {x \in @ : x.id \notin IdsOf(Updated(r, n))} \cup Updated(r, n)]
     \/ /\ IsNew(r, n)
        /\ Ids \ UsedIds # {}
        /\ put' = [put EXCEPT ![r] = @ \cup
             {[id |-> FreshId, name |-> n, src |-> SrcOf(r, n),
               desc |-> FALSE]}]
  /\ locks' = [locks EXCEPT ![r] = @ \cup Needs(r, n)]
  /\ want' = [want EXCEPT ![r] = {}]
  /\ todo' = [todo EXCEPT ![r] = @ \ {n}]
  /\ UNCHANGED <<env, tbl, pc, views, existing, gone, absent, faults>>

(* Mutant: the loop does not test whether the name is incoming.            *)
UpsertDoneDropsAll(r) ==
  /\ pc[r] = "upsert" /\ todo[r] = {}
  /\ pc' = [pc EXCEPT ![r] = "delete"]
  /\ todo' = [todo EXCEPT ![r] = NamesOf(existing[r])]
  /\ UNCHANGED <<env, tbl, views, existing, put, gone, locks, want, absent,
                 faults>>

UpsertDone(r) ==
  /\ pc[r] = "upsert" /\ todo[r] = {}
  /\ pc' = [pc EXCEPT ![r] = "delete"]
  /\ todo' = [todo EXCEPT ![r] = NamesOf(existing[r]) \ NamesOf(views[r])]
  /\ UNCHANGED <<env, tbl, views, existing, put, gone, locks, want, absent,
                 faults>>

Delete(r, n) ==
  /\ pc[r] = "delete"
  /\ CanRun(r, n)
  /\ gone' = [gone EXCEPT ![r] = @ \cup IdsOf(Victims(r, n))]
  /\ put' = [put EXCEPT ![r] = @ \ Victims(r, n)]
  /\ locks' = [locks EXCEPT ![r] = @ \cup Needs(r, n)]
  /\ want' = [want EXCEPT ![r] = {}]
  /\ todo' = [todo EXCEPT ![r] = @ \ {n}]
  /\ UNCHANGED <<env, tbl, pc, views, existing, absent, faults>>

Finish(r) ==
  /\ pc' = [pc EXCEPT ![r] = "idle"]
  /\ views' = [views EXCEPT ![r] = {}]
  /\ existing' = [existing EXCEPT ![r] = {}]
  /\ todo' = [todo EXCEPT ![r] = {}]
  /\ put' = [put EXCEPT ![r] = {}]
  /\ gone' = [gone EXCEPT ![r] = {}]
  /\ locks' = [locks EXCEPT ![r] = {}]
  /\ want' = [want EXCEPT ![r] = {}]
  /\ absent' = [absent EXCEPT ![r] = {}]
  /\ UNCHANGED env

Commit(r) ==
  /\ pc[r] = "delete" /\ todo[r] = {}
  /\ tbl' = Current(r)
  /\ Finish(r)
  /\ UNCHANGED faults

(* The UNIQUE index refuses a row, or a value does not fit its column.     *)
Refused(r) ==
  /\ pc[r] = "upsert"
  /\ \E n \in todo[r] : /\ want[r] \subseteq {n}
                        /\ \/ n \in Oversized
                           \/ CanRun(r, n) /\ Duplicate(r, n)

(* Mutant: WithTransaction returns the error without a rollback.           *)
StatementFailsInPlace(r) ==
  /\ Refused(r)
  /\ pc' = [pc EXCEPT ![r] = "idle"]
  /\ UNCHANGED <<env, tbl, views, txvars, absent, faults>>

(* Mutant: when a statement fails the loop starts over.                    *)
StatementFailsRetried(r) ==
  /\ Refused(r)
  /\ todo' = [todo EXCEPT ![r] = NamesOf(views[r])]
  /\ want' = [want EXCEPT ![r] = {}]
  /\ UNCHANGED <<env, tbl, pc, views, existing, put, gone, locks, absent,
                 faults>>

(* A statement returns an error.  WithTransaction rolls back; GetApps logs *)
(* the error and answers all the same.                                     *)
StatementFails(r) ==
  /\ Refused(r)
  /\ Finish(r)
  /\ UNCHANGED <<tbl, faults>>

(* Transactions wait for each other in a cycle: each of S for a key that   *)
(* another of S holds.  InnoDB detects it and rolls one of them back.      *)
WaitsFor(r, q) ==
  q # r /\ \E n \in want[r] : Needs(r, n) \cap locks[q] # {}

Deadlocked(r) ==
  \E S \in SUBSET Reqs :
    /\ r \in S
    /\ \A p \in S : /\ \E q \in S : WaitsFor(p, q)
                    /\ \E q \in S : WaitsFor(q, p)

DeadlockVictim(r) ==
  /\ Deadlocked(r)
  /\ Finish(r)
  /\ UNCHANGED <<tbl, faults>>

(* The client leaves (the request context is cancelled), the connection to *)
(* MySQL breaks, a lock wait exceeds innodb_lock_wait_timeout: every later *)
(* call of the request fails.                                              *)
BreaksOff(r) ==
  /\ pc[r] # "idle" /\ faults < MaxFaults
  /\ Finish(r)
  /\ faults' = faults + 1
  /\ UNCHANGED tbl
-----------------------------------------------------------------------------
Serve(r) ==
  \/ ListDocker(r) \/ ListPm2(r)
  \/ Begin(r)
  \/ \E n \in Names : Wait(r, n)
  \/ \E n \in Names : Upsert(r, n)
  \/ UpsertDone(r)
  \/ \E n \in Names : Delete(r, n)
  \/ Commit(r)
  \/ StatementFails(r) \/ DeadlockVictim(r)

Next ==
  \/ \E n \in DockerNames : DockerChanges(n)
  \/ \E n \in Pm2Names : Pm2Changes(n)
  \/ \E r \in Reqs : \/ Start(r) \/ Serve(r)
                     \/ DockerListFails(r) \/ Pm2ListFails(r)
                     \/ BreaksOff(r)

Spec == Init /\ [][Next]_vars

Granted(r) ==
  \E n \in want[r] : Upsert(r, n) \/ Delete(r, n) \/ StatementFails(r)

(* A goroutine that can run does run; database/sql hands a freed           *)
(* connection to a request that waits for one, and InnoDB a freed lock to  *)
(* a statement that waits for it.  Nothing makes a client call again:      *)
(* Start has no fairness.                                                  *)
FairSpec ==
  /\ Spec
  /\ \A r \in Reqs : /\ WF_vars(Serve(r))
                     /\ SF_vars(Begin(r)) /\ SF_vars(Granted(r))
-----------------------------------------------------------------------------
(* The sets every variable ranges over, and that a request holds rows and  *)
(* locks in a transaction only: no error leaves any of it behind.          *)
TypeOK ==
  /\ docker \subseteq DockerNames /\ pm2 \subseteq Pm2Names
  /\ tbl \subseteq Row
  /\ pc \in [Reqs -> {"idle", "docker", "pm2", "begin", "upsert", "delete"}]
  /\ views \in [Reqs -> SUBSET View]
  /\ existing \in [Reqs -> SUBSET Row]
  /\ todo \in [Reqs -> SUBSET Names]
  /\ put \in [Reqs -> SUBSET Row]
  /\ gone \in [Reqs -> SUBSET Ids]
  /\ locks \in [Reqs -> SUBSET Names]
  /\ want \in [Reqs -> SUBSET Names]
  /\ absent \in [Reqs -> SUBSET Names]
  /\ changes \in 0 .. MaxChanges /\ faults \in 0 .. MaxFaults
  /\ \A r \in Reqs : ~InTx(r) => /\ existing[r] = {} /\ todo[r] = {}
                                 /\ put[r] = {} /\ gone[r] = {}
                                 /\ locks[r] = {} /\ want[r] = {}

(* The thread from a committed row through the snapshots and the pending   *)
(* writes of the requests: wherever an id turns up it means the same app   *)
(* with the same description, a request has deleted only rows of its       *)
(* snapshot whose app it did not list, and its loops only go over the      *)
(* names they were given.                                                  *)
IdMeansOneApp ==
  \A x, y \in AllRows : x.id = y.id => x.name = y.name /\ x.desc = y.desc

GoneWasReadUnlisted ==
  \A r \in Reqs : \A i \in gone[r] :
    \E y \in existing[r] : y.id = i /\ y.name \notin NamesOf(views[r])

LoopsStayInTheirMaps ==
  \A r \in Reqs :
    /\ pc[r] = "upsert" => todo[r] \subseteq NamesOf(views[r])
    /\ pc[r] = "delete" => todo[r] \cap NamesOf(views[r]) = {}

RowsTraced == IdMeansOneApp /\ GoneWasReadUnlisted /\ LoopsStayInTheirMaps

Committed(r) == pc[r] = "delete" /\ pc'[r] = "idle"

(* A row outlives a sync with its id, name and description, or the         *)
(* request that removed it had read that very row and did not list its     *)
(* app: no interleaving of the loops of two transactions, and no rollback, *)
(* costs a listed app the row that the seed or an operator described.      *)
ListedRowsKept ==
  [][\A x \in tbl :
       \/ \E y \in tbl' : y.id = x.id /\ y.name = x.name /\ y.desc = x.desc
       \/ \E r \in Reqs : /\ Committed(r)
                          /\ x.id \in IdsOf(existing[r])
                          /\ x.name \notin NamesOf(views[r])]_vars

(* The doc comment of SyncFromPM2: it "removes ones no longer present".  A *)
(* removed app was in neither daemon at some moment of the request that    *)
(* removed its row, or it is of the daemon whose listing that request has  *)
(* not got, and no app of the other daemon pays for it.                    *)
OnlyAbsentRemoved ==
  [][\A x \in tbl :
       x.id \notin IdsOf(tbl') =>
         \E r \in Reqs : Committed(r) /\ x.name \in absent[r]]_vars

(* The same comment: it "upserts the given apps".  After a commit every    *)
(* app of the committed listing has a row.                                 *)
GivenAppsStored ==
  [][\A r \in Reqs :
       Commit(r) => NamesOf(views[r]) \subseteq NamesOf(tbl')]_vars

(* Who can go on: a listing returns, the pool has a connection, a loop is  *)
(* over, or a transaction issues a statement that runs, waits or fails; a  *)
(* statement that waits has its lock free, or InnoDB sees a deadlock.      *)
CanGoOn(r) ==
  \/ pc[r] \in {"docker", "pm2"}
  \/ pc[r] = "begin" /\ Cardinality({q \in Reqs : InTx(q)}) < PoolSize
  \/ InTx(r) /\ \/ todo[r] = {} \/ want[r] = {}
                \/ \E n \in todo[r] : CanRun(r, n)
                \/ Refused(r) \/ Deadlocked(r)

(* Of the requests under way one can go on: the locks and connections of   *)
(* the others are never all they wait for, except in a circle that InnoDB  *)
(* breaks; none is left with a request that is over.                       *)
NeverStuck == (\E r \in Reqs : pc[r] # "idle") => \E r \in Reqs : CanGoOn(r)

(* No order in which the two transactions lock the rows of their maps, and *)
(* no shortage of connections, leaves a request waiting for ever.          *)
EveryCallAnswered == \A r \in Reqs : pc[r] # "idle" ~> pc[r] = "idle"

(* Once apps stop coming and going, calls that go on being made bring the  *)
(* table to what the daemons list, whatever stale listing was still on its *)
(* way.                                                                    *)
Synced ==
  /\ NamesOf(tbl) = Live
  /\ \A x \in tbl : x.src = IF x.name \in docker THEN "docker" ELSE "pm2"

Converges == []<>(\E r \in Reqs : pc[r] = "docker") => <>[]Synced

Abstract == INSTANCE AppTable WITH rows <- tbl

(* A sync is the atomic step its comment describes: every behaviour of the *)
(* loops of one request, with their errors and rollbacks, maps to it or to *)
(* a stutter.                                                              *)
SyncIsAtomic == Abstract!Spec

Shared == INSTANCE SharedTable
            WITH rows <- tbl, open <- {r \in Reqs : InTx(r)},
                 given <- [r \in Reqs |-> IF InTx(r) THEN views[r] ELSE {}],
                 snap <- existing

(* However the loops of several requests interleave, each transaction is a *)
(* read and a write: its locks keep what the write rests on from changing  *)
(* under it, statement by statement.                                       *)
SyncIsMerge == Shared!SharedSpec
=============================================================================
