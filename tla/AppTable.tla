------------------------------- MODULE AppTable -------------------------------
(***************************************************************************)
(* What SyncFromPM2 promises: one step that makes the table the given      *)
(* listing.  Rows of listed apps stay, with id and description, and take   *)
(* the listed values; new apps get new rows; the others go.                *)
(***************************************************************************)
EXTENDS Naturals

CONSTANTS Names, Ids, SeedId

VARIABLE rows

View == [name : Names, src : {"docker", "pm2"}]

Seeds == {[id |-> SeedId[n], name |-> n, src |-> "unset", desc |-> TRUE] :
            n \in DOMAIN SeedId}

(* The daemons' listings name an app once: AppService.GetApps skips a PM2  *)
(* process whose name a container has.                                     *)
Listing(V) == \A v, w \in V : v.name = w.name => v = w

Kept(V) == {[id |-> x.id, name |-> x.name, desc |-> x.desc,
             src |-> (CHOOSE v \in V : v.name = x.name).src] :
              x \in {y \in rows : \E v \in V : v.name = y.name}}

Sync(V) ==
  /\ Listing(V)
  /\ {x.name : x \in rows'} = {v.name : v \in V}
  /\ \A x, y \in rows' : x.id = y.id \/ x.name = y.name => x = y
  /\ Kept(V) \subseteq rows'
  /\ \A x \in rows' \ Kept(V) :
       /\ [name |-> x.name, src |-> x.src] \in V
       /\ x.id \notin {y.id : y \in rows}
       /\ ~x.desc

Init == rows = Seeds
Next == \E V \in SUBSET View : Sync(V)
Spec == Init /\ [][Next]_rows
=============================================================================
