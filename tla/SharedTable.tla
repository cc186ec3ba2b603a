------------------------------ MODULE SharedTable ------------------------------
(***************************************************************************)
(* What is left of the promise of SyncFromPM2 when calls overlap: a read   *)
(* of the table and, unless the call gives up, one write that merges what  *)
(* was read and given into the table as it is by then.                     *)
(***************************************************************************)
EXTENDS AppTable

CONSTANTS
  Reqs,    \* the callers
  Fold     \* Fold[n]: the key under which the UNIQUE index compares n

VARIABLES
  open,    \* the calls under way,
  given,   \* the listing each was given
  snap     \* and the rows it read

svars == <<rows, open, given, snap>>

NamesIn(S) == {x.name : x \in S}
IdsIn(S)   == {x.id : x \in S}

(* The rows the index takes for the row of one given app.                  *)
Matching(V, x) == {v \in V : Fold[v.name] = Fold[x.name]}

(* S was read and V given.  Rows that were read and are not given go.  The *)
(* others stay, with the values of a given app that had a row at the read; *)
(* what had none gets a new row.  A given app whose row has gone since the *)
(* read gets none.                                                         *)
Merge(S, V) ==
  LET known   == {v \in V : v.name \in NamesIn(S)}
      dropped == {x \in rows : x.id \in IdsIn(S) /\ x.name \notin NamesIn(V)}
      new     == {y \in rows' : y.id \notin IdsIn(rows)}
  IN
  /\ \A x, y \in rows' : x.id = y.id \/ Fold[x.name] = Fold[y.name] => x = y
  /\ IdsIn(dropped) \cap IdsIn(rows') = {}
  /\ \A x \in rows \ dropped : \E y \in rows' :
       /\ y.id = x.id /\ y.name = x.name /\ y.desc = x.desc
       /\ \/ \E v \in Matching(V, x) : y.src = v.src
          \/ Matching(known, x) = {} /\ y.src = x.src
  /\ NamesIn(new) = NamesIn(V \ known)
  /\ \A y \in new : ~y.desc /\ \E v \in Matching(V, y) : y.src = v.src

Call(r, V) ==
  /\ r \notin open /\ Listing(V)
  /\ open' = open \cup {r}
  /\ given' = [given EXCEPT ![r] = V]
  /\ snap' = [snap EXCEPT ![r] = rows]
  /\ UNCHANGED rows

Return(r) ==
  /\ r \in open
  /\ open' = open \ {r}
  /\ given' = [given EXCEPT ![r] = {}]
  /\ snap' = [snap EXCEPT ![r] = {}]

Write(r)  == Return(r) /\ Merge(snap[r], given[r])
GiveUp(r) == Return(r) /\ UNCHANGED rows

SharedInit ==
  /\ Init
  /\ open = {}
  /\ given = [r \in Reqs |-> {}] /\ snap = [r \in Reqs |-> {}]

SharedNext ==
  \E r \in Reqs : \/ \E V \in SUBSET View : Call(r, V)
                  \/ Write(r) \/ GiveUp(r)

SharedSpec == SharedInit /\ [][SharedNext]_svars
=============================================================================
