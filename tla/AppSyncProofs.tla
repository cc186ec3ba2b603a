---------------------------- MODULE AppSyncProofs ----------------------------
(***************************************************************************)
(* Theorems about AppSync, for any requests, names, ids and bounds.        *)
(*                                                                         *)
(* TypeOK is inductive only together with LoopsStayInTheirMaps: the row an *)
(* Upsert writes takes its source from the view of the name it is about.   *)
(* ListedRowsKept follows from RowsTraced; locks play no part in it.       *)
(* What a request does not list was absent (MissedIsAbsent).  What a       *)
(* transaction has done between two statements is Merging; that others     *)
(* leave it so is what its locks are for (CommitFrame).                    *)
(***************************************************************************)
EXTENDS AppSync, FiniteSetTheorems, TLAPS

IInv == TypeOK /\ RowsTraced

(* A listed name has a view, and SrcOf is the source of one.               *)
LEMMA SrcOfListed ==
  ASSUME NEW r \in Reqs, NEW n \in NamesOf(views[r]), views[r] \subseteq View
  PROVE  SrcOf(r, n) \in {"docker", "pm2"}
<1>1. PICK v \in views[r] : v.name = n
  BY DEF NamesOf
<1>2. (CHOOSE w \in views[r] : w.name = n) \in views[r]
  BY <1>1
<1> QED
  BY <1>2 DEF SrcOf, View

(* AUTO_INCREMENT yields an id that no row has.                            *)
LEMMA FreshIdIsNew ==
  ASSUME Ids \ UsedIds # {}
  PROVE  FreshId \in Ids /\ FreshId \notin UsedIds
<1>1. \E i \in Ids : i \notin UsedIds
  OBVIOUS
<1> QED
  BY <1>1 DEF FreshId

(* What a request sees is committed, or its own.                           *)
LEMMA CurrentRows ==
  ASSUME NEW r \in Reqs
  PROVE  Current(r) \subseteq tbl \cup put[r] /\ Current(r) \subseteq AllRows
BY DEF Current, AllRows

LEMMA InitInv == Init => IInv
<1> SUFFICES ASSUME Init PROVE IInv
  OBVIOUS
<1> USE DEF Init
<1>1. tbl \subseteq Row
  <2> SUFFICES ASSUME NEW n \in Seeded
               PROVE  [id |-> SeedId[n], name |-> n, src |-> "unset",
                       desc |-> TRUE] \in Row
    OBVIOUS
  <2>1. SeedId[n] \in Ids /\ n \in Names
    BY ConstantsOK DEF ConstantsOK
  <2> QED
    BY <2>1 DEF Row
<1>2. TypeOK
  BY <1>1, ConstantsOK DEF ConstantsOK, TypeOK, InTx
<1>3. AllRows = tbl
  BY DEF AllRows
<1>4. IdMeansOneApp
  <2> SUFFICES ASSUME NEW x \in tbl, NEW y \in tbl, x.id = y.id
               PROVE  x.name = y.name /\ x.desc = y.desc
    BY <1>3 DEF IdMeansOneApp
  <2>1. PICK m \in Seeded : x = [id |-> SeedId[m], name |-> m,
                                 src |-> "unset", desc |-> TRUE]
    OBVIOUS
  <2>2. PICK n \in Seeded : y = [id |-> SeedId[n], name |-> n,
                                 src |-> "unset", desc |-> TRUE]
    OBVIOUS
  <2>3. m = n
    BY <2>1, <2>2, ConstantsOK DEF ConstantsOK
  <2> QED
    BY <2>1, <2>2, <2>3
<1>5. GoneWasReadUnlisted /\ LoopsStayInTheirMaps
  BY DEF GoneWasReadUnlisted, LoopsStayInTheirMaps
<1> QED
  BY <1>2, <1>4, <1>5 DEF IInv, RowsTraced

-----------------------------------------------------------------------------
(* Type correctness of each step.                                          *)

LEMMA FinishTypeOK ==
  ASSUME NEW r \in Reqs, TypeOK, Finish(r), tbl' \subseteq Row,
         faults' \in 0 .. MaxFaults
  PROVE  TypeOK'
BY DEF TypeOK, Finish, env, InTx

LEMMA ListedTypeOK ==
  ASSUME NEW r \in Reqs, TypeOK, pc[r] \in {"docker", "pm2"},
         NEW next \in {"pm2", "begin"}, NEW V \in SUBSET View,
         Listed(r, next, V), faults' \in 0 .. MaxFaults,
         absent' \in [Reqs -> SUBSET Names]
  PROVE  TypeOK'
BY DEF TypeOK, Listed, env, txvars, InTx

LEMMA UpsertTypeOK ==
  ASSUME IInv, NEW r \in Reqs, NEW n \in Names, Upsert(r, n)
  PROVE  TypeOK'
<1> USE DEF Upsert
<1>1. n \in NamesOf(views[r]) /\ views[r] \subseteq View
  BY DEF CanRun, IInv, TypeOK, RowsTraced, LoopsStayInTheirMaps
<1>2. SrcOf(r, n) \in {"docker", "pm2"}
  BY <1>1, SrcOfListed
<1>3. Current(r) \subseteq Row
  BY CurrentRows DEF IInv, TypeOK
<1>4. Updated(r, n) \subseteq Row
  BY <1>2, <1>3 DEF Updated, Row
<1>5. put'[r] \subseteq Row
  <2>1. CASE IsNew(r, n)
    <3>1. FreshId \in Ids
      BY <2>1, FreshIdIsNew
    <3>2. [id |-> FreshId, name |-> n, src |-> SrcOf(r, n), desc |-> FALSE]
            \in Row
      BY <3>1, <1>2 DEF Row
    <3>3. put'[r] = put[r] \cup {[id |-> FreshId, name |-> n,
                                 src |-> SrcOf(r, n), desc |-> FALSE]}
      BY <2>1 DEF IInv, TypeOK
    <3>4. put[r] \subseteq Row
      BY DEF IInv, TypeOK
    <3> HIDE DEF Upsert
    <3> QED
      BY <3>2, <3>3, <3>4
  <2>2. CASE ~IsNew(r, n)
    BY <2>2, <1>4 DEF IInv, TypeOK
  <2> QED
    BY <2>1, <2>2
<1>6. put' \in [Reqs -> SUBSET Row]
  BY <1>5 DEF IInv, TypeOK
<1>7. Needs(r, n) \subseteq Names
  BY ConstantsOK DEF ConstantsOK, Needs
<1> QED
  BY <1>6, <1>7 DEF IInv, TypeOK, env, InTx

LEMMA DeleteTypeOK ==
  ASSUME TypeOK, NEW r \in Reqs, NEW n \in Names, Delete(r, n)
  PROVE  TypeOK'
<1>1. Victims(r, n) \subseteq Row
  BY CurrentRows DEF TypeOK, Victims
<1>2. IdsOf(Victims(r, n)) \subseteq Ids
  BY <1>1 DEF IdsOf, Row
<1>3. KeysOf(Victims(r, n)) \subseteq Names
  BY <1>1, ConstantsOK DEF ConstantsOK, KeysOf, Row
<1>4. Needs(r, n) \subseteq Names
  BY <1>3 DEF Needs, Delete
<1> QED
  BY <1>2, <1>4 DEF Delete, TypeOK, env, InTx

LEMMA TypeOKStep == IInv /\ [Next]_vars => TypeOK'
<1> SUFFICES ASSUME IInv, [Next]_vars PROVE TypeOK'
  OBVIOUS
<1>0. TypeOK
  BY DEF IInv
<1>1. CASE UNCHANGED vars
  BY <1>0, <1>1 DEF TypeOK, vars, InTx
<1>2. ASSUME NEW n \in DockerNames, DockerChanges(n) PROVE TypeOK'
  BY <1>0, <1>2, ConstantsOK
  DEF DockerChanges, Toggle, NoteAbsent, TypeOK, txvars, InTx, ConstantsOK
<1>3. ASSUME NEW n \in Pm2Names, Pm2Changes(n) PROVE TypeOK'
  BY <1>0, <1>3, ConstantsOK
  DEF Pm2Changes, Toggle, NoteAbsent, TypeOK, txvars, InTx, ConstantsOK
<1>4. ASSUME NEW r \in Reqs, Start(r) PROVE TypeOK'
  BY <1>0, <1>4 DEF Start, TypeOK, env, txvars, InTx
<1>5. ASSUME NEW r \in Reqs, ListDocker(r) PROVE TypeOK'
  <2>1. [name : docker, src : {"docker"}] \subseteq View
    BY <1>0, ConstantsOK DEF TypeOK, View, ConstantsOK
  <2> QED
    BY <1>0, <1>5, <2>1, ListedTypeOK DEF ListDocker, TypeOK
<1>6. ASSUME NEW r \in Reqs, ListPm2(r) PROVE TypeOK'
  <2>1. [name : pm2 \ NamesOf(views[r]), src : {"pm2"}] \subseteq View
    BY <1>0, ConstantsOK DEF TypeOK, View, ConstantsOK
  <2> QED
    BY <1>0, <1>6, <2>1, ListedTypeOK DEF ListPm2, TypeOK
<1>7. ASSUME NEW r \in Reqs, DockerListFails(r) PROVE TypeOK'
  <2>1. /\ pc[r] = "docker" /\ Listed(r, "pm2", {})
        /\ faults < MaxFaults /\ faults' = faults + 1
        /\ absent' = [absent EXCEPT ![r] = @ \cup DockerNames]
    BY <1>7 DEF DockerListFails
  <2>2. faults' \in 0 .. MaxFaults
    BY <1>0, <2>1, ConstantsOK DEF TypeOK, ConstantsOK
  <2>3. absent' \in [Reqs -> SUBSET Names] /\ {} \in SUBSET View
    BY <1>0, <2>1, ConstantsOK DEF TypeOK, ConstantsOK
  <2> QED
    BY <1>0, <2>1, <2>2, <2>3, ListedTypeOK
<1>8. ASSUME NEW r \in Reqs, Pm2ListFails(r) PROVE TypeOK'
  <2>1. /\ pc[r] = "pm2" /\ Listed(r, "begin", views[r])
        /\ faults < MaxFaults /\ faults' = faults + 1
        /\ absent' = [absent EXCEPT ![r] = @ \cup Pm2Names]
    BY <1>8 DEF Pm2ListFails
  <2>2. faults' \in 0 .. MaxFaults
    BY <1>0, <2>1, ConstantsOK DEF TypeOK, ConstantsOK
  <2>3. absent' \in [Reqs -> SUBSET Names] /\ views[r] \in SUBSET View
    BY <1>0, <2>1, ConstantsOK DEF TypeOK, ConstantsOK
  <2> QED
    BY <1>0, <2>1, <2>2, <2>3, ListedTypeOK
<1>9. ASSUME NEW r \in Reqs, Begin(r) PROVE TypeOK'
  BY <1>0, <1>9 DEF Begin, TypeOK, env, InTx, NamesOf, View
<1>10. ASSUME NEW r \in Reqs, NEW n \in Names, Wait(r, n) PROVE TypeOK'
  BY <1>0, <1>10 DEF Wait, TypeOK, env, InTx
<1>11. ASSUME NEW r \in Reqs, NEW n \in Names, Upsert(r, n) PROVE TypeOK'
  BY <1>11, UpsertTypeOK
<1>12. ASSUME NEW r \in Reqs, UpsertDone(r) PROVE TypeOK'
  BY <1>0, <1>12 DEF UpsertDone, TypeOK, env, InTx, NamesOf, Row
<1>13. ASSUME NEW r \in Reqs, NEW n \in Names, Delete(r, n) PROVE TypeOK'
  BY <1>0, <1>13, DeleteTypeOK
<1>14. ASSUME NEW r \in Reqs, Commit(r) PROVE TypeOK'
  BY <1>0, <1>14, CurrentRows, FinishTypeOK DEF Commit, TypeOK
<1>15. ASSUME NEW r \in Reqs, StatementFails(r) \/ DeadlockVictim(r)
       PROVE TypeOK'
  BY <1>0, <1>15, FinishTypeOK DEF StatementFails, DeadlockVictim, TypeOK
<1>16. ASSUME NEW r \in Reqs, BreaksOff(r) PROVE TypeOK'
  BY <1>0, <1>16, ConstantsOK, FinishTypeOK
  DEF BreaksOff, TypeOK, ConstantsOK
<1> QED
  BY <1>1, <1>2, <1>3, <1>4, <1>5, <1>6, <1>7, <1>8, <1>9, <1>10, <1>11,
     <1>12, <1>13, <1>14, <1>15, <1>16 DEF Next, Serve

-----------------------------------------------------------------------------
(* RowsTraced at each step.                                                *)

(* No new row, no new meaning of an id.                                    *)
LEMMA NoNewRows ==
  ASSUME IdMeansOneApp, AllRows' \subseteq AllRows
  PROVE  IdMeansOneApp'
BY DEF IdMeansOneApp

(* A write under an id nobody uses, or under its own row's id and name.    *)
LEMMA UpsertIds ==
  ASSUME IInv, NEW r \in Reqs, NEW n \in Names, Upsert(r, n)
  PROVE  IdMeansOneApp'
<1> USE DEF Upsert
<1>1. CASE IsNew(r, n)
  <2> DEFINE new == [id |-> FreshId, name |-> n, src |-> SrcOf(r, n),
                     desc |-> FALSE]
  <2>1. put' = [put EXCEPT ![r] = put[r] \cup {new}]
    BY <1>1
  <2>2. AllRows' \subseteq AllRows \cup {new}
    BY <2>1 DEF AllRows, IInv, TypeOK
  <2>3. \A x \in AllRows : x.id # new.id
    BY <1>1, FreshIdIsNew DEF UsedIds, IdsOf
  <2> HIDE DEF new, Upsert
  <2> QED
    BY <2>2, <2>3 DEF IInv, RowsTraced, IdMeansOneApp
<1>2. CASE ~IsNew(r, n)
  <2>1. put' = [put EXCEPT ![r] =
           {x \in put[r] : x.id \notin IdsOf(Updated(r, n))}
             \cup Updated(r, n)]
    BY <1>2
  <2>2. AllRows' \subseteq AllRows \cup Updated(r, n)
    BY <2>1 DEF AllRows, IInv, TypeOK
  <2>3. \A x \in AllRows \cup Updated(r, n) :
          \E y \in AllRows : x.id = y.id /\ x.name = y.name /\ x.desc = y.desc
    <3>1. ASSUME NEW x \in Updated(r, n)
          PROVE  \E y \in AllRows : /\ x.id = y.id /\ x.name = y.name
                                    /\ x.desc = y.desc
      <4>1. PICK y \in Current(r) : x = [y EXCEPT !.src = SrcOf(r, n)]
        BY DEF Updated
      <4>2. y \in AllRows /\ y \in Row
        BY CurrentRows DEF IInv, TypeOK
      <4>3. x.id = y.id /\ x.name = y.name /\ x.desc = y.desc
        BY <4>1, <4>2 DEF Row
      <4> QED
        BY <4>2, <4>3
    <3> QED
      BY <3>1
  <2> HIDE DEF Upsert
  <2> QED
    BY <2>2, <2>3 DEF IInv, RowsTraced, IdMeansOneApp
<1> QED
  BY <1>1, <1>2

(* The requests an action leaves alone keep their part of the invariant.   *)
LEMMA OthersTraced ==
  ASSUME RowsTraced, NEW r \in Reqs,
         \A q \in Reqs \ {r} :
           /\ pc'[q] = pc[q] /\ views'[q] = views[q] /\ todo'[q] = todo[q]
           /\ existing'[q] = existing[q] /\ gone'[q] = gone[q],
         \A i \in gone'[r] : \E y \in existing'[r] :
           y.id = i /\ y.name \notin NamesOf(views'[r]),
         pc'[r] = "upsert" => todo'[r] \subseteq NamesOf(views'[r]),
         pc'[r] = "delete" => todo'[r] \cap NamesOf(views'[r]) = {}
  PROVE  GoneWasReadUnlisted' /\ LoopsStayInTheirMaps'
BY DEF RowsTraced, GoneWasReadUnlisted, LoopsStayInTheirMaps, NamesOf

LEMMA FinishTraced ==
  ASSUME IInv, NEW r \in Reqs, Finish(r), tbl' \subseteq tbl \cup put[r]
  PROVE  RowsTraced'
<1>1. AllRows' \subseteq AllRows
  BY DEF Finish, AllRows, IInv, TypeOK
<1>2. IdMeansOneApp'
  BY <1>1, NoNewRows DEF IInv, RowsTraced
<1>3. GoneWasReadUnlisted' /\ LoopsStayInTheirMaps'
  BY OthersTraced DEF Finish, IInv, TypeOK
<1> QED
  BY <1>2, <1>3 DEF RowsTraced

LEMMA ListedTraced ==
  ASSUME IInv, NEW r \in Reqs, pc[r] \in {"docker", "pm2"},
         NEW next \in {"pm2", "begin"}, NEW V, Listed(r, next, V)
  PROVE  RowsTraced'
<1>1. AllRows' = AllRows
  BY DEF Listed, txvars, AllRows
<1>2. gone[r] = {}
  BY DEF IInv, TypeOK, InTx
<1>3. GoneWasReadUnlisted' /\ LoopsStayInTheirMaps'
  BY <1>2, OthersTraced DEF Listed, txvars, IInv, TypeOK
<1> QED
  BY <1>1, <1>3, NoNewRows DEF IInv, RowsTraced

LEMMA DeleteTraced ==
  ASSUME IInv, NEW r \in Reqs, NEW n \in Names, Delete(r, n)
  PROVE  RowsTraced'
<1> USE DEF Delete
<1>1. AllRows' \subseteq AllRows
  BY DEF AllRows, IInv, TypeOK
<1>2. n \in todo[r] /\ n \notin NamesOf(views[r])
  BY DEF CanRun, IInv, RowsTraced, LoopsStayInTheirMaps
<1>3. ASSUME NEW i \in gone'[r]
      PROVE  \E y \in existing[r] : y.id = i /\ y.name \notin NamesOf(views[r])
  <2>1. CASE i \in gone[r]
    BY <2>1 DEF IInv, RowsTraced, GoneWasReadUnlisted
  <2>2. CASE i \in IdsOf(Victims(r, n))
    BY <1>2, <2>2 DEF Victims, IdsOf
  <2> QED
    BY <2>1, <2>2 DEF IInv, TypeOK
<1>4. GoneWasReadUnlisted' /\ LoopsStayInTheirMaps'
  BY <1>3, OthersTraced DEF IInv, TypeOK, RowsTraced, LoopsStayInTheirMaps
<1> QED
  BY <1>1, <1>4, NoNewRows DEF IInv, RowsTraced

LEMMA RowsTracedStep == IInv /\ [Next]_vars => RowsTraced'
<1> SUFFICES ASSUME IInv, [Next]_vars PROVE RowsTraced'
  OBVIOUS
<1>0. TypeOK /\ RowsTraced
  BY DEF IInv
<1>1. ASSUME UNCHANGED <<tbl, pc, views, existing, todo, put, gone>>
      PROVE  RowsTraced'
  BY <1>0, <1>1
  DEF RowsTraced, IdMeansOneApp, GoneWasReadUnlisted, LoopsStayInTheirMaps,
      AllRows
<1>2. CASE UNCHANGED vars
  BY <1>1, <1>2 DEF vars
<1>3. ASSUME NEW n, DockerChanges(n) \/ Pm2Changes(n) PROVE RowsTraced'
  BY <1>1, <1>3 DEF DockerChanges, Pm2Changes, txvars
<1>4. ASSUME NEW r \in Reqs, Start(r) PROVE RowsTraced'
  <2>1. gone[r] = {} /\ AllRows' = AllRows
    BY <1>0, <1>4 DEF Start, txvars, AllRows, TypeOK, InTx
  <2>2. GoneWasReadUnlisted' /\ LoopsStayInTheirMaps'
    BY <1>0, <1>4, <2>1, OthersTraced DEF Start, txvars, TypeOK
  <2> QED
    BY <1>0, <2>1, <2>2, NoNewRows DEF RowsTraced
<1>5. ASSUME NEW r \in Reqs,
             \/ ListDocker(r) \/ ListPm2(r)
             \/ DockerListFails(r) \/ Pm2ListFails(r)
      PROVE  RowsTraced'
  BY <1>5, ListedTraced
  DEF ListDocker, ListPm2, DockerListFails, Pm2ListFails
<1>6. ASSUME NEW r \in Reqs, Begin(r) PROVE RowsTraced'
  <2>1. AllRows' \subseteq AllRows /\ gone[r] = {}
    BY <1>0, <1>6 DEF Begin, AllRows, TypeOK, InTx
  <2>2. GoneWasReadUnlisted' /\ LoopsStayInTheirMaps'
    BY <1>0, <1>6, <2>1, OthersTraced DEF Begin, TypeOK
  <2> QED
    BY <1>0, <2>1, <2>2, NoNewRows DEF RowsTraced
<1>7. ASSUME NEW r \in Reqs, NEW n \in Names, Wait(r, n) PROVE RowsTraced'
  BY <1>1, <1>7 DEF Wait
<1>8. ASSUME NEW r \in Reqs, NEW n \in Names, Upsert(r, n) PROVE RowsTraced'
  <2>1. GoneWasReadUnlisted' /\ LoopsStayInTheirMaps'
    BY <1>0, <1>8, OthersTraced
    DEF Upsert, TypeOK, RowsTraced, GoneWasReadUnlisted, LoopsStayInTheirMaps
  <2> QED
    BY <1>8, <2>1, UpsertIds DEF RowsTraced
<1>9. ASSUME NEW r \in Reqs, UpsertDone(r) PROVE RowsTraced'
  <2>1. AllRows' = AllRows
    BY <1>9 DEF UpsertDone, AllRows
  <2>2. GoneWasReadUnlisted' /\ LoopsStayInTheirMaps'
    BY <1>0, <1>9, OthersTraced
    DEF UpsertDone, TypeOK, RowsTraced, GoneWasReadUnlisted
  <2> QED
    BY <1>0, <2>1, <2>2, NoNewRows DEF RowsTraced
<1>10. ASSUME NEW r \in Reqs, NEW n \in Names, Delete(r, n) PROVE RowsTraced'
  BY <1>10, DeleteTraced
<1>11. ASSUME NEW r \in Reqs, Commit(r) PROVE RowsTraced'
  BY <1>11, FinishTraced, CurrentRows DEF Commit
<1>12. ASSUME NEW r \in Reqs,
              StatementFails(r) \/ DeadlockVictim(r) \/ BreaksOff(r)
       PROVE  RowsTraced'
  BY <1>12, FinishTraced DEF StatementFails, DeadlockVictim, BreaksOff
<1> QED
  BY <1>2, <1>3, <1>4, <1>5, <1>6, <1>7, <1>8, <1>9, <1>10, <1>11, <1>12
  DEF Next, Serve
-----------------------------------------------------------------------------
(* Every reachable state is well typed and traced.                         *)
THEOREM TypeCorrect == Spec => []TypeOK
<1>1. IInv /\ [Next]_vars => IInv'
  BY TypeOKStep, RowsTracedStep DEF IInv
<1>2. IInv => TypeOK
  BY DEF IInv
<1> QED
  BY <1>1, <1>2, InitInv, PTL DEF Spec

THEOREM RowsAlwaysTraced == Spec => []RowsTraced
<1>1. IInv /\ [Next]_vars => IInv'
  BY TypeOKStep, RowsTracedStep DEF IInv
<1>2. IInv => RowsTraced
  BY DEF IInv
<1> QED
  BY <1>1, <1>2, InitInv, PTL DEF Spec

(* Only a commit changes the table.                                        *)
LEMMA OnlyCommitWrites ==
  ASSUME [Next]_vars, tbl' # tbl
  PROVE  \E r \in Reqs : Commit(r)
BY DEF Next, Serve, vars, DockerChanges, Pm2Changes, Start, Listed, ListDocker,
  ListPm2, DockerListFails, Pm2ListFails, Begin, Wait, Upsert, UpsertDone,
  Delete, StatementFails, DeadlockVictim, BreaksOff

(* A row outlives a step, or a request that had read it and did not list   *)
(* its app has removed it.                                                 *)
Keeps(x) ==
  \/ \E y \in tbl' : y.id = x.id /\ y.name = x.name /\ y.desc = x.desc
  \/ \E r \in Reqs : /\ Committed(r)
                     /\ x.id \in IdsOf(existing[r])
                     /\ x.name \notin NamesOf(views[r])

LEMMA CommitKeeps ==
  ASSUME IInv, [Next]_vars, NEW x \in tbl
  PROVE  Keeps(x)
<1> USE DEF Keeps
<1>1. CASE tbl' = tbl
  BY <1>1
<1>2. CASE tbl' # tbl
  <2>1. PICK r \in Reqs : Commit(r)
    BY <1>2, OnlyCommitWrites
  <2>2. tbl' = Current(r) /\ Committed(r)
    BY <2>1 DEF Commit, Finish, Committed, IInv, TypeOK
  <2>3. CASE x.id \in gone[r]
    <3>1. PICK y \in existing[r] :
            y.id = x.id /\ y.name \notin NamesOf(views[r])
      BY <2>3 DEF IInv, RowsTraced, GoneWasReadUnlisted
    <3>2. x \in AllRows /\ y \in AllRows
      BY DEF AllRows
    <3>3. x.name = y.name
      BY <3>1, <3>2 DEF IInv, RowsTraced, IdMeansOneApp
    <3> QED
      BY <2>2, <3>1, <3>3 DEF IdsOf
  <2>4. CASE x.id \in IdsOf(put[r])
    <3>1. PICK y \in put[r] : y.id = x.id
      BY <2>4 DEF IdsOf
    <3>2. x \in AllRows /\ y \in AllRows
      BY DEF AllRows
    <3>3. y.name = x.name /\ y.desc = x.desc
      BY <3>1, <3>2 DEF IInv, RowsTraced, IdMeansOneApp
    <3> QED
      BY <2>2, <3>1, <3>3 DEF Current
  <2>5. CASE x.id \notin gone[r] \cup IdsOf(put[r])
    BY <2>2, <2>5 DEF Current
  <2> QED
    BY <2>3, <2>4, <2>5
<1> QED
  BY <1>1, <1>2

(* No interleaving of syncs takes the row of an app from it: a row keeps   *)
(* id, name and description, or a request that had read it and did not     *)
(* list its app has removed it.                                            *)
THEOREM SyncKeepsListedRows == Spec => ListedRowsKept
<1>1. IInv /\ [Next]_vars => \A x \in tbl : Keeps(x)
  BY CommitKeeps
<1>2. IInv /\ [Next]_vars => IInv'
  BY TypeOKStep, RowsTracedStep DEF IInv
<1> QED
  BY <1>1, <1>2, InitInv, PTL DEF Spec, ListedRowsKept, Keeps
-----------------------------------------------------------------------------
(* What a request has not listed was absent, or not to be had: until it    *)
(* has asked a daemon nothing is said of the names that daemon may have.   *)
Missed(r) ==
  CASE pc[r] = "idle"   -> {}
    [] pc[r] = "docker" -> Names \ (DockerNames \cup Pm2Names)
    [] pc[r] = "pm2"    -> Names \ (Pm2Names \cup NamesOf(views[r]))
    [] OTHER            -> Names \ NamesOf(views[r])

MissedIsAbsent ==
  \A r \in Reqs : pc[r] # "idle" => (Names \ Live) \cup Missed(r) \subseteq absent[r]

LEMMA NamesListed ==
  ASSUME NEW S, NEW s
  PROVE  NamesOf([name : S, src : {s}]) = S
<1>1. ASSUME NEW n \in S PROVE n \in NamesOf([name : S, src : {s}])
  <2>1. [name |-> n, src |-> s] \in [name : S, src : {s}]
    OBVIOUS
  <2>2. [name |-> n, src |-> s].name = n
    OBVIOUS
  <2> QED
    BY <2>1, <2>2 DEF NamesOf
<1> QED
  BY <1>1 DEF NamesOf

LEMMA MissedStep ==
  ASSUME DockerNames \cap Pm2Names = {}, IInv, MissedIsAbsent, [Next]_vars
  PROVE  MissedIsAbsent'
<1>0. TypeOK
  BY DEF IInv
<1>1. ASSUME NEW r \in Reqs, UNCHANGED <<docker, pm2>>,
             \A q \in Reqs \ {r} : /\ pc'[q] = pc[q] /\ views'[q] = views[q]
                                   /\ absent'[q] = absent[q],
             pc'[r] # "idle" =>
               (Names \ Live) \cup Missed(r)' \subseteq absent'[r]
      PROVE  MissedIsAbsent'
  BY <1>1 DEF MissedIsAbsent, Missed, Live
<1>2. CASE UNCHANGED vars
  BY <1>2 DEF vars, MissedIsAbsent, Missed, Live
<1>3. ASSUME NEW n, DockerChanges(n) \/ Pm2Changes(n) PROVE MissedIsAbsent'
  <2>1. NoteAbsent /\ UNCHANGED <<pc, views>>
    BY <1>3 DEF DockerChanges, Pm2Changes
  <2> QED
    BY <2>1 DEF NoteAbsent, MissedIsAbsent, Missed
<1>4. ASSUME NEW r \in Reqs, Start(r) PROVE MissedIsAbsent'
  <2>1. Live \subseteq DockerNames \cup Pm2Names
    BY <1>0 DEF TypeOK, Live
  <2>2. UNCHANGED <<docker, pm2>> /\ pc'[r] = "docker" /\ absent'[r] = Names \ Live
    BY <1>0, <1>4 DEF Start, env, TypeOK
  <2>3. Missed(r)' \subseteq absent'[r]
    BY <2>1, <2>2 DEF Missed
  <2> QED
    BY <1>0, <1>1, <1>4, <2>2, <2>3 DEF Start, TypeOK
<1>5. ASSUME NEW r \in Reqs, ListDocker(r) PROVE MissedIsAbsent'
  <2>1. /\ pc[r] = "docker" /\ pc'[r] = "pm2" /\ absent' = absent
        /\ UNCHANGED <<docker, pm2>> /\ NamesOf(views'[r]) = docker
    BY <1>0, <1>5, NamesListed DEF ListDocker, Listed, env, TypeOK
  <2>2. (Names \ Live) \cup (Names \ (DockerNames \cup Pm2Names)) \subseteq absent[r]
    BY <2>1 DEF MissedIsAbsent, Missed
  <2>3. Names \ (Pm2Names \cup docker) \subseteq absent[r]
    BY <1>0, <2>2 DEF TypeOK, Live
  <2>4. Missed(r)' = Names \ (Pm2Names \cup docker)
    BY <2>1 DEF Missed
  <2> QED
    BY <1>0, <1>1, <1>5, <2>1, <2>2, <2>3, <2>4 DEF ListDocker, Listed, TypeOK
<1>6. ASSUME NEW r \in Reqs, ListPm2(r) PROVE MissedIsAbsent'
  <2> DEFINE old == NamesOf(views[r])
  <2>1. /\ pc[r] = "pm2" /\ pc'[r] = "begin" /\ absent' = absent
        /\ UNCHANGED <<docker, pm2>>
        /\ views'[r] = views[r] \cup [name : pm2 \ old, src : {"pm2"}]
    BY <1>0, <1>6 DEF ListPm2, Listed, env, TypeOK
  <2>2. NamesOf(views'[r]) = old \cup pm2
    <3>1. NamesOf(views'[r]) = old \cup NamesOf([name : pm2 \ old, src : {"pm2"}])
      BY <2>1 DEF NamesOf
    <3> HIDE DEF old
    <3>2. NamesOf([name : pm2 \ old, src : {"pm2"}]) = pm2 \ old
      BY NamesListed
    <3>3. old \cup (pm2 \ old) = old \cup pm2
      OBVIOUS
    <3> QED
      BY <3>1, <3>2, <3>3
  <2>3. (Names \ Live) \cup (Names \ (Pm2Names \cup old)) \subseteq absent[r]
    BY <2>1 DEF MissedIsAbsent, Missed
  <2>4. Names \ (old \cup pm2) \subseteq absent[r]
    BY <1>0, <2>3 DEF TypeOK, Live
  <2>5. Missed(r)' = Names \ (old \cup pm2)
    BY <2>1, <2>2 DEF Missed
  <2> HIDE DEF old
  <2> QED
    BY <1>0, <1>1, <1>6, <2>1, <2>3, <2>4, <2>5 DEF ListPm2, Listed, TypeOK
<1>7. ASSUME NEW r \in Reqs, DockerListFails(r) \/ Pm2ListFails(r)
      PROVE  MissedIsAbsent'
  <2>1. (Names \ Live) \cup Missed(r) \subseteq absent[r]
    BY <1>7 DEF DockerListFails, Pm2ListFails, MissedIsAbsent
  <2>2. CASE DockerListFails(r)
    <3>1. /\ pc[r] = "docker" /\ pc'[r] = "pm2" /\ UNCHANGED <<docker, pm2>>
          /\ absent'[r] = absent[r] \cup DockerNames /\ views'[r] = {}
      BY <1>0, <2>2 DEF DockerListFails, Listed, env, TypeOK
    <3>2. Missed(r)' \subseteq Missed(r) \cup DockerNames
      BY <3>1 DEF Missed
    <3> QED
      BY <1>0, <1>1, <2>1, <2>2, <3>1, <3>2
      DEF DockerListFails, Listed, TypeOK, Live
  <2>3. CASE Pm2ListFails(r)
    <3>1. /\ pc[r] = "pm2" /\ pc'[r] = "begin" /\ UNCHANGED <<docker, pm2>>
          /\ absent'[r] = absent[r] \cup Pm2Names /\ views'[r] = views[r]
      BY <1>0, <2>3 DEF Pm2ListFails, Listed, env, TypeOK
    <3>2. Missed(r)' \subseteq Missed(r) \cup Pm2Names
      BY <3>1 DEF Missed
    <3> QED
      BY <1>0, <1>1, <2>1, <2>3, <3>1, <3>2
      DEF Pm2ListFails, Listed, TypeOK, Live
  <2> QED
    BY <1>7, <2>2, <2>3
<1>8. ASSUME NEW r \in Reqs,
             \/ Begin(r) \/ UpsertDone(r)
             \/ \E n \in Names : Wait(r, n) \/ Upsert(r, n) \/ Delete(r, n)
      PROVE  MissedIsAbsent'
  <2>1. UNCHANGED <<docker, pm2, views, absent>>
    BY <1>8 DEF Begin, UpsertDone, Wait, Upsert, Delete, env
  <2>2. /\ \A q \in Reqs \ {r} : pc'[q] = pc[q]
        /\ pc[r] \in {"begin", "upsert", "delete"}
        /\ pc'[r] \in {"begin", "upsert", "delete"}
    BY <1>0, <1>8 DEF Begin, UpsertDone, Wait, Upsert, Delete, InTx, TypeOK
  <2>3. Missed(r)' = Missed(r)
    BY <2>1, <2>2 DEF Missed
  <2> QED
    BY <1>1, <2>1, <2>2, <2>3 DEF MissedIsAbsent
<1>9. ASSUME NEW r \in Reqs, Finish(r) PROVE MissedIsAbsent'
  BY <1>0, <1>1, <1>9 DEF Finish, env, TypeOK
<1> QED
  BY <1>2, <1>3, <1>4, <1>5, <1>6, <1>7, <1>8, <1>9
  DEF Next, Serve, Commit, StatementFails, DeadlockVictim, BreaksOff

(* Daemons whose names are apart: whatever the requests interleave, a      *)
(* removed app was in neither daemon at some moment of the request that    *)
(* removed it, or is of the one whose listing failed that request.         *)
THEOREM RemovedWasAbsent ==
  ASSUME DockerNames \cap Pm2Names = {}
  PROVE  Spec => OnlyAbsentRemoved
<1>1. Init => MissedIsAbsent
  BY DEF Init, MissedIsAbsent
<1>2. IInv /\ MissedIsAbsent /\ [Next]_vars =>
        \A x \in tbl : x.id \notin IdsOf(tbl') =>
          \E r \in Reqs : Committed(r) /\ x.name \in absent[r]
  <2> SUFFICES ASSUME IInv, MissedIsAbsent, [Next]_vars,
                      NEW x \in tbl, x.id \notin IdsOf(tbl')
               PROVE  \E r \in Reqs : Committed(r) /\ x.name \in absent[r]
    OBVIOUS
  <2>1. PICK r \in Reqs : /\ Committed(r)
                          /\ x.name \notin NamesOf(views[r])
    BY CommitKeeps DEF Keeps, IdsOf
  <2>2. x.name \in Names
    BY DEF IInv, TypeOK, Row
  <2> QED
    BY <2>1, <2>2 DEF MissedIsAbsent, Missed, Committed
<1>3. IInv /\ [Next]_vars => IInv'
  BY TypeOKStep, RowsTracedStep DEF IInv
<1>4. IInv /\ MissedIsAbsent /\ [Next]_vars => MissedIsAbsent'
  BY MissedStep
<1> QED
  BY <1>1, <1>2, <1>3, <1>4, InitInv, PTL DEF Spec, OnlyAbsentRemoved
-----------------------------------------------------------------------------
(* Overlapping requests: each transaction is a read and a write.           *)

(* No two rows of S have one id, or one key of the UNIQUE index.           *)
Unique(S) ==
  \A x, y \in S : x.id = y.id \/ Fold[x.name] = Fold[y.name] => x = y

(* The views the loop has reached.                                         *)
Stored(r) == IF pc[r] = "upsert" THEN NamesOf(views[r]) \ todo[r]
             ELSE NamesOf(views[r])

With(x, s) == [id |-> x.id, name |-> x.name, src |-> s, desc |-> x.desc]

LEMMA WithRow ==
  ASSUME NEW x \in Row, NEW s
  PROVE  /\ With(x, x.src) = x
         /\ [x EXCEPT !.src = s] = With(x, s)
BY DEF Row, With

LEMMA WithFields ==
  ASSUME NEW x, NEW s
  PROVE  /\ With(x, s).id = x.id /\ With(x, s).name = x.name
         /\ With(x, s).src = s /\ With(x, s).desc = x.desc
BY DEF With

LEMMA CurrentInRow ==
  ASSUME TypeOK, NEW r \in Reqs
  PROVE  Current(r) \subseteq Row
BY DEF Current, TypeOK

LEMMA SourceListed ==
  ASSUME NEW r \in Reqs, NEW v \in views[r],
         \A u, w \in views[r] : u.name = w.name => u = w
  PROVE  SrcOf(r, v.name) = v.src
BY DEF SrcOf

(* What the request sees after an INSERT ...                               *)
LEMMA SeenInserted ==
  ASSUME TypeOK, NEW r \in Reqs, NEW new, new.id \notin UsedIds,
         UNCHANGED <<tbl, gone>>, put' = [put EXCEPT ![r] = @ \cup {new}]
  PROVE  Current(r)' = Current(r) \cup {new}
<1>1. put'[r] = put[r] \cup {new}
  BY DEF TypeOK
<1>2. IdsOf(put'[r]) = IdsOf(put[r]) \cup {new.id}
  BY <1>1 DEF IdsOf
<1>3. \A x \in tbl : x.id # new.id
  BY DEF UsedIds, AllRows, IdsOf
<1> QED
  BY <1>1, <1>2, <1>3 DEF Current

(* ... an UPDATE ...                                                       *)
LEMMA SeenUpdated ==
  ASSUME TypeOK, NEW r \in Reqs, NEW U, UNCHANGED <<tbl, gone>>,
         put' = [put EXCEPT ![r] = {x \in @ : x.id \notin IdsOf(U)} \cup U]
  PROVE  Current(r)' = {x \in Current(r) : x.id \notin IdsOf(U)} \cup U
<1>1. put'[r] = {x \in put[r] : x.id \notin IdsOf(U)} \cup U
  BY DEF TypeOK
<1>2. IdsOf(put'[r]) = IdsOf(put[r]) \cup IdsOf(U)
  <2>1. ASSUME NEW x \in put[r] PROVE x.id \in IdsOf(put'[r])
    BY <1>1 DEF IdsOf
  <2>2. ASSUME NEW x \in U PROVE x.id \in IdsOf(put'[r])
    BY <1>1 DEF IdsOf
  <2>3. ASSUME NEW i \in IdsOf(put'[r]) PROVE i \in IdsOf(put[r]) \cup IdsOf(U)
    BY <1>1 DEF IdsOf
  <2> QED
    BY <2>1, <2>2, <2>3 DEF IdsOf
<1> QED
  BY <1>1, <1>2 DEF Current

(* ... and a DELETE.                                                       *)
LEMMA SeenDeleted ==
  ASSUME TypeOK, NEW r \in Reqs, NEW V, V \subseteq Current(r),
         Unique(Current(r)), UNCHANGED tbl,
         put' = [put EXCEPT ![r] = @ \ V],
         gone' = [gone EXCEPT ![r] = @ \cup IdsOf(V)]
  PROVE  Current(r)' = Current(r) \ V
<1>1. put'[r] = put[r] \ V /\ gone'[r] = gone[r] \cup IdsOf(V)
  BY DEF TypeOK
<1>2. \A x, y \in Current(r) : x.id = y.id => x = y
  BY DEF Unique
<1>3. ASSUME NEW x \in Current(r) \ V PROVE x \in Current(r)'
  <2>1. x.id \notin IdsOf(V)
    BY <1>2 DEF IdsOf
  <2>2. CASE x \in put[r]
    BY <1>1, <2>2 DEF Current
  <2>3. CASE x \in tbl /\ x.id \notin gone[r] \cup IdsOf(put[r])
    BY <1>1, <2>1, <2>3 DEF Current, IdsOf
  <2> QED
    BY <2>2, <2>3 DEF Current
<1>4. ASSUME NEW x \in Current(r)' PROVE x \in Current(r) \ V
  <2>1. CASE x \in put[r] \ V
    BY <2>1 DEF Current
  <2>2. CASE /\ x \in tbl
             /\ x.id \notin gone[r] \cup IdsOf(V) \cup IdsOf(put[r] \ V)
    <3>1. x \notin V
      BY <2>2 DEF IdsOf
    <3>2. x.id \notin IdsOf(put[r])
      BY <2>2 DEF IdsOf
    <3> QED
      BY <2>2, <3>1, <3>2 DEF Current
  <2> QED
    BY <1>1, <2>1, <2>2 DEF Current
<1> QED
  BY <1>3, <1>4

(* No key is locked by two requests.                                       *)
LocksApart == \A p, q \in Reqs : p # q => locks[p] \cap locks[q] = {}

(* A row a transaction writes is a committed one, or has an id that nobody *)
(* has read.                                                               *)
IdsApart ==
  \A q \in Reqs : \A y \in put[q] :
    y.id \in IdsOf(tbl) \/ \A r \in Reqs : y.id \notin IdsOf(existing[r])

OneView(r) == \A v, w \in views[r] : v.name = w.name => v = w

WritesLocked(r) ==
  /\ \A y \in put[r] : Fold[y.name] \in locks[r]
  /\ \A x \in tbl : x.id \in gone[r] => Fold[x.name] \in locks[r]

Known(r) == NamesOf(views[r]) \cap NamesOf(existing[r])

Sourced(r, y) ==
  \E v \in views[r] : Fold[v.name] = Fold[y.name] /\ y.src = v.src

Rewritten(r, y) ==
  y.id \in IdsOf(tbl) /\ \E n \in Known(r) : Fold[n] = Fold[y.name]

Inserted(r, y) ==
  /\ y.id \notin IdsOf(tbl) /\ y.desc = FALSE
  /\ y.name \in Stored(r) \ NamesOf(existing[r])

(* Between two statements: every row written is accounted for by a view,   *)
(* every stored view by the rows of its key, and the rows of names deleted *)
(* so far are out of sight.                                                *)
PutsSourced(r) ==
  \A y \in put[r] : Sourced(r, y) /\ (Rewritten(r, y) \/ Inserted(r, y))

StoredHeld(r) ==
  \A n \in Stored(r) :
    /\ Fold[n] \in locks[r]
    /\ \A x \in Current(r) : Fold[x.name] = Fold[n] => x \in put[r]

StoredInserted(r) ==
  \A n \in Stored(r) \ NamesOf(existing[r]) :
    \E y \in put[r] : y.name = n /\ y.id \notin IdsOf(tbl)

DroppedUnseen(r) ==
  pc[r] = "delete" =>
    \A s \in existing[r] :
      s.name \notin NamesOf(views[r]) \cup todo[r] => s.id \notin IdsOf(Current(r))

Merging(r) ==
  /\ PutsSourced(r) /\ StoredHeld(r) /\ StoredInserted(r) /\ DroppedUnseen(r)

Mine(r) ==
  /\ OneView(r)
  /\ WritesLocked(r)
  /\ Unique(Current(r))
  /\ InTx(r) => Merging(r)

MInv == LocksApart /\ IdsApart /\ Unique(tbl) /\ \A r \in Reqs : Mine(r)

(* A step of another request that commits nothing.                         *)
LEMMA MineFrame ==
  ASSUME NEW r \in Reqs, Mine(r), UNCHANGED tbl,
         pc'[r] = pc[r], views'[r] = views[r], existing'[r] = existing[r],
         todo'[r] = todo[r], put'[r] = put[r], gone'[r] = gone[r],
         locks'[r] = locks[r]
  PROVE  Mine(r)'
<1>1. Current(r)' = Current(r) /\ Stored(r)' = Stored(r) /\ Known(r)' = Known(r)
  BY DEF Current, Stored, Known
<1>2. \A y : /\ Sourced(r, y)' <=> Sourced(r, y)
             /\ Rewritten(r, y)' <=> Rewritten(r, y)
             /\ Inserted(r, y)' <=> Inserted(r, y)
  BY <1>1 DEF Sourced, Rewritten, Inserted
<1>3. /\ OneView(r)' = OneView(r) /\ InTx(r)' = InTx(r)
      /\ WritesLocked(r)' = WritesLocked(r)
      /\ Unique(Current(r))' = Unique(Current(r))
  BY <1>1 DEF OneView, WritesLocked, InTx, Unique
<1>4. PutsSourced(r) => PutsSourced(r)'
  BY <1>2 DEF PutsSourced
<1>5. StoredHeld(r) => StoredHeld(r)'
  BY <1>1 DEF StoredHeld
<1>6. StoredInserted(r) => StoredInserted(r)'
  BY <1>1 DEF StoredInserted
<1>7. DroppedUnseen(r) => DroppedUnseen(r)'
  BY <1>1 DEF DroppedUnseen
<1> QED
  BY <1>3, <1>4, <1>5, <1>6, <1>7 DEF Mine, Merging

(* What another request's commit leaves as it is: the rows of the keys r   *)
(* holds.                                                                  *)
LEMMA CommitFrame ==
  ASSUME IInv, MInv, NEW q \in Reqs, NEW r \in Reqs \ {q}, Commit(q)
  PROVE  Mine(r)'
<1>1. /\ tbl' = Current(q) /\ InTx(q)
      /\ pc'[r] = pc[r] /\ views'[r] = views[r]
      /\ existing'[r] = existing[r] /\ todo'[r] = todo[r]
      /\ put'[r] = put[r] /\ gone'[r] = gone[r] /\ locks'[r] = locks[r]
  BY DEF Commit, Finish, IInv, TypeOK, InTx
<1>2. /\ \A x, y \in AllRows : x.id = y.id => x.name = y.name
      /\ tbl \subseteq AllRows /\ tbl' \subseteq AllRows
      /\ put[r] \subseteq AllRows /\ put[q] \subseteq AllRows
      /\ existing[r] \subseteq AllRows
  BY <1>1, CurrentRows DEF IInv, RowsTraced, IdMeansOneApp, AllRows
<1>3. locks[r] \cap locks[q] = {} /\ WritesLocked(q) /\ WritesLocked(r)
  BY DEF MInv, LocksApart, Mine
<1>4. \A x : Fold[x.name] \in locks[r] => (x \in tbl' <=> x \in tbl)
  <2>1. ASSUME NEW x \in tbl, Fold[x.name] \in locks[r] PROVE x \in tbl'
    <3>1. x.id \notin gone[q]
      BY <1>3, <2>1 DEF WritesLocked
    <3>2. x.id \notin IdsOf(put[q])
      BY <1>2, <1>3, <2>1 DEF WritesLocked, IdsOf
    <3> QED
      BY <1>1, <3>1, <3>2 DEF Current
  <2>2. ASSUME NEW x \in tbl', Fold[x.name] \in locks[r] PROVE x \in tbl
    BY <1>1, <1>3, <2>2 DEF Current, WritesLocked
  <2> QED
    BY <2>1, <2>2
<1>5. \A y \in put[r] : y.id \in IdsOf(tbl') <=> y.id \in IdsOf(tbl)
  <2> SUFFICES ASSUME NEW y \in put[r]
               PROVE  y.id \in IdsOf(tbl') <=> y.id \in IdsOf(tbl)
    OBVIOUS
  <2>1. Fold[y.name] \in locks[r]
    BY <1>3 DEF WritesLocked
  <2>2. \A x \in tbl \cup tbl' : x.id = y.id => Fold[x.name] \in locks[r]
    BY <1>2, <2>1
  <2> QED
    BY <1>4, <2>2 DEF IdsOf
<1>6. \A x \in tbl' : x.id \in IdsOf(existing[r]) => x.id \in IdsOf(tbl)
  BY <1>1 DEF Current, MInv, IdsApart, IdsOf
<1>7. \A x \in tbl' : x.id \in gone[r] => Fold[x.name] \in locks[r]
  <2> SUFFICES ASSUME NEW x \in tbl', x.id \in gone[r]
               PROVE  Fold[x.name] \in locks[r]
    OBVIOUS
  <2>1. x.id \in IdsOf(existing[r])
    BY DEF IInv, RowsTraced, GoneWasReadUnlisted, IdsOf
  <2>2. PICK z \in tbl : z.id = x.id
    BY <1>6, <2>1 DEF IdsOf
  <2> QED
    BY <1>2, <1>3, <2>2 DEF WritesLocked
<1>8. Current(r)' = {x \in tbl' : x.id \notin gone[r] \cup IdsOf(put[r])}
                      \cup put[r]
  BY <1>1 DEF Current
<1>9. \A x : Fold[x.name] \in locks[r] => (x \in Current(r)' <=> x \in Current(r))
  BY <1>4, <1>8 DEF Current
<1>10. WritesLocked(r)'
  BY <1>1, <1>3, <1>7 DEF WritesLocked
<1>11. Unique(Current(r)')
  <2> SUFFICES ASSUME NEW x \in Current(r)', NEW y \in Current(r)',
                      x.id = y.id \/ Fold[x.name] = Fold[y.name]
               PROVE  x = y
    BY DEF Unique
  <2>1. Unique(Current(r)) /\ Unique(tbl')
    BY <1>1 DEF MInv, Mine
  <2>2. CASE x \in put[r] \/ y \in put[r]
    <3>1. put[r] \subseteq Current(r)
      BY DEF Current
    <3>2. CASE Fold[x.name] = Fold[y.name]
      <4>1. Fold[x.name] \in locks[r] /\ Fold[y.name] \in locks[r]
        BY <1>3, <2>2, <3>2 DEF WritesLocked
      <4>2. x \in Current(r) /\ y \in Current(r)
        BY <1>9, <4>1
      <4> QED
        BY <2>1, <3>2, <4>2 DEF Unique
    <3>3. CASE x.id = y.id
      <4>1. x \in put[r] /\ y \in put[r]
        BY <1>8, <2>2, <3>3 DEF IdsOf
      <4> QED
        BY <2>1, <3>1, <3>3, <4>1 DEF Unique
    <3> QED
      BY <3>2, <3>3
  <2>3. CASE x \in tbl' /\ y \in tbl'
    BY <2>1, <2>3 DEF Unique
  <2> QED
    BY <1>8, <2>2, <2>3
<1>12. ASSUME InTx(r)' PROVE Merging(r)'
  <2>1. InTx(r) /\ Merging(r)
    BY <1>1, <1>12 DEF InTx, MInv, Mine
  <2>2. Stored(r)' = Stored(r) /\ Known(r)' = Known(r)
    BY <1>1 DEF Stored, Known
  <2>3. PutsSourced(r)'
    <3>1. \A y \in put[r] : /\ Sourced(r, y)' <=> Sourced(r, y)
                            /\ Rewritten(r, y)' <=> Rewritten(r, y)
                            /\ Inserted(r, y)' <=> Inserted(r, y)
      BY <1>1, <1>5, <2>2 DEF Sourced, Rewritten, Inserted
    <3> QED
      BY <1>1, <2>1, <3>1 DEF Merging, PutsSourced
  <2>4. StoredHeld(r)'
    BY <1>1, <1>9, <2>1, <2>2 DEF Merging, StoredHeld
  <2>5. StoredInserted(r)'
    BY <1>1, <1>5, <2>1, <2>2 DEF Merging, StoredInserted
  <2>6. DroppedUnseen(r)'
    <3> SUFFICES ASSUME pc[r] = "delete", NEW s \in existing[r],
                        s.name \notin NamesOf(views[r]) \cup todo[r],
                        NEW x \in Current(r)', x.id = s.id
                 PROVE  FALSE
      BY <1>1 DEF DroppedUnseen, IdsOf
    <3>1. s.id \notin IdsOf(Current(r))
      BY <2>1 DEF Merging, DroppedUnseen
    <3>2. x \notin put[r]
      BY <3>1 DEF Current, IdsOf
    <3>3. x \in tbl' /\ x.id \notin gone[r] \cup IdsOf(put[r])
      BY <1>8, <3>2
    <3>4. PICK z \in tbl : z.id = x.id
      BY <1>6, <3>3 DEF IdsOf
    <3>5. z \in Current(r)
      BY <3>3, <3>4 DEF Current
    <3> QED
      BY <3>1, <3>4, <3>5 DEF IdsOf
  <2> QED
    BY <2>3, <2>4, <2>5, <2>6 DEF Merging
<1>13. OneView(r)'
  BY <1>1 DEF OneView, MInv, Mine
<1> QED
  BY <1>10, <1>11, <1>12, <1>13 DEF Mine

LEMMA MineBegin ==
  ASSUME IInv, MInv, NEW r \in Reqs, Begin(r)
  PROVE  Mine(r)'
<1>1. /\ pc'[r] = "upsert" /\ existing'[r] = tbl
      /\ todo'[r] = NamesOf(views[r])
      /\ UNCHANGED <<tbl, views, put, gone, locks>>
      /\ put[r] = {} /\ gone[r] = {}
  BY DEF Begin, IInv, TypeOK, InTx
<1>2. Current(r)' = tbl /\ Stored(r)' = {}
  BY <1>1 DEF Current, IdsOf, Stored
<1> QED
  BY <1>1, <1>2
  DEF MInv, Mine, OneView, WritesLocked, Merging, PutsSourced, StoredHeld,
      StoredInserted, DroppedUnseen

LEMMA MineInsert ==
  ASSUME IInv, MInv, NEW r \in Reqs, NEW n \in Names,
         Upsert(r, n), IsNew(r, n)
  PROVE  Mine(r)'
<1>1. PICK new : new = [id |-> FreshId, name |-> n, src |-> SrcOf(r, n),
                        desc |-> FALSE]
  OBVIOUS
<1>2. /\ pc[r] = "upsert" /\ UNCHANGED <<tbl, pc, views, existing, gone>>
      /\ n \in todo[r] /\ ~Duplicate(r, n) /\ Ids \ UsedIds # {}
      /\ put' = [put EXCEPT ![r] = @ \cup {new}]
      /\ put'[r] = put[r] \cup {new}
      /\ todo'[r] = todo[r] \ {n}
      /\ locks'[r] = locks[r] \cup {Fold[n]}
  BY <1>1 DEF Upsert, CanRun, Needs, IInv, TypeOK
<1>3. /\ new.id \notin UsedIds /\ new.name = n /\ new.src = SrcOf(r, n)
      /\ new.desc = FALSE
  BY <1>1, <1>2, FreshIdIsNew
<1>4. Current(r)' = Current(r) \cup {new}
  BY <1>2, <1>3, SeenInserted DEF IInv
<1>5. n \in NamesOf(views[r]) /\ n \notin NamesOf(existing[r])
  BY <1>2 DEF IInv, RowsTraced, LoopsStayInTheirMaps, IsNew
<1>6. \A y \in Current(r) : y.id # new.id /\ Fold[y.name] # Fold[n]
  BY <1>2, <1>3, CurrentRows DEF Duplicate, KeysOf, UsedIds, IdsOf
<1>7. /\ Mine(r) /\ Merging(r)
  BY <1>2 DEF MInv, Mine, InTx
<1>8. Unique(Current(r)')
  BY <1>3, <1>4, <1>6, <1>7 DEF Unique, Mine
<1>9. WritesLocked(r)'
  BY <1>2, <1>3, <1>7 DEF WritesLocked, Mine
<1>10. OneView(r)'
  BY <1>2, <1>7 DEF OneView, Mine
<1>11. Stored(r)' = Stored(r) \cup {n} /\ Known(r)' = Known(r)
  BY <1>2, <1>5 DEF Stored, Known
<1>12. new.id \notin IdsOf(tbl)
  BY <1>3 DEF UsedIds, AllRows, IdsOf
<1>13. Sourced(r, new)
  BY <1>3, <1>5, <1>7, SourceListed DEF Sourced, NamesOf, Mine, OneView
<1>14. PutsSourced(r)'
  <2>1. \A y : /\ Sourced(r, y) => Sourced(r, y)'
               /\ Rewritten(r, y) => Rewritten(r, y)'
               /\ Inserted(r, y) => Inserted(r, y)'
    BY <1>2, <1>11 DEF Sourced, Rewritten, Inserted
  <2>2. Sourced(r, new)' /\ Inserted(r, new)'
    BY <1>2, <1>3, <1>5, <1>11, <1>12, <1>13, <2>1 DEF Inserted
  <2> QED
    BY <1>2, <1>7, <2>1, <2>2 DEF PutsSourced, Merging
<1>15. StoredHeld(r)'
  <2> SUFFICES ASSUME NEW m \in Stored(r)'
               PROVE  /\ Fold[m] \in locks'[r]
                      /\ \A x \in Current(r)' :
                           Fold[x.name] = Fold[m] => x \in put'[r]
    BY DEF StoredHeld
  <2>1. CASE m = n
    BY <1>2, <1>4, <1>6, <2>1
  <2>2. CASE m \in Stored(r)
    BY <1>2, <1>4, <1>7, <2>2 DEF StoredHeld, Merging
  <2> QED
    BY <1>11, <2>1, <2>2
<1>16. StoredInserted(r)'
  <2> SUFFICES ASSUME NEW m \in Stored(r)' \ NamesOf(existing[r])
               PROVE  \E y \in put'[r] : y.name = m /\ y.id \notin IdsOf(tbl)
    BY <1>2 DEF StoredInserted
  <2>1. CASE m = n
    BY <1>2, <1>3, <1>12, <2>1
  <2>2. CASE m \in Stored(r)
    BY <1>2, <1>7, <2>2 DEF StoredInserted, Merging
  <2> QED
    BY <1>11, <2>1, <2>2
<1>17. DroppedUnseen(r)'
  BY <1>2 DEF DroppedUnseen
<1> QED
  BY <1>8, <1>9, <1>10, <1>14, <1>15, <1>16, <1>17 DEF Mine, Merging

LEMMA MineUpdate ==
  ASSUME IInv, MInv, NEW r \in Reqs, NEW n \in Names,
         Upsert(r, n), ~IsNew(r, n)
  PROVE  Mine(r)'
<1>1. PICK U : U = Updated(r, n)
  OBVIOUS
<1>2. /\ pc[r] = "upsert" /\ UNCHANGED <<tbl, pc, views, existing, gone>>
      /\ n \in todo[r]
      /\ put' = [put EXCEPT ![r] = {x \in @ : x.id \notin IdsOf(U)} \cup U]
      /\ put'[r] = {x \in put[r] : x.id \notin IdsOf(U)} \cup U
      /\ todo'[r] = todo[r] \ {n}
      /\ locks'[r] = locks[r] \cup {Fold[n]}
  BY <1>1 DEF Upsert, CanRun, Needs, IInv, TypeOK
<1>3. Mine(r) /\ Merging(r)
  BY <1>2 DEF MInv, Mine, InTx
<1>4. n \in NamesOf(views[r]) /\ n \in Known(r)
  BY <1>2 DEF IInv, RowsTraced, LoopsStayInTheirMaps, IsNew, Known
<1>5. \A u \in U : \E y \in Current(r) :
        /\ u.id = y.id /\ u.name = y.name /\ u.desc = y.desc
        /\ Fold[u.name] = Fold[n] /\ u.src = SrcOf(r, n)
  <2> SUFFICES ASSUME NEW u \in U
               PROVE  \E y \in Current(r) :
                        /\ u.id = y.id /\ u.name = y.name /\ u.desc = y.desc
                        /\ Fold[u.name] = Fold[n] /\ u.src = SrcOf(r, n)
    OBVIOUS
  <2>1. PICK y \in Current(r) : /\ Fold[y.name] = Fold[n]
                                /\ u = [y EXCEPT !.src = SrcOf(r, n)]
    BY <1>1 DEF Updated
  <2>2. y \in Row
    BY CurrentInRow DEF IInv
  <2>3. u = With(y, SrcOf(r, n))
    BY <2>1, <2>2, WithRow
  <2> QED
    BY <2>1, <2>3, WithFields
<1>6. \A y \in Current(r) : Fold[y.name] = Fold[n] => y.id \in IdsOf(U)
  <2> SUFFICES ASSUME NEW y \in Current(r), Fold[y.name] = Fold[n]
               PROVE  y.id \in IdsOf(U)
    OBVIOUS
  <2>1. y \in Row /\ [y EXCEPT !.src = SrcOf(r, n)] \in U
    BY <1>1, CurrentInRow DEF Updated, IInv
  <2>2. With(y, SrcOf(r, n)) \in U
    BY <2>1, WithRow
  <2> QED
    BY <2>2, WithFields DEF IdsOf
<1>7. Current(r)' = {x \in Current(r) : x.id \notin IdsOf(U)} \cup U
  BY <1>2, SeenUpdated DEF IInv
<1>8. \A u, w \in U : u.id = w.id \/ Fold[u.name] = Fold[w.name] => u = w
  <2> SUFFICES ASSUME NEW u \in U, NEW w \in U PROVE u = w
    OBVIOUS
  <2>1. PICK y \in Current(r) : /\ Fold[y.name] = Fold[n]
                                /\ u = [y EXCEPT !.src = SrcOf(r, n)]
    BY <1>1 DEF Updated
  <2>2. PICK z \in Current(r) : /\ Fold[z.name] = Fold[n]
                                /\ w = [z EXCEPT !.src = SrcOf(r, n)]
    BY <1>1 DEF Updated
  <2>3. y = z
    BY <1>3, <2>1, <2>2 DEF Mine, Unique
  <2> QED
    BY <2>1, <2>2, <2>3
<1>9. Unique(Current(r)')
  <2> SUFFICES ASSUME NEW x \in Current(r)', NEW y \in Current(r)',
                      x.id = y.id \/ Fold[x.name] = Fold[y.name]
               PROVE  x = y
    BY DEF Unique
  <2>1. CASE x \in U /\ y \in U
    BY <1>8, <2>1
  <2>2. CASE x \in Current(r) /\ y \in Current(r)
    BY <1>3, <2>2 DEF Mine, Unique
  <2>3. ASSUME NEW u \in U, NEW z \in Current(r), z.id \notin IdsOf(U)
        PROVE  u.id # z.id /\ Fold[u.name] # Fold[z.name]
    BY <1>5, <1>6, <2>3 DEF IdsOf
  <2> QED
    BY <1>7, <2>1, <2>2, <2>3
<1>10. WritesLocked(r)'
  BY <1>2, <1>3, <1>5 DEF WritesLocked, Mine
<1>11. OneView(r)'
  BY <1>2, <1>3 DEF OneView, Mine
<1>12. Stored(r)' = Stored(r) \cup {n} /\ Known(r)' = Known(r)
  BY <1>2, <1>4 DEF Stored, Known
<1>13. \A y : /\ Sourced(r, y) => Sourced(r, y)'
              /\ Rewritten(r, y) => Rewritten(r, y)'
              /\ Inserted(r, y) => Inserted(r, y)'
  BY <1>2, <1>12 DEF Sourced, Rewritten, Inserted
<1>14. ASSUME NEW u \in U
       PROVE  Sourced(r, u) /\ (Rewritten(r, u) \/ Inserted(r, u))
  <2>1. PICK y \in Current(r) :
          /\ u.id = y.id /\ u.name = y.name /\ u.desc = y.desc
          /\ Fold[u.name] = Fold[n] /\ u.src = SrcOf(r, n)
    BY <1>5
  <2>2. PICK v \in views[r] : v.name = n
    BY <1>4 DEF NamesOf
  <2>3. u.src = v.src
    BY <1>3, <2>1, <2>2, SourceListed DEF Mine, OneView
  <2>4. Sourced(r, u)
    BY <2>1, <2>2, <2>3 DEF Sourced
  <2>5. CASE y \in tbl
    BY <1>4, <2>1, <2>4, <2>5 DEF Rewritten, IdsOf
  <2>6. CASE y \in put[r]
    BY <1>3, <2>1, <2>4, <2>6
    DEF Merging, PutsSourced, Rewritten, Inserted
  <2> QED
    BY <2>5, <2>6, CurrentRows
<1>15. PutsSourced(r)'
  BY <1>2, <1>3, <1>13, <1>14 DEF PutsSourced, Merging
<1>16. StoredHeld(r)'
  <2> SUFFICES ASSUME NEW m \in Stored(r)'
               PROVE  /\ Fold[m] \in locks'[r]
                      /\ \A x \in Current(r)' :
                           Fold[x.name] = Fold[m] => x \in put'[r]
    BY DEF StoredHeld
  <2>1. CASE m = n
    BY <1>2, <1>6, <1>7, <2>1
  <2>2. CASE m \in Stored(r)
    BY <1>2, <1>3, <1>7, <2>2 DEF StoredHeld, Merging
  <2> QED
    BY <1>12, <2>1, <2>2
<1>17. StoredInserted(r)'
  <2> SUFFICES ASSUME NEW m \in Stored(r) \ NamesOf(existing[r])
               PROVE  \E y \in put'[r] : y.name = m /\ y.id \notin IdsOf(tbl)
    BY <1>2, <1>4, <1>12 DEF StoredInserted, Known
  <2>1. PICK y \in put[r] : y.name = m /\ y.id \notin IdsOf(tbl)
    BY <1>3 DEF StoredInserted, Merging
  <2>2. CASE y.id \in IdsOf(U)
    <3>1. PICK u \in U : u.id = y.id
      BY <2>2 DEF IdsOf
    <3>2. PICK z \in Current(r) : u.id = z.id /\ u.name = z.name
      BY <1>5
    <3>3. z = y
      BY <1>3, <2>1, <3>1, <3>2 DEF Mine, Unique, Current
    <3> QED
      BY <1>2, <2>1, <3>1, <3>2, <3>3
  <2> QED
    BY <1>2, <2>1, <2>2
<1>18. DroppedUnseen(r)'
  BY <1>2 DEF DroppedUnseen
<1> QED
  BY <1>9, <1>10, <1>11, <1>15, <1>16, <1>17, <1>18 DEF Mine, Merging

LEMMA MineUpsertDone ==
  ASSUME IInv, MInv, NEW r \in Reqs, UpsertDone(r)
  PROVE  Mine(r)'
<1>1. /\ pc[r] = "upsert" /\ pc'[r] = "delete" /\ todo[r] = {}
      /\ todo'[r] = NamesOf(existing[r]) \ NamesOf(views[r])
      /\ UNCHANGED <<tbl, views, existing, put, gone, locks>>
  BY DEF UpsertDone, IInv, TypeOK
<1>2. Mine(r) /\ Merging(r)
  BY <1>1 DEF MInv, Mine, InTx
<1>3. /\ Current(r)' = Current(r) /\ Stored(r)' = Stored(r)
      /\ Known(r)' = Known(r)
  BY <1>1 DEF Current, Stored, Known
<1>4. OneView(r)' /\ WritesLocked(r)' /\ Unique(Current(r)')
  BY <1>1, <1>2, <1>3 DEF Mine, OneView, WritesLocked
<1>5. PutsSourced(r)'
  <2>1. \A y : /\ Sourced(r, y) => Sourced(r, y)'
               /\ Rewritten(r, y) => Rewritten(r, y)'
               /\ Inserted(r, y) => Inserted(r, y)'
    BY <1>1, <1>3 DEF Sourced, Rewritten, Inserted
  <2> QED
    BY <1>1, <1>2, <2>1 DEF PutsSourced, Merging
<1>6. StoredHeld(r)' /\ StoredInserted(r)'
  BY <1>1, <1>2, <1>3 DEF StoredHeld, StoredInserted, Merging
<1>7. DroppedUnseen(r)'
  BY <1>1 DEF DroppedUnseen, NamesOf
<1> QED
  BY <1>3, <1>4, <1>5, <1>6, <1>7 DEF Mine, Merging

LEMMA MineDelete ==
  ASSUME IInv, MInv, NEW r \in Reqs, NEW n \in Names, Delete(r, n)
  PROVE  Mine(r)'
<1>1. PICK V : V = Victims(r, n)
  OBVIOUS
<1>2. /\ pc[r] = "delete" /\ UNCHANGED <<tbl, pc, views, existing>>
      /\ n \in todo[r]
      /\ put' = [put EXCEPT ![r] = @ \ V]
      /\ gone' = [gone EXCEPT ![r] = @ \cup IdsOf(V)]
      /\ put'[r] = put[r] \ V
      /\ gone'[r] = gone[r] \cup IdsOf(V)
      /\ todo'[r] = todo[r] \ {n}
      /\ locks'[r] = locks[r] \cup KeysOf(V)
  BY <1>1 DEF Delete, CanRun, Needs, IInv, TypeOK
<1>3. Mine(r) /\ Merging(r)
  BY <1>2 DEF MInv, Mine, InTx
<1>4. /\ V \subseteq Current(r)
      /\ \A y \in Current(r) :
           y \in V <=> \E s \in existing[r] : s.name = n /\ y.id = s.id
  BY <1>1 DEF Victims, IdsOf
<1>5. Current(r)' = Current(r) \ V
  BY <1>2, <1>3, <1>4, SeenDeleted DEF Mine, IInv
<1>6. /\ Stored(r)' = Stored(r) /\ Known(r)' = Known(r)
  BY <1>2 DEF Stored, Known
<1>7. OneView(r)' /\ Unique(Current(r)')
  BY <1>2, <1>3, <1>5 DEF Mine, OneView, Unique
<1>8. WritesLocked(r)'
  <2>1. \A y \in put'[r] : Fold[y.name] \in locks'[r]
    BY <1>2, <1>3 DEF Mine, WritesLocked
  <2>2. ASSUME NEW x \in tbl, x.id \in IdsOf(V)
        PROVE  Fold[x.name] \in locks'[r]
    <3>1. PICK v \in V : v.id = x.id
      BY <2>2 DEF IdsOf
    <3>2. v \in AllRows /\ x \in AllRows
      BY <1>4, CurrentRows DEF AllRows
    <3>3. v.name = x.name
      BY <3>1, <3>2 DEF IInv, RowsTraced, IdMeansOneApp
    <3> QED
      BY <1>2, <3>3 DEF KeysOf
  <2> QED
    BY <1>2, <1>3, <2>1, <2>2 DEF Mine, WritesLocked
<1>9. PutsSourced(r)'
  <2>1. \A y : /\ Sourced(r, y) => Sourced(r, y)'
               /\ Rewritten(r, y) => Rewritten(r, y)'
               /\ Inserted(r, y) => Inserted(r, y)'
    BY <1>2, <1>6 DEF Sourced, Rewritten, Inserted
  <2> QED
    BY <1>2, <1>3, <2>1 DEF PutsSourced, Merging
<1>10. StoredHeld(r)'
  BY <1>2, <1>3, <1>5, <1>6 DEF StoredHeld, Merging
<1>11. StoredInserted(r)'
  <2> SUFFICES ASSUME NEW m \in Stored(r) \ NamesOf(existing[r])
               PROVE  \E y \in put'[r] : y.name = m /\ y.id \notin IdsOf(tbl)
    BY <1>2, <1>6 DEF StoredInserted
  <2>1. PICK y \in put[r] : y.name = m /\ y.id \notin IdsOf(tbl)
    BY <1>3 DEF StoredInserted, Merging
  <2>2. y \notin V
    BY <1>4, <2>1 DEF MInv, IdsApart, IdsOf
  <2> QED
    BY <1>2, <2>1, <2>2
<1>12. DroppedUnseen(r)'
  <2> SUFFICES ASSUME NEW s \in existing[r],
                      s.name \notin NamesOf(views[r]) \cup todo'[r],
                      NEW x \in Current(r)', x.id = s.id
               PROVE  FALSE
    BY <1>2 DEF DroppedUnseen, IdsOf
  <2>1. x \in Current(r) /\ x \notin V
    BY <1>5
  <2>2. s.name # n
    BY <1>4, <2>1
  <2> QED
    BY <1>2, <1>3, <2>1, <2>2 DEF Merging, DroppedUnseen, IdsOf
<1> QED
  BY <1>7, <1>8, <1>9, <1>10, <1>11, <1>12 DEF Mine, Merging

(* The end of a request, and its two listings: outside the transaction.    *)
LEMMA MineFinish ==
  ASSUME IInv, MInv, NEW r \in Reqs, Finish(r), tbl' = tbl \/ Commit(r)
  PROVE  Mine(r)'
<1>1. /\ ~InTx(r)' /\ views'[r] = {} /\ put'[r] = {} /\ gone'[r] = {}
  BY DEF Finish, InTx, IInv, TypeOK
<1>2. Unique(tbl')
  BY DEF MInv, Mine, Commit
<1>3. Current(r)' = tbl'
  BY <1>1 DEF Current, IdsOf
<1> QED
  BY <1>1, <1>2, <1>3 DEF Mine, OneView, WritesLocked

LEMMA MineListed ==
  ASSUME IInv, MInv, NEW r \in Reqs,
         \/ Start(r) \/ ListDocker(r) \/ ListPm2(r)
         \/ DockerListFails(r) \/ Pm2ListFails(r)
  PROVE  Mine(r)'
<1>1. /\ UNCHANGED <<tbl, put, gone, locks>> /\ ~InTx(r)'
      /\ \/ views'[r] = {}
         \/ views'[r] = [name : docker, src : {"docker"}]
         \/ views'[r] = views[r]
         \/ views'[r] = views[r] \cup
              [name : pm2 \ NamesOf(views[r]), src : {"pm2"}]
  BY DEF Start, ListDocker, ListPm2, DockerListFails, Pm2ListFails,
         Listed, txvars, InTx, IInv, TypeOK
<1>2. OneView(r)'
  <2>1. ASSUME NEW S, NEW s, NEW v \in [name : S, src : {s}],
               NEW w \in [name : S, src : {s}], v.name = w.name
        PROVE  v = w
    BY <2>1
  <2>2. ASSUME NEW v \in views[r],
               NEW w \in [name : pm2 \ NamesOf(views[r]), src : {"pm2"}]
        PROVE  v.name # w.name
    BY DEF NamesOf
  <2> QED
    BY <1>1, <2>1, <2>2 DEF OneView, MInv, Mine
<1>3. Current(r)' = Current(r)
  BY <1>1 DEF Current
<1> QED
  BY <1>1, <1>2, <1>3 DEF MInv, Mine, WritesLocked, Unique

-----------------------------------------------------------------------------
(* The same for ids and locks.                                             *)

LEMMA UpsertApart ==
  ASSUME IInv, MInv, NEW r \in Reqs, NEW n \in Names, Upsert(r, n)
  PROVE  IdsApart'
<1>1. UNCHANGED <<tbl, existing>> /\ \A q \in Reqs \ {r} : put'[q] = put[q]
  BY DEF Upsert, IInv, TypeOK
<1>2. ASSUME NEW y \in put'[r]
      PROVE  \/ y.id \in IdsOf(tbl)
             \/ \A q \in Reqs : y.id \notin IdsOf(existing[q])
  <2>1. CASE IsNew(r, n)
    <3>1. put'[r] = put[r] \cup {[id |-> FreshId, name |-> n,
                                  src |-> SrcOf(r, n), desc |-> FALSE]}
      BY <2>1 DEF Upsert, IInv, TypeOK
    <3>2. \A q \in Reqs : FreshId \notin IdsOf(existing[q])
      <4>1. FreshId \notin UsedIds
        BY <2>1, FreshIdIsNew DEF Upsert
      <4>2. \A q \in Reqs : IdsOf(existing[q]) \subseteq UsedIds
        BY DEF UsedIds, AllRows, IdsOf
      <4> QED
        BY <4>1, <4>2
    <3>3. \A z : z = [id |-> FreshId, name |-> n, src |-> SrcOf(r, n),
                      desc |-> FALSE] => z.id = FreshId
      OBVIOUS
    <3> QED
      BY <3>1, <3>2, <3>3 DEF MInv, IdsApart
  <2>2. CASE ~IsNew(r, n)
    <3>1. y \in put[r] \/ y \in Updated(r, n)
      BY <2>2 DEF Upsert, IInv, TypeOK
    <3>2. CASE y \in Updated(r, n)
      <4>1. PICK z \in Current(r) : y = [z EXCEPT !.src = SrcOf(r, n)]
        BY <3>2 DEF Updated
      <4>2. y.id = z.id
        BY <4>1, CurrentInRow DEF IInv, Row
      <4> QED
        BY <4>2, CurrentRows DEF MInv, IdsApart, IdsOf
    <3> QED
      BY <3>1, <3>2 DEF MInv, IdsApart
  <2> QED
    BY <2>1, <2>2
<1> QED
  BY <1>1, <1>2 DEF IdsApart, MInv

LEMMA CommitApart ==
  ASSUME IInv, MInv, NEW r \in Reqs, Commit(r)
  PROVE  IdsApart'
<1>1. /\ tbl' = Current(r) /\ put'[r] = {} /\ existing'[r] = {}
      /\ \A q \in Reqs \ {r} : put'[q] = put[q] /\ existing'[q] = existing[q]
  BY DEF Commit, Finish, IInv, TypeOK
<1> SUFFICES ASSUME NEW q \in Reqs \ {r}, NEW y \in put[q],
                    y.id \in IdsOf(tbl)
             PROVE  y.id \in IdsOf(tbl')
  BY <1>1 DEF IdsApart, MInv, IdsOf
<1>2. PICK x \in tbl : x.id = y.id
  BY DEF IdsOf
<1>3. /\ \A z \in put[r] : z.id = x.id => z.name = x.name
      /\ y.name = x.name
  <2>1. x \in AllRows /\ y \in AllRows /\ put[r] \subseteq AllRows
    BY DEF AllRows
  <2> QED
    BY <1>2, <2>1 DEF IInv, RowsTraced, IdMeansOneApp
<1>4. Fold[x.name] \in locks[q] /\ Fold[x.name] \notin locks[r]
  BY <1>3 DEF MInv, LocksApart, Mine, WritesLocked
<1>5. x.id \notin gone[r] \cup IdsOf(put[r])
  BY <1>3, <1>4 DEF MInv, Mine, WritesLocked, IdsOf
<1> QED
  BY <1>1, <1>2, <1>5 DEF Current, IdsOf

LEMMA LocksGrow ==
  ASSUME IInv, LocksApart, NEW r \in Reqs, NEW n \in Names, CanRun(r, n),
         locks' = [locks EXCEPT ![r] = @ \cup Needs(r, n)]
  PROVE  LocksApart'
<1>1. /\ locks'[r] = locks[r] \cup Needs(r, n)
      /\ \A q \in Reqs \ {r} : locks'[q] = locks[q]
  BY DEF IInv, TypeOK
<1> QED
  BY <1>1 DEF LocksApart, CanRun

LEMMA MergeStep == IInv /\ MInv /\ [Next]_vars => MInv'
<1> SUFFICES ASSUME IInv, MInv, [Next]_vars PROVE MInv'
  OBVIOUS
<1>1. CASE UNCHANGED <<tbl, pc, views, existing, todo, put, gone, locks>>
  BY <1>1, MineFrame DEF MInv, LocksApart, IdsApart
<1>2. ASSUME NEW r \in Reqs,
             \/ Start(r) \/ ListDocker(r) \/ ListPm2(r)
             \/ DockerListFails(r) \/ Pm2ListFails(r)
      PROVE  MInv'
  <2>1. /\ UNCHANGED <<tbl, existing, todo, put, gone, locks>>
        /\ \A q \in Reqs \ {r} : pc'[q] = pc[q] /\ views'[q] = views[q]
    BY <1>2 DEF Start, ListDocker, ListPm2, DockerListFails, Pm2ListFails,
                Listed, txvars, IInv, TypeOK
  <2>2. \A q \in Reqs \ {r} : Mine(q)'
    BY <2>1, MineFrame DEF MInv
  <2> QED
    BY <1>2, <2>1, <2>2, MineListed DEF MInv, LocksApart, IdsApart
<1>3. ASSUME NEW r \in Reqs, Begin(r) PROVE MInv'
  <2>1. /\ UNCHANGED <<tbl, views, put, gone, locks>> /\ existing'[r] = tbl
        /\ \A q \in Reqs \ {r} : /\ pc'[q] = pc[q] /\ todo'[q] = todo[q]
                                 /\ existing'[q] = existing[q]
    BY <1>3 DEF Begin, IInv, TypeOK
  <2>2. \A q \in Reqs \ {r} : Mine(q)'
    BY <2>1, MineFrame DEF MInv
  <2>3. IdsApart'
    BY <2>1 DEF MInv, IdsApart
  <2> QED
    BY <1>3, <2>1, <2>2, <2>3, MineBegin DEF MInv, LocksApart
<1>4. ASSUME NEW r \in Reqs, NEW n \in Names, Upsert(r, n) PROVE MInv'
  <2>1. /\ UNCHANGED <<tbl, pc, views, existing, gone>>
        /\ \A q \in Reqs \ {r} : /\ todo'[q] = todo[q] /\ put'[q] = put[q]
                                 /\ locks'[q] = locks[q]
    BY <1>4 DEF Upsert, IInv, TypeOK
  <2>2. \A q \in Reqs \ {r} : Mine(q)'
    BY <2>1, MineFrame DEF MInv
  <2>3. LocksApart'
    BY <1>4, LocksGrow DEF Upsert, MInv
  <2>4. Mine(r)'
    BY <1>4, MineInsert, MineUpdate
  <2> QED
    BY <1>4, <2>1, <2>2, <2>3, <2>4, UpsertApart DEF MInv
<1>5. ASSUME NEW r \in Reqs, UpsertDone(r) PROVE MInv'
  <2>1. /\ UNCHANGED <<tbl, views, existing, put, gone, locks>>
        /\ \A q \in Reqs \ {r} : pc'[q] = pc[q] /\ todo'[q] = todo[q]
    BY <1>5 DEF UpsertDone, IInv, TypeOK
  <2>2. \A q \in Reqs \ {r} : Mine(q)'
    BY <2>1, MineFrame DEF MInv
  <2> QED
    BY <1>5, <2>1, <2>2, MineUpsertDone DEF MInv, LocksApart, IdsApart
<1>6. ASSUME NEW r \in Reqs, NEW n \in Names, Delete(r, n) PROVE MInv'
  <2>1. /\ UNCHANGED <<tbl, pc, views, existing>> /\ put'[r] \subseteq put[r]
        /\ \A q \in Reqs \ {r} : /\ todo'[q] = todo[q] /\ put'[q] = put[q]
                                 /\ locks'[q] = locks[q] /\ gone'[q] = gone[q]
    BY <1>6 DEF Delete, IInv, TypeOK
  <2>2. \A q \in Reqs \ {r} : Mine(q)'
    BY <2>1, MineFrame DEF MInv
  <2>3. LocksApart'
    BY <1>6, LocksGrow DEF Delete, MInv
  <2>4. IdsApart'
    BY <2>1 DEF MInv, IdsApart
  <2> QED
    BY <1>6, <2>1, <2>2, <2>3, <2>4, MineDelete DEF MInv
<1>7. ASSUME NEW r \in Reqs, Finish(r), tbl' = tbl \/ Commit(r) PROVE MInv'
  <2>1. /\ put'[r] = {} /\ existing'[r] = {} /\ locks'[r] = {}
        /\ \A q \in Reqs \ {r} :
             /\ pc'[q] = pc[q] /\ views'[q] = views[q]
             /\ existing'[q] = existing[q] /\ todo'[q] = todo[q]
             /\ put'[q] = put[q] /\ gone'[q] = gone[q] /\ locks'[q] = locks[q]
    BY <1>7 DEF Finish, IInv, TypeOK
  <2>2. \A q \in Reqs \ {r} : Mine(q)'
    BY <1>7, <2>1, MineFrame, CommitFrame DEF MInv
  <2>3. LocksApart'
    BY <2>1 DEF MInv, LocksApart
  <2>4. IdsApart'
    <3>1. CASE tbl' = tbl
      BY <2>1, <3>1 DEF MInv, IdsApart, IdsOf
    <3> QED
      BY <1>7, <3>1, CommitApart
  <2>5. Unique(tbl)'
    BY <1>7 DEF MInv, Mine, Commit, Unique
  <2> QED
    BY <1>7, <2>2, <2>3, <2>4, <2>5, MineFinish DEF MInv
<1>8. ASSUME NEW n, \/ DockerChanges(n) \/ Pm2Changes(n)
                    \/ \E r \in Reqs : Wait(r, n)
      PROVE  MInv'
  BY <1>1, <1>8 DEF DockerChanges, Pm2Changes, Wait, txvars
<1>9. CASE UNCHANGED vars
  BY <1>1, <1>9 DEF vars
<1> QED
  BY <1>2, <1>3, <1>4, <1>5, <1>6, <1>7, <1>8, <1>9
  DEF Next, Serve, Commit, StatementFails, DeadlockVictim, BreaksOff

LEMMA InitMerge == Init => MInv
<1> SUFFICES ASSUME Init PROVE MInv
  OBVIOUS
<1> USE DEF Init
<1>1. Unique(tbl)
  <2> SUFFICES ASSUME NEW x \in tbl, NEW y \in tbl,
                      x.id = y.id \/ Fold[x.name] = Fold[y.name]
               PROVE  x = y
    BY DEF Unique
  <2>1. PICK m \in Seeded : x = [id |-> SeedId[m], name |-> m,
                                 src |-> "unset", desc |-> TRUE]
    OBVIOUS
  <2>2. PICK n \in Seeded : y = [id |-> SeedId[n], name |-> n,
                                 src |-> "unset", desc |-> TRUE]
    OBVIOUS
  <2>3. m = n
    BY <2>1, <2>2, ConstantsOK DEF ConstantsOK
  <2> QED
    BY <2>1, <2>2, <2>3
<1>2. ASSUME NEW r \in Reqs PROVE Mine(r)
  <2>1. Current(r) = tbl
    BY DEF Current, IdsOf
  <2> QED
    BY <1>1, <2>1 DEF Mine, OneView, WritesLocked, InTx
<1> QED
  BY <1>1, <1>2 DEF MInv, LocksApart, IdsApart

-----------------------------------------------------------------------------
(* What a transaction commits is its listing merged into the table.        *)
LEMMA CommitIsMerge ==
  ASSUME IInv, MInv, NEW r \in Reqs, Commit(r)
  PROVE  Shared!Merge(existing[r], views[r])
<1> DEFINE S == existing[r]
           V == views[r]
           known == {v \in V : v.name \in Shared!NamesIn(S)}
           dropped == {x \in tbl : /\ x.id \in Shared!IdsIn(S)
                                   /\ x.name \notin Shared!NamesIn(V)}
           new == {y \in tbl' : y.id \notin Shared!IdsIn(tbl)}
<1>1. /\ pc[r] = "delete" /\ todo[r] = {} /\ tbl' = Current(r)
      /\ Mine(r) /\ Merging(r)
  BY DEF Commit, MInv, Mine, InTx
<1>2. /\ \A T : Shared!NamesIn(T) = NamesOf(T) /\ Shared!IdsIn(T) = IdsOf(T)
  BY DEF Shared!NamesIn, Shared!IdsIn, NamesOf, IdsOf
<1>3. Stored(r) = NamesOf(V)
  BY <1>1 DEF Stored
<1>4. \A x, y \in AllRows : x.id = y.id => x.name = y.name /\ x.desc = y.desc
  BY DEF IInv, RowsTraced, IdMeansOneApp
<1>5. tbl \subseteq AllRows /\ S \subseteq AllRows /\ put[r] \subseteq AllRows
  BY DEF AllRows
<1>6. \A x, y \in tbl' : x.id = y.id \/ Fold[x.name] = Fold[y.name] => x = y
  BY <1>1 DEF Mine, Unique
<1>7. \A x \in dropped : x.id \notin IdsOf(tbl')
  <2> SUFFICES ASSUME NEW x \in dropped PROVE x.id \notin IdsOf(tbl')
    OBVIOUS
  <2>1. x \in tbl /\ x.name \notin NamesOf(V) /\ x.id \in IdsOf(S)
    BY <1>2
  <2>2. PICK s \in S : s.id = x.id
    BY <2>1 DEF IdsOf
  <2>3. s.name = x.name
    BY <1>4, <1>5, <2>1, <2>2
  <2> QED
    BY <1>1, <2>1, <2>2, <2>3 DEF Merging, DroppedUnseen
<1>8. \A x : Shared!Matching(V, x) = {v \in V : Fold[v.name] = Fold[x.name]}
  BY DEF Shared!Matching
<1>9. \A x : Shared!Matching(known, x) = {} <=>
               ~ \E n \in Known(r) : Fold[n] = Fold[x.name]
  BY <1>2 DEF Shared!Matching, Known, NamesOf
<1>10. ASSUME NEW x \in tbl \ dropped
       PROVE  \E y \in tbl' :
                /\ y.id = x.id /\ y.name = x.name /\ y.desc = x.desc
                /\ \/ \E v \in Shared!Matching(V, x) : y.src = v.src
                   \/ Shared!Matching(known, x) = {} /\ y.src = x.src
  <2>1. x.id \notin gone[r]
    <3> SUFFICES ASSUME x.id \in gone[r] PROVE FALSE
      OBVIOUS
    <3>1. PICK s \in S : s.id = x.id /\ s.name \notin NamesOf(V)
      BY DEF IInv, RowsTraced, GoneWasReadUnlisted
    <3>2. s.name = x.name
      BY <1>4, <1>5, <3>1
    <3> QED
      BY <1>2, <3>1, <3>2 DEF IdsOf
  <2>2. CASE x.id \in IdsOf(put[r])
    <3>1. PICK y \in put[r] : y.id = x.id
      BY <2>2 DEF IdsOf
    <3>2. y.name = x.name /\ y.desc = x.desc
      BY <1>4, <1>5, <3>1
    <3>3. y \in tbl' /\ Sourced(r, y)
      BY <1>1 DEF Merging, PutsSourced, Current
    <3>4. \E v \in Shared!Matching(V, x) : y.src = v.src
      BY <1>8, <3>2, <3>3 DEF Sourced
    <3> QED
      BY <3>1, <3>2, <3>3, <3>4
  <2>3. CASE x.id \notin IdsOf(put[r])
    <3>1. x \in Current(r) /\ x \notin put[r]
      BY <2>1, <2>3 DEF Current, IdsOf
    <3>2. \A n \in Known(r) : Fold[n] # Fold[x.name]
      BY <1>1, <1>3, <3>1 DEF Merging, StoredHeld, Known
    <3>3. Shared!Matching(known, x) = {}
      BY <1>9, <3>2
    <3> QED
      BY <1>1, <3>1, <3>3
  <2> QED
    BY <2>2, <2>3
<1>11. ASSUME NEW y \in new
       PROVE  Sourced(r, y) /\ Inserted(r, y)
  <2>1. y \in put[r] /\ y.id \notin IdsOf(tbl)
    BY <1>1, <1>2 DEF Current, IdsOf
  <2> QED
    BY <1>1, <2>1 DEF Merging, PutsSourced, Rewritten
<1>12. \A n : n \in NamesOf(V) /\ n \notin NamesOf(S) =>
                \E y \in new : y.name = n
  <2> SUFFICES ASSUME NEW n \in Stored(r) \ NamesOf(S)
               PROVE  \E y \in new : y.name = n
    BY <1>3
  <2>1. PICK y \in put[r] : y.name = n /\ y.id \notin IdsOf(tbl)
    BY <1>1 DEF Merging, StoredInserted
  <2>2. y \in tbl'
    BY <1>1 DEF Current
  <2> QED
    BY <1>2, <2>1, <2>2
<1>13. Shared!NamesIn(new) = Shared!NamesIn(V \ known)
  <2>1. NamesOf(V \ known) = NamesOf(V) \ NamesOf(S)
    BY <1>2 DEF NamesOf
  <2>2. NamesOf(new) = NamesOf(V) \ NamesOf(S)
    <3>1. \A y \in new : y.name \in NamesOf(V) \ NamesOf(S)
      BY <1>3, <1>11 DEF Inserted
    <3> HIDE DEF new, V, S
    <3> QED
      BY <1>12, <3>1 DEF NamesOf
  <2> QED
    BY <1>2, <2>1, <2>2
<1>14. \A y \in new : /\ ~y.desc
                      /\ \E v \in Shared!Matching(V, y) : y.src = v.src
  BY <1>8, <1>11 DEF Sourced, Inserted
<1>15. Shared!IdsIn(dropped) \cap Shared!IdsIn(tbl') = {}
  <2> HIDE DEF dropped
  <2> QED
    BY <1>2, <1>7 DEF IdsOf
<1> QED
  BY <1>6, <1>10, <1>13, <1>14, <1>15 DEF Shared!Merge

LEMMA StepIsShared ==
  IInv /\ MInv /\ [Next]_vars => [Shared!SharedNext]_(Shared!svars)
<1> SUFFICES ASSUME IInv, MInv, [Next]_vars
             PROVE  [Shared!SharedNext]_(Shared!svars)
  OBVIOUS
<1> DEFINE open == {r \in Reqs : InTx(r)}
           given == [r \in Reqs |-> IF InTx(r) THEN views[r] ELSE {}]
<1>0. /\ Shared!svars = <<tbl, open, given, existing>>
      /\ Shared!svars' = <<tbl', open', given', existing'>>
  BY DEF Shared!svars
<1>1. ASSUME UNCHANGED <<tbl, existing>>,
             \A r \in Reqs : /\ InTx(r)' <=> InTx(r)
                             /\ InTx(r) => views'[r] = views[r]
      PROVE  UNCHANGED Shared!svars
  <2>1. open' = open /\ given' = given
    BY <1>1
  <2> QED
    BY <1>0, <1>1, <2>1
<1>2. ASSUME NEW r \in Reqs, Begin(r) PROVE Shared!SharedNext
  <2>1. /\ ~InTx(r) /\ InTx(r)' /\ UNCHANGED <<tbl, views>>
        /\ existing' = [existing EXCEPT ![r] = tbl]
        /\ \A q \in Reqs \ {r} : InTx(q)' <=> InTx(q)
    BY <1>2 DEF Begin, InTx, IInv, TypeOK
  <2>2. open' = open \cup {r} /\ given' = [given EXCEPT ![r] = views[r]]
    BY <2>1
  <2>3. r \notin open /\ Shared!Listing(views[r])
    BY <2>1 DEF MInv, Mine, OneView, Shared!Listing
  <2>4. views[r] \in SUBSET Shared!View
    BY DEF IInv, TypeOK, View, Shared!View
  <2>5. PICK V : V = views[r]
    OBVIOUS
  <2>6. Shared!Call(r, V)
    BY <2>1, <2>2, <2>3, <2>5 DEF Shared!Call
  <2> QED
    BY <2>4, <2>5, <2>6 DEF Shared!SharedNext
<1>3. ASSUME NEW r \in Reqs, Finish(r), tbl' = tbl \/ Commit(r)
      PROVE  Shared!SharedNext \/ UNCHANGED Shared!svars
  <2>1. /\ ~InTx(r)' /\ existing' = [existing EXCEPT ![r] = {}]
        /\ \A q \in Reqs \ {r} : /\ InTx(q)' <=> InTx(q)
                                 /\ views'[q] = views[q]
    BY <1>3 DEF Finish, InTx, IInv, TypeOK
  <2>2. CASE ~InTx(r)
    <3>1. existing' = existing /\ tbl' = tbl
      BY <1>3, <2>1, <2>2 DEF Commit, InTx, IInv, TypeOK
    <3> QED
      BY <1>1, <2>1, <2>2, <3>1
  <2>3. CASE InTx(r)
    <3>1. /\ open' = open \ {r} /\ given' = [given EXCEPT ![r] = {}]
          /\ r \in open /\ given[r] = views[r]
      BY <2>1, <2>3
    <3>2. Shared!Return(r)
      BY <2>1, <3>1 DEF Shared!Return
    <3>3. CASE tbl' = tbl
      BY <3>2, <3>3 DEF Shared!SharedNext, Shared!GiveUp
    <3>4. CASE Commit(r)
      <4>1. Shared!Merge(existing[r], given[r])
        BY <3>1, <3>4, CommitIsMerge
      <4> QED
        BY <3>2, <4>1 DEF Shared!SharedNext, Shared!Write
    <3> QED
      BY <1>3, <3>3, <3>4
  <2> QED
    BY <2>2, <2>3
<1>4. ASSUME NEW r \in Reqs,
             \/ Start(r) \/ ListDocker(r) \/ ListPm2(r)
             \/ DockerListFails(r) \/ Pm2ListFails(r)
      PROVE  UNCHANGED Shared!svars
  <2>1. /\ UNCHANGED <<tbl, existing>> /\ ~InTx(r) /\ ~InTx(r)'
        /\ \A q \in Reqs \ {r} : pc'[q] = pc[q] /\ views'[q] = views[q]
    BY <1>4 DEF Start, ListDocker, ListPm2, DockerListFails, Pm2ListFails,
                Listed, txvars, InTx, IInv, TypeOK
  <2> QED
    BY <1>1, <2>1 DEF InTx
<1>5. ASSUME NEW r \in Reqs, UpsertDone(r) PROVE UNCHANGED Shared!svars
  <2>1. /\ UNCHANGED <<tbl, existing, views>> /\ InTx(r) /\ InTx(r)'
        /\ \A q \in Reqs \ {r} : pc'[q] = pc[q]
    BY <1>5 DEF UpsertDone, InTx, IInv, TypeOK
  <2> QED
    BY <1>1, <2>1 DEF InTx
<1>6. ASSUME UNCHANGED <<tbl, existing, views, pc>>
      PROVE  UNCHANGED Shared!svars
  BY <1>1, <1>6 DEF InTx
<1>7. ASSUME NEW n, \/ DockerChanges(n) \/ Pm2Changes(n)
                    \/ \E r \in Reqs : Wait(r, n) \/ Upsert(r, n) \/ Delete(r, n)
      PROVE  UNCHANGED Shared!svars
  <2>1. UNCHANGED <<tbl, existing, views, pc>>
    BY <1>7 DEF DockerChanges, Pm2Changes, Wait, Upsert, Delete, txvars
  <2> QED
    BY <1>6, <2>1
<1>8. CASE UNCHANGED vars
  BY <1>6, <1>8 DEF vars
<1> HIDE DEF open, given
<1> QED
  BY <1>2, <1>3, <1>4, <1>5, <1>7, <1>8
  DEF Next, Serve, Commit, StatementFails, DeadlockVictim, BreaksOff

(* However the loops of requests interleave, with their errors, deadlocks  *)
(* and rollbacks, each transaction is a read of the table and one write.   *)
THEOREM SyncAlwaysMerges == Spec => SyncIsMerge
<1>1. Init => Shared!SharedInit
  BY DEF Init, InTx, Shared!SharedInit, Shared!Init, Shared!Seeds, Seeded
<1>2. IInv /\ [Next]_vars => IInv'
  BY TypeOKStep, RowsTracedStep DEF IInv
<1> QED
  BY <1>1, <1>2, InitInv, InitMerge, MergeStep, StepIsShared, PTL
  DEF Spec, SyncIsMerge, Shared!SharedSpec

-----------------------------------------------------------------------------
(* A call that no other overlaps: what it read is the table it writes.     *)

(* Then a merge is the Sync of AppTable.                                   *)
LEMMA UndisturbedMergeIsSync ==
  ASSUME NEW V, Shared!Merge(tbl, V), Unique(tbl), V \subseteq View,
         tbl' \subseteq Row,
         \A v, w \in V : v.name = w.name => v = w
  PROVE  Abstract!Sync(V)
<1> DEFINE known == {v \in V : v.name \in Shared!NamesIn(tbl)}
           dropped == {x \in tbl : /\ x.id \in Shared!IdsIn(tbl)
                                   /\ x.name \notin Shared!NamesIn(V)}
           new == {y \in tbl' : y.id \notin Shared!IdsIn(tbl)}
<1>1. \A T : Shared!NamesIn(T) = NamesOf(T) /\ Shared!IdsIn(T) = IdsOf(T)
  BY DEF Shared!NamesIn, Shared!IdsIn, NamesOf, IdsOf
<1>2. /\ \A x, y \in tbl' : x.id = y.id \/ Fold[x.name] = Fold[y.name] => x = y
      /\ IdsOf(dropped) \cap IdsOf(tbl') = {}
      /\ \A x \in tbl \ dropped : \E y \in tbl' :
           /\ y.id = x.id /\ y.name = x.name /\ y.desc = x.desc
           /\ \/ \E v \in Shared!Matching(V, x) : y.src = v.src
              \/ Shared!Matching(known, x) = {} /\ y.src = x.src
      /\ NamesOf(new) = NamesOf(V \ known)
      /\ \A y \in new : ~y.desc /\ \E v \in Shared!Matching(V, y) : y.src = v.src
  <2> HIDE DEF dropped, new
  <2> QED
    BY <1>1 DEF Shared!Merge, dropped, new
<1>3. \A x : x \in dropped <=> x \in tbl /\ x.name \notin NamesOf(V)
  BY <1>1 DEF IdsOf
<1>4. \A v : v \in known <=> v \in V /\ v.name \in NamesOf(tbl)
  BY <1>1
<1>5. \A y : y \in new <=> y \in tbl' /\ y.id \notin IdsOf(tbl)
  BY <1>1
<1> HIDE DEF known, dropped, new
<1>6. \A y \in tbl' \ new : \E x \in tbl \ dropped :
        y.id = x.id /\ y.name = x.name
  <2> SUFFICES ASSUME NEW y \in tbl' \ new
               PROVE  \E x \in tbl \ dropped : y.id = x.id /\ y.name = x.name
    OBVIOUS
  <2>1. PICK x \in tbl : x.id = y.id
    BY <1>5 DEF IdsOf
  <2>2. x \notin dropped
    BY <1>2, <2>1 DEF IdsOf
  <2>3. PICK z \in tbl' : z.id = x.id /\ z.name = x.name
    BY <1>2, <2>2
  <2> QED
    BY <1>2, <2>1, <2>2, <2>3
<1>7. \A v \in V : \E y \in tbl' : y.name = v.name
  <2> SUFFICES ASSUME NEW v \in V PROVE \E y \in tbl' : y.name = v.name
    OBVIOUS
  <2>1. CASE v \in known
    <3>1. PICK x \in tbl : x.name = v.name
      BY <1>4, <2>1 DEF NamesOf
    <3>2. x \notin dropped
      BY <1>3, <3>1 DEF NamesOf
    <3> QED
      BY <1>2, <3>1, <3>2
  <2>2. CASE v \notin known
    BY <1>2, <1>5, <2>2 DEF NamesOf
  <2> QED
    BY <2>1, <2>2
<1>8. \A y \in tbl' : y.name \in NamesOf(V)
  <2>1. \A y \in new : y.name \in NamesOf(V)
    BY <1>2 DEF NamesOf
  <2>2. \A x \in tbl \ dropped : x.name \in NamesOf(V)
    BY <1>3
  <2> QED
    BY <1>6, <2>1, <2>2
<1>9. \A y \in tbl' : \A v \in Shared!Matching(V, y) : v.name = y.name
  BY <1>2, <1>7 DEF Shared!Matching
<1>10. Abstract!Listing(V)
  BY DEF Abstract!Listing
<1>11. {x.name : x \in tbl'} = {v.name : v \in V}
  BY <1>7, <1>8 DEF NamesOf
<1>12. ASSUME NEW x \in tbl, x.name \in NamesOf(V)
       PROVE  With(x, (CHOOSE v \in V : v.name = x.name).src) \in tbl'
  <2>1. PICK v \in V : v.name = x.name
    BY <1>12 DEF NamesOf
  <2>2. (CHOOSE w \in V : w.name = x.name) = v
    BY <2>1
  <2>3. x \notin dropped
    BY <1>3, <1>12
  <2>4. PICK y \in tbl' :
          /\ y.id = x.id /\ y.name = x.name /\ y.desc = x.desc
          /\ \/ \E w \in Shared!Matching(V, x) : y.src = w.src
             \/ Shared!Matching(known, x) = {} /\ y.src = x.src
    BY <1>2, <2>3
  <2>5. v \in known
    BY <1>4, <2>1 DEF NamesOf
  <2>6. PICK w \in Shared!Matching(V, x) : y.src = w.src
    BY <2>1, <2>4, <2>5 DEF Shared!Matching
  <2>7. w = v
    BY <1>9, <2>1, <2>4, <2>6 DEF Shared!Matching
  <2>8. y = With(x, v.src)
    BY <2>4, <2>6, <2>7 DEF Row, With
  <2> QED
    BY <2>2, <2>8
<1>13. Abstract!Kept(V) =
         {With(x, (CHOOSE v \in V : v.name = x.name).src) :
            x \in {z \in tbl : z.name \in NamesOf(V)}}
  <2>1. \A x : (\E v \in V : v.name = x.name) <=> x.name \in NamesOf(V)
    BY DEF NamesOf
  <2> QED
    BY <2>1 DEF Abstract!Kept, With
<1>14. Abstract!Kept(V) \subseteq tbl'
  BY <1>12, <1>13
<1>15. ASSUME NEW y \in tbl' \ Abstract!Kept(V)
       PROVE  /\ [name |-> y.name, src |-> y.src] \in V
              /\ y.id \notin {x.id : x \in tbl}
              /\ ~y.desc
  <2>1. y \in new
    <3> SUFFICES ASSUME y \notin new PROVE FALSE
      OBVIOUS
    <3>1. PICK x \in tbl \ dropped : y.id = x.id /\ y.name = x.name
      BY <1>6
    <3>2. x.name \in NamesOf(V)
      BY <1>3
    <3> DEFINE k == With(x, (CHOOSE v \in V : v.name = x.name).src)
    <3>3. k \in tbl' /\ k \in Abstract!Kept(V)
      BY <1>12, <1>13, <3>2
    <3>4. k.id = x.id
      BY WithFields
    <3> HIDE DEF k
    <3> QED
      BY <1>2, <3>1, <3>3, <3>4
  <2>2. PICK v \in Shared!Matching(V, y) : y.src = v.src
    BY <1>2, <2>1
  <2>3. v \in V /\ v.name = y.name
    BY <1>9, <2>2 DEF Shared!Matching
  <2>4. [name |-> y.name, src |-> y.src] = v
    BY <2>2, <2>3 DEF View
  <2> QED
    BY <1>2, <1>5, <2>1, <2>3, <2>4 DEF IdsOf
<1> QED
  BY <1>2, <1>10, <1>11, <1>14, <1>15 DEF Abstract!Sync

(* The loops of one request implement the atomic step that the comment of  *)
(* SyncFromPM2 describes.                                                  *)
THEOREM SoleSyncIsAtomic ==
  ASSUME NEW r, Reqs = {r}
  PROVE  Spec => SyncIsAtomic
<1> DEFINE Undisturbed == InTx(r) => existing[r] = tbl
<1>1. Init => Undisturbed
  BY DEF Init, InTx
<1>2. IInv /\ Undisturbed /\ [Next]_vars => Undisturbed'
  <2> SUFFICES ASSUME IInv, Undisturbed, [Next]_vars PROVE Undisturbed'
    OBVIOUS
  <2>1. CASE Begin(r)
    BY <2>1 DEF Begin, IInv, TypeOK
  <2>2. CASE Finish(r)
    BY <2>2 DEF Finish, InTx, IInv, TypeOK
  <2>3. ASSUME UNCHANGED <<tbl, existing>>, InTx(r)' => InTx(r)
        PROVE  Undisturbed'
    BY <2>3
  <2>4. ASSUME NEW n,
               \/ DockerChanges(n) \/ Pm2Changes(n)
               \/ Wait(r, n) \/ Upsert(r, n) \/ Delete(r, n)
        PROVE  UNCHANGED <<tbl, existing>> /\ (InTx(r)' => InTx(r))
    BY <2>4 DEF DockerChanges, Pm2Changes, Wait, Upsert, Delete, InTx, txvars
  <2>5. ASSUME \/ Start(r) \/ ListDocker(r) \/ ListPm2(r) \/ UpsertDone(r)
               \/ DockerListFails(r) \/ Pm2ListFails(r)
        PROVE  UNCHANGED <<tbl, existing>> /\ (InTx(r)' => InTx(r))
    BY <2>5 DEF Start, ListDocker, ListPm2, DockerListFails, Pm2ListFails,
                Listed, UpsertDone, txvars, InTx, IInv, TypeOK
  <2>6. ASSUME UNCHANGED vars
        PROVE  UNCHANGED <<tbl, existing>> /\ (InTx(r)' => InTx(r))
    BY <2>6 DEF vars, InTx
  <2> QED
    BY <2>1, <2>2, <2>3, <2>4, <2>5, <2>6
    DEF Next, Serve, Commit, StatementFails, DeadlockVictim, BreaksOff
<1>3. Init => Abstract!Init
  BY DEF Init, Abstract!Init, Abstract!Seeds, Seeded
<1>4. IInv /\ [Next]_vars => IInv'
  BY TypeOKStep, RowsTracedStep DEF IInv
<1>5. IInv /\ MInv /\ Undisturbed /\ [Next]_vars => [Abstract!Next]_tbl
  <2> SUFFICES ASSUME IInv, MInv, Undisturbed, [Next]_vars, tbl' # tbl
               PROVE  Abstract!Next
    OBVIOUS
  <2>1. Commit(r)
    BY OnlyCommitWrites
  <2>2. existing[r] = tbl
    BY <2>1 DEF Commit, InTx
  <2>3. PICK V : V = views[r]
    OBVIOUS
  <2>4. Shared!Merge(tbl, V)
    BY <2>1, <2>2, <2>3, CommitIsMerge
  <2>5. V \subseteq View /\ tbl' \subseteq Row
    BY <1>4, <2>3 DEF IInv, TypeOK
  <2>6. Abstract!Sync(V)
    BY <2>3, <2>4, <2>5, UndisturbedMergeIsSync DEF MInv, Mine, OneView
  <2> QED
    BY <2>5, <2>6 DEF Abstract!Next, Abstract!View, View
<1> QED
  BY <1>1, <1>2, <1>3, <1>4, <1>5, InitInv, InitMerge, MergeStep, PTL
  DEF Spec, SyncIsAtomic, Abstract!Spec
-----------------------------------------------------------------------------
(* Who waits.  A statement that waits is about a name its loop has still to *)
(* reach, and the locks in its way are those of transactions.              *)
Waiting ==
  \A r \in Reqs : want[r] # {} => \E n \in todo[r] : want[r] = {n}

LEMMA WaitingStep ==
  ASSUME TypeOK, Waiting, [Next]_vars PROVE Waiting'
<1> USE DEF Waiting, TypeOK
<1>1. ASSUME UNCHANGED <<want, todo>> PROVE Waiting'
  BY <1>1
<1>2. ASSUME NEW r \in Reqs, want' = [want EXCEPT ![r] = {}],
             \A q \in Reqs \ {r} : todo'[q] = todo[q]
      PROVE  Waiting'
  BY <1>2
<1>3. ASSUME NEW r \in Reqs, Finish(r) PROVE Waiting'
  BY <1>2, <1>3 DEF Finish
<1>4. ASSUME NEW r \in Reqs, NEW n \in Names, Wait(r, n) PROVE Waiting'
  BY <1>4 DEF Wait
<1>5. ASSUME NEW r \in Reqs, NEW n \in Names, Upsert(r, n) \/ Delete(r, n)
      PROVE  Waiting'
  BY <1>2, <1>5 DEF Upsert, Delete
<1>6. ASSUME NEW r \in Reqs, UpsertDone(r) PROVE Waiting'
  BY <1>6 DEF UpsertDone
<1>7. ASSUME NEW r \in Reqs, Begin(r) PROVE Waiting'
  BY <1>7 DEF Begin, InTx
<1>8. QED
  BY <1>1, <1>3, <1>4, <1>5, <1>6, <1>7
     DEF Next, Serve, DockerChanges, Pm2Changes, Start, ListDocker, ListPm2,
         DockerListFails, Pm2ListFails, Listed, Commit, StatementFails,
         DeadlockVictim, BreaksOff, vars, txvars

(* Where everybody of a finite set waits for another of it there is a part *)
(* of it in which everybody waits and is waited for: the least in which    *)
(* everybody waits.                                                        *)
LEMMA CircleOfWaiters ==
  ASSUME NEW T, IsFiniteSet(T), T # {}, NEW W,
         \A p \in T : \E q \in T : q # p /\ <<p, q>> \in W
  PROVE  \E S \in SUBSET T :
           /\ S # {}
           /\ \A p \in S : /\ \E q \in S : q # p /\ <<p, q>> \in W
                          /\ \E q \in S : q # p /\ <<q, p>> \in W
<1> DEFINE D == {S \in SUBSET T :
                   S # {} /\ \A p \in S : \E q \in S : q # p /\ <<p, q>> \in W}
<1>1. D \subseteq FiniteSubsetsOf(T) /\ D # {}
  <2>1. T \in D
    OBVIOUS
  <2>2. QED
    BY <2>1, FS_FiniteSubsetsOfFinite
<1>2. IsWellFoundedOn(StrictSubsetOrdering(T), FiniteSubsetsOf(T))
  BY FS_StrictSubsetOrderingWellFounded
<1>3. PICK S \in D : \A U \in D : <<U, S>> \notin StrictSubsetOrdering(T)
  <2> HIDE DEF D
  <2>1. QED
    BY <1>1, <1>2, WFMin
<1>4. ASSUME NEW p \in S, \A q \in S : q # p => <<q, p>> \notin W PROVE FALSE
  <2> DEFINE U == S \ {p}
  <2>1. PICK q \in S : q # p /\ <<p, q>> \in W
    BY <1>3
  <2>2. U # {} /\ U \in SUBSET T
    BY <2>1, <1>3
  <2>3. ASSUME NEW u \in U PROVE \E v \in U : v # u /\ <<u, v>> \in W
    BY <1>3, <1>4, <2>3
  <2>4. U \in D
    BY <2>2, <2>3
  <2>5. <<U, S>> \in StrictSubsetOrdering(T)
    BY <1>3, <2>2 DEF StrictSubsetOrdering
  <2>6. QED
    BY <1>3, <2>4, <2>5
<1>5. QED
  BY <1>3, <1>4

(* A transaction that waits, waits for another.                            *)
LEMMA WaitsForAnother ==
  ASSUME TypeOK, Waiting, NEW p \in Reqs, InTx(p), ~CanGoOn(p)
  PROVE  \E q \in Reqs : InTx(q) /\ WaitsFor(p, q)
<1>1. want[p] # {} /\ \A n \in todo[p] : ~CanRun(p, n)
  BY DEF CanGoOn
<1>2. PICK n \in todo[p] : want[p] = {n}
  BY <1>1 DEF Waiting
<1>3. PICK q \in Reqs \ {p} : Needs(p, n) \cap locks[q] # {}
  BY <1>1, <1>2 DEF CanRun
<1>4. InTx(q)
  BY <1>3 DEF TypeOK
<1>5. QED
  BY <1>2, <1>3, <1>4 DEF WaitsFor

(* Of any number of overlapping requests one can go on, or is rolled back  *)
(* as the victim of a deadlock: no lock and no connection is held by a     *)
(* request that is over, and who waits for a lock waits for one who does   *)
(* not, or is in a circle that InnoDB breaks, or behind one.               *)
THEOREM RequestsNeverStuck ==
  ASSUME IsFiniteSet(Reqs) PROVE Spec => []NeverStuck
<1>1. Init => Waiting
  BY DEF Init, Waiting
<1>2. TypeOK /\ Waiting /\ [Next]_vars => Waiting'
  BY WaitingStep
<1>3. TypeOK /\ Waiting => NeverStuck
  <2> SUFFICES ASSUME TypeOK, Waiting, NEW o \in Reqs, pc[o] # "idle",
                      \A r \in Reqs : ~CanGoOn(r)
               PROVE  FALSE
    BY DEF NeverStuck
  <2> DEFINE T == {q \in Reqs : InTx(q)}
             W == {w \in Reqs \X Reqs : WaitsFor(w[1], w[2])}
  <2>1. T # {}
    <3>1. CASE T = {}
      <4>1. pc[o] = "begin"
        BY <3>1 DEF CanGoOn, InTx, TypeOK
      <4>2. Cardinality(T) < PoolSize
        BY <3>1, FS_EmptySet, ConstantsOK
      <4>3. QED
        BY <4>1, <4>2 DEF CanGoOn
    <3>2. QED
      BY <3>1
  <2>2. IsFiniteSet(T)
    BY FS_Subset
  <2>3. ASSUME NEW p \in T PROVE \E q \in T : q # p /\ <<p, q>> \in W
    BY <2>3, WaitsForAnother DEF WaitsFor
  <2>4. PICK S \in SUBSET T :
          /\ S # {}
          /\ \A p \in S : /\ \E q \in S : q # p /\ <<p, q>> \in W
                         /\ \E q \in S : q # p /\ <<q, p>> \in W
    <3> HIDE DEF T, W
    <3>1. QED
      BY <2>1, <2>2, <2>3, CircleOfWaiters
  <2>5. PICK r \in S : TRUE
    BY <2>4
  <2>6. \A p \in S : /\ \E q \in S : WaitsFor(p, q)
                    /\ \E q \in S : WaitsFor(q, p)
    BY <2>4
  <2>7. Deadlocked(r)
    BY <2>5, <2>6 DEF Deadlocked
  <2>8. QED
    BY <2>5, <2>7 DEF CanGoOn
<1>4. QED
  BY TypeCorrect, <1>1, <1>2, <1>3, PTL DEF Spec
=============================================================================
