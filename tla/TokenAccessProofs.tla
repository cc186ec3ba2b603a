-------------------------- MODULE TokenAccessProofs --------------------------
(***************************************************************************)
(* Theorems about TokenAccess, for any calls, visitors, ids, apps and TTL. *)
(*                                                                         *)
(* ListedIsRecent is not inductive: what a visitor will be listed depends  *)
(* on its JWT, the JWT on the row its login read, and the age of a grant   *)
(* on the rows.  Recent follows that chain.                                *)
(***************************************************************************)
EXTENDS TokenAccess, TLAPS

Age(i, a) == since[<<i, a>>]

RowsHoldNow ==
  \A x \in tokens : \A a \in x.apps : Age(x.id, a) = 0

LoginsReadNow ==
  \A v \in Visitors : \A x \in reading[v] : \A a \in x.apps : Age(x.id, a) = 0

JWTsAge ==
  \A v \in Visitors : \A s \in session[v] :
    s.left > 0 => \A a \in s.apps : Age(s.id, a) + s.left <= TTL

ListedByJWT ==
  \A v \in Visitors : \A s \in session[v] : \A a \in shown[v] :
    s.left > 0 /\ a \in s.apps

OneRead ==
  /\ \A v \in Visitors : \A s, t \in session[v] : s = t
  /\ \A c \in Calls : \A y, z \in seen[c] : y = z

Recent == RowsHoldNow /\ LoginsReadNow /\ JWTsAge /\ ListedByJWT /\ OneRead

IInv == TypeOK /\ Recent

LEMMA InitInv == Init => IInv
BY TTLOK DEF Init, IInv, TypeOK, Recent, RowsHoldNow, LoginsReadNow, JWTsAge,
   ListedByJWT, OneRead, TTLOK
-----------------------------------------------------------------------------
(* Writes of rows: since is 0 where a row holds, and grows nowhere.        *)

LEMMA NoteHeldFacts ==
  ASSUME IInv, tokens' \subseteq Row, NoteHeld
  PROVE  /\ since' \in [Ids \X Apps -> 0 .. TTL]
         /\ RowsHoldNow'
         /\ \A i \in Ids, a \in Apps : Age(i, a)' \in {0, Age(i, a)}
<1>1. \A p \in Ids \X Apps : since'[p] \in {0, since[p]}
  BY DEF NoteHeld
<1>2. since' \in [Ids \X Apps -> 0 .. TTL]
  BY <1>1, TTLOK DEF NoteHeld, IInv, TypeOK, TTLOK
<1>3. ASSUME NEW x \in tokens', NEW a \in x.apps PROVE Age(x.id, a)' = 0
  <2>1. x.id \in Ids /\ a \in Apps
    BY DEF Row, AppSets
  <2>2. Holds(tokens', x.id, a)
    BY DEF Holds
  <2>3. <<x.id, a>> \in Ids \X Apps
    BY <2>1
  <2> QED
    BY <2>2, <2>3 DEF NoteHeld, Age
<1> QED
  BY <1>1, <1>2, <1>3 DEF RowsHoldNow, Age

LEMMA RowWriteKeepsRecent ==
  ASSUME IInv, tokens' \subseteq Row, NoteHeld, UNCHANGED visitor
  PROVE  RowsHoldNow' /\ LoginsReadNow' /\ JWTsAge' /\ ListedByJWT'
<1>1. \A i \in Ids, a \in Apps : Age(i, a)' \in {0, Age(i, a)}
  BY NoteHeldFacts
<1>2. RowsHoldNow'
  BY NoteHeldFacts
<1>3. LoginsReadNow'
  <2> SUFFICES ASSUME NEW v \in Visitors, NEW x \in reading[v],
                      NEW a \in x.apps
               PROVE  Age(x.id, a)' = 0
    BY DEF LoginsReadNow, visitor
  <2>1. x.id \in Ids /\ a \in Apps
    BY DEF IInv, TypeOK, Row, AppSets
  <2> QED
    BY <1>1, <2>1 DEF IInv, Recent, LoginsReadNow
<1>4. JWTsAge'
  <2> SUFFICES ASSUME NEW v \in Visitors, NEW s \in session[v], s.left > 0,
                      NEW a \in s.apps
               PROVE  Age(s.id, a)' + s.left <= TTL
    BY DEF JWTsAge, visitor
  <2>1. s.id \in Ids /\ a \in Apps /\ s.left \in 0 .. TTL
    BY DEF IInv, TypeOK, JWT, AppSets
  <2>2. Age(s.id, a) + s.left <= TTL
    BY DEF IInv, Recent, JWTsAge
  <2> QED
    BY <1>1, <2>1, <2>2, TTLOK DEF TTLOK
<1>5. ListedByJWT'
  BY DEF ListedByJWT, visitor, IInv, Recent
<1> QED
  BY <1>2, <1>3, <1>4, <1>5

LEMMA CreateInv ==
  ASSUME IInv, NEW i \in Ids, NEW A \in AppSets, Create(i, A)
  PROVE  IInv'
<1>1. tokens' \subseteq Row /\ NoteHeld /\ UNCHANGED visitor
  BY DEF Create, IInv, TypeOK, Row
<1>2. since' \in [Ids \X Apps -> 0 .. TTL]
  BY <1>1, NoteHeldFacts
<1>3. TypeOK'
  BY <1>1, <1>2 DEF Create, IInv, TypeOK, call, visitor
<1>4. OneRead'
  BY DEF Create, IInv, Recent, OneRead, call, visitor
<1> QED
  BY <1>1, <1>3, <1>4, RowWriteKeepsRecent DEF IInv, Recent

LEMMA UpdateWritesInv ==
  ASSUME IInv, NEW c \in Calls, UpdateWrites(c)
  PROVE  IInv'
<1>1. ASSUME NEW x \in RowsOf(target[c]), NEW y \in seen[c]
      PROVE  Edited(x, y, body[c]) \in Row
  BY DEF IInv, TypeOK, RowsOf, Edited, Row, AppSets
<1>2. tokens' \subseteq Row /\ NoteHeld /\ UNCHANGED visitor
  BY <1>1 DEF UpdateWrites, IInv, TypeOK, RowsOf, visitor
<1>3. since' \in [Ids \X Apps -> 0 .. TTL]
  BY <1>2, NoteHeldFacts
<1>4. ASSUME NEW z \in tokens'
      PROVE  \/ z \in tokens /\ z.id # target[c]
             \/ \E x \in RowsOf(target[c]) : \E y \in seen[c] :
                  z = Edited(x, y, body[c])
  BY DEF UpdateWrites, RowsOf
<1>5. \A x, y : Edited(x, y, body[c]).id = x.id
  BY DEF Edited
<1>6. \A x \in RowsOf(target[c]) : x \in tokens /\ x.id = target[c]
  BY DEF RowsOf
<1>7. \A z \in tokens' : z.id \in used'
  BY <1>4, <1>5, <1>6 DEF IInv, TypeOK, UpdateWrites
<1>8. ASSUME NEW z \in tokens', NEW w \in tokens', z.id = w.id PROVE z = w
  <2>1. CASE z.id # target[c]
    BY <2>1, <1>4, <1>5, <1>6, <1>8 DEF IInv, TypeOK
  <2>2. CASE z.id = target[c]
    <3>1. PICK x \in RowsOf(target[c]), y \in seen[c] :
            z = Edited(x, y, body[c])
      BY <2>2, <1>4
    <3>2. PICK x2 \in RowsOf(target[c]), y2 \in seen[c] :
            w = Edited(x2, y2, body[c])
      BY <2>2, <1>4, <1>8
    <3>3. x = x2
      BY <1>6 DEF IInv, TypeOK
    <3>4. y = y2
      BY DEF IInv, Recent, OneRead
    <3> QED
      BY <3>1, <3>2, <3>3, <3>4
  <2> QED
    BY <2>1, <2>2
<1>9. stage' \in [Calls -> {"idle", "find", "write", "answer", "check",
                            "remove"}]
      /\ \A d \in Calls : stage'[d] \in {"write", "remove"} => seen'[d] # {}
  BY DEF UpdateWrites, Moves, IInv, TypeOK
<1>10. TypeOK'
  BY <1>2, <1>3, <1>7, <1>8, <1>9
     DEF UpdateWrites, IInv, TypeOK, visitor
<1>11. OneRead'
  BY DEF UpdateWrites, IInv, Recent, OneRead, visitor
<1> QED
  BY <1>2, <1>10, <1>11, RowWriteKeepsRecent DEF IInv, Recent

LEMMA DeleteWritesInv ==
  ASSUME IInv, NEW c \in Calls, DeleteWrites(c)
  PROVE  IInv'
<1>1. tokens' \subseteq tokens /\ NoteHeld /\ UNCHANGED visitor
  BY DEF DeleteWrites, Answered
<1>2. tokens' \subseteq Row
  BY <1>1 DEF IInv, TypeOK
<1>3. since' \in [Ids \X Apps -> 0 .. TTL]
  BY <1>1, <1>2, NoteHeldFacts
<1>4. TypeOK'
  BY <1>1, <1>2, <1>3 DEF DeleteWrites, Answered, IInv, TypeOK, visitor
<1>5. OneRead'
  BY DEF DeleteWrites, Answered, IInv, TypeOK, Recent, OneRead, visitor
<1> QED
  BY <1>1, <1>2, <1>4, <1>5, RowWriteKeepsRecent DEF IInv, Recent
-----------------------------------------------------------------------------
(* Steps of the calls that write no row.                                   *)

LEMMA CallKeepsRecent ==
  ASSUME IInv, UNCHANGED <<tokens, since, visitor>>, OneRead'
  PROVE  Recent'
BY DEF IInv, Recent, RowsHoldNow, LoginsReadNow, JWTsAge, ListedByJWT, Age,
   visitor

LEMMA AnsweredInv ==
  ASSUME IInv, NEW c \in Calls, Answered(c), UNCHANGED <<tokens, used, since>>
  PROVE  IInv'
<1>1. TypeOK'
  BY DEF Answered, IInv, TypeOK, visitor
<1>2. OneRead'
  BY DEF Answered, IInv, TypeOK, Recent, OneRead, visitor
<1> QED
  BY <1>1, <1>2, CallKeepsRecent DEF IInv, Answered

LEMMA BeginInv ==
  ASSUME IInv, NEW c \in Calls, NEW i \in Ids, NEW first \in {"find", "check"},
         NEW A \in SUBSET Apps, Begin(c, i, first, A)
  PROVE  IInv'
<1>1. TypeOK'
  BY DEF Begin, Moves, IInv, TypeOK, visitor
<1>2. OneRead'
  BY DEF Begin, IInv, Recent, OneRead, visitor
<1> QED
  BY <1>1, <1>2, CallKeepsRecent DEF IInv, Begin

LEMMA FoundInv ==
  ASSUME IInv, NEW c \in Calls, Found(c)
  PROVE  IInv'
<1>1. RowsOf(target[c]) \subseteq Row /\ RowsOf(target[c]) # {}
  BY DEF Found, IInv, TypeOK, RowsOf
<1>2. TypeOK'
  BY <1>1 DEF Found, Moves, IInv, TypeOK, visitor
<1>3. \A y, z \in RowsOf(target[c]) : y = z
  BY DEF IInv, TypeOK, RowsOf
<1>4. OneRead'
  BY <1>3 DEF Found, IInv, TypeOK, Recent, OneRead, visitor
<1> QED
  BY <1>2, <1>4, CallKeepsRecent DEF IInv, Found
-----------------------------------------------------------------------------
(* Steps of the token users, and time.                                     *)

LEMMA LoginReadsInv ==
  ASSUME IInv, NEW v \in Visitors, NEW i \in Ids, LoginReads(v, i)
  PROVE  IInv'
<1>1. RowsOf(i) \subseteq tokens
  BY DEF RowsOf
<1>2. TypeOK'
  BY <1>1 DEF LoginReads, IInv, TypeOK, call
<1>3. LoginsReadNow'
  BY <1>1 DEF LoginReads, IInv, TypeOK, Recent, RowsHoldNow, LoginsReadNow, Age
<1>4. RowsHoldNow' /\ JWTsAge' /\ ListedByJWT' /\ OneRead'
  BY DEF LoginReads, IInv, Recent, RowsHoldNow, JWTsAge, ListedByJWT, OneRead,
     Age, call
<1> QED
  BY <1>2, <1>3, <1>4 DEF IInv, Recent

LEMMA LoginIssuesInv ==
  ASSUME IInv, NEW v \in Visitors, LoginIssues(v)
  PROVE  IInv'
<1>1. PICK x \in reading[v] :
        session' = [session EXCEPT ![v] =
                      {[id |-> x.id, apps |-> x.apps, left |-> TTL]}]
  BY DEF LoginIssues
<1>2. /\ reading' = [reading EXCEPT ![v] = {}]
      /\ shown' = [shown EXCEPT ![v] = {}]
      /\ UNCHANGED <<tokens, used, call, since>>
  BY DEF LoginIssues
<1>3. x \in Row
  BY DEF IInv, TypeOK
<1>4. [id |-> x.id, apps |-> x.apps, left |-> TTL] \in JWT
  BY <1>3, TTLOK DEF Row, JWT, TTLOK
<1>5. TypeOK'
  BY <1>1, <1>2, <1>4 DEF IInv, TypeOK, call
<1>6. JWTsAge'
  <2> SUFFICES ASSUME NEW w \in Visitors, NEW s \in session'[w], s.left > 0,
                      NEW a \in s.apps
               PROVE  Age(s.id, a) + s.left <= TTL
    BY <1>2 DEF JWTsAge, Age
  <2>1. CASE w = v
    <3>1. s = [id |-> x.id, apps |-> x.apps, left |-> TTL]
      BY <1>1, <2>1 DEF IInv, TypeOK
    <3>2. Age(x.id, a) = 0
      BY <3>1 DEF IInv, Recent, LoginsReadNow
    <3> QED
      BY <3>1, <3>2, TTLOK DEF TTLOK
  <2>2. CASE w # v
    BY <1>1, <2>2 DEF IInv, TypeOK, Recent, JWTsAge
  <2> QED
    BY <2>1, <2>2
<1>7. RowsHoldNow' /\ LoginsReadNow'
  BY <1>2 DEF IInv, TypeOK, Recent, RowsHoldNow, LoginsReadNow, Age
<1>8. ListedByJWT' /\ OneRead'
  BY <1>1, <1>2 DEF IInv, TypeOK, Recent, ListedByJWT, OneRead, call
<1> QED
  BY <1>5, <1>6, <1>7, <1>8 DEF IInv, Recent

LEMMA ListAppsInv ==
  ASSUME IInv, NEW v \in Visitors, NEW listed \in SUBSET Apps,
         ListApps(v, listed)
  PROVE  IInv'
<1>1. PICK s \in session[v] :
        s.left > 0 /\ shown' = [shown EXCEPT ![v] = Filter(listed, s.apps)]
  BY DEF ListApps
<1>2. UNCHANGED <<tokens, used, call, reading, session, since>>
  BY DEF ListApps
<1>3. s.apps \in AppSets
  BY DEF IInv, TypeOK, JWT
<1>4. Filter(listed, s.apps) \subseteq s.apps
  BY <1>3 DEF Filter, AppSets
<1>5. TypeOK'
  BY <1>1, <1>2, <1>3, <1>4 DEF IInv, TypeOK, call, AppSets
<1>6. ListedByJWT'
  BY <1>1, <1>2, <1>4 DEF IInv, TypeOK, Recent, ListedByJWT, OneRead
<1>7. RowsHoldNow' /\ LoginsReadNow' /\ JWTsAge' /\ OneRead'
  BY <1>2 DEF IInv, Recent, RowsHoldNow, LoginsReadNow, JWTsAge, OneRead, Age,
     call
<1> QED
  BY <1>5, <1>6, <1>7 DEF IInv, Recent

LEMMA TickInv ==
  ASSUME IInv, Tick
  PROVE  IInv'
<1>1. \A n \in 0 .. TTL : Less(n) \in 0 .. TTL
  BY TTLOK DEF Less, TTLOK
<1>2. since' \in [Ids \X Apps -> 0 .. TTL]
      /\ \A p \in Ids \X Apps : since'[p] <= since[p] + 1
  BY TTLOK DEF Tick, IInv, TypeOK, TTLOK
<1>3. ASSUME NEW v \in Visitors, NEW t \in session'[v]
      PROVE  \E s \in session[v] :
               s \in JWT /\ t = [id |-> s.id, apps |-> s.apps,
                                 left |-> Less(s.left)]
  <2>1. PICK s \in session[v] : t = [s EXCEPT !.left = Less(@)]
    BY DEF Tick
  <2>2. s \in JWT
    BY DEF IInv, TypeOK
  <2> QED
    BY <2>1, <2>2 DEF JWT
<1>4. session' \in [Visitors -> SUBSET JWT]
  <2>1. ASSUME NEW v \in Visitors, NEW t \in session'[v] PROVE t \in JWT
    BY <1>1, <1>3 DEF JWT
  <2> QED
    BY <2>1 DEF Tick
<1>5. TypeOK'
  BY <1>2, <1>4 DEF Tick, IInv, TypeOK, call
<1>6. RowsHoldNow'
  <2> SUFFICES ASSUME NEW x \in tokens, NEW a \in x.apps
               PROVE  Age(x.id, a)' = 0
    BY DEF Tick, RowsHoldNow
  <2>1. <<x.id, a>> \in Ids \X Apps
    BY DEF IInv, TypeOK, Row, AppSets
  <2>2. Holds(tokens, x.id, a)
    BY DEF Holds
  <2> QED
    BY <2>1, <2>2 DEF Tick, Age
<1>7. JWTsAge'
  <2> SUFFICES ASSUME NEW v \in Visitors, NEW t \in session'[v], t.left > 0,
                      NEW a \in t.apps
               PROVE  Age(t.id, a)' + t.left <= TTL
    BY DEF JWTsAge
  <2>1. PICK s \in session[v] : s \in JWT /\ t = [id |-> s.id,
                                  apps |-> s.apps, left |-> Less(s.left)]
    BY <1>3
  <2>2. s.left \in 0 .. TTL /\ s.left > 0 /\ t.left = s.left - 1
    BY <2>1, TTLOK DEF JWT, Less, TTLOK
  <2>3. Age(s.id, a) + s.left <= TTL
    BY <2>1, <2>2 DEF IInv, Recent, JWTsAge
  <2>4. <<s.id, a>> \in Ids \X Apps
    BY <2>1 DEF JWT, AppSets
  <2>5. Age(s.id, a)' \in Nat /\ Age(s.id, a) \in Nat
        /\ Age(s.id, a)' <= Age(s.id, a) + 1
    BY <1>2, <2>4 DEF Age, IInv, TypeOK
  <2> QED
    BY <2>1, <2>2, <2>3, <2>5, TTLOK DEF TTLOK, Age
<1>8. LoginsReadNow' /\ ListedByJWT'
  BY DEF Tick, LoginsReadNow, ListedByJWT
<1>9. OneRead'
  <2>1. ASSUME NEW v \in Visitors, NEW t \in session'[v], NEW u \in session'[v]
        PROVE  t = u
    BY DEF Tick, IInv, Recent, OneRead
  <2>2. UNCHANGED seen
    BY DEF Tick, call
  <2> QED
    BY <2>1, <2>2 DEF IInv, Recent, OneRead
<1> QED
  BY <1>5, <1>6, <1>7, <1>8, <1>9 DEF IInv, Recent

LEMMA NextInv == IInv /\ [Next]_vars => IInv'
<1> SUFFICES ASSUME IInv, [Next]_vars PROVE IInv'
  OBVIOUS
<1>1. CASE UNCHANGED vars
  BY <1>1 DEF vars, IInv, TypeOK, Recent, RowsHoldNow, LoginsReadNow, JWTsAge,
     ListedByJWT, OneRead, Age
<1>2. ASSUME NEW i \in Ids, NEW A \in AppSets, Create(i, A) PROVE IInv'
  BY <1>2, CreateInv
<1>3. ASSUME NEW c \in Calls, NEW i \in Ids, Delete(c, i) PROVE IInv'
  BY <1>3, BeginInv DEF Delete
<1>4. ASSUME NEW c \in Calls, NEW i \in Ids, NEW A \in SUBSET Apps,
             Update(c, i, A)
      PROVE  IInv'
  BY <1>4, BeginInv DEF Update
<1>5. ASSUME NEW c \in Calls, NotFound(c) \/ UpdateAnswers(c) \/ Breaks(c)
      PROVE  IInv'
  BY <1>5, AnsweredInv DEF NotFound, UpdateAnswers, Breaks
<1>6. ASSUME NEW c \in Calls, Found(c) PROVE IInv'
  BY <1>6, FoundInv
<1>7. ASSUME NEW c \in Calls, UpdateWrites(c) PROVE IInv'
  BY <1>7, UpdateWritesInv
<1>8. ASSUME NEW c \in Calls, DeleteWrites(c) PROVE IInv'
  BY <1>8, DeleteWritesInv
<1>9. ASSUME NEW v \in Visitors, NEW i \in Ids, LoginReads(v, i) PROVE IInv'
  BY <1>9, LoginReadsInv
<1>10. ASSUME NEW v \in Visitors, LoginIssues(v) PROVE IInv'
  BY <1>10, LoginIssuesInv
<1>11. ASSUME NEW v \in Visitors, NEW listed \in SUBSET Apps,
              ListApps(v, listed)
       PROVE  IInv'
  BY <1>11, ListAppsInv
<1>12. CASE Tick
  BY <1>12, TickInv
<1> QED
  BY <1>1, <1>2, <1>3, <1>4, <1>5, <1>6, <1>7, <1>8, <1>9, <1>10, <1>11, <1>12
     DEF Next

LEMMA InvImpliesRecent == IInv => ListedIsRecent
<1> SUFFICES ASSUME IInv, NEW v \in Visitors, NEW s \in session[v],
                    NEW a \in shown[v]
             PROVE  since[<<s.id, a>>] < TTL
  BY DEF ListedIsRecent
<1>1. s.left > 0 /\ a \in s.apps
  BY DEF IInv, Recent, ListedByJWT
<1>2. Age(s.id, a) + s.left <= TTL
  BY <1>1 DEF IInv, Recent, JWTsAge
<1>3. s \in JWT /\ <<s.id, a>> \in Ids \X Apps
  BY <1>1 DEF IInv, TypeOK, JWT, AppSets
<1>4. s.left \in Nat /\ Age(s.id, a) \in Nat
  BY <1>3 DEF IInv, TypeOK, JWT, Age
<1> QED
  BY <1>1, <1>2, <1>4, TTLOK DEF Age, TTLOK
-----------------------------------------------------------------------------
(* No row and no JWT ever has an empty list, and an id has one row         *)
(* (TokenService.Create and Update, LoginWithToken).                       *)
THEOREM TypeCorrect == Spec => []TypeOK
<1>1. IInv => TypeOK
  BY DEF IInv
<1> QED
  BY InitInv, NextInv, <1>1, PTL DEF Spec

(* What GetApps lists to a token user, its token allowed less than TTL     *)
(* ago, for any number of calls and visitors and any TTL.                  *)
THEOREM ListedAlwaysRecent == Spec => []ListedIsRecent
BY InitInv, NextInv, InvImpliesRecent, PTL DEF Spec
=============================================================================
