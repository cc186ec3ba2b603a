----------------------------- MODULE TokenAccess -----------------------------
(***************************************************************************)
(* Access tokens.  Administrators create, edit and delete rows of the      *)
(* table `tokens`; who knows the code of a row logs in and gets a JWT that *)
(* carries a copy of the row's allowed_apps for TTL, and lists the apps    *)
(* under that copy.  An edit reads the row and writes it back later        *)
(* (TokenService.Update); nothing locks the row meanwhile, and nothing     *)
(* tells a JWT that its row has changed.                                   *)
(*                                                                         *)
(* Time passes in ticks, and a request takes none.  The statements on      *)
(* MySQL are atomic; code and id of a row stand for each other, and labels *)
(* are left out: they are edited like the lists.                           *)
(***************************************************************************)
EXTENDS Naturals

CONSTANTS
  Calls,      \* the handler goroutines of PUT and DELETE /api/tokens/:id
  Visitors,   \* clients of POST /api/auth/login and GET /api/apps
  Ids,        \* values of tokens.id, each used once
  Apps,       \* app names
  TTL         \* the life of a token user's JWT, in ticks

ASSUME TTLOK == TTL \in Nat \ {0}

VARIABLES
  tokens,     \* the rows
  used,       \* the ids AUTO_INCREMENT has given
  stage,      \* where each call is
  target,     \* the :id of each call
  body,       \* its allowedApps, {} if it gives none
  seen,       \* the row its FindByID returned
  reading,    \* the row each login's FindByCode returned
  session,    \* the JWT of each visitor
  shown,      \* what it was listed last, in this tick
  since       \* history: ticks since the row of an id held an app

call    == <<stage, target, body, seen>>
visitor == <<reading, session, shown>>
vars    == <<tokens, used, stage, target, body, seen, reading, session, shown,
             since>>

AppSets == (SUBSET Apps) \ {{}}
Row     == [id : Ids, apps : AppSets]
JWT     == [id : Ids, apps : AppSets, left : 0 .. TTL]

RowsOf(i) == {x \in tokens : x.id = i}

Init ==
  /\ tokens = {} /\ used = {}
  /\ stage = [c \in Calls |-> "idle"]
  /\ target \in [Calls -> Ids]
  /\ body = [c \in Calls |-> {}]
  /\ seen = [c \in Calls |-> {}]
  /\ reading = [v \in Visitors |-> {}]
  /\ session = [v \in Visitors |-> {}]
  /\ shown = [v \in Visitors |-> {}]
  /\ since = [p \in Ids \X Apps |-> TTL]

Holds(R, i, a) == \E x \in R : x.id = i /\ a \in x.apps

NoteHeld ==
  since' = [p \in Ids \X Apps |->
              IF Holds(tokens', p[1], p[2]) THEN 0 ELSE since[p]]
-----------------------------------------------------------------------------
(* The administrators.                                                     *)

(* Store refuses an empty list before it comes here.                       *)
Create(i, A) ==
  /\ i \notin used
  /\ tokens' = tokens \cup {[id |-> i, apps |-> A]}
  /\ used' = used \cup {i}
  /\ NoteHeld
  /\ UNCHANGED <<call, visitor>>

Moves(c, from, to) ==
  /\ stage[c] = from
  /\ stage' = [stage EXCEPT ![c] = to]

Begin(c, i, first, A) ==
  /\ Moves(c, "idle", first)
  /\ target' = [target EXCEPT ![c] = i]
  /\ body' = [body EXCEPT ![c] = A]
  /\ UNCHANGED <<tokens, used, seen, visitor, since>>

Update(c, i, A) == Begin(c, i, "find", A)
Delete(c, i)    == Begin(c, i, "check", {})

Answered(c) ==
  /\ stage' = [stage EXCEPT ![c] = "idle"]
  /\ body' = [body EXCEPT ![c] = {}]
  /\ seen' = [seen EXCEPT ![c] = {}]
  /\ UNCHANGED <<target, visitor>>

(* FindByID returns no row, or any error: 404 whatever it was.             *)
NotFound(c) ==
  /\ stage[c] \in {"find", "check"} /\ RowsOf(target[c]) = {}
  /\ Answered(c)
  /\ UNCHANGED <<tokens, used, since>>

Found(c) ==
  /\ \/ Moves(c, "find", "write") \/ Moves(c, "check", "remove")
  /\ RowsOf(target[c]) # {}
  /\ seen' = [seen EXCEPT ![c] = RowsOf(target[c])]
  /\ UNCHANGED <<tokens, used, target, body, visitor, since>>

(* The row an edit with list A writes over x, having read y.               *)
Edited(x, y, A) ==
  [id |-> x.id, apps |-> IF A = {} THEN y.apps ELSE A]

(* Mutant: an empty allowedApps in the body is written as it is.           *)
UpdateWritesEmpty(c) ==
  /\ Moves(c, "write", "answer")
  /\ tokens' = (tokens \ RowsOf(target[c])) \cup
       {[id |-> x.id, apps |-> body[c]] : x \in RowsOf(target[c])}
  /\ NoteHeld
  /\ UNCHANGED <<used, target, body, seen, visitor>>

(* UPDATE tokens ... WHERE id: what is not given is what the call has      *)
(* read, and the row may be gone.                                          *)
UpdateWrites(c) ==
  /\ Moves(c, "write", "answer")
  /\ tokens' = (tokens \ RowsOf(target[c])) \cup
       {Edited(x, y, body[c]) : x \in RowsOf(target[c]), y \in seen[c]}
  /\ NoteHeld
  /\ UNCHANGED <<used, target, body, seen, visitor>>

(* The second FindByID: the answer is the row, or 500 when it has gone.    *)
UpdateAnswers(c) ==
  /\ stage[c] = "answer"
  /\ Answered(c)
  /\ UNCHANGED <<tokens, used, since>>

DeleteWrites(c) ==
  /\ stage[c] = "remove"
  /\ tokens' = tokens \ RowsOf(target[c])
  /\ NoteHeld
  /\ Answered(c)
  /\ UNCHANGED used

(* A statement fails, or the client leaves.                                *)
Breaks(c) ==
  /\ stage[c] # "idle"
  /\ Answered(c)
  /\ UNCHANGED <<tokens, used, since>>
-----------------------------------------------------------------------------
(* The token users.                                                        *)

LoginReads(v, i) ==
  /\ RowsOf(i) # {} /\ reading[v] = {}
  /\ reading' = [reading EXCEPT ![v] = RowsOf(i)]
  /\ UNCHANGED <<tokens, used, call, session, shown, since>>

LoginIssues(v) ==
  \E x \in reading[v] :
    /\ session' = [session EXCEPT ![v] =
                     {[id |-> x.id, apps |-> x.apps, left |-> TTL]}]
    /\ reading' = [reading EXCEPT ![v] = {}]
    /\ shown' = [shown EXCEPT ![v] = {}]
    /\ UNCHANGED <<tokens, used, call, since>>

(* A list that is empty filters nothing.                                   *)
Filter(listed, A) == IF A = {} THEN listed ELSE listed \cap A

(* Mutant: Verify accepts an expired JWT.                                  *)
ListAppsExpired(v, listed) ==
  \E s \in session[v] :
    /\ shown' = [shown EXCEPT ![v] = Filter(listed, s.apps)]
    /\ UNCHANGED <<tokens, used, call, reading, session, since>>

(* Authenticate, and GetApps with the claims of the JWT.                   *)
ListApps(v, listed) ==
  \E s \in session[v] :
    /\ s.left > 0
    /\ shown' = [shown EXCEPT ![v] = Filter(listed, s.apps)]
    /\ UNCHANGED <<tokens, used, call, reading, session, since>>

Less(n) == IF n = 0 THEN 0 ELSE n - 1

Tick ==
  /\ \A v \in Visitors : reading[v] = {}
  /\ session' = [v \in Visitors |->
                   {[s EXCEPT !.left = Less(@)] : s \in session[v]}]
  /\ shown' = [v \in Visitors |-> {}]
  /\ since' = [p \in Ids \X Apps |->
                 IF Holds(tokens, p[1], p[2]) THEN 0
                 ELSE IF since[p] < TTL THEN since[p] + 1 ELSE TTL]
  /\ UNCHANGED <<tokens, used, call, reading>>
-----------------------------------------------------------------------------
Next ==
  \/ \E i \in Ids, A \in AppSets : Create(i, A)
  \/ \E c \in Calls, i \in Ids :
       \/ Delete(c, i)
       \/ \E A \in SUBSET Apps : Update(c, i, A)
  \/ \E c \in Calls :
       \/ NotFound(c) \/ Found(c) \/ UpdateWrites(c) \/ UpdateAnswers(c)
       \/ DeleteWrites(c) \/ Breaks(c)
  \/ \E v \in Visitors :
       \/ \E i \in Ids : LoginReads(v, i)
       \/ LoginIssues(v)
       \/ \E listed \in SUBSET Apps : ListApps(v, listed)
  \/ Tick

Spec == Init /\ [][Next]_vars

(* Time passes, however often somebody logs in, and a call that has begun  *)
(* is served.                                                              *)
FairSpec ==
  /\ Spec /\ SF_vars(Tick)
  /\ \A v \in Visitors : WF_vars(LoginIssues(v))
  /\ \A c \in Calls : WF_vars(\/ NotFound(c) \/ Found(c) \/ UpdateWrites(c)
                              \/ UpdateAnswers(c) \/ DeleteWrites(c))
-----------------------------------------------------------------------------
(* The types; no row and no JWT has an empty list, which would be no       *)
(* filter at all, whatever edits left it out and in whatever order they    *)
(* read and wrote; an id has one row.                                      *)
TypeOK ==
  /\ tokens \subseteq Row /\ used \subseteq Ids
  /\ stage \in [Calls -> {"idle", "find", "write", "answer", "check", "remove"}]
  /\ target \in [Calls -> Ids] /\ body \in [Calls -> SUBSET Apps]
  /\ seen \in [Calls -> SUBSET Row]
  /\ reading \in [Visitors -> SUBSET Row]
  /\ session \in [Visitors -> SUBSET JWT]
  /\ shown \in [Visitors -> SUBSET Apps]
  /\ since \in [Ids \X Apps -> 0 .. TTL]
  /\ \A x, y \in tokens : x.id = y.id => x = y
  /\ \A x \in tokens : x.id \in used
  /\ \A c \in Calls : stage[c] \in {"write", "remove"} => seen[c] # {}

(* GET /api/apps is "filtered by allowed".  What a visitor is listed, its  *)
(* token allowed less than TTL ago: neither a login that read the row just *)
(* before it was cut nor an edit that left the list out stretches that.    *)
ListedIsRecent ==
  \A v \in Visitors : \A s \in session[v] : \A a \in shown[v] :
    since[<<s.id, a>>] < TTL

(* A deleted token is dead: whatever edits and logins were under way, from *)
(* some time on nobody is listed anything under it.                        *)
Unserved(i) ==
  \A v \in Visitors : \A s \in session[v] : s.id = i => shown[v] = {}

DeletedIsDead ==
  \A i \in Ids : i \in used /\ RowsOf(i) = {} ~> []Unserved(i)
=============================================================================
