---------------------------- MODULE GitPullProofs ----------------------------
(***************************************************************************)
(* Theorems about GitPull, for any pulls, branches and commits.            *)
(***************************************************************************)
EXTENDS GitPull, TLAPS

(* The steps of one pull.                                                  *)
PullStep(p) ==
  \/ \E b \in Offered : Start(p, b)
  \/ StartUnnamed(p) \/ NameBranch(p)
  \/ Checkout(p) \/ CheckoutFails(p)
  \/ Fetch(p)
  \/ Rebase(p) \/ RebaseConflicts(p) \/ RebaseFails(p)
  \/ Merge(p) \/ MergeConflicts(p) \/ MergeFails(p)
  \/ ReadNew(p) \/ Result(p)
  \/ Leaves(p)

(* What a pull that nobody has disturbed relies on: the branch it names is *)
(* checked out, or HEAD is detached and no command that needs a branch     *)
(* will work; and after a pull that worked the branch, a local one, has    *)
(* what was due.                                                           *)
OnBranch(p) ==
  /\ pc[p] = "checkout" /\ branch[p] = "HEAD" => head = "detached"
  /\ pc[p] \in {"fetch", "rebase"} =>
       head = branch[p] \/ (branch[p] \notin Branches /\ head = "detached")
  /\ pc[p] = "merge" => head \in {branch[p], "detached"}
  /\ pc[p] = "new" => /\ head = branch[p] /\ head \in Branches
                      /\ base[head] >= due[p][head]

Pulled(p) ==
  pc[p] = "result" =>
    /\ branch[p] \in Branches
    /\ base[branch[p]] >= due[p][branch[p]]
    /\ \A c \in newCommit[p] :
         c.branch = branch[p] /\ c.base >= due[p][branch[p]]

DueIsPast == \A p \in Pulls : \A b \in Branches : due[p][b] <= upstream[b]
Undisturbed == \A p \in Pulls \ moved : OnBranch(p) /\ Pulled(p)

Inv == TypeOK /\ DueIsPast /\ Undisturbed
-----------------------------------------------------------------------------
LEMMA ZeroIsBounded == [b \in Branches |-> 0] \in [Branches -> 0 .. MaxUp]
  BY PullConstantsOK

(* What one step of a pull, or of anybody else, does to the types.         *)
LEMMA PullTypes ==
  ASSUME TypeOK, NEW p \in Pulls, PullStep(p)
  PROVE  TypeOK'
<1> USE PullConstantsOK
<1>1. ASSUME NEW b \in Offered, Start(p, b) PROVE TypeOK'
  BY <1>1 DEF TypeOK, Start, Moves, Asked, repo, Offered
<1>2. CASE StartUnnamed(p)
  BY <1>2 DEF TypeOK, StartUnnamed, Moves, Asked, repo
<1>3. CASE NameBranch(p)
  BY <1>3 DEF TypeOK, NameBranch, Moves, repo, Offered
<1>4. CASE Checkout(p)
  <2>1. /\ branch[p] \in Branches \cup {"remote", "HEAD"} /\ ~Unmerged
        /\ head' = CheckedOutAt(branch[p]) /\ moved' \subseteq Pulls
        /\ own' = IF branch[p] = "HEAD" THEN own ELSE own \ {"detached"}
        /\ UNCHANGED <<upstream, base, edits, stopped, branch, newCommit, due>>
    BY <1>4 DEF TypeOK, Checkout, Offered, NoteMoved, CheckedOut
  <2>2. /\ head' \in Branches \cup {"detached"}
        /\ own' \subseteq Branches \cup {"detached"}
        /\ "detached" \in own' => head' = "detached"
    BY <2>1 DEF TypeOK, CheckedOutAt
  <2>3. pc' \in [Pulls -> {"idle", "name", "checkout", "fetch", "rebase", "merge",
                         "new", "result"}]
    BY <1>4 DEF TypeOK, Checkout, Moves
  <2>4. QED
    BY <2>1, <2>2, <2>3 DEF TypeOK, Unmerged
<1>5. ASSUME Ends(p), UNCHANGED <<repo, moved>> PROVE TypeOK'
  BY <1>5, ZeroIsBounded DEF TypeOK, Ends, repo
<1>6. CASE Fetch(p) \/ RebaseFails(p)
  BY <1>6 DEF TypeOK, Fetch, RebaseFails, Moves, repo
<1>7. CASE Rebase(p)
  BY <1>7 DEF TypeOK, Rebase, Moves, CaughtUp, Behind
<1>8. CASE RebaseConflicts(p)
  BY <1>8 DEF TypeOK, RebaseConflicts, Moves, NoteMoved, CheckedOut, Behind
<1>9. CASE Merge(p)
  BY <1>9 DEF TypeOK, Merge, Moves, CaughtUp, Unmerged
<1>10. CASE MergeConflicts(p)
  BY <1>10, ZeroIsBounded DEF TypeOK, MergeConflicts, Ends, Unmerged, Behind
<1>11. CASE ReadNew(p)
  BY <1>11 DEF TypeOK, ReadNew, Moves, HeadCommit, repo
<1>12. ASSUME Ends(p), stopped' = "killed", head' = "detached", NoteMoved({p}),
             edits' = IF edits = "tree" THEN "stash" ELSE edits,
             UNCHANGED <<upstream, base, own>>
      PROVE  TypeOK'
  BY <1>12, ZeroIsBounded DEF TypeOK, Ends, NoteMoved, CheckedOut
<1>13. QED
  BY <1>1, <1>2, <1>3, <1>4, <1>5, <1>6, <1>7, <1>8, <1>9, <1>10, <1>11,
     <1>12 DEF PullStep, CheckoutFails, MergeFails, Result, Leaves

LEMMA OtherTypes ==
  ASSUME TypeOK,
         (\E b \in Branches : Push(b) \/ Abort(b)) \/ Edit \/ CommitEdits
  PROVE  TypeOK'
<1> USE PullConstantsOK
<1>1. ASSUME NEW b \in Branches, Push(b) PROVE TypeOK'
  BY <1>1 DEF TypeOK, Push, pulls
<1>2. ASSUME NEW b \in Branches, Abort(b) PROVE TypeOK'
  BY <1>2 DEF TypeOK, Abort, pulls, NoteMoved, CheckedOut
<1>3. CASE Edit \/ CommitEdits
  BY <1>3 DEF TypeOK, Edit, CommitEdits, pulls
<1>4. QED
  BY <1>1, <1>2, <1>3

LEMMA TypeStep == TypeOK /\ [Next]_vars => TypeOK'
<1>1. CASE Next
  BY <1>1, PullTypes, OtherTypes DEF Next, PullStep
<1>2. CASE UNCHANGED vars
  BY <1>2 DEF TypeOK, vars
<1>3. QED
  BY <1>1, <1>2

LEMMA TypeInit == Init => TypeOK
  BY PullConstantsOK DEF Init, TypeOK

(* TypeOK is an invariant: while a conflict is open nothing moves HEAD,    *)
(* though any number of pulls try, of local and remote-tracking branches;  *)
(* and no branch is ahead of its upstream but by commits of its own.       *)
THEOREM TypeCorrect == Spec => []TypeOK
  BY TypeInit, TypeStep, PTL DEF Spec
-----------------------------------------------------------------------------
(* What a step leaves to the pulls that do not take it: their own state,   *)
(* their branch with at least the commits it had, and HEAD, unless they    *)
(* are noted as disturbed or do not count on it yet.                       *)
LeftAlone(q) ==
  /\ q \notin moved
  /\ pc'[q] = pc[q] /\ branch'[q] = branch[q]
  /\ newCommit'[q] = newCommit[q] /\ due'[q] = due[q]
  /\ head' = head \/ q \notin CheckedOut
  /\ \A b \in Branches : base'[b] >= base[b]

LEMMA Bystander ==
  ASSUME TypeOK, TypeOK', Undisturbed, NEW q \in Pulls, LeftAlone(q)
  PROVE  OnBranch(q)' /\ Pulled(q)'
<1> USE PullConstantsOK DEF LeftAlone
<1>1. OnBranch(q) /\ Pulled(q)
  BY DEF Undisturbed
<1>2. Pulled(q)'
  <2>1. ASSUME pc[q] = "result"
        PROVE  /\ branch[q] \in Branches
               /\ base'[branch[q]] >= due[q][branch[q]]
    <3>1. branch[q] \in Branches /\ base[branch[q]] >= due[q][branch[q]]
      BY <1>1, <2>1 DEF Pulled
    <3>2. /\ base[branch[q]] \in Nat /\ base'[branch[q]] \in Nat
          /\ due[q][branch[q]] \in Nat
      BY <3>1 DEF TypeOK
    <3>3. QED
      BY <3>1, <3>2
  <2>2. QED
    BY <1>1, <2>1 DEF Pulled
<1>3. ASSUME q \notin CheckedOut PROVE OnBranch(q)'
  BY <1>1, <1>3 DEF OnBranch, CheckedOut
<1>4. ASSUME head' = head PROVE OnBranch(q)'
  BY <1>1, <1>4 DEF OnBranch, TypeOK
<1>5. QED
  BY <1>2, <1>3, <1>4

LEMMA OthersLeftAlone ==
  ASSUME TypeOK, NEW p \in Pulls, PullStep(p),
         NEW q \in Pulls, q # p, q \notin moved'
  PROVE  LeftAlone(q)
<1> USE PullConstantsOK DEF TypeOK, LeftAlone
<1>1. ASSUME NEW b \in Offered, Start(p, b) PROVE LeftAlone(q)
  BY <1>1 DEF Start, Moves, Asked, repo
<1>2. CASE StartUnnamed(p)
  BY <1>2 DEF StartUnnamed, Moves, Asked, repo
<1>3. CASE NameBranch(p)
  BY <1>3 DEF NameBranch, Moves, repo
<1>4. CASE Checkout(p)
  BY <1>4 DEF Checkout, Moves, NoteMoved
<1>5. ASSUME Ends(p), UNCHANGED <<repo, moved>> PROVE LeftAlone(q)
  BY <1>5 DEF Ends, repo
<1>6. CASE Fetch(p) \/ RebaseFails(p)
  BY <1>6 DEF Fetch, RebaseFails, Moves, repo
<1>7. CASE Rebase(p)
  BY <1>7 DEF Rebase, Moves, CaughtUp
<1>8. CASE RebaseConflicts(p)
  BY <1>8 DEF RebaseConflicts, Moves, NoteMoved
<1>9. CASE Merge(p)
  BY <1>9 DEF Merge, Moves, CaughtUp
<1>10. CASE MergeConflicts(p)
  BY <1>10 DEF MergeConflicts, Ends
<1>11. CASE ReadNew(p)
  BY <1>11 DEF ReadNew, Moves, repo
<1>12. ASSUME Ends(p), NoteMoved({p}), UNCHANGED base PROVE LeftAlone(q)
  BY <1>12 DEF Ends, NoteMoved
<1>13. QED
  BY <1>1, <1>2, <1>3, <1>4, <1>5, <1>6, <1>7, <1>8, <1>9, <1>10, <1>11,
     <1>12 DEF PullStep, CheckoutFails, MergeFails, Result, Leaves

(* The pull that steps: each command leaves what the next one relies on.   *)
LEMMA PullerOnBranch ==
  ASSUME TypeOK, TypeOK', DueIsPast, Undisturbed,
         NEW p \in Pulls, PullStep(p), p \notin moved'
  PROVE  OnBranch(p)' /\ Pulled(p)'
<1> USE PullConstantsOK DEF TypeOK, OnBranch, Pulled
<1>0. ASSUME p \notin moved PROVE OnBranch(p)
  BY <1>0 DEF Undisturbed
<1>1. ASSUME NEW b \in Offered, Start(p, b) PROVE OnBranch(p)' /\ Pulled(p)'
  BY <1>1 DEF Start, Moves, repo, Offered
<1>2. CASE StartUnnamed(p)
  BY <1>2 DEF StartUnnamed, Moves, repo
<1>3. CASE NameBranch(p)
  BY <1>3 DEF NameBranch, Moves, repo
<1>4. CASE Checkout(p)
  BY <1>0, <1>4 DEF Checkout, Moves, NoteMoved, CheckedOutAt
<1>5. ASSUME Ends(p) PROVE OnBranch(p)' /\ Pulled(p)'
  BY <1>5 DEF Ends
<1>6. CASE Fetch(p) \/ RebaseFails(p)
  BY <1>0, <1>6 DEF Fetch, RebaseFails, Moves, repo
<1>7. CASE Rebase(p)
  BY <1>0, <1>7 DEF Rebase, Moves, CaughtUp, DueIsPast
<1>8. CASE RebaseConflicts(p)
  BY <1>8 DEF RebaseConflicts, Moves
<1>9. CASE Merge(p)
  BY <1>0, <1>9 DEF Merge, Moves, CaughtUp, DueIsPast
<1>11. CASE ReadNew(p)
  BY <1>0, <1>11 DEF ReadNew, Moves, HeadCommit, repo
<1>13. QED
  BY <1>1, <1>2, <1>3, <1>4, <1>5, <1>6, <1>7, <1>8, <1>9, <1>11
     DEF PullStep, CheckoutFails, MergeFails, MergeConflicts, Result, Leaves

LEMMA DueStep ==
  ASSUME TypeOK, TypeOK', DueIsPast, [Next]_vars
  PROVE  DueIsPast'
<1> USE PullConstantsOK DEF TypeOK, DueIsPast
<1>1. ASSUME UNCHANGED <<upstream, due>> PROVE DueIsPast'
  BY <1>1
<1>2. ASSUME NEW b \in Branches, Push(b) PROVE DueIsPast'
  BY <1>2 DEF Push, pulls
<1>3. ASSUME NEW p \in Pulls, Asked(p), UNCHANGED upstream PROVE DueIsPast'
  BY <1>3 DEF Asked
<1>4. ASSUME NEW p \in Pulls, Ends(p), UNCHANGED upstream PROVE DueIsPast'
  BY <1>4 DEF Ends
<1>5. QED
  BY <1>1, <1>2, <1>3, <1>4
     DEF Next, vars, repo, pulls, Abort, Edit, CommitEdits, Start, StartUnnamed,
         NameBranch, Checkout, CheckoutFails, Fetch, Rebase, RebaseConflicts,
         RebaseFails, Merge, MergeConflicts, MergeFails, ReadNew, Result, Leaves

LEMMA UndisturbedStep ==
  ASSUME TypeOK, TypeOK', DueIsPast, Undisturbed, [Next]_vars
  PROVE  Undisturbed'
<1> SUFFICES ASSUME NEW q \in Pulls, q \notin moved'
             PROVE  OnBranch(q)' /\ Pulled(q)'
  BY DEF Undisturbed
<1>1. ASSUME NEW p \in Pulls, PullStep(p) PROVE OnBranch(q)' /\ Pulled(q)'
  BY <1>1, Bystander, OthersLeftAlone, PullerOnBranch
<1>2. ASSUME NEW b \in Branches, Push(b) \/ Abort(b) PROVE LeftAlone(q)
  BY <1>2 DEF TypeOK, LeftAlone, Push, Abort, pulls, NoteMoved
<1>3. ASSUME Edit \/ CommitEdits \/ UNCHANGED vars PROVE LeftAlone(q)
  BY <1>3 DEF TypeOK, LeftAlone, Edit, CommitEdits, pulls, vars
<1>4. QED
  BY <1>1, <1>2, <1>3, Bystander DEF Next, PullStep

LEMMA InvInit == Init => Inv
  BY PullConstantsOK, TypeInit
     DEF Init, Inv, TypeOK, DueIsPast, Undisturbed, OnBranch, Pulled

(* A result names a branch that has been pulled, whatever other pulls,     *)
(* kills, conflicts and repairs did, unless somebody moved HEAD under it.  *)
THEOREM ResultsArePulled == Spec => []ResultIsPulled
<1>1. Inv /\ [Next]_vars => Inv'
  BY TypeStep, DueStep, UndisturbedStep DEF Inv
<1>2. Inv => ResultIsPulled
  BY DEF Inv, Undisturbed, Pulled, ResultIsPulled
<1>3. QED
  BY InvInit, <1>1, <1>2, PTL DEF Spec

(* No command of a pull loses uncommitted edits, or commits of a branch.   *)
THEOREM WorkAlwaysKept == Spec => WorkKept
<1> DEFINE Kept == own \ {"detached"} \subseteq own' /\ (edits # "none" => edits' # "none")
<1>1. ASSUME NEW p \in Pulls, PullStep(p) PROVE Kept
  BY <1>1 DEF PullStep, repo, Start, StartUnnamed, NameBranch, Checkout,
     CheckoutFails, Fetch, Rebase, RebaseConflicts, RebaseFails, Merge,
     MergeConflicts, MergeFails, ReadNew, Result, Leaves
<1>2. [Next]_vars => [pc' # pc => Kept]_vars
  BY <1>1 DEF Next, PullStep, Push, Abort, Edit, CommitEdits, pulls
<1>3. QED
  BY <1>2, PTL DEF Spec, WorkKept
=============================================================================
