------------------------------- MODULE GitPull -------------------------------
(***************************************************************************)
(* POST /api/git/pull.  A pull is a sequence of git commands in the app's  *)
(* working tree (GitService.Pull): name the branch, check it out, fetch,   *)
(* pull --rebase --autostash, on an error pull --no-rebase, read HEAD.     *)
(* Nothing keeps two pulls of an app, or a pull and somebody at a          *)
(* terminal, apart; each command is one step, and every command may fail   *)
(* without effect (no network, another git holds index.lock).              *)
(*                                                                         *)
(* git is external.  A branch is what it has of its upstream, and whether  *)
(* it has commits of its own; uncommitted edits are one thing, in the tree *)
(* or stashed.  Upstreams only grow.  A pull may name what Branches()      *)
(* offers: the local branches and the remote-tracking ones (origin/x).     *)
(***************************************************************************)
EXTENDS Naturals

CONSTANTS
  Pulls,       \* the handler goroutines
  Branches,    \* local branches, each with an upstream
  MaxUp        \* bound on the commits of an upstream

ASSUME PullConstantsOK ==
  /\ MaxUp \in Nat
  /\ {"HEAD", "detached", "remote"} \cap Branches = {}

VARIABLES
  upstream,   \* commits of each upstream
  base,       \* how many of them the local branch has
  own,        \* the branches with commits that are not upstream, and
              \* "detached" if HEAD is, and has commits no branch has
  head,       \* the branch that is checked out, or "detached"
  edits,      \* the uncommitted edits: "none", in the "tree", in the "stash"
  stopped,    \* "no"; a "rebase" or "merge" at a conflict; a rebase "killed"
  pc,         \* where each pull is
  branch,     \* res.Branch
  newCommit,  \* res.NewCommit, in a set, once it is read
  due,        \* history: the upstreams when the pull began
  moved       \* history: the pulls whose HEAD somebody else has moved

repo  == <<upstream, base, own, head, edits, stopped>>
vars  == <<upstream, base, own, head, edits, stopped, pc, branch, newCommit,
           due, moved>>

(* git branch -a: "remote" is any remote-tracking branch.                  *)
Offered == Branches \cup {"remote"}

Unmerged == stopped \in {"rebase", "merge"}

Init ==
  /\ upstream = [b \in Branches |-> 0] /\ base = upstream
  /\ own = {} /\ edits = "none" /\ stopped = "no"
  /\ head \in Branches
  /\ pc = [p \in Pulls |-> "idle"]
  /\ branch = [p \in Pulls |-> "HEAD"]
  /\ newCommit = [p \in Pulls |-> {}]
  /\ due = [p \in Pulls |-> upstream]
  /\ moved = {}

(* The pulls that count on HEAD: they have checked out their branch, or    *)
(* have found none to check out.                                           *)
CheckedOut ==
  {p \in Pulls : \/ pc[p] \in {"fetch", "rebase", "merge", "new"}
                 \/ pc[p] = "checkout" /\ branch[p] = "HEAD"}

(* What a step of "who" that changes HEAD means for the others.            *)
NoteMoved(who) ==
  moved' = IF head' = head THEN moved ELSE moved \cup (CheckedOut \ who)
-----------------------------------------------------------------------------
(* The developers, and the administrators at a terminal.                   *)

pulls == <<pc, branch, newCommit, due>>

Push(b) ==
  /\ upstream[b] < MaxUp
  /\ upstream' = [upstream EXCEPT ![b] = @ + 1]
  /\ UNCHANGED <<base, own, head, edits, stopped, pulls, moved>>

Edit ==
  /\ edits = "none" /\ ~Unmerged
  /\ edits' = "tree"
  /\ UNCHANGED <<upstream, base, own, head, stopped, pulls, moved>>

CommitEdits ==
  /\ edits = "tree" /\ ~Unmerged
  /\ edits' = "none" /\ own' = own \cup {head}
  /\ UNCHANGED <<upstream, base, head, stopped, pulls, moved>>

(* git rebase --abort, git merge --abort.                                  *)
Abort(b) ==
  /\ stopped # "no"
  /\ stopped' = "no"
  /\ head' = IF head = "detached" THEN b ELSE head
  /\ own' = own \ {"detached"}
  /\ edits' = IF edits = "stash" THEN "tree" ELSE edits
  /\ NoteMoved({})
  /\ UNCHANGED <<upstream, base, pulls>>
-----------------------------------------------------------------------------
(* The pull.                                                               *)

Moves(p, from, to) == pc[p] = from /\ pc' = [pc EXCEPT ![p] = to]

(* The end of a request: with an error, or with a result.                  *)
Ends(p) ==
  /\ pc' = [pc EXCEPT ![p] = "idle"]
  /\ branch' = [branch EXCEPT ![p] = "HEAD"]
  /\ newCommit' = [newCommit EXCEPT ![p] = {}]
  /\ due' = [due EXCEPT ![p] = [b \in Branches |-> 0]]

Asked(p) == due' = [due EXCEPT ![p] = upstream] /\ moved' = moved \ {p}

Start(p, b) ==
  /\ Moves(p, "idle", "checkout")
  /\ branch' = [branch EXCEPT ![p] = b]
  /\ Asked(p)
  /\ UNCHANGED <<repo, newCommit>>

StartUnnamed(p) ==
  /\ Moves(p, "idle", "name")
  /\ Asked(p)
  /\ UNCHANGED <<repo, branch, newCommit>>

(* rev-parse --abbrev-ref HEAD prints HEAD if no branch is checked out.    *)
NameBranch(p) ==
  /\ Moves(p, "name", "checkout")
  /\ branch' = [branch EXCEPT ![p] = IF head = "detached" THEN "HEAD" ELSE head]
  /\ UNCHANGED <<repo, newCommit, due, moved>>

(* What HEAD is after a checkout of b.  One of a remote-tracking branch    *)
(* succeeds, and detaches it.                                              *)
CheckedOutAt(b) ==
  CASE b = "HEAD" -> head [] b = "remote" -> "detached" [] OTHER -> b

(* Mutant: checkout --force, which minds no conflict.                      *)
CheckoutForced(p) ==
  /\ Moves(p, "checkout", "fetch")
  /\ head' = CheckedOutAt(branch[p])
  /\ own' = IF branch[p] = "HEAD" THEN own ELSE own \ {"detached"}
  /\ edits' = IF edits = "tree" THEN "none" ELSE edits
  /\ stopped' = IF stopped = "merge" THEN "no" ELSE stopped
  /\ NoteMoved({p})
  /\ UNCHANGED <<upstream, base, branch, newCommit, due>>

(* Commits that only a detached HEAD has are left behind.                  *)
Checkout(p) ==
  /\ Moves(p, "checkout", "fetch")
  /\ ~Unmerged
  /\ head' = CheckedOutAt(branch[p])
  /\ own' = IF branch[p] = "HEAD" THEN own ELSE own \ {"detached"}
  /\ NoteMoved({p})
  /\ UNCHANGED <<upstream, base, edits, stopped, branch, newCommit, due>>

(* Mutant: the error is ignored like those of the other commands.          *)
CheckoutFailsUnseen(p) ==
  /\ Moves(p, "checkout", "fetch")
  /\ UNCHANGED <<repo, branch, newCommit, due, moved>>

CheckoutFails(p) ==
  /\ pc[p] = "checkout"
  /\ Ends(p)
  /\ UNCHANGED <<repo, moved>>

(* The remote-tracking branches are not modelled: pull fetches again.      *)
Fetch(p) ==
  /\ Moves(p, "fetch", "rebase")
  /\ UNCHANGED <<repo, branch, newCommit, due, moved>>

Behind == head # "detached" /\ base[head] < upstream[head]

CaughtUp == base' = [base EXCEPT ![head] = upstream[head]]

(* Edits that do not fit the new commits stay stashed; the exit status is  *)
(* 0 all the same.                                                         *)
Rebase(p) ==
  /\ Moves(p, "rebase", "new")
  /\ stopped = "no" /\ head # "detached"
  /\ CaughtUp
  /\ \/ UNCHANGED edits
     \/ Behind /\ edits = "tree" /\ edits' = "stash"
  /\ UNCHANGED <<upstream, own, head, stopped, branch, newCommit, due, moved>>

(* An own commit conflicts with an upstream one: HEAD is left detached in  *)
(* the middle, and the edits in the autostash.                             *)
RebaseConflicts(p) ==
  /\ Moves(p, "rebase", "merge")
  /\ stopped = "no" /\ Behind /\ head \in own
  /\ stopped' = "rebase" /\ head' = "detached"
  /\ edits' = IF edits = "tree" THEN "stash" ELSE edits
  /\ NoteMoved({p})
  /\ UNCHANGED <<upstream, base, own, branch, newCommit, due>>

RebaseFails(p) ==
  /\ Moves(p, "rebase", "merge")
  /\ UNCHANGED <<repo, branch, newCommit, due, moved>>

(* Mutant: the fallback is reset --hard to the upstream.                   *)
MergeResets(p) ==
  /\ Moves(p, "merge", "new")
  /\ head # "detached"
  /\ CaughtUp
  /\ own' = own \ {head} /\ stopped' = "no"
  /\ edits' = IF edits = "tree" THEN "none" ELSE edits
  /\ UNCHANGED <<upstream, head, branch, newCommit, due, moved>>

(* The fallback; after a killed rebase it is the only one that works.      *)
Merge(p) ==
  /\ Moves(p, "merge", "new")
  /\ ~Unmerged /\ head # "detached"
  /\ CaughtUp
  /\ UNCHANGED <<upstream, own, head, edits, stopped, branch, newCommit, due,
                 moved>>

MergeConflicts(p) ==
  /\ pc[p] = "merge"
  /\ ~Unmerged /\ Behind /\ head \in own
  /\ stopped' = "merge"
  /\ Ends(p)
  /\ UNCHANGED <<upstream, base, own, head, edits, moved>>

MergeFails(p) ==
  /\ pc[p] = "merge"
  /\ Ends(p)
  /\ UNCHANGED <<repo, moved>>

HeadCommit == IF head = "detached" THEN {}
              ELSE {[branch |-> head, base |-> base[head]]}

(* The error of rev-parse is ignored: NewCommit is no commit then.         *)
ReadNew(p) ==
  /\ Moves(p, "new", "result")
  /\ \E commit \in {HeadCommit, {}} :
       newCommit' = [newCommit EXCEPT ![p] = commit]
  /\ UNCHANGED <<repo, branch, due, moved>>

Result(p) ==
  /\ pc[p] = "result"
  /\ Ends(p)
  /\ UNCHANGED <<repo, moved>>

(* The client leaves: the running git is killed, and every later command   *)
(* fails.  A killed rebase leaves its directory and HEAD where they are.   *)
Leaves(p) ==
  /\ pc[p] # "idle"
  /\ Ends(p)
  /\ \/ UNCHANGED <<repo, moved>>
     \/ /\ pc[p] = "rebase" /\ stopped = "no" /\ Behind
        /\ stopped' = "killed" /\ head' = "detached"
        /\ edits' = IF edits = "tree" THEN "stash" ELSE edits
        /\ NoteMoved({p})
        /\ UNCHANGED <<upstream, base, own>>
-----------------------------------------------------------------------------
Next ==
  \/ \E b \in Branches : Push(b) \/ Abort(b)
  \/ Edit \/ CommitEdits
  \/ \E p \in Pulls :
       \/ \E b \in Offered : Start(p, b)
       \/ StartUnnamed(p) \/ NameBranch(p)
       \/ Checkout(p) \/ CheckoutFails(p)
       \/ Fetch(p)
       \/ Rebase(p) \/ RebaseConflicts(p) \/ RebaseFails(p)
       \/ Merge(p) \/ MergeConflicts(p) \/ MergeFails(p)
       \/ ReadNew(p) \/ Result(p)
       \/ Leaves(p)

Spec == Init /\ [][Next]_vars
-----------------------------------------------------------------------------
(* The types; and nothing moves HEAD while a conflict is open: a rebase    *)
(* that stopped has it detached, a merge that stopped on the branch whose  *)
(* commits conflict.                                                       *)
TypeOK ==
  /\ upstream \in [Branches -> 0 .. MaxUp]
  /\ base \in [Branches -> 0 .. MaxUp]
  /\ own \subseteq Branches \cup {"detached"}
  /\ head \in Branches \cup {"detached"}
  /\ edits \in {"none", "tree", "stash"}
  /\ stopped \in {"no", "rebase", "merge", "killed"}
  /\ pc \in [Pulls -> {"idle", "name", "checkout", "fetch", "rebase", "merge",
                       "new", "result"}]
  /\ branch \in [Pulls -> Offered \cup {"HEAD"}]
  /\ newCommit \in [Pulls -> SUBSET [branch : Branches, base : 0 .. MaxUp]]
  /\ due \in [Pulls -> [Branches -> 0 .. MaxUp]]
  /\ moved \subseteq Pulls
  /\ \A b \in Branches : base[b] <= upstream[b]
  /\ "detached" \in own => head = "detached"
  /\ stopped = "rebase" => head = "detached"
  /\ stopped = "merge" => head \in own \cap Branches

(* A pull that answers a result has pulled the branch it names: that is a  *)
(* local one, which has all that was upstream when the pull was asked for, *)
(* and NewCommit, if it could be read, is of it.  No error of an earlier   *)
(* command is passed over, whatever other pulls, kills and repairs left    *)
(* the repository in, unless somebody else moved HEAD between the checkout *)
(* and the answer.                                                         *)
ResultIsPulled ==
  \A p \in Pulls :
    pc[p] = "result" /\ p \notin moved =>
      /\ branch[p] \in Branches
      /\ base[branch[p]] >= due[p][branch[p]]
      /\ \A c \in newCommit[p] :
           c.branch = branch[p] /\ c.base >= due[p][branch[p]]

(* No command of a pull loses work: commits of a branch that are not       *)
(* upstream stay on it, and uncommitted edits stay in the tree or the      *)
(* stash, through conflicts, kills, fallbacks and checkouts.  Only commits *)
(* made on a detached HEAD are left behind, by the next checkout.          *)
WorkKept ==
  [][pc' # pc => /\ own \ {"detached"} \subseteq own'
                 /\ edits # "none" => edits' # "none"]_vars
=============================================================================
