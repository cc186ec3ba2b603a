------------------------------- MODULE FileOps -------------------------------
(***************************************************************************)
(* The file manager of an app (FileService).  A call finds the app, turns  *)
(* the path it was given into one under the app's folder, and works on the *)
(* files there: on the host with os calls whose errors it returns, in a    *)
(* container with one shell command whose exit status nobody asks for.     *)
(* Calls run concurrently, and a write is not atomic: it makes the         *)
(* parents, truncates the file, and fills it.                              *)
(*                                                                         *)
(* The file systems are external, and so is the shell of a container, to   *)
(* which a path is handed as %q has it: in double quotes, where it expands *)
(* variables and commands.  A path is a sequence of names from "/".        *)
(***************************************************************************)
EXTENDS SequencesExt, Naturals

CONSTANTS
  Calls,        \* the handler goroutines
  Root,         \* the app's folder
  Rels,         \* the paths clients give, split at "/"
  Texts,        \* what they write
  Before,       \* the tree at first: its paths, and what is at each
  LinkTo,       \* LinkTo[p]: where the symbolic link p leads
  Shell(_)      \* the path that the shell makes of a path in double quotes

Dir    == [text |-> "dir", lines |-> 0]
Empty  == [text |-> "empty", lines |-> 0]
Mixed  == [text |-> "mixed", lines |-> 0]
Old    == [text |-> "old", lines |-> 0]
Link   == [text |-> "link", lines |-> 0]
Given  == [text : Texts, lines : {0}]
Stored == [text : Texts, lines : {0, 1}]
Node   == {Dir, Empty, Mixed, Old, Link} \cup Stored

VARIABLES
  kind,        \* where the app is: "pm2" (the host) or "docker"
  fs,          \* the paths there are, and what is at each
  pc, op,      \* where each call is, and what it is asked for
  rel, body,   \* its path and its content
  target,      \* its path in the file system
  place,       \* the path of the file it has opened,
  open,        \* and the writes whose file is still there
  result,      \* what it has answered, the last time or already
  unseen,      \* history: the calls a command of which failed unseen
  disturbed    \* history: the calls near whose target another has changed
               \* something while they worked

request == <<op, rel, body>>
vars    == <<kind, fs, pc, op, rel, body, target, place, open, result, unseen,
             disturbed>>

Ops == {"read", "write", "delete", "mkdir"}

Init ==
  /\ kind \in {"pm2", "docker"} /\ fs = Before
  /\ pc = [c \in Calls |-> "idle"] /\ op = [c \in Calls |-> "read"]
  /\ rel = [c \in Calls |-> <<>>] /\ body = [c \in Calls |-> Empty]
  /\ target = [c \in Calls |-> Root] /\ place = [c \in Calls |-> Root]
  /\ open = {} /\ result = [c \in Calls |-> "none"]
  /\ unseen = {} /\ disturbed = {}
-----------------------------------------------------------------------------
(* Paths.                                                                  *)

(* filepath.Clean of an absolute path: ".." above the top stays there.     *)
Step(path, name) ==
  IF name # ".." THEN Append(path, name)
  ELSE IF path = <<>> THEN path ELSE Front(path)

Clean(path) == FoldLeft(Step, <<>>, path)

Under(path, dir) == IsPrefix(dir, path)

(* What is in the tree has its folder.  Links are bounded: one on a way.   *)
(* A path stays one when it is cleaned, and when the shell reads it.       *)
ASSUME FileConstantsOK ==
  /\ Root \in Seq(STRING) /\ Shell(Root) \in Seq(STRING)
  /\ \A r \in Rels : /\ Clean(Root \o r) \in Seq(STRING)
                     /\ Shell(Clean(Root \o r)) \in Seq(STRING)
  /\ DOMAIN Before \subseteq Seq(STRING)
  /\ \A p \in DOMAIN Before :
       /\ Before[p] \in Node
       /\ p # <<>> => Front(p) \in DOMAIN Before /\ Before[Front(p)] = Dir
       /\ Before[p] = Link => p \in DOMAIN LinkTo
  /\ \A p \in DOMAIN LinkTo :
       /\ LinkTo[p] \in Seq(STRING)
       /\ \A q \in DOMAIN LinkTo : ~Under(LinkTo[p], q) /\ ~Under(q, LinkTo[p])
  /\ {"dir", "link"} \cap Texts = {}

(* Mutant: the prefix is looked at before the path is cleaned.             *)
SafeJoinUncleaned(base, r) ==
  IF Under(base \o r, base) THEN {Clean(base \o r)} ELSE {}

(* The path, or none if it is denied.  Under "/" all but "/" is: no path   *)
(* begins with "/" and a separator.                                        *)
SafeJoin(base, r) ==
  LET cleaned == Clean(base \o r)
  IN  IF cleaned = base \/ (base # <<>> /\ Under(cleaned, base))
      THEN {cleaned} ELSE {}
-----------------------------------------------------------------------------
(* Where a path leads, and a change of the file system.                    *)

IsDir(p)     == p \in DOMAIN fs /\ fs[p] = Dir
Ancestors(p) == {SubSeq(p, 1, n) : n \in 0 .. Len(p)}

LinksOn(tree, p) == {a \in Ancestors(p) \cap DOMAIN tree : tree[a] = Link}

Behind(a, p) == LinkTo[a] \o SubSeq(p, Len(a) + 1, Len(p))

(* Of what the system opens or makes, every link is followed; of what it   *)
(* removes, all but the last.                                              *)
Real(tree, p) ==
  LET links == LinksOn(tree, p)
  IN  IF links = {} THEN p ELSE Behind(CHOOSE a \in links : TRUE, p)

Entry(tree, p) == IF p = <<>> THEN p ELSE Append(Real(tree, Front(p)), Last(p))

(* The path a call works on.                                               *)
Way(c) == IF kind = "docker" THEN Shell(target[c]) ELSE target[c]

With(paths, node) ==
  [p \in DOMAIN fs \cup paths |-> IF p \in paths THEN node ELSE fs[p]]

Without(paths) == [p \in DOMAIN fs \ paths |-> fs[p]]

(* os.MkdirAll, mkdir -p.  Where a link leads to nothing they fail.        *)
CanMake(p) ==
  /\ \A a \in LinksOn(fs, p) : LinkTo[a] \in DOMAIN fs
  /\ \A a \in Ancestors(Real(fs, p)) \cap DOMAIN fs : fs[a] = Dir
Make(p) == fs' = With(Ancestors(Real(fs, p)), Dir)

Changed ==
  {p \in DOMAIN fs \cup DOMAIN fs' :
     ~(p \in DOMAIN fs /\ p \in DOMAIN fs' /\ fs[p] = fs'[p])}

Works(c) == pc[c] \in {"read", "write", "open", "fill", "delete", "mkdir"}

Spots(c) == {target[c], Real(fs, target[c]), Entry(fs, target[c])}

(* Whom a change concerns.                                                 *)
NoteChange(c) ==
  disturbed' = disturbed \cup
    {q \in Calls \ {c} : /\ Works(q)
                         /\ \E p \in Changed, s \in Spots(q) :
                              Under(p, s) \/ Under(s, p)}
-----------------------------------------------------------------------------
Moves(c, from, to) == pc[c] = from /\ pc' = [pc EXCEPT ![c] = to]

Start(c, o, r, b) ==
  /\ Moves(c, "idle", "resolve")
  /\ op' = [op EXCEPT ![c] = o]
  /\ rel' = [rel EXCEPT ![c] = r]
  /\ body' = [body EXCEPT ![c] = b]
  /\ result' = [result EXCEPT ![c] = "none"]
  /\ unseen' = unseen \ {c} /\ disturbed' = disturbed \ {c}
  /\ UNCHANGED <<kind, fs, target, place, open>>

(* The call is over, and answers unless it has.                            *)
Answers(c, r) ==
  /\ pc' = [pc EXCEPT ![c] = "idle"]
  /\ result' = [result EXCEPT ![c] = IF @ = "none" THEN r ELSE @]
  /\ op' = [op EXCEPT ![c] = "read"] /\ rel' = [rel EXCEPT ![c] = <<>>]
  /\ body' = [body EXCEPT ![c] = Empty]
  /\ target' = [target EXCEPT ![c] = Root] /\ place' = [place EXCEPT ![c] = Root]
  /\ UNCHANGED kind

(* Mutant: the error of safeJoin is not looked at.                         *)
ResolveUnchecked(c) ==
  /\ Moves(c, "resolve", op[c])
  /\ target' = [target EXCEPT ![c] = Clean(Root \o rel[c])]
  /\ UNCHANGED <<kind, fs, request, place, open, result, unseen, disturbed>>

Resolve(c) ==
  /\ Moves(c, "resolve", op[c])
  /\ \E p \in SafeJoin(Root, rel[c]) : target' = [target EXCEPT ![c] = p]
  /\ UNCHANGED <<kind, fs, request, place, open, result, unseen, disturbed>>

Denied(c) ==
  /\ pc[c] = "resolve" /\ SafeJoin(Root, rel[c]) = {}
  /\ Answers(c, "error")
  /\ UNCHANGED <<fs, open, unseen, disturbed>>

(* What the call comes to when a step of its work fails: on the host an    *)
(* error; from a container the output of the command, whatever it is.      *)
Fails(c) ==
  /\ Answers(c, IF kind = "docker" THEN "ok" ELSE "error")
  /\ unseen' = IF kind = "docker" THEN unseen \cup {c} ELSE unseen
  /\ open' = open \ {c}
  /\ UNCHANGED <<fs, disturbed>>

(* The app is not found, or what does the work ends: the process, or the   *)
(* container.                                                              *)
Breaks(c) ==
  /\ pc[c] = "resolve" \/ Works(c)
  /\ Answers(c, "error")
  /\ open' = open \ {c}
  /\ UNCHANGED <<fs, unseen, disturbed>>

(* The client leaves, or the connection to Docker breaks: the command in   *)
(* the container goes on.                                                  *)
BreaksOff(c) ==
  /\ kind = "docker" /\ Works(c) /\ result[c] = "none"
  /\ result' = [result EXCEPT ![c] = "error"]
  /\ UNCHANGED <<kind, fs, pc, request, target, place, open, unseen, disturbed>>

(* List and Read.  What they answer is not modelled, but whether they do.  *)
Look(c) ==
  /\ pc[c] = "read" /\ Real(fs, Way(c)) \in DOMAIN fs
  /\ Answers(c, "ok")
  /\ UNCHANGED <<fs, open, unseen, disturbed>>

MakeParents(c) ==
  /\ Moves(c, "write", "open")
  /\ Way(c) # <<>> /\ CanMake(Front(Way(c)))
  /\ Make(Front(Way(c))) /\ NoteChange(c)
  /\ UNCHANGED <<kind, request, target, place, open, result, unseen>>

CanOpen(p) ==
  /\ p # <<>> /\ IsDir(Front(p))
  /\ p \in DOMAIN fs => fs[p] \notin {Dir, Link}

Opens(c, p) ==
  /\ Moves(c, "open", "fill") /\ CanOpen(p)
  /\ place' = [place EXCEPT ![c] = p]
  /\ open' = open \cup {c} /\ NoteChange(c)
  /\ UNCHANGED <<kind, request, target, result, unseen>>

(* Mutant: the file is opened without O_TRUNC.                             *)
OpenKeeps(c) ==
  LET p == Real(fs, Way(c))
  IN  fs' = (IF p \in DOMAIN fs THEN fs ELSE With({p}, Empty)) /\ Opens(c, p)

Open(c) ==
  LET p == Real(fs, Way(c)) IN fs' = With({p}, Empty) /\ Opens(c, p)

(* A here-document ends in a newline, the content's own or not.            *)
AsStored(b) == IF kind = "docker" THEN [b EXCEPT !.lines = @ + 1] ELSE b

(* What another call has written meanwhile may reach beyond this content.  *)
Fill(c) ==
  /\ pc[c] = "fill"
  /\ fs' \in IF c \notin open THEN {fs}
             ELSE {With({place[c]}, n) :
                     n \in {AsStored(body[c])} \cup
                           (IF fs[place[c]] = Empty THEN {} ELSE {Mixed})}
  /\ Answers(c, "ok")
  /\ open' = open \ {c} /\ NoteChange(c)
  /\ UNCHANGED unseen

(* os.RemoveAll, rm -rf: what is not there needs no removal.               *)
Delete(c) ==
  /\ pc[c] = "delete" /\ Way(c) # <<>>
  /\ LET paths == {p \in DOMAIN fs : Under(p, Entry(fs, Way(c)))}
     IN  /\ fs' = Without(paths)
         /\ open' = {q \in open : place[q] \notin paths}
  /\ Answers(c, "ok") /\ NoteChange(c)
  /\ UNCHANGED unseen

CreateDir(c) ==
  /\ pc[c] = "mkdir" /\ CanMake(Way(c))
  /\ Make(Way(c)) /\ Answers(c, "ok") /\ NoteChange(c)
  /\ UNCHANGED <<open, unseen>>

(* A file where a folder should be or the reverse, no parent, nothing      *)
(* there; the disk is full.                                                *)
WorkFails(c) ==
  /\ Works(c)
  /\ Fails(c)

Next ==
  \E c \in Calls :
    \/ \E r \in Rels : \/ \E o \in Ops \ {"write"} : Start(c, o, r, Empty)
                       \/ \E b \in Given : Start(c, "write", r, b)
    \/ Resolve(c) \/ Denied(c) \/ Look(c)
    \/ MakeParents(c) \/ Open(c) \/ Fill(c)
    \/ Delete(c) \/ CreateDir(c)
    \/ WorkFails(c) \/ Breaks(c) \/ BreaksOff(c)

Spec == Init /\ [][Next]_vars
-----------------------------------------------------------------------------
(* The types, whatever is there has its parents, and no call is given a    *)
(* path outside the app's folder.                                          *)
TypeOK ==
  /\ kind \in {"pm2", "docker"}
  /\ \A p \in DOMAIN fs : fs[p] \in Node
  /\ \A p \in DOMAIN fs \ {<<>>} : IsDir(Front(p))
  /\ pc \in [Calls -> Ops \cup {"idle", "resolve", "open", "fill"}]
  /\ op \in [Calls -> Ops] /\ rel \in [Calls -> Rels \cup {<<>>}]
  /\ body \in [Calls -> Given \cup {Empty}]
  /\ \A c \in Calls : Under(target[c], Root)
  /\ result \in [Calls -> {"none", "ok", "error"}]
  /\ open \subseteq Calls /\ unseen \subseteq Calls /\ disturbed \subseteq Calls
  /\ \A c \in open : pc[c] = "fill" /\ place[c] \in DOMAIN fs /\ ~IsDir(place[c])

(* What is worked on is not what safeJoin has let pass: the shell makes    *)
(* another path of it, or a link is on its way, or was.                    *)
Diverted(c) ==
  \/ Way(c) # target[c] \/ LinksOn(fs, target[c]) # {}
  \/ pc[c] = "fill" /\ place[c] # target[c]

(* safeJoin "ensures the result is still under base": however often the    *)
(* path goes up, only the app's folder changes, and the way to it if it is *)
(* not there.  There are two ways out that safeJoin does not see: a link,  *)
(* which the README says is blocked, and what a container's shell expands. *)
Confined ==
  [][\A p \in Changed :
       \/ Under(p, Root)
       \/ Under(Root, p) /\ p \notin DOMAIN fs
       \/ \E c \in Calls : pc'[c] # pc[c] /\ Diverted(c)]_vars

Effect(c, tree) ==
  LET file == Real(tree, target[c])
  IN  CASE op[c] = "read"   -> file \in DOMAIN tree
        [] op[c] = "write"  -> /\ file \in DOMAIN tree
                               /\ tree[file] = AsStored(body[c])
        [] op[c] = "delete" ->
             \A p \in DOMAIN tree : ~Under(p, Entry(tree, target[c]))
        [] op[c] = "mkdir"  -> file \in DOMAIN tree /\ tree[file] = Dir

(* "File berhasil disimpan": a call that answers success has done what it  *)
(* was asked for, through links too, and a write has replaced whatever was *)
(* there before.  It has not in three cases: another call changed          *)
(* something near it meanwhile, a command in a container failed unseen, or *)
(* its shell made another path of the one that was asked for.              *)
SuccessIsDone ==
  [][\A c \in Calls \ (unseen' \cup disturbed) :
       result[c] = "none" /\ result'[c] = "ok" /\ Way(c) = target[c]
         => Effect(c, fs')]_vars
=============================================================================
