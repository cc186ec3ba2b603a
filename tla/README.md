# pm2-manager-api: specifications

TLA+ models of the Go server in `src/`, the TLC runs that check them on small
instances, and TLAPS proofs of what holds for every instance.

## The system

| Component | State it keeps | Operations | Talks to |
|---|---|---|---|
| App listing and sync (`app_service.go`, `app_repository.go`, `database.go`) | table `apps` | `GET /api/apps`: list Docker, list PM2, write the listing into the table, filter; `POST /api/apps/action` | Docker, `pm2`, MySQL |
| Terminal commands (`terminal_session.go`, `terminal_service.go`, the writers of `terminal_handler.go`) | a bash process, two pipes, two copiers; root, cwd and previous folder of a `Session` | `Open`, `OpenGeneral`, `ExecHost`, `execGeneral`, `SetCwd`, `streamCmd`, REST and WebSocket | Docker, `pm2`, OS processes, the client |
| Terminal WebSocket (`terminal_handler.go`) | the read loop, the read deadline, the ping goroutine | frames exec, ping, close; pongs | `runCommand` |
| Tokens, login, JWT (`token_*.go`, `auth_service.go`, `jwt.go`, `middleware.go`) | table `tokens`; JWTs at the clients | create, edit, delete; login; every request's `Authenticate` | MySQL |
| Files (`file_service.go`, `file_handler.go`) | files on the host or in containers | list, read, write, delete, create-dir | Docker exec, host FS |
| Git (`git_service.go`, `git_handler.go`) | working trees of the apps | status, branches, pull | `git` |
| Docker and PM2 clients | none | list, inspect, exec, action | the daemons |
| AI settings (`ai_*.go`) | one row `ai_config` | save, status, models, test, playground | MySQL, a remote API |
| The process (`cmd/server/main.go`) | the Docker client or none, the listener | boot, SIGTERM, `Shutdown` | all of the above |

Every HTTP request is a goroutine. Shared state is the database, the file
systems, the working trees and the child processes; within the process it is the
WebSocket connection (read loop, ping goroutine, two copiers) and the response
writer of a REST command. A general session belongs to one WebSocket or one
request, so that its mutex, the only lock, never waits. The only transaction is
the one of the sync.

What makes each component correct, and what is hard about it:

* *Sync.* The table follows the daemons, and rows keep their id and
  description. The listing is taken in two steps before the transaction; the
  choice between UPDATE and INSERT comes from a snapshot; two requests may hold
  different listings; statements run in the random order of a Go map.
* *Terminal commands.* Output in order and without gaps, then the exit code,
  always. Two copiers that share an unlocked buffer, full pipes, failing writes,
  background children, clients that leave.
* *Terminal WebSocket.* Sessions of clients that answer live, the others end,
  no goroutine stays behind. One loop both reads and runs commands, and while it
  runs one it reads no pong.
* *Tokens.* A JWT is a copy of a row that others edit and delete meanwhile; an
  empty list means no filter.
* *Sessions of terminals.* A command runs in the folder the client shows, and
  `cd` takes it where it says. Over the WebSocket one `Session` remembers the
  folder; over REST every request opens one of its own and the client remembers,
  while folders vanish, apps are deployed again and lookups fail.
* *AI settings.* Saves overlap calls that read the row; answers come in pieces,
  may break off, and may be longer than what is read of them.
* *The process.* A stop waits for requests, not for terminals, and not for ever.
* *Files.* Exit statuses, half-done commands, overlapping requests, links, and a
  shell that reads paths.
* *Git.* Half-done commands, overlapping pulls, branches that detach HEAD.

The list, each at its line, is `hazards` in `PROJECT.json`; those no model
reaches are under *Not modelled*.

## Modules

| Module | Models |
|---|---|
| `AppTable` | abstract: a sync is one step that makes the table the listing |
| `SharedTable` | abstract: what that promise becomes when syncs overlap, a read and one merging write |
| `AppSync` | `GetApps`, `syncToDB`, `SyncFromPM2`, `WithTransaction` of concurrent requests, on InnoDB; the refinements `SyncIsAtomic` to `AppTable` and `SyncIsMerge` to `SharedTable` |
| `AppControl` | `AppSync` with a client that lists the apps and acts on one (`DoAction`) |
| `MCAppSync`, `MCAppControl` | the instances of the two |
| `TerminalExec` | one command: bash, pipes, copiers, writers, exit frame, over WebSocket or REST |
| `TerminalWS` | the life of a WebSocket session in time, its commands as long as they like |
| `TerminalSession` | the folders: how a `Session` is opened, `cd`, and what the client shows |
| `AiSettings` | the row of settings, and the calls that save, read and use it |
| `Server` | the process that serves `TerminalSession` and `AiSettings`: boot, drain, crash |
| `MCServer` | the instance of `Server` |
| `TokenAccess` | tokens, their edits, and the JWTs made from them |
| `GitPull` | the git commands of pulls in one working tree |
| `FileOps` | the file operations of an app, on the host or in a container |
| `MCFileOps` | the instance of `FileOps` |
| `AppSyncProofs`, `AppControlProofs`, `TokenAccessProofs`, `GitPullProofs`, `TerminalExecProofs`, `TerminalWSProofs`, `ServerProofs`, `FileOpsProofs` | the theorems about each |

A definition named `...Replaces`, `...Never`, `...Early` and the like, commented
"Mutant", is a plausible wrong version of the one below it; no specification
uses it. `mutants` in `PROJECT.json` says which property each one breaks.

### AppSync

One request goes through `pc`: "idle", "docker" and "pm2" (the two listings),
"begin" (waiting for a connection), "upsert" and "delete" (the loops of
`SyncFromPM2`), and is back at "idle" when `GetApps` answers. `views` is the
slice `views`, `existing` the map of that name with the row behind each id,
`todo` what the current `range` has not reached (any element may come next).
`put`, `gone`, `locks` and `want` are the open transaction in InnoDB: its own
rows, the ids it deleted, the keys it has locked, the statement that waits.

MySQL is external: REPEATABLE READ, a snapshot by the first SELECT, statements
that act on the latest rows, exclusive locks on the key they touch (for a
missing row: on its gap) until the end, rollback of a deadlock's victim, a
UNIQUE index that compares names by collation (`Fold`). `DockerChanges` and
`Pm2Changes` are deployments outside the program. What a row says of its app
(cwd, pm_id) is abstracted to `src`, the daemon it came from; what the seed or
an operator wrote to `desc`.

`absent` is history: the names neither daemon had at some moment since the
request began, and all those of a daemon whose listing failed it.

A server without a Docker client lists no container, as one whose listing fails
(`DockerListFails`).

A single request implements `AppTable` (`SyncIsAtomic`, which is proved);
overlapping ones do not, and `SharedTable` says what they do implement. A
request is `open` there while its transaction is, `given` its views and `snap`
the rows of its first SELECT. `Merge` is the write: rows that were read and are
not listed go, all others keep id, name and description, and take the source of
a listed app of their key if there is one that had a row at the read (they may
take it if it had none); what was listed and had no row gets one. An app whose
row another request has deleted since the read gets none.

### AppControl

`act` follows one `DoAction`: "lookup" (`Docker.Get`, a listing searched by
name), "docker" (an id in hand, "stale" once its container is gone), or "pm2".
`shown` is where the client's last list had the app. `doubt` is history: since it
asked for that list the app came or went, or a listing or lookup failed. The
program does not know; a failed lookup is only logged, and PM2 is asked for an
app that is in Docker. The daemons' names are compared exactly.

### TerminalExec

`proc` and `alive` distinguish bash from the command: `bash -c` may become its
last command ("direct"), wait for it ("child"), or leave it in the background.
`Reap` is `cmd.Wait`: it waits for bash and closes the read ends of the pipes.
What bash has left behind lives on, until it ends or dies of SIGPIPE
(`CommandEnds`). `made`, `taken` count chunks written to and read from each pipe;
`copier` is each `io.Copy`.

Both copiers build their messages in one buffer of the connection, or of the
response, without a lock. `clash` are the writes that overlap now, `mixed` says
that some have overlapped on this connection, or in this response. A write
that overlaps another may fail or panic (`Panic`); gorilla/websocket detects it
by a flag that is not atomic, so that it may also report success. Then, and for
every message after it on the connection, whose frames may be out of step, the
chunk may have arrived, or been lost, or reach the client garbled (`Arrives`).

A client may be there, gone, or "stalled": it reads no more, its socket is full,
and a write to it returns only when it reads again or is gone, since the writer
sets no deadline.

### TerminalWS

In ticks. `left` is what the running command still takes; `inbox` is the
socket, `buffer` what a read has taken from it. `Tick` is possible only when
nothing that happens at once is left to do (`Quiet`), so that delays come from
commands and silent clients alone. `Patient` clients send `exec` only after the
last exit frame. `overdue`, `busy` and `goneFor` are history: the loop has
returned because the deadline passed; how long commands have run since it last
moved; the ticks since the client has gone.

### TerminalSession

`mode` is what the client opened: "all" (`*`), "label" (an app's name with
`general`), both followed by `execGeneral`, or "app". `via` is the transport.
`root`, `cwd`, `prev` are the `Session`: over the WebSocket it lasts as long as
the connection, over REST a command opens one (`Opened`) from what the client
sends, and `SetCwd` takes the folder only if it is there. `at` says how far a
command is; while one runs nothing else is read (that is `TerminalWS`). `prompt`
is the folder in the last `ready` or `cwd` frame. A lookup may fail for any
reason, and `Roots` says where `Open` and `OpenGeneral` then go. `Lookups`
without a Docker client always lack Docker's answer.

Folders are removed and made, and apps deployed elsewhere, at any moment.
A path is absolute (a member of `Folders`) or relative (one of `Names`), and
`Leads` is `filepath.Join` from some folder. `Cd` takes a relative one from the
Session's folder. The client means it from the folder it shows. They are one,
but over REST when that folder has been removed: `SetCwd` drops it, and the path
is taken from the root. `adrift` is history of just this.

`parseCd` takes plain folders only. `cd ~`, which its comment names, a quoted
folder or one with a blank escaped go to bash, as every `cd` in the terminal of
an app does (`Run` with "cd"): bash changes its own folder, ends with 0, and the
Session stays. `..` is one of the relative paths, since it is resolved to a
folder before that is looked for.

`goal`, `before` and `strayed` are history too: where the client wants its cd to
take it, the folder it would go back to, and whether folders, apps or lookups
changed since it connected.

### AiSettings

A call goes "write" (`Save`), or "read" (the row, once), "ask" (the request is
sent) and "body" (its answer arrives), then "done". A value is a field of one
entry, so that mixing two entries shows. A chunk of the answer is a `data:` line
or a completion with a "text", or with "none", or something "other": another line
of the stream, another JSON. `Receive` may come at any moment: `CallAiChat` takes
what it has when the body ends, when the connection breaks and when 180 s are
over, and of a longer body the first 8 MiB (`ChatLimit`; 2 MiB, `ListLimit`, of a
list of models), and tells none from the others (`Cut`). The prefix decides:
a body that begins with `data:` is read as events (`Events`), one that parses is
a completion, and whatever is neither is the answer as it stands (`Raw`).

### Server

`life` is "up", "draining" (the listener is closed, `Shutdown` waits), and
"drained" or "cut" when the process has ended. `Boot` decides whether there is a
Docker client (`main.go:48`). A drain waits for REST requests and AI calls
(`Waiting`) and for no WebSocket.

### TokenAccess

A call goes "find", "write", "answer" (`Update`) or "check", "remove"
(`Delete`); `seen` is what its `FindByID` returned. `session` is the JWT of a
visitor with the ticks it has `left`. `since` is history: for an id and an app,
the ticks since the row allowed it. Labels are left out: they are merged and
written exactly as lists are.

Not in the model: the administrator's login, listings of tokens, access checks
on the administrators' routes.

### GitPull

Each git command is one step of a pull: "name" (`rev-parse`, if the request
names no branch), "checkout", "fetch", "rebase" (`pull --rebase --autostash`),
"merge" (the fallback), "new" (`rev-parse`), "result". Any of them may fail
without effect, which stands for networks, `index.lock`, edits in the way.
Sessions of git are always on the host (`TerminalService.Open` makes no other
kind), so the branch of `runGit` for containers is never taken. A branch is
`base`, the commits of its upstream that it has, and membership of `own`;
`stopped` is a conflict, or the directory that a killed rebase leaves. A pull
may name what `Branches()` offers (`Offered`): the local branches and the
remote-tracking ones, one "remote" for all of them. HEAD is detached by the
checkout of one of those, and by a rebase that is killed or stops; then neither
pull command has an upstream to go by. "detached" in `own` are commits made
there, which the next checkout leaves behind. The second `rev-parse` may fail;
its error is dropped (`git_service.go:167`) and the result has no `NewCommit`.
Between the commands the administrators edit, commit and abort, and developers
push. `OldCommit`, the summary and the log are left out. `due` and `moved` are
history: what was upstream when the pull began, and whether another has moved
its HEAD.

### FileOps

A call resolves its app and path, then reads, deletes, makes a folder, or
writes in three steps: parents, truncation, content; then it answers, and
`result` keeps the answer until its next request. `target` is what `safeJoin`
returned, `place` the file a write has opened, `open` the writes whose file is
still there. The same steps stand for the os calls on the host and the shell
command in a container; when one fails, the host answers an error and the
container success (`Fails`). When the client leaves, or the connection to Docker
breaks, the call answers an error and the command goes on (`BreaksOff`). A
here-document adds a newline (`AsStored`). Two writes in one file may leave a
mixture.

`safeJoin` compares names only, and two things lead elsewhere afterwards. Links
(`LinkTo`): what is opened or made is where all of them lead (`Real`), what is
removed is where all but the last do (`Entry`). And the shell of a container:
the path is put into its command with `%q`, in double quotes, in which it expands
`$` and backquotes; `Shell` is the path it makes of a path, `Way` the one a call
works on.

What a listing or a read returns is left out, and so are access checks: the
calls are those of users who may. `unseen` and `disturbed` are history: the calls
whose failure a container has hidden, and those near whose target (or where it
leads) another has changed something while they worked.

## Runs

Passing:

| Run | Asks | Bounds |
|---|---|---|
| `AppSyncRace` | types, rows traced, listed rows keep id and description; overlapping syncs implement `SharedTable`; an action hits the app its client was shown | 2 requests and the actions of one of the clients, 3 names, one of them in both daemons, two equal to the index, 1 change, 1 fault |
| `AppSyncFair` | of the requests under way one can go on; only absent apps are removed; every request is answered; the table follows in the end | 2 requests, daemons with names apart, 1 change, 1 fault |
| `TermExec` | types, output is a prefix, exit code after output; the parties never all wait for each other; the exit code comes; a REST client that leaves frees the goroutine | both transports, 2 commands, 4 chunks a command on either stream, pipes of 1 |
| `TermWs` | a client that answers pings loses its session to long commands only; gone ones lose it and in time, no ping goroutine stays | ticks of 5 s: ping 5, deadline 12, commands up to 8 or endless; 3 frames |
| `TokenLists` | types, listed apps were allowed lately, deleted tokens are dead | 2 calls, 1 token, 2 apps, TTL of 2 |
| `GitPull` | types; a result names a branch that was pulled; no work is lost | 2 pulls of a local branch, a remote one or none, 2 branches, 1 upstream commit each |
| `FileOps` | success means done; only links and a container's shell lead out of the folder | 2 calls, host and container; paths to a new file, up and into a neighbour, through a link into it, and one the shell reads as it |
| `Server` | commands run where the client sees itself; cd obeys; a chat uses one entry and loses no text of what is read; stops end | 2 folders, 2 relative paths, 2 changes of the host; 2 calls, 2 complete entries and an incomplete one, up to 3 chunks where 2 are read (1 of a list); any number of boots, drains and crashes |

The bounds are the least at which the case happens: two requests for every race
(a third adds no new pair of listing and transaction), names for two that the
index confuses and one that both daemons have, pipes smaller than the output so
that commands block, on one stream while the other is done too, two calls for an
edit that overlaps an edit or a deletion, a change between two listings or
between a listing and its transaction, two calls and two complete entries for a
save of another provider between a chat's steps, three chunks for a text behind
an event without one and for a text behind the limit, a folder beside "/" and
two changes for one that goes and comes back, two branches for a pull that
leaves the other's, one link and one name with a `$` in a folder with a
neighbour.

`TermWs` uses the program's own times, and clients that send `exec` only after
the last exit frame (`Patient`), which the proof of `DroppedInTime` needs and
that of `ResponsiveKept` does not. Commands of up to 40 s are on both sides of the
35 s (`ReadDeadline` less `PingPeriod`) from which a session can be lost. Rows
that do not fit (`Oversized`) are refused like duplicate ones and are left to the
proofs. The two services of `Server` share only the process, so in `MCServer`
clients use one of them in a behaviour (`Uses`), and the other has one initial
state (`MCInit`); `ServerProofs` needs neither restriction. `MaxChanges`,
`MaxMoves`, `MaxFaults`, `MaxCmds`, `MaxChunks`, `MaxFrames` and `MaxUp` bound
what would otherwise go on for ever.

What the properties except is as much a result as what they say:

* `OnlyAbsentRemoved` excepts the apps of a daemon whose listing failed: it
  counts as empty (`app_service.go:57`) and costs every app of that daemon its
  row, but none of the other's.
* `OnlyAbsentRemoved` and `Converges` are checked without
  shared names or names that differ in letter case only, and are false with
  them: an app that moves from PM2 to Docker between the
  two listings is in neither; an app renamed in letter case is INSERTed before
  its old row is DELETEd (`app_repository.go:102`), which the UNIQUE index
  refuses at every call.
* `OutputIsPrefix` and `ExitAfterOutput` promise nothing once two writes have
  overlapped on the connection, or in the response: then a chunk may be lost
  or garbled and its writer report success. Nothing in `streamCmd` keeps the
  writes apart (`TermExecClash`); a command that writes on one stream at a time,
  leaving its reader the time to write, has what they promise.
* `ExitAfterOutput` and `CommandAnswered` hold over the WebSocket alone: over
  REST a stream ends with its first chunk. `CommandAnswered` excepts failed
  writes: a WebSocket client that leaves during output can leave a command that
  blocks on its pipe for ever, since nothing cancels it. It also excepts clients
  that stop reading for good: the write to them has no deadline.
* `NeverStuck` of `TerminalExec` makes the same exceptions for the same reasons:
  clients that read no more, which hold a copier in its write; over the WebSocket
  failed writes; over REST clients that stay, and commands that survive bash.
* `DroppedInTime` excepts a command that does not end. The bound is the deadline
  and a command: a pong that the client sent before it left may wait behind a
  running command, and moves the deadline a last time.
* `ActsOnShown` excepts apps that came or went since the client asked for its
  list, and failed listings and lookups: a container that is gone by the time of
  the action is an error, but one whose lookup failed is looked for in PM2, and
  an app of that name there is stopped instead.
* `RunsWhereShown` has two exceptions, both over REST. A folder that has gone is
  replaced by the root without a word (`SetCwd`), and the command runs there.
  And the terminal of an app opens the app again for every command, so that
  after a deployment, a failed lookup or a boot without Docker it runs where the
  app is then. Over the WebSocket there is no exception: the command runs where
  the client sees itself or fails to start.
* `CdObeyed` speaks of where the `cwd` frame says the client is; `cd -` does not
  look whether the folder is still there. It excepts a `cd` that bash has run, and
  so `cd ~`, which the comment at `terminal_session.go:156` names: it answers 0 and
  moves nobody. And over REST a relative `cd` from a folder that has gone, which
  starts at the root and answers 0.
* `WholeReply` is about bodies that came whole, and of those about the first
  8 MiB; the beginning of one that broke off is returned as if it were all. It
  says when a body is returned as it stands and taken for an answer: a stream
  that begins with a comment or an event line, a JSON error sent with status 200,
  a JSON body of more than 8 MiB.
* `StopEnds` says that a stop ends, not that it lets calls finish: 10 s are less
  than the 180 s a call to the provider may take.
* `ResponsiveKept` says what a client that answers every ping can count on: it
  is dropped only when commands have kept the loop from reading for 35 s or more
  since the last pong that was read. That it may be dropped then is the run
  `TermWsBusy`.
* `ResultIsPulled` excepts pulls whose HEAD another moved: with two pulls of one
  app of two branches, one answers success for a branch it has not pulled.
  Such results do not occur for a remote-tracking branch: its pull fails, and
  leaves HEAD detached for the pulls that follow.
* `WorkKept` excepts commits made on a detached HEAD.
* `SuccessIsDone` excepts containers that hide failures (`unseen`), calls that
  disturb each other, and paths a container's shell reads as others.
* `Confined` excepts the way to the app's folder, made if it is not there, and
  the calls that a link or the shell has led elsewhere (`Diverted`). That links
  lead out contradicts `src/README.md:23`: "Path traversal (`..`, symlink keluar)
  di-block di server". `safeJoin` (`file_service.go:77-90`) does not look for
  them, and without this exception `Confined` is false in the instance of the run.

`CHECK_DEADLOCK FALSE` stands where the system may stop: a terminal whose
client has gone or has used up its commands or frames, a server that has panicked.

Violations, each of a sentence of the source (`findings` in `PROJECT.json`):

| Run | Shows |
|---|---|
| `AppSyncLostApp` | a concurrent deletion makes the UPDATE hit nothing: a listed app has no row |
| `TermExecClash` | the two copiers' writes collide, and the server panics |
| `TermExecStuck` | over REST, a command with more output than a chunk and a pipe hold never ends |
| `TermWsBusy` | a client that answers every ping is dropped after a command of 40 s, though a comment (`terminal_handler.go:230`) has a "Reader goroutine to enforce read deadline / pong" |

### Fairness

* `AppSync`: weak fairness of each request's own steps (its goroutine runs),
  strong fairness of `Begin` (database/sql hands a freed connection to a waiting
  request) and of `Granted` (InnoDB hands a freed lock to a waiting statement).
  `Start` has none: nobody has to call; `Converges` assumes calls that recur.
* `TerminalExec`: weak fairness of each copier, of the handler, of the kill and
  of the command as long as it is not blocked. None of what clients do: that a
  stalled one reads again is a premise of `CommandAnswered`.
* `TerminalWS`: weak fairness of the goroutines, of time, and of the pong of a
  client that is there.
* `Server`: weak fairness of `Drained` and `GraceOver` (`Shutdown` returns when
  nothing is waited for, or when its context of 10 s expires). None of calls, of
  clients, of the provider, of commands, or of the boot.
* `GitPull`, `FileOps`, `AppControl`: none, they are checked for safety alone.
* `TokenAccess`: weak fairness of calls and logins under way; strong fairness
  of time, which no number of logins stops.

## Proofs

`AppSyncProofs` proves for any requests, names, ids, collation and bounds that
`TypeOK` and `RowsTraced` are invariant and `ListedRowsKept` holds of every
step. The inductive invariant is `TypeOK /\ RowsTraced`. The two need each
other: a row written by an upsert is well typed because its name is in the
request's views (`LoopsStayInTheirMaps`), and rows stay traced because new ids
are new (`FreshIdIsNew`) and deletions take ids from snapshots
(`GoneWasReadUnlisted`). For `ListedRowsKept` locks play no part: it would
survive a weaker isolation level. Assumption: `ConstantsOK` (the seed has
distinct ids and names).

The same module proves `OnlyAbsentRemoved` under the condition it is
checked with, now a hypothesis of the theorem:
`DockerNames \cap Pm2Names = {}`. Its invariant is `MissedIsAbsent`: whatever a
request has not seen in the listings it has made so far was absent at
some moment of it, or its daemon gave no listing.

It proves the refinement `SyncIsMerge` for any requests, names, collation, seed
and bounds: whatever the order of their statements, with deadlocks, errors and
rollbacks, each transaction is a read and one `Merge`, or changes nothing. The
invariant is `MInv`. For each request, `Merging` says what its transaction sees
between two statements: each row it has written has the source of a view and is
either a row it found or one that a stored view had none of; every stored view
has the rows of its key in hand; deleted names are out of sight. Around it stand
that what a transaction has written or deleted is locked, that no two have
locked one key (`LocksApart`), and that an id it gave to a new row is in
nobody's snapshot (`IdsApart`). This is where the locks are needed: `CommitFrame`
says that the commit of another leaves all this as it was. `MineInsert`,
`MineUpdate` and `MineDelete` say what each statement does to it, and
`CommitIsMerge` that when the loops have ended it is what `Merge` asks for.

`SyncIsAtomic` follows for a single request (`Reqs = {r}`): nobody has written
since its read, and such a merge is a sync (`UndisturbedMergeIsSync`). With two
requests `SyncIsAtomic` is false: that is the run `AppSyncLostApp`.

Last, `NeverStuck` for any finite set of requests, any pool and any collation.
Its invariant, `Waiting`, is that a statement that waits is about one name that
its loop has still to reach, so that a transaction that cannot go on waits for
another one (`WaitsForAnother`). Where all of a finite set wait for one of it,
take a least part in which all do: in it everybody is also waited for
(`CircleOfWaiters`), which is what InnoDB calls a deadlock and breaks.

`AppControlProofs` proves `ActsOnShown` for any requests, names and bounds, names
that both daemons have included. The invariant follows the answer from the
daemons through the views of the request to the client (`ViewsAreTrue`) and the
lookup to the action (`ActIsTrue`), as long as nothing has made them doubtful.

`TokenAccessProofs` proves `TypeOK` and `ListedIsRecent` for any calls,
visitors, apps and TTL. `ListedIsRecent` is not inductive; `Recent` adds the
chain it rests on: rows hold what they hold now, a login's row was read in this
tick, the age of a grant and the life a JWT has left never exceed TTL, what is
listed is in a live JWT, and each call has read at most one row. Assumption:
`TTLOK`.

`GitPullProofs` proves `TypeOK`, `ResultIsPulled` and `WorkKept` for any pulls,
branches and numbers of commits. `TypeOK` says what HEAD is while a conflict is
open: detached where a rebase stopped, on the branch whose commits conflict where
a merge did, whatever local and remote branches other pulls check out. `Inv`
adds two things. What was upstream when a pull began is upstream still
(`DueIsPast`). And a pull whose HEAD nobody moved (`Undisturbed`) has its branch
checked out, or is detached where no command that needs a branch succeeds, and
after a pull that worked the branch has what was due: without this nothing ties
the commit that `rev-parse` prints to the branch the request named. Assumption:
`PullConstantsOK`.

`TerminalExecProofs` proves `TypeOK`, `OutputIsPrefix` and `ExitAfterOutput` for
outputs and pipes of any size. The inductive invariant says of the child that
over the WebSocket it does not end before it has written what it planned, while
somebody reads its pipes; of the copiers that each is where `pc` needs it, and
of bash that it is waited for before the handler goes on, though its children
may live; of the counts that, as long as no two writes have overlapped, a stream
shows what was taken, less the chunk being written; and of the end that a code
is told only after both copiers have seen the end of their pipes. `NeverStuck`
adds `Waits`: `streamCmd` waits for a bash that was started, and over the
WebSocket no copier is done before the command is, unless its write failed. With
the counts it follows that a full pipe has a copier to empty it and an empty one
somebody who writes to it or has ended.

`TerminalWSProofs` proves `TypeOK`, and `ResponsiveKept` for all timings and all
clients, patient or not: the invariant follows a ping to come, or a pong on its
way, and says that what the deadline has lost since it moved is at most the time
commands have run plus the ping period. It also proves `DroppedInTime`
for patient clients and all timings: a session
outlasts its client by at most `ReadDeadline + MaxRun`. The invariant is
`InTime`: the time gone by, what the commands sent may still take (`Owed`) and the
one more deadline that a pong in the queue is worth (`Renewal`) stay within that,
and so do the time gone by and the deadline.

`ServerProofs` proves everything the run `Server` checks but liveness, for any
folders, relative paths, changes, calls, entries, limits and chunks, without the
restrictions of `MCServer`. Its invariant: the folder a client shows is the one its
session would run in, and what it would go back to is `prev` (`Placed`), from which
`CdObeyed` follows where `cd` is the Session's and the folder is there; without
an error or change since it connected the root is where the app is (`Steady`);
what calls hold is a saved entry, and what they answer comes from the body
(`SoundCalls`); an ended process serves nothing (`Process`). Assumptions: those on
the constants.

`FileOpsProofs` proves all that the run `FileOps` checks, `TypeOK`,
`SuccessIsDone` and `Confined`, for any tree, links, shell, folder, paths,
contents and number of calls. The invariant, besides the types: a call works on
what it was asked for (`Requests`); the tree has a folder for whatever
is in it (`Tree`); an open write has its file (`Opened`); and a write that nobody
came near has it truncated, at the place its path leads to (`Filling`), which is
what makes its success mean that all of it is there. `RealFacts` and `EntryFacts`
say where a path leads through links, `Elsewhere` that who is not noted as
disturbed finds everything above and below its target, and where it leads, as it
was, and `DeleteKeepsWay` that a deletion leaves the way to what it deletes.
`ConfinedStep` is the argument for `Confined`: a call that is not diverted works
under its target, and that is under the app's folder. Assumption:
`FileConstantsOK`, among it that a path stays one when it is cleaned or read by
the shell, which the prover cannot see since `Clean` folds over the path, and that
there is one link on a way at most; TLC evaluates it on the instance.

Only model-checked: liveness (`EveryCallAnswered`, `Converges`,
`CommandAnswered`, `LeaverFreed`, `GoneIsDropped`, `NoPingerLeft`,
`DeletedIsDead`, `StopEnds`), which is beyond the prover. Of three
of them the part that needs no fairness is proved: that nobody waits for ever
because everybody waits (`NeverStuck`, of `EveryCallAnswered` and of
`CommandAnswered` with `LeaverFreed`), and a bound in time (`DroppedInTime`, of
`GoneIsDropped`). What TLC adds is that whoever can go on does, and that there
are only so many steps. The conditions `CanGoOn` and `MustEnd`, `...Moves` are
written out as state predicates because ENABLED too is beyond the prover.

## Not modelled

* Configuration, response envelopes and user lookups keep no state of their own;
  schema and seed appear as initial states.
* Docker's `ComposeInfo` and `HostBinds`, and the services `main.go` names
  besides those above, are not in the repository.
* The demultiplexer of Docker's streams (`client.go:198`: it stops at a short
  frame), `splitGitArgs` and the parsing of `pm2 jlist` are sequential functions
  of one input: unit tests decide them, no interleaving does.
* Git's `Status` and `Branches` only read. The summary of a pull is text:
  `OldCommit` is read before the checkout (`git_service.go:145`), so that it may
  count commits between two branches. Git's output is left out too; its stdout
  and stderr go to one `bytes.Buffer` and one event writer without a lock
  (line 208), the race that `TerminalExec` has. A branch argument that git reads
  as a path or an option is not one of `Offered`.
* `rows.Err()` is not asked for after the names are read
  (`app_repository.go:85`). What breaks such a read off, the connection or the
  request's context, ends the transaction with it, as `BreaksOff` and
  `StatementFails` have it; a driver that goes on is not modelled.
* That `exec` frames wait behind a running command and cancel nothing, against
  the comment at `terminal_handler.go:285`, is the shape of `TerminalWS`; no
  property would add to it.
* In a container the folder of a path with blanks is split into words
  (`$(dirname ...)`, unquoted): `Shell` makes one path of a path. Chains and
  circles of links: `FileConstantsOK` allows one on a way.
* Access control: the models are of clients who may do what they do.
  `TokenAccess` has the lists of apps because they age.
* `TerminalExec`, `TerminalWS` and `TerminalSession` describe one connection
  from three sides and are not composed: the first knows no time, the second no
  output, the third neither. Their product would say nothing that one of them
  does not, for they meet in one place: while a command runs, the loop reads no
  frame.

## What is left

In order of use: an abstract terminal, one shell that lasts, and a proof that
`TerminalSession` implements it over both transports but for the exceptions of
`RunsWhereShown`; a third daemon state for `AppControl`, a container that is
there and stopped; users' edits of the same file in the editor, which reads,
waits, and writes back; a run of its own for what `src/README.md:23` says of
links, and one for `cd ~`.
