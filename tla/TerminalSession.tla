--------------------------- MODULE TerminalSession ---------------------------
(***************************************************************************)
(* A terminal client and the folder it works in.  Over the WebSocket one   *)
(* Session serves all commands of a connection; over REST every request    *)
(* opens a Session of its own and is told by the client where it was.  The *)
(* general terminal follows cd; that of an app stays in the app's folder.  *)
(*                                                                         *)
(* What happens while a command runs is the business of TerminalExec, how  *)
(* long a connection lives that of TerminalWS.  External: the folders of   *)
(* the host, and where Docker and PM2 say that the app is.                 *)
(***************************************************************************)
EXTENDS Naturals

CONSTANTS
  Folders,     \* of the host
  Top,         \* "/"
  None,        \* no folder
  Names,       \* the relative paths clients give
  Joined,      \* Joined[d, n]: filepath.Join, None for what is never there
  MaxMoves     \* bound on the folders removed and made, and the deployments

Place == Folders \cup {None}

ASSUME SessionConstantsOK ==
  /\ Top \in Folders /\ None \notin Folders /\ Names \cap Folders = {}
  /\ Joined \in [Folders \X Names -> Place] /\ MaxMoves \in Nat

VARIABLES
  docker,      \* the server has a Docker client
  there,       \* the folders there are
  site,        \* the app's folder, as Docker and as PM2 would have it
  moves,       \* how often the two have changed
  mode, via,   \* "all", "label" or "app"; "ws" or "rest"
  at,          \* "off", "idle", "run" (bash runs) or "answer"
  root, cwd, prev,   \* the Session
  ranIn,       \* where bash was started
  cmd, code,   \* the command, and how it ended
  prompt,      \* the folder the client shows
  goal,        \* history: where the client wants its cd to take it
  adrift,      \* history: its cd is from a folder it shows and that is gone
  before,      \* history: what it showed before its last cd that went well
  strayed      \* history: since it connected, folders, app or lookups changed

host    == <<docker, there, site, moves>>
session == <<root, cwd, prev>>
memory  == <<goal, adrift, before>>
svars   == <<docker, there, site, moves, mode, via, at, root, cwd,
             prev, ranIn, cmd, code, prompt, goal, adrift, before, strayed>>

SessionInit ==
  /\ docker \in BOOLEAN /\ there = Folders /\ moves = 0
  /\ site \in [{"docker", "pm2"} -> Place]
  /\ mode \in {"all", "label", "app"} /\ via \in {"ws", "rest"}
  /\ at = "off" /\ root = None /\ cwd = None /\ prev = None /\ ranIn = None
  /\ cmd = "run" /\ code = "ok" /\ prompt = None
  /\ goal = None /\ adrift = FALSE /\ before = None /\ strayed = FALSE
-----------------------------------------------------------------------------
(* The host.                                                               *)

Changes ==
  /\ moves < MaxMoves /\ moves' = moves + 1
  /\ strayed' = (strayed \/ at # "off")
  /\ UNCHANGED <<docker, mode, via, at, session, ranIn, cmd, code, prompt,
                 memory>>

Remove(d) == d \in there \ {Top} /\ there' = there \ {d}
             /\ UNCHANGED site /\ Changes
Make(d)   == d \notin there /\ there' = there \cup {d}
             /\ UNCHANGED site /\ Changes
Deploy(by, d) == site' = [site EXCEPT ![by] = d] /\ site' # site
                 /\ UNCHANGED there /\ Changes
-----------------------------------------------------------------------------
(* TerminalService.Open: Docker's folder, if there is one; then PM2's,     *)
(* there or not.  Any error on the way to the first leads to the second.   *)
Lookups ==   \* those that fail
  {f \in SUBSET {"docker", "pm2"} : docker \/ "docker" \in f}

Amiss(failing) == "pm2" \in failing \/ (docker /\ "docker" \in failing)

Found(failing) ==
  IF "docker" \notin failing /\ site["docker"] \in there
  THEN {site["docker"]}
  ELSE IF "pm2" \in failing THEN {} ELSE {site["pm2"]} \ {None}

(* OpenGeneral: "/", or the folder of the app the client has named; PM2 is *)
(* also asked if Docker's is "/".                                          *)
Named(failing) ==
  LET byPm2 == Found(failing \cup {"docker"})
  IN  IF Found(failing) \ {Top} # {} THEN Found(failing)
      ELSE IF byPm2 = {} THEN {Top} ELSE byPm2

(* Mutant: no error if the app is not found.                               *)
RootsUnfound(failing) ==
  CASE mode = "app"   -> IF Found(failing) = {} THEN {None} ELSE Found(failing)
    [] mode = "label" -> Named(failing)
    [] mode = "all"   -> {Top}

Roots(failing) ==
  CASE mode = "app"   -> Found(failing)
    [] mode = "label" -> Named(failing)
    [] mode = "all"   -> {Top}

Session(r, c, v) == root' = r /\ cwd' = c /\ prev' = v

(* The ready frame.  A REST request keeps nothing of the Session.          *)
Connect ==
  /\ at = "off" /\ at' = "idle"
  /\ \E failing \in Lookups :
       /\ prompt' \in Roots(failing) /\ strayed' = Amiss(failing)
       /\ Session(IF via = "ws" THEN prompt' ELSE None, None, None)
  /\ UNCHANGED <<host, mode, via, ranIn, cmd, code, memory>>

(* The client leaves or loses its connection, and a WebSocket's Session is *)
(* gone, with the answer of a command under way.                           *)
Lose ==
  /\ at # "off" /\ at' = "off"
  /\ Session(None, None, None) /\ ranIn' = None /\ prompt' = None
  /\ goal' = None /\ adrift' = FALSE /\ before' = None
  /\ cmd' = "run" /\ code' = "ok" /\ strayed' = FALSE
  /\ UNCHANGED <<host, mode, via>>

(* A REST client loses an answer, and its next request knows of none.      *)
AnswerLost ==
  /\ at \in {"run", "answer"} /\ via = "rest" /\ at' = "idle"
  /\ Session(None, None, None) /\ ranIn' = None
  /\ UNCHANGED <<host, mode, via, cmd, code, prompt, memory, strayed>>

(* SetCwd: only a folder that is there.                                    *)
SetCwd(p) == IF p \in there THEN p ELSE None

(* The Session a command finds: that of the connection, or a new one.  A   *)
(* request whose app is not found is refused and changes nothing.          *)
Opened(r, c, v) ==
  \/ via = "ws" /\ r = root /\ c = cwd /\ v = prev /\ UNCHANGED strayed
  \/ /\ via = "rest" /\ c = SetCwd(prompt) /\ v = None
     /\ \E failing \in Lookups :
          r \in Roots(failing) /\ strayed' = (strayed \/ Amiss(failing))

(* CwdSaatIni, and where execGeneral works.                                *)
Here(r, c) == IF c = None THEN r ELSE c

Takes(what, wanted, far) ==
  /\ at = "idle"
  /\ cmd' = what /\ goal' = wanted /\ adrift' = far
  /\ UNCHANGED <<host, mode, via, prompt, before>>

(* ExecHost works in the root, execGeneral in the Session's folder.  The   *)
(* start fails if the folder is gone.  A cd is bash's to run in the        *)
(* terminal of an app, and where parseCd finds more than a plain folder:   *)
(* a quote, a blank escaped, an operator, and the tilde of "cd ~".  bash   *)
(* ends at once, wherever it has gone.                                     *)
Run(r, c, v, what) ==
  LET d == IF mode = "app" THEN r ELSE Here(r, c)
  IN  /\ Takes(what, None, FALSE) /\ Opened(r, c, v) /\ Session(r, c, v)
      /\ IF d \in there THEN at' = "run" /\ ranIn' = d /\ code' = "ok"
         ELSE at' = "answer" /\ code' = "err" /\ UNCHANGED ranIn

(* validateCmd, maxCmdLen.                                                 *)
Refuse(r, c, v) ==
  /\ Takes("run", None, FALSE) /\ Opened(r, c, v) /\ Session(r, c, v)
  /\ at' = "answer" /\ code' = "err" /\ UNCHANGED ranIn

Moved(to, from, how) ==
  /\ cwd' = to /\ prev' = from /\ code' = how
  /\ at' = "answer" /\ UNCHANGED ranIn

(* From dir, an absolute path or a relative one.                           *)
Leads(dir, t) == IF t \in Folders THEN t ELSE Joined[dir, t]

TakesCd(t) ==
  Takes("cd", Leads(prompt, t), t \notin Folders /\ prompt \notin there)

(* Mutant: the folder left is remembered before the stat.                  *)
CdEager(r, c, v, t) ==
  /\ mode # "app" /\ TakesCd(t) /\ Opened(r, c, v) /\ root' = r
  /\ LET next == Leads(Here(r, c), t)
     IN  IF next \in there THEN Moved(next, Here(r, c), "ok")
         ELSE Moved(c, Here(r, c), "failed")

(* The client means its path from the folder it shows, the code takes it   *)
(* from the Session's.  cd alone is one to "~" under it, which is not      *)
(* there.                                                                  *)
Cd(r, c, v, t) ==
  /\ mode # "app" /\ TakesCd(t) /\ Opened(r, c, v) /\ root' = r
  /\ LET next == Leads(Here(r, c), t)
     IN  IF next \in there THEN Moved(next, Here(r, c), "ok")
         ELSE Moved(c, v, "failed")

(* cd -: whether the folder is still there is not asked.                   *)
CdBack(r, c, v) ==
  /\ mode # "app" /\ Takes("cd", before, FALSE) /\ Opened(r, c, v) /\ root' = r
  /\ IF v = None THEN Moved(c, v, "failed") ELSE Moved(v, Here(r, c), "ok")

RunEnds ==
  /\ at = "run" /\ at' = "answer"
  /\ UNCHANGED <<host, mode, via, session, ranIn, cmd, code, prompt, memory,
                 strayed>>

(* The cwd frame.  Over the WebSocket there is none after an error.        *)
CwdFrame == IF via = "ws" /\ code = "err" THEN prompt ELSE Here(root, cwd)

(* A cd of the Session itself, not of bash, that answers 0.                *)
Arrived == cmd = "cd" /\ code = "ok" /\ ranIn = None

Replied(p) ==
  /\ at = "answer" /\ at' = "idle"
  /\ prompt' = p
  /\ before' = IF Arrived THEN prompt ELSE before
  /\ adrift' = FALSE
  /\ ranIn' = None
  /\ IF via = "ws" THEN UNCHANGED session ELSE Session(None, None, None)
  /\ UNCHANGED <<host, mode, via, cmd, code, goal, strayed>>

(* Mutant: the frame carries the root.                                     *)
AnswerRoot == Replied(root)

Answer == Replied(CwdFrame)

Command ==
  \E r, c, v \in Place :
    \/ \E what \in {"run", "cd"} : Run(r, c, v, what)
    \/ Refuse(r, c, v) \/ CdBack(r, c, v)
    \/ \E t \in Folders \cup Names : Cd(r, c, v, t)

Host ==
  \/ \E d \in Folders : Remove(d) \/ Make(d)
  \/ \E by \in {"docker", "pm2"}, d \in Place : Deploy(by, d)

SessionStep == RunEnds \/ Answer \/ AnswerLost \/ Lose

(* The process ends: what it served is lost, REST clients only wait.  The  *)
(* one that follows has a Docker client if the socket is there as it boots.*)
SessionExit ==
  \/ via = "ws" /\ Lose
  \/ AnswerLost
  \/ /\ at \in IF via = "ws" THEN {"off"} ELSE {"off", "idle"}
     /\ UNCHANGED svars

SessionBoot ==
  /\ docker' \in BOOLEAN
  /\ strayed' = (strayed \/ (at # "off" /\ docker' # docker))
  /\ UNCHANGED <<there, site, moves, mode, via, at, session, ranIn, cmd, code,
                 prompt, memory>>
-----------------------------------------------------------------------------
(* The types; and what serves a client has found it a folder.              *)
SessionTypeOK ==
  /\ docker \in BOOLEAN /\ moves \in 0 .. MaxMoves
  /\ there \subseteq Folders /\ Top \in there
  /\ site \in [{"docker", "pm2"} -> Place]
  /\ mode \in {"all", "label", "app"} /\ via \in {"ws", "rest"}
  /\ at \in {"off", "idle", "run", "answer"}
  /\ {root, cwd, prev, ranIn, prompt, goal, before} \subseteq Place
  /\ cmd \in {"run", "cd"} /\ code \in {"ok", "failed", "err"}
  /\ adrift \in BOOLEAN /\ strayed \in BOOLEAN
  /\ at # "off" => prompt # None
  /\ at \in {"run", "answer"} => root # None
  /\ at = "run" => ranIn # None

(* execGeneral: "perintah lain dijalankan di folder terakhir".  A command  *)
(* runs in the folder the client shows when it sends it, or not at all.    *)
(* Over REST there are two exceptions: a folder that has gone is replaced  *)
(* by the root, and the terminal of an app goes where the app is now.      *)
RunsWhereShown ==
  [][at = "idle" /\ at' = "run" =>
       \/ ranIn' = prompt
       \/ via = "rest" /\ IF mode = "app" THEN strayed' ELSE prompt \notin there]_svars

(* "Sesi MENGINGAT folder kerja": a cd that answers 0 has taken the client *)
(* where it wanted, from the folder it shows, and cd - to the folder it    *)
(* showed before its last such cd.  There are two exceptions: a cd that    *)
(* bash has run has moved nobody, and over REST a relative cd from a       *)
(* folder that has gone starts at the root.                                *)
CdObeyed ==
  [][Answer /\ cmd = "cd" /\ code = "ok" =>
       \/ prompt' = goal
       \/ ranIn # None
       \/ via = "rest" /\ adrift]_svars
=============================================================================
