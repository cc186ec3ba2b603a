----------------------------- MODULE TerminalExec -----------------------------
(***************************************************************************)
(* One command of a terminal client: runCommand or handleRESTExec starts   *)
(* bash (ExecHost, streamCmd), two goroutines copy its pipes to the client *)
(* through one writer, and the exit code follows when both are done.       *)
(*                                                                         *)
(* External: the OS pipes, os/exec, io.Copy, and what the writers' clients *)
(* allow.  gorilla/websocket and http.ResponseWriter both want one writer  *)
(* at a time: they build a message in a buffer of the connection without a *)
(* lock.  When two overlap a message may be lost with an error, garbled or *)
(* lost without one, with those after it on the connection, whose frames   *)
(* are out of step; or the package panics in a goroutine nobody recovers.  *)
(***************************************************************************)
EXTENDS Naturals, Sequences

CONSTANTS
  Transports,  \* "ws": handleWS; "sse": handleRESTExec
  Loud,        \* the streams the commands write something on
  MaxChunks,   \* bound on what one command writes, in reads of io.Copy
  Capacity,    \* what a pipe holds
  MaxCmds      \* bound on the commands

ASSUME ExecConstantsOK ==
  /\ Transports \subseteq {"ws", "sse"} /\ Loud \subseteq {"stdout", "stderr"}
  /\ MaxChunks \in Nat /\ MaxCmds \in Nat /\ Capacity \in Nat \ {0}

Streams == {"stdout", "stderr"}

VARIABLES
  transport, \* how the client runs its commands
  pc,        \* the goroutine that runs streamCmd, and the handler behind it
  proc,      \* bash
  kind,      \* what bash does with the command: see Exec
  alive,     \* a process of the command holds the write ends of the pipes
  plan,      \* how many chunks the command writes on each stream
  made,      \* how many it has written
  turn,      \* the stream it writes next
  taken,     \* how many of the chunks the copier has read
  copier,    \* the two io.Copy goroutines
  clash,     \* the streams whose current write overlapped another
  mixed,     \* writes have overlapped on this connection, or in this response
  shown,     \* history: the chunks the client got, by number
  failed,    \* history: the streams whose writer reported a failed write
  told,      \* history: the client got the exit code
  sendErr,   \* the connection has failed a write, and fails all from then on
  peer,      \* the client: "here", "stalled" (it reads no more, and the
             \* socket is full) or "gone"
  up,        \* the server
  cmds       \* commands so far

child  == <<kind, alive, plan, made, turn>>
client == <<shown, failed, told, sendErr>>
world  == <<transport, peer, up, cmds>>
writes == <<clash, mixed>>
vars   == <<transport, pc, proc, kind, alive, plan, made, turn, taken, copier,
            clash, mixed, shown, failed, told, sendErr, peer, up, cmds>>

Init ==
  /\ transport \in Transports
  /\ pc = "idle" /\ proc = "none"
  /\ kind = "direct" /\ alive = FALSE /\ turn = "none"
  /\ plan = [s \in Streams |-> 0] /\ made = [s \in Streams |-> 0]
  /\ taken = [s \in Streams |-> 0]
  /\ copier = [s \in Streams |-> "off"] /\ clash = {} /\ mixed = FALSE
  /\ shown = [s \in Streams |-> <<>>] /\ failed = {} /\ told = FALSE
  /\ sendErr = FALSE /\ peer = "here" /\ up = TRUE /\ cmds = 0
-----------------------------------------------------------------------------
Owing(p, m) == {s \in Streams : m[s] < p[s]}

(* The stream to write next, given what is planned and what is written.    *)
Turn(p, m) == IF Owing(p, m) = {} THEN {"none"} ELSE Owing(p, m)

(* An exec frame or request.                                               *)
Accept ==
  /\ up /\ peer = "here" /\ pc = "idle" /\ cmds < MaxCmds
  /\ cmds' = cmds + 1
  /\ made' = [s \in Streams |-> 0] /\ taken' = [s \in Streams |-> 0]
  /\ shown' = [s \in Streams |-> <<>>] /\ failed' = {} /\ told' = FALSE
  /\ mixed' = (mixed /\ transport = "ws")
  /\ UNCHANGED <<transport, clash, sendErr, peer, up>>

(* streamCmd: Start, and the copiers.  bash becomes the command ("direct", *)
(* exec of a last command), waits for it, or leaves it in the background   *)
(* (which only the general terminal accepts).                              *)
Exec ==
  /\ Accept
  /\ kind' \in {"direct", "child", "background"}
  /\ plan' \in {p \in [Streams -> 0 .. MaxChunks] :
                 /\ \A s \in Streams \ Loud : p[s] = 0
                 /\ p["stdout"] + p["stderr"] <= MaxChunks}
  /\ turn' \in Turn(plan', made')
  /\ alive' = TRUE
  /\ proc' = "running" /\ pc' = "copying"
  /\ copier' = [s \in Streams |-> "reading"]

(* The command is refused (validateCmd), or Start fails.                   *)
ExecFails ==
  /\ Accept
  /\ pc' = "answering"
  /\ plan' = [s \in Streams |-> 0] /\ turn' = "none"
  /\ UNCHANGED <<proc, kind, alive, copier>>
-----------------------------------------------------------------------------
(* The command writes one chunk after the other, on whichever stream: on a *)
(* full pipe it blocks.                                                    *)
Write(s) ==
  /\ up /\ alive /\ proc # "none" /\ turn = s /\ made[s] - taken[s] < Capacity
  /\ made' = [made EXCEPT ![s] = @ + 1]
  /\ turn' \in Turn(plan, made')
  /\ UNCHANGED <<pc, proc, kind, alive, plan, taken, copier, writes, client,
                 world>>

(* ... and dies of SIGPIPE when nobody has the read end any more.          *)
CommandEnds ==
  /\ up /\ alive
  /\ turn = "none" \/ proc = "none"
  /\ alive' = FALSE
  /\ UNCHANGED <<pc, proc, kind, plan, made, turn, taken, copier, writes,
                 client, world>>

Exit ==
  /\ up /\ proc = "running"
  /\ kind = "background" \/ ~alive
  /\ proc' = "exited"
  /\ UNCHANGED <<pc, child, taken, copier, writes, client, world>>

(* Mutant: the command does not run under the context of the request.      *)
KilledNever == FALSE /\ UNCHANGED vars

(* exec.CommandContext kills bash, and only bash, when the context ends.   *)
(* Nothing ends the context of a hijacked connection while its handler     *)
(* runs; that of a plain request ends when the client leaves.              *)
Killed ==
  /\ up /\ proc = "running" /\ transport = "sse" /\ peer = "gone"
  /\ proc' = "exited"
  /\ alive' = (alive /\ kind # "direct")
  /\ UNCHANGED <<pc, kind, plan, made, turn, taken, copier, writes, client,
                 world>>
-----------------------------------------------------------------------------
(* io.Copy(w, pipe).                                                       *)

Busy == {s \in Streams : copier[s] = "writing"}

(* Mutant: one goroutine copies stdout, then stderr.                       *)
TakeInTurn(s) ==
  /\ up /\ copier[s] = "reading" /\ taken[s] < made[s]
  /\ s = "stdout" \/ copier["stdout"] = "done"
  /\ taken' = [taken EXCEPT ![s] = @ + 1]
  /\ copier' = [copier EXCEPT ![s] = "writing"]
  /\ UNCHANGED <<pc, proc, child, writes, client, world>>

(* A read returns, and the writer is called.                               *)
Take(s) ==
  /\ up /\ copier[s] = "reading" /\ taken[s] < made[s]
  /\ taken' = [taken EXCEPT ![s] = @ + 1]
  /\ copier' = [copier EXCEPT ![s] = "writing"]
  /\ clash' = IF Busy = {} THEN clash ELSE clash \cup Busy \cup {s}
  /\ mixed' = (mixed \/ Busy # {})
  /\ UNCHANGED <<pc, proc, child, client, world>>

Eof(s) ==
  /\ up /\ copier[s] = "reading" /\ taken[s] = made[s]
  /\ ~alive /\ proc # "running"
  /\ copier' = [copier EXCEPT ![s] = "done"]
  /\ UNCHANGED <<pc, proc, child, taken, writes, client, world>>

(* A write, with no deadline, returns when the socket takes it.            *)
Returned(s) ==
  /\ up /\ copier[s] = "writing" /\ peer # "stalled"
  /\ clash' = clash \ {s}
  /\ UNCHANGED <<pc, proc, child, taken, mixed, told, world>>

(* Mutant: wsWriter.Write returns the length of its frame, too.            *)
AfterWriteStops == "done"

(* wsWriter.Write returns len(p).  termSSEWriter.Write returns the length  *)
(* of the whole event, which io.Copy takes for an invalid write: it stops. *)
AfterWrite == IF transport = "ws" THEN "reading" ELSE "done"

Garbled == 0

(* What reaches a client of a message that was written without an error.   *)
Arrives(s) ==
  {<<taken[s]>>} \cup (IF mixed THEN {<<>>, <<Garbled>>} ELSE {})

Shows(s) ==
  IF peer = "gone" THEN {shown}
  ELSE {[shown EXCEPT ![s] = @ \o chunk] : chunk \in Arrives(s)}

(* Mutant: the writer drops the chunk of a client that reads nothing.      *)
SentOrDropped(s) ==
  /\ up /\ copier[s] = "writing" /\ ~sendErr
  /\ clash' = clash \ {s}
  /\ IF peer = "stalled" THEN shown' = shown ELSE shown' \in Shows(s)
  /\ copier' = [copier EXCEPT ![s] = AfterWrite]
  /\ UNCHANGED <<pc, proc, child, taken, mixed, told, world, failed, sendErr>>

Sent(s) ==
  /\ Returned(s) /\ ~sendErr
  /\ shown' \in Shows(s)
  /\ copier' = [copier EXCEPT ![s] = AfterWrite]
  /\ UNCHANGED <<failed, sendErr>>

(* The connection is broken, or the other stream's message cut this one.   *)
SendFails(s) ==
  /\ Returned(s)
  /\ sendErr \/ peer = "gone" \/ s \in clash
  /\ failed' = failed \cup {s}
  /\ copier' = [copier EXCEPT ![s] = "done"]
  /\ sendErr' = (sendErr \/ peer = "gone")
  /\ UNCHANGED shown

Panic(s) ==
  /\ up /\ copier[s] = "writing" /\ s \in clash
  /\ up' = FALSE
  /\ UNCHANGED <<pc, proc, child, taken, copier, writes, client, transport, peer,
                 cmds>>
-----------------------------------------------------------------------------
(* Mutant: the code is taken without cmd.Wait.                             *)
BothDoneNoWait ==
  /\ up /\ pc = "copying" /\ \A s \in Streams : copier[s] = "done"
  /\ pc' = "answering"
  /\ UNCHANGED <<proc, child, taken, copier, writes, client, world>>

(* Mutant: one receive from the channel both copiers report to.            *)
BothDoneOnce ==
  /\ up /\ pc = "copying" /\ \E s \in Streams : copier[s] = "done"
  /\ pc' = "waiting"
  /\ UNCHANGED <<proc, child, taken, copier, writes, client, world>>

BothDone ==
  /\ up /\ pc = "copying" /\ \A s \in Streams : copier[s] = "done"
  /\ pc' = "waiting"
  /\ UNCHANGED <<proc, child, taken, copier, writes, client, world>>

(* cmd.Wait returns: bash is reaped and the read ends are closed.  What    *)
(* bash has left behind lives on.                                          *)
Reap ==
  /\ up /\ pc = "waiting" /\ proc = "exited"
  /\ proc' = "none" /\ pc' = "answering"
  /\ UNCHANGED <<child, taken, copier, writes, client, world>>

(* The cwd and exit frames.                                                *)
Answer ==
  /\ up /\ pc = "answering" /\ peer # "stalled"
  /\ pc' = "idle"
  /\ told' = (peer = "here" /\ ~sendErr)
  /\ UNCHANGED <<proc, child, taken, copier, writes, shown, failed, sendErr,
                 world>>

Client ==
  /\ peer # "gone" /\ peer' \in {"here", "stalled", "gone"} \ {peer}
  /\ UNCHANGED <<pc, proc, child, taken, copier, writes, client, transport, up,
                 cmds>>
-----------------------------------------------------------------------------
Server ==
  \/ \E s \in Streams : Take(s) \/ Eof(s) \/ Sent(s) \/ SendFails(s) \/ Panic(s)
  \/ BothDone \/ Reap \/ Answer \/ Killed

Command == Exit \/ CommandEnds \/ \E s \in Streams : Write(s)

Next == Exec \/ ExecFails \/ Server \/ Command \/ Client
Stay == Exec \/ ExecFails \/ Server \/ Command

Spec == Init /\ [][Next]_vars

(* The same with a client that stays.                                      *)
StaySpec == Init /\ [][Stay]_vars

(* Goroutines that can run do, and so does a command that is not blocked   *)
(* on a full pipe.                                                         *)
Progress ==
  /\ \A s \in Streams :
       WF_vars(Take(s) \/ Eof(s) \/ Sent(s) \/ SendFails(s) \/ Panic(s))
  /\ WF_vars(Command) /\ WF_vars(Killed)
  /\ WF_vars(BothDone \/ Reap \/ Answer)

FairSpec     == Spec /\ Progress
FairStaySpec == StaySpec /\ Progress
-----------------------------------------------------------------------------
(* The types, what the counters mean, and that no bash is left to be waited*)
(* for when its command is over.                                           *)
TypeOK ==
  /\ pc \in {"idle", "copying", "waiting", "answering"}
  /\ proc \in {"none", "running", "exited"}
  /\ plan \in [Streams -> 0 .. MaxChunks]
  /\ made \in [Streams -> 0 .. MaxChunks]
  /\ taken \in [Streams -> 0 .. MaxChunks]
  /\ kind \in {"direct", "child", "background"} /\ alive \in BOOLEAN
  /\ turn \in Streams \cup {"none"}
  /\ copier \in [Streams -> {"off", "reading", "writing", "done"}]
  /\ clash \subseteq Streams /\ failed \subseteq Streams /\ mixed \in BOOLEAN
  /\ shown \in [Streams -> Seq(0 .. MaxChunks)] /\ transport \in Transports
  /\ told \in BOOLEAN /\ sendErr \in BOOLEAN /\ up \in BOOLEAN
  /\ peer \in {"here", "stalled", "gone"} /\ cmds \in 0 .. MaxCmds
  /\ \A s \in Streams : /\ taken[s] <= made[s] /\ made[s] <= plan[s]
                        /\ made[s] - taken[s] <= Capacity
  /\ pc = "idle" => proc = "none"

(* What the client sees of a stream is the beginning of what the command   *)
(* wrote on it, without a gap, a repetition or a change of order, through  *)
(* full pipes, stalled clients, failed writes and commands before it; but  *)
(* nothing is promised once two writes have overlapped, which nothing in   *)
(* streamCmd prevents.                                                     *)
OutputIsPrefix ==
  ~mixed => \A s \in Streams : shown[s] = [i \in 1 .. Len(shown[s]) |-> i]

(* ExecHost: "Output is streamed to w.  Returns exit code".  A client of   *)
(* the WebSocket that is told the exit code has all the output of every    *)
(* stream no write of which failed, if none overlapped.  (A REST client    *)
(* has the first chunk.)                                                   *)
ExitAfterOutput ==
  told /\ transport = "ws" /\ ~mixed =>
    \A s \in Streams \ failed : Len(shown[s]) = plan[s]

(* Who can go on while the client reads or is gone: the command, bash, a   *)
(* copier, the handler.                                                    *)
CommandMoves == alive /\ (turn \in Streams => made[turn] - taken[turn] < Capacity)
BashMoves ==
  proc = "running" /\ (alive /\ kind # "background" =>
                        transport = "sse" /\ peer = "gone")
CopierMoves(s) ==
  \/ copier[s] = "writing"
  \/ copier[s] = "reading" /\ taken[s] < made[s]
  \/ copier[s] = "reading" /\ ~alive /\ proc # "running"
HandlerMoves ==
  \/ pc = "copying" /\ \A s \in Streams : copier[s] = "done"
  \/ pc = "waiting" /\ proc = "exited"
  \/ pc = "answering"

(* Over the WebSocket, or once a REST client has left.                     *)
MustEnd ==
  \/ transport = "ws" /\ failed = {}
  \/ transport = "sse" /\ peer = "gone" /\ kind = "direct"

(* The command, bash, the two copiers and the handler never all wait for   *)
(* each other: a full pipe has a copier that empties it, and an empty one  *)
(* somebody who writes to it or ends.                                      *)
NeverStuck ==
  up /\ pc # "idle" /\ peer # "stalled" /\ MustEnd =>
    CommandMoves \/ BashMoves \/ HandlerMoves \/ \E s \in Streams : CopierMoves(s)

(* ... and the exit code comes, whatever the command writes on which       *)
(* stream in which order, however full the pipes get and whatever the      *)
(* client left unread for a while, unless a write fails or it never reads  *)
(* again.                                                                  *)
CommandAnswered ==
  <>[](peer # "stalled") =>
    (pc = "copying" /\ transport = "ws" ~> pc = "idle" \/ failed # {} \/ ~up)

(* What the comment of ExecHost says without those exceptions.             *)
ExitCodeReturned == pc = "copying" ~> pc = "idle"

(* wsWriter "frames each Write as a stdout JSON message": no client that   *)
(* stays and no command can bring the server down with its output.         *)
EachWriteFramed == up

(* A REST client that leaves frees the goroutine of its request, however   *)
(* much the command still had to write, if bash has become the command.    *)
LeaverFreed ==
  peer = "gone" /\ transport = "sse" /\ kind = "direct" ~> pc = "idle" \/ ~up
=============================================================================
