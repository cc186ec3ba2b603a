------------------------------ MODULE TerminalWS ------------------------------
(***************************************************************************)
(* The life of a terminal WebSocket (handleWS): one loop reads a frame and *)
(* runs its command to the end before it reads the next, another goroutine *)
(* sends pings, and the read deadline moves when the loop reads a pong.    *)
(*                                                                         *)
(* Time passes in ticks; what the server, and a client that answers, do at *)
(* once takes none.  Commands are as long as they like: TerminalExec says  *)
(* what happens inside one.  gorilla/websocket is external: a read takes   *)
(* what the socket holds into a buffer, and only then does the deadline    *)
(* bear on it.                                                             *)
(***************************************************************************)
EXTENDS Naturals, Sequences

CONSTANTS
  PingPeriod,     \* ticks between two pings
  ReadDeadline,   \* ticks without a pong after which a read fails
  MaxRun,         \* the longest command that ends, in ticks
  Endless,        \* whether commands that do not end are run
  Patient,        \* whether clients send exec only after the last exit frame
  MaxFrames       \* bound on the frames of the client, pongs aside

ASSUME WSConstantsOK ==
  /\ PingPeriod \in Nat \ {0} /\ ReadDeadline \in Nat \ {0}
  /\ MaxRun \in Nat /\ MaxFrames \in Nat /\ Endless \in BOOLEAN
  /\ Patient \in BOOLEAN

Forever == MaxRun + 1

VARIABLES
  loop,       \* the main loop: "read", "run", or "closed" when it returned
  left,       \* ticks the running command still takes
  buffer,     \* frames in the connection's read buffer
  inbox,      \* frames on their way, or in the socket
  deadline,   \* ticks until the read deadline
  pinger,     \* the goroutine with the ticker
  pingIn,     \* ticks until its next ping
  execDone,   \* the channel that stops it is closed
  peer,       \* the client: "here", "silent" (half-open) or "left"
  pongDue,    \* a ping the client has not answered yet
  overdue,    \* history: the loop has returned because the deadline passed
  busy,       \* history: ticks that commands ran since the deadline moved
  goneFor,    \* history: ticks since the client has gone
  frames      \* how many frames the client has sent

input == <<buffer, inbox, pongDue, peer, frames>>
ping  == <<pinger, pingIn>>
history == <<overdue, busy, goneFor>>
vars  == <<loop, left, buffer, inbox, deadline, pinger, pingIn, execDone, peer,
           pongDue, overdue, busy, goneFor, frames>>

Frame == {"exec", "other", "close", "pong"}

Init ==
  /\ loop = "read" /\ left = 0 /\ buffer = <<>> /\ inbox = <<>>
  /\ deadline = ReadDeadline
  /\ pinger = "on" /\ pingIn = PingPeriod /\ execDone = FALSE
  /\ peer = "here" /\ pongDue = FALSE /\ frames = 0
  /\ overdue = FALSE /\ busy = 0 /\ goneFor = 0
-----------------------------------------------------------------------------
ExecWaits(q) == \E i \in DOMAIN q : q[i] = "exec"

(* The client.  Every frame it may send, json or not, that is neither exec *)
(* nor close gets one frame back and changes nothing: "other".             *)
Send(f) ==
  /\ peer = "here" /\ frames < MaxFrames
  /\ Patient /\ f = "exec" =>
       loop # "run" /\ ~ExecWaits(buffer) /\ ~ExecWaits(inbox)
  /\ inbox' = Append(inbox, f)
  /\ frames' = frames + 1
  /\ UNCHANGED <<loop, left, buffer, deadline, ping, execDone, peer, pongDue,
                 history>>

(* Two pongs in a row do what one does: inbox keeps one of them.           *)
Pong ==
  /\ peer = "here" /\ pongDue
  /\ inbox' = IF inbox # <<>> /\ inbox[Len(inbox)] = "pong" THEN inbox
              ELSE Append(inbox, "pong")
  /\ pongDue' = FALSE
  /\ UNCHANGED <<loop, left, buffer, deadline, ping, execDone, peer, history,
                 frames>>

Goes(how) ==
  /\ peer = "here" /\ peer' = how
  /\ UNCHANGED <<loop, left, buffer, inbox, deadline, ping, execDone, pongDue,
                 history, frames>>
-----------------------------------------------------------------------------
(* The main loop.                                                          *)

Fill ==
  /\ loop = "read" /\ buffer = <<>> /\ inbox # <<>> /\ deadline > 0
  /\ buffer' = inbox /\ inbox' = <<>>
  /\ UNCHANGED <<loop, left, deadline, ping, execDone, peer, pongDue, history,
                 frames>>

Reads(f) ==
  /\ loop = "read" /\ buffer # <<>> /\ Head(buffer) = f
  /\ buffer' = Tail(buffer)
  /\ UNCHANGED <<inbox, peer, pongDue, overdue, goneFor, frames>>

(* Mutant: the pong handler does not move the deadline.                    *)
ReadPongIgnored ==
  Reads("pong") /\ UNCHANGED <<loop, left, deadline, ping, execDone, busy>>

ReadPong ==
  /\ Reads("pong")
  /\ deadline' = ReadDeadline /\ busy' = 0
  /\ UNCHANGED <<loop, left, ping, execDone>>

ReadOther ==
  Reads("other") /\ UNCHANGED <<loop, left, deadline, ping, execDone, busy>>

(* runCommand, which returns when the command has ended.                   *)
ReadExec ==
  /\ Reads("exec")
  /\ loop' = "run"
  /\ left' \in (0 .. MaxRun) \cup (IF Endless THEN {Forever} ELSE {})
  /\ UNCHANGED <<deadline, ping, execDone, busy>>

(* Mutant: runCommand does not wait for its goroutine.                     *)
CommandEndsEarly ==
  /\ loop = "run"
  /\ loop' = "read"
  /\ UNCHANGED <<left, input, deadline, ping, execDone, history>>

CommandEnds ==
  /\ loop = "run" /\ left = 0
  /\ loop' = "read"
  /\ UNCHANGED <<left, input, deadline, ping, execDone, history>>

(* Mutant: the close frame ends the loop and leaves the channel open.      *)
ReadCloseOpen ==
  /\ Reads("close")
  /\ loop' = "closed"
  /\ UNCHANGED <<left, deadline, ping, execDone, busy>>

ReadClose ==
  /\ Reads("close")
  /\ loop' = "closed" /\ execDone' = TRUE
  /\ UNCHANGED <<left, deadline, ping, busy>>

(* The deadline has passed, whatever the socket holds; or the client has   *)
(* closed the connection and all it sent is read.                          *)
ReadFails ==
  /\ loop = "read" /\ buffer = <<>>
  /\ deadline = 0 \/ (inbox = <<>> /\ peer = "left")
  /\ loop' = "closed" /\ execDone' = TRUE
  /\ overdue' = (deadline = 0)
  /\ UNCHANGED <<left, input, deadline, ping, busy, goneFor>>
-----------------------------------------------------------------------------
(* The ping goroutine.                                                     *)

(* Mutant: the deadline moves when a ping is sent.                         *)
SendPingExtends ==
  /\ pinger = "on" /\ pingIn = 0
  /\ pingIn' = PingPeriod
  /\ pongDue' = (peer = "here")
  /\ deadline' = ReadDeadline
  /\ UNCHANGED <<loop, left, buffer, inbox, pinger, execDone, peer, history,
                 frames>>

SendPing ==
  /\ pinger = "on" /\ pingIn = 0
  /\ pingIn' = PingPeriod
  /\ pongDue' = (peer = "here" /\ loop # "closed")
  /\ UNCHANGED <<loop, left, buffer, inbox, deadline, pinger, execDone, peer,
                 history, frames>>

StopPinger ==
  /\ pinger = "on" /\ execDone
  /\ pinger' = "off"
  /\ UNCHANGED <<loop, left, input, deadline, pingIn, execDone, history>>
-----------------------------------------------------------------------------
(* Nothing that happens at once is still to happen.                        *)
Quiet ==
  /\ ~(peer = "here" /\ pongDue)
  /\ loop = "read" => /\ buffer = <<>> /\ inbox = <<>>
                      /\ deadline > 0 /\ peer # "left"
  /\ ~(loop = "run" /\ left = 0)
  /\ pinger = "on" => pingIn > 0 /\ ~execDone

(* What a client's session may outlast the client: 60 s and a command.     *)
DropTime == ReadDeadline + MaxRun

Less(n) == IF n = 0 THEN 0 ELSE n - 1

Tick ==
  /\ Quiet /\ loop # "closed"
  /\ left' = IF left = Forever THEN left ELSE Less(left)
  /\ deadline' = Less(deadline)
  /\ pingIn' = Less(pingIn)
  /\ busy' = IF loop = "run" /\ busy < ReadDeadline THEN busy + 1 ELSE busy
  /\ goneFor' = IF peer = "here" \/ goneFor > DropTime THEN goneFor
                ELSE goneFor + 1
  /\ UNCHANGED <<loop, input, pinger, execDone, overdue>>

Loop == \/ Fill \/ ReadPong \/ ReadOther \/ ReadExec \/ CommandEnds
        \/ ReadClose \/ ReadFails

Pinger == SendPing \/ StopPinger

Next ==
  \/ \E f \in Frame \ {"pong"} : Send(f)
  \/ Pong \/ \E how \in {"silent", "left"} : Goes(how)
  \/ Loop \/ Pinger \/ Tick

Spec == Init /\ [][Next]_vars

(* Goroutines that can run do, and time passes.                            *)
FairSpec ==
  Spec /\ WF_vars(Loop) /\ WF_vars(SendPing) /\ WF_vars(StopPinger)
       /\ WF_vars(Tick) /\ WF_vars(Pong)
-----------------------------------------------------------------------------
(* The types; and the loop waits for a command only while one runs, whose  *)
(* end is not behind it.                                                   *)
TypeOK ==
  /\ loop \in {"read", "run", "closed"} /\ left \in 0 .. Forever
  /\ buffer \in Seq(Frame) /\ inbox \in Seq(Frame)
  /\ deadline \in 0 .. ReadDeadline
  /\ pinger \in {"on", "off"} /\ pingIn \in 0 .. PingPeriod
  /\ execDone \in BOOLEAN /\ pongDue \in BOOLEAN /\ overdue \in BOOLEAN
  /\ busy \in 0 .. ReadDeadline /\ goneFor \in 0 .. DropTime + 1
  /\ peer \in {"here", "silent", "left"} /\ frames \in 0 .. MaxFrames
  /\ loop # "run" => left = 0
  /\ pinger = "off" => execDone

(* The loop reads no pong while a command runs, so a client that answers   *)
(* every ping may lose its session all the same; but only to commands that *)
(* held the loop, with no pong read in between, for the deadline less one  *)
(* ping period: pings, pongs and commands in any order cost it no tick     *)
(* more.                                                                   *)
ResponsiveKept ==
  overdue /\ peer = "here" => busy + PingPeriod >= ReadDeadline

(* handleWS: a "reader goroutine to enforce read deadline / pong, but main *)
(* loop drives exec".  It would end the session of a client that does not  *)
(* answer pings, and of no other.                                          *)
OnlySilentDropped == overdue => peer # "here"

(* A client that is gone, with or without a word, is dropped in time: a    *)
(* pong it has left behind a running command moves the deadline once more, *)
(* and nothing else does.                                                  *)
DroppedInTime ==
  loop = "closed" \/ (loop = "run" /\ left = Forever) \/ goneFor <= DropTime

(* A client that is gone, with or without a word, does not keep its        *)
(* session: it ends, unless it waits for a command that does not.          *)
GoneIsDropped ==
  peer # "here" ~> loop = "closed" \/ (loop = "run" /\ left = Forever)

(* No way out of the loop leaves the ping goroutine behind.                *)
NoPingerLeft == loop = "closed" ~> pinger = "off"
=============================================================================
