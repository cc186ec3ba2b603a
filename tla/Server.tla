-------------------------------- MODULE Server --------------------------------
(***************************************************************************)
(* The process (cmd/server/main.go): it boots, serves terminals and calls  *)
(* to the AI provider, and on SIGTERM drains them.  Shutdown closes the    *)
(* listener at once and waits up to 10 s for the requests under way.  A    *)
(* WebSocket has been hijacked from the HTTP server and is not waited for: *)
(* it works on until the process ends.                                     *)
(*                                                                         *)
(* External: the signals, and net/http behind echo's Shutdown.             *)
(***************************************************************************)
EXTENDS TerminalSession, AiSettings

CONSTANT Uses      \* bound on the clients: which services they use at a time

ASSUME UsesOK == Uses \subseteq SUBSET {"terminal", "ai"}

VARIABLES
  life,     \* "up", "draining", "drained" or "cut" (down, both of them)
  use

avars == <<row, call>>
vars  == <<svars, avars, life, use>>

Init ==
  /\ SessionInit /\ AiInit
  /\ life = "up" /\ use \in Uses
-----------------------------------------------------------------------------
Up   == life = "up"
Runs == life \in {"up", "draining"}

(* A request is refused once the listener is closed.                       *)
Terminal ==
  /\ UNCHANGED <<avars, life, use>>
  /\ \/ "terminal" \in use /\ Host
     \/ "terminal" \in use /\ Up /\ Connect
     \/ (IF via = "ws" THEN Runs ELSE Up) /\ Command
     \/ Runs /\ SessionStep

Settings ==
  /\ UNCHANGED <<svars, life, use>>
  /\ \/ "ai" \in use /\ Up /\ \E c \in Calls : Arrive(c)
     \/ Runs /\ AiStep

Ended(how) ==
  /\ life' = how /\ UNCHANGED use
  /\ SessionExit /\ AiExit

Term == Up /\ life' = "draining" /\ UNCHANGED <<svars, avars, use>>

Waiting ==
  \/ via = "rest" /\ at \in {"run", "answer"}
  \/ \E c \in Calls : call[c].at \notin {"idle", "done"}

Drained == life = "draining" /\ ~Waiting /\ Ended("drained")

(* Mutant: Shutdown under a context without a deadline.                    *)
GraceForever == FALSE

(* The 10 s are over.                                                      *)
GraceOver == life = "draining" /\ Waiting /\ Ended("cut")

(* It is killed, or panics.                                                *)
Crash == Runs /\ Ended("cut")

(* EnsureTable leaves the table that is there as it is.                    *)
Boot == ~Runs /\ life' = "up" /\ SessionBoot /\ UNCHANGED <<avars, use>>

Next ==
  \/ Terminal \/ Settings
  \/ Term \/ Drained \/ GraceOver \/ Crash \/ Boot

(* main waits for Shutdown, Shutdown for its context.  Nothing makes a     *)
(* command end.                                                            *)
Fairness == WF_vars(Drained) /\ WF_vars(GraceOver)

Spec == Init /\ [][Next]_vars /\ Fairness
-----------------------------------------------------------------------------
(* The types, those of the parts and of the process.                       *)
TypeOK ==
  /\ SessionTypeOK /\ AiTypeOK
  /\ life \in {"up", "draining", "drained", "cut"} /\ use \in Uses
  /\ ~Runs => /\ at = "off" \/ (via = "rest" /\ at = "idle")
              /\ \A c \in Calls : call[c].at = "idle"

(* A stop ends, whatever is under way: an open terminal does not delay it  *)
(* and a command that runs on does for 10 s.                               *)
StopEnds == life = "draining" ~> ~Runs
=============================================================================
