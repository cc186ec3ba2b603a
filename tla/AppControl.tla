------------------------------ MODULE AppControl ------------------------------
(***************************************************************************)
(* POST /api/apps/action: start, stop or restart the app of a name, as the *)
(* client does that has just listed the apps.  The name is looked up anew  *)
(* in Docker's list; if it is there the container is acted on by its id,   *)
(* otherwise PM2 is asked to act on the name (AppService.DoAction).        *)
(***************************************************************************)
EXTENDS AppSync

CONSTANTS
  Viewer,      \* the client's request for the list
  Target       \* the app it acts on

ASSUME ControlConstantsOK == Viewer \in Reqs /\ Target \in Names

VARIABLES
  act,         \* "idle", "lookup", "docker" (its id known), "stale" (and the
               \* container gone since) or "pm2"
  shown,       \* the daemon of Target in the list the client was answered
  doubt        \* history: since it asked for the list Target has come or
               \* gone, or a listing or lookup has failed

cvars == <<vars, act, shown, doubt>>

ControlInit == Init /\ act = "idle" /\ shown = "none" /\ doubt = TRUE

Changed(S) == (Target \in S) # (Target \in S')

ShownIn(V) ==
  IF \E v \in V : v.name = Target
  THEN (CHOOSE v \in V : v.name = Target).src ELSE "none"

Starts  == pc[Viewer] = "idle" /\ pc'[Viewer] # "idle"
Answers == pc[Viewer] # "idle" /\ pc'[Viewer] = "idle"

(* What the list, and what happens on the host, mean for the client.  A    *)
(* sync that has failed does not keep it from its answer.                  *)
Listing ==
  /\ Next
  /\ Starts => act = "idle"
  /\ act' = IF act = "docker" /\ Changed(docker) THEN "stale" ELSE act
  /\ shown' = IF Answers THEN ShownIn(views[Viewer]) ELSE shown
  /\ doubt' = ((~Starts /\ doubt) \/ Changed(docker) \/ Changed(pm2)
                 \/ faults' # faults)

Goes(next) == act' = next /\ UNCHANGED <<vars, shown, doubt>>

Ask == act = "idle" /\ pc[Viewer] = "idle" /\ Goes("lookup")

(* Mutant: PM2 first.                                                      *)
LookupPm2First ==
  act = "lookup" /\ Goes(IF Target \in pm2 THEN "pm2" ELSE "docker")

Lookup ==
  act = "lookup" /\ Goes(IF Target \in docker THEN "docker" ELSE "pm2")

(* The error is only logged.  A server without Docker goes the same way,   *)
(* each time.                                                              *)
LookupFails ==
  /\ act = "lookup" /\ faults < MaxFaults
  /\ act' = "pm2" /\ faults' = faults + 1 /\ doubt' = TRUE
  /\ UNCHANGED <<docker, pm2, changes, tbl, pc, views, txvars, absent, shown>>

(* An id that is gone is an error, also if its name is there again.        *)
ActDocker == act = "docker" /\ Goes("idle")
ActPm2    == act = "pm2" /\ Target \in pm2 /\ Goes("idle")
ActFails  == act \in {"lookup", "docker", "stale", "pm2"} /\ Goes("idle")

ControlNext ==
  \/ Listing
  \/ Ask \/ Lookup \/ LookupFails \/ ActDocker \/ ActPm2 \/ ActFails

ControlSpec == ControlInit /\ [][ControlNext]_cvars
-----------------------------------------------------------------------------
(* "preferring Docker": an action that succeeds has hit the app the client *)
(* was shown, Docker's or PM2's where both have one of the name, unless    *)
(* the name came or went meanwhile or a listing or lookup failed.          *)
ActsOnShown ==
  [][/\ ActDocker => shown = "docker" \/ doubt
     /\ ActPm2 => shown = "pm2" \/ doubt]_cvars
=============================================================================
