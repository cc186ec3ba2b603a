----------------------------- MODULE ServerProofs -----------------------------
(***************************************************************************)
(* Theorems about Server and its two services, for any folders, calls,     *)
(* entries and bounds.                                                     *)
(***************************************************************************)
EXTENDS Server, TLAPS

(* The terminal.  A Session over the WebSocket and what its client shows   *)
(* and remembers tell the same, and a cd that went well has arrived.       *)
Agrees == prompt = Here(root, cwd) /\ prev = before

Placed ==
  /\ at = "off" => before = None
  /\ via = "ws" /\ at # "off" => root # None
  /\ via = "ws" /\ mode = "app" => cwd = None
  /\ via = "ws" /\ at \in {"idle", "run"} => Agrees
  /\ at \in {"off", "idle"} => ranIn = None
  /\ at = "answer" /\ Arrived =>
       Here(root, cwd) = goal \/ (via = "rest" /\ adrift)
  /\ via = "ws" /\ at = "answer" =>
       IF Arrived THEN prev = prompt ELSE Agrees

SessionInv == SessionTypeOK /\ Placed

LEMMA FoundIsFolder ==
  ASSUME SessionTypeOK, NEW f \in Lookups
  PROVE  Found(f) \subseteq Folders
  BY SessionConstantsOK DEF SessionTypeOK, Found, Place

LEMMA RootsAreFolders ==
  ASSUME SessionTypeOK, NEW f \in Lookups
  PROVE  Roots(f) \subseteq Folders
<1>1. f \cup {"docker"} \in Lookups
  BY DEF Lookups
<1>2. Named(f) \subseteq Folders
  BY <1>1, FoundIsFolder, SessionConstantsOK DEF Named
<1>3. Found(f) \subseteq Folders /\ {Top} \subseteq Folders
  BY FoundIsFolder, SessionConstantsOK
<1>4. mode = "app" \/ mode = "label" \/ mode = "all"
  BY DEF SessionTypeOK
<1>5. ASSUME mode = "app" PROVE Roots(f) = Found(f)
  BY <1>5 DEF Roots
<1>6. ASSUME mode = "label" PROVE Roots(f) = Named(f)
  BY <1>6 DEF Roots
<1>7. ASSUME mode = "all" PROVE Roots(f) = {Top}
  BY <1>7 DEF Roots
<1>8. QED
  BY <1>2, <1>3, <1>4, <1>5, <1>6, <1>7

LEMMA HostStep == SessionInv /\ Host => SessionInv'
<1> USE SessionConstantsOK
    DEF SessionInv, SessionTypeOK, Placed, Agrees, Arrived, Here, Changes,
        session, memory, Place
<1>0. Changes => strayed' \in BOOLEAN
  OBVIOUS
<1>1. ASSUME SessionInv, NEW d \in Folders, Remove(d) \/ Make(d)
      PROVE  SessionInv'
  <2>1. strayed' \in BOOLEAN
    BY <1>0, <1>1 DEF Remove, Make
  <2>2. there' \subseteq Folders /\ Top \in there' /\ site' = site
    BY <1>1 DEF Remove, Make
  <2>3. Changes
    BY <1>1 DEF Remove, Make
  <2>4. QED
    BY <1>1, <2>1, <2>2, <2>3
<1>2. ASSUME SessionInv, NEW by \in {"docker", "pm2"}, NEW d \in Place,
             Deploy(by, d)
      PROVE  SessionInv'
  BY <1>2 DEF Deploy
<1>3. QED
  BY <1>1, <1>2 DEF Host

LEMMA ConnectStep == SessionInv /\ Connect => SessionInv'
<1> SUFFICES ASSUME SessionInv, Connect PROVE SessionInv'
  OBVIOUS
<1>1. PICK f \in Lookups :
        /\ prompt' \in Roots(f) /\ strayed' = Amiss(f)
        /\ Session(IF via = "ws" THEN prompt' ELSE None, None, None)
  BY DEF Connect
<1>2. prompt' \in Folders
  BY <1>1, RootsAreFolders DEF SessionInv
<1>3. strayed' \in BOOLEAN
  BY <1>1 DEF Amiss
<1>4. /\ root' = (IF via = "ws" THEN prompt' ELSE None)
      /\ cwd' = None /\ prev' = None
  BY <1>1 DEF Session
<1>5. /\ at = "off" /\ at' = "idle"
      /\ UNCHANGED <<host, mode, via, ranIn, cmd, code, memory>>
  BY DEF Connect
<1>6. SessionTypeOK'
  BY <1>2, <1>3, <1>4, <1>5, SessionConstantsOK
     DEF SessionInv, SessionTypeOK, host, memory, Place
<1>7. Placed'
  BY <1>2, <1>4, <1>5, SessionConstantsOK
     DEF SessionInv, SessionTypeOK, Placed, Agrees, Here, memory
<1>8. QED
  BY <1>6, <1>7 DEF SessionInv

(* A command finds a Session with a root, that of its connection or one    *)
(* that agrees with its prompt unless the folder is gone.                  *)
LEMMA OpenedSession ==
  ASSUME SessionInv, at = "idle", NEW r \in Place, NEW c \in Place,
         NEW v \in Place, Opened(r, c, v)
  PROVE  /\ r \in Folders /\ strayed' \in BOOLEAN
         /\ via = "ws" => r = root /\ c = cwd /\ v = prev
         /\ via = "rest" => c = SetCwd(prompt) /\ v = None
<1>1. CASE via = "ws"
  BY <1>1 DEF Opened, SessionInv, SessionTypeOK, Placed, Place
<1>2. ASSUME via = "rest",
             NEW f \in Lookups, r \in Roots(f), strayed' = (strayed \/ Amiss(f))
      PROVE  r \in Folders /\ strayed' \in BOOLEAN
  BY <1>2, RootsAreFolders DEF SessionInv, Amiss, SessionTypeOK
<1>3. QED
  BY <1>1, <1>2 DEF Opened, SessionInv, SessionTypeOK
-----------------------------------------------------------------------------
(* From the folder shown, a relative path leads where the code goes.       *)
LEMMA LeadsPlace ==
  ASSUME NEW d \in Folders, NEW t \in Folders \cup Names
  PROVE  Leads(d, t) \in Place
  BY SessionConstantsOK DEF Leads, Place

LEMMA LeadsAlike ==
  ASSUME SessionInv, at = "idle", NEW r \in Place, NEW c \in Place,
         NEW v \in Place, Opened(r, c, v), NEW t \in Folders \cup Names,
         ~(via = "rest" /\ t \notin Folders /\ prompt \notin there)
  PROVE  Leads(Here(r, c), t) = Leads(prompt, t)
<1>1. CASE t \in Folders
  BY <1>1 DEF Leads
<1>2. CASE via = "ws"
  BY <1>2 DEF SessionInv, Placed, Agrees, Opened
<1>3. CASE via = "rest" /\ prompt \in there
  <2>1. c = prompt /\ prompt # None
    BY <1>3 DEF Opened, SetCwd, SessionInv, SessionTypeOK
  <2>2. QED
    BY <2>1 DEF Here
<1>4. QED
  BY <1>1, <1>2, <1>3 DEF SessionInv, SessionTypeOK

LEMMA CommandStep == SessionInv /\ Command => SessionInv'
<1> SUFFICES ASSUME SessionInv, Command PROVE SessionInv'
  OBVIOUS
<1>1. PICK r \in Place, c \in Place, v \in Place :
        \/ \E what \in {"run", "cd"} : Run(r, c, v, what)
        \/ Refuse(r, c, v) \/ CdBack(r, c, v)
        \/ \E t \in Folders \cup Names : Cd(r, c, v, t)
  BY DEF Command
<1>2. at = "idle" /\ Opened(r, c, v)
  BY <1>1 DEF Run, Refuse, CdBack, Cd, TakesCd, Takes
<1>3. /\ r \in Folders /\ strayed' \in BOOLEAN
      /\ via = "ws" => r = root /\ c = cwd /\ v = prev
      /\ via = "rest" => c = SetCwd(prompt) /\ v = None
  BY <1>2, OpenedSession
<1>4. ASSUME NEW what \in {"run", "cd"}, Run(r, c, v, what) PROVE SessionInv'
  BY <1>2, <1>3, <1>4, SessionConstantsOK
     DEF SessionInv, SessionTypeOK, Placed, Agrees, Arrived, Here, Takes, host,
         Place, Run, Session
<1>5. CASE Refuse(r, c, v)
  BY <1>2, <1>3, <1>5, SessionConstantsOK
     DEF SessionInv, SessionTypeOK, Placed, Agrees, Arrived, Here, Takes, host,
         Place, Refuse, Session
<1>6. CASE CdBack(r, c, v)
  BY <1>2, <1>3, <1>6, SessionConstantsOK
     DEF SessionInv, SessionTypeOK, Placed, Agrees, Arrived, Here, Takes, host,
         Place, CdBack, Moved
<1>7. ASSUME NEW t \in Folders \cup Names, Cd(r, c, v, t) PROVE SessionInv'
  <2> DEFINE next == Leads(Here(r, c), t)
             far == t \notin Folders /\ prompt \notin there
  <2>1. /\ mode # "app" /\ root' = r /\ cmd' = "cd"
        /\ goal' = Leads(prompt, t) /\ adrift' = far
        /\ at' = "answer" /\ UNCHANGED <<host, mode, via, prompt, before, ranIn>>
        /\ IF next \in there THEN cwd' = next /\ prev' = Here(r, c) /\ code' = "ok"
           ELSE cwd' = c /\ prev' = v /\ code' = "failed"
    BY <1>7 DEF Cd, TakesCd, Takes, Moved
  <2>2. prompt \in Folders /\ Here(r, c) \in Folders
    BY <1>2, <1>3, SessionConstantsOK DEF Here, SessionInv, SessionTypeOK, Place
  <2>3. goal' \in Place /\ next \in Place /\ adrift' \in BOOLEAN
    BY <2>1, <2>2, LeadsPlace
  <2>4. SessionTypeOK'
    BY <1>2, <1>3, <2>1, <2>2, <2>3, SessionConstantsOK
       DEF SessionInv, SessionTypeOK, host, Place
  <2>5. next = goal' \/ (via = "rest" /\ adrift')
    BY <1>2, <2>1, LeadsAlike
  <2>6. next \in there => next # None
    BY SessionConstantsOK DEF SessionInv, SessionTypeOK
  <2>7. Placed'
    BY <1>2, <1>3, <2>1, <2>5, <2>6
       DEF SessionInv, SessionTypeOK, Placed, Agrees, Arrived, Here, host
  <2>8. QED
    BY <2>4, <2>7 DEF SessionInv
<1>8. QED
  BY <1>1, <1>4, <1>5, <1>6, <1>7

LEMMA LoseStep == SessionInv /\ Lose => SessionInv'
  BY DEF SessionInv, SessionTypeOK, Placed, Agrees, Arrived, Here, Lose, Session,
         host, Place

LEMMA AnswerLostStep == SessionInv /\ AnswerLost => SessionInv'
  BY DEF SessionInv, SessionTypeOK, Placed, Agrees, Arrived, Here, AnswerLost,
         Session, host, memory, Place

LEMMA SessionStepStep == SessionInv /\ SessionStep => SessionInv'
<1>1. SessionInv /\ RunEnds => SessionInv'
  BY DEF SessionInv, SessionTypeOK, Placed, Agrees, Arrived, Here, RunEnds,
         session, host, memory
<1>2. SessionInv /\ Answer => SessionInv'
  BY SessionConstantsOK
     DEF SessionInv, SessionTypeOK, Placed, Agrees, Arrived, Here, Answer,
         Replied, CwdFrame, Session, session, host, Place
<1>3. QED
  BY <1>1, <1>2, LoseStep, AnswerLostStep DEF SessionStep

LEMMA SessionExitStep == SessionInv /\ SessionExit => SessionInv'
<1>1. SessionInv /\ UNCHANGED svars => SessionInv'
  BY DEF SessionInv, SessionTypeOK, Placed, Agrees, Arrived, Here, svars
<1>2. QED
  BY <1>1, LoseStep, AnswerLostStep DEF SessionExit

LEMMA SessionBootStep == SessionInv /\ SessionBoot => SessionInv'
  BY DEF SessionInv, SessionTypeOK, Placed, Agrees, Arrived, Here, SessionBoot,
         session, memory

(* While nothing changes and no lookup fails, the client of an app's REST  *)
(* terminal shows the folder that every request finds again.               *)
Usual == IF docker THEN {} ELSE {"docker"}

Steady ==
  via = "rest" /\ mode = "app" /\ at # "off" /\ ~strayed =>
    /\ Found(Usual) = {prompt}
    /\ at \in {"run", "answer"} => root = prompt /\ cwd \in {prompt, None}

LEMMA UsualRoots ==
  ASSUME SessionTypeOK, mode = "app", NEW f \in Lookups, ~Amiss(f),
         NEW r \in Roots(f)
  PROVE  Found(Usual) = {r}
<1>1. f = Usual
  BY DEF Lookups, Amiss, Usual, SessionTypeOK
<1>2. r \in Found(Usual)
  BY <1>1 DEF Roots
<1>3. QED
  BY <1>2 DEF Found

LEMMA SteadyNext == SessionInv /\ Steady /\ [Next]_vars => Steady'
<1> SUFFICES ASSUME SessionInv, Steady, [Next]_vars PROVE Steady'
  OBVIOUS
<1>1. CASE UNCHANGED svars
  BY <1>1 DEF Steady, Found, Usual, svars
<1>2. CASE Host
  BY <1>2 DEF Host, Remove, Make, Deploy, Changes, Steady
<1>3. CASE Connect
  <2>1. PICK f \in Lookups : prompt' \in Roots(f) /\ strayed' = Amiss(f)
    BY <1>3 DEF Connect
  <2>2. mode = "app" /\ ~strayed' => Found(Usual) = {prompt'}
    BY <2>1, UsualRoots DEF SessionInv
  <2>3. Found(Usual)' = Found(Usual)
    BY <1>3 DEF Connect, host, Found, Usual
  <2>4. QED
    BY <1>3, <2>2, <2>3 DEF Connect, Steady
<1>4. CASE Command
  <2>1. PICK r \in Place, c \in Place, v \in Place :
          \/ \E what \in {"run", "cd"} : Run(r, c, v, what)
          \/ Refuse(r, c, v) \/ CdBack(r, c, v)
          \/ \E t \in Folders \cup Names : Cd(r, c, v, t)
    BY <1>4 DEF Command
  <2>2. /\ at = "idle" /\ Opened(r, c, v)
        /\ UNCHANGED <<docker, there, site, mode, via, prompt>>
    BY <2>1 DEF Run, Refuse, CdBack, Cd, TakesCd, Takes, host
  <2>3. Found(Usual)' = Found(Usual)
    BY <2>2 DEF Found, Usual
  <2>4. ASSUME mode = "app", via = "rest", ~strayed'
        PROVE  r = prompt /\ c \in {prompt, None} /\ ~strayed
    <3>1. PICK f \in Lookups : r \in Roots(f) /\ strayed' = (strayed \/ Amiss(f))
      BY <2>2, <2>4 DEF Opened
    <3>2. ~strayed /\ ~Amiss(f)
      BY <2>4, <3>1
    <3>3. Found(Usual) = {r}
      BY <2>4, <3>1, <3>2, UsualRoots DEF SessionInv
    <3>4. Found(Usual) = {prompt}
      BY <2>2, <2>4, <3>2 DEF Steady
    <3>5. c \in {prompt, None}
      BY <2>2, <2>4 DEF Opened, SetCwd
    <3>6. QED
      BY <3>2, <3>3, <3>4, <3>5
  <2>5. ASSUME mode = "app" PROVE root' = r /\ cwd' = c
    BY <2>1, <2>5 DEF Run, Refuse, CdBack, Cd, Session
  <2>6. QED
    BY <2>2, <2>3, <2>4, <2>5 DEF Steady
<1>5. CASE SessionStep
  <2>1. UNCHANGED <<docker, there, site, mode, via>>
    BY <1>5 DEF SessionStep, RunEnds, Answer, Replied, AnswerLost, Lose, host
  <2>2. Found(Usual)' = Found(Usual)
    BY <2>1 DEF Found, Usual
  <2>3. CASE RunEnds
    BY <2>2, <2>3 DEF RunEnds, host, session, Steady
  <2>4. CASE Answer
    BY <2>2, <2>4 DEF Answer, Replied, CwdFrame, Here, host, Steady
  <2>5. CASE AnswerLost
    BY <2>2, <2>5 DEF AnswerLost, host, Steady
  <2>6. CASE Lose
    BY <2>6 DEF Lose, Steady
  <2>7. QED
    BY <1>5, <2>3, <2>4, <2>5, <2>6 DEF SessionStep
<1>6. CASE SessionExit
  <2>1. UNCHANGED <<docker, there, site, mode, via>>
    BY <1>6 DEF SessionExit, AnswerLost, Lose, host, svars
  <2>2. Found(Usual)' = Found(Usual)
    BY <2>1 DEF Found, Usual
  <2>3. QED
    BY <1>1, <1>6, <2>2 DEF SessionExit, AnswerLost, Lose, host, Steady
<1>7. CASE SessionBoot
  <2>1. ~strayed' => ~strayed /\ (at # "off" => docker' = docker)
    BY <1>7 DEF SessionBoot
  <2>2. CASE at # "off" /\ ~strayed'
    BY <1>7, <2>1, <2>2 DEF SessionBoot, session, Steady, Found, Usual
  <2>3. QED
    BY <1>7, <2>2 DEF SessionBoot, Steady
<1>8. QED
  BY <1>1, <1>2, <1>3, <1>4, <1>5, <1>6, <1>7
     DEF Next, vars, Terminal, Settings, Term, Drained, GraceOver, Crash, Ended,
         Boot

LEMMA SessionNext == SessionInv /\ [Next]_vars => SessionInv'
<1>1. SessionInv /\ UNCHANGED svars => SessionInv'
  BY DEF SessionInv, SessionTypeOK, Placed, Agrees, Arrived, Here, svars
<1>2. QED
  BY <1>1, HostStep, ConnectStep, CommandStep, SessionStepStep, SessionExitStep,
     SessionBootStep
     DEF Next, vars, Terminal, Settings, Term, Drained, GraceOver, Crash, Ended,
         Boot
-----------------------------------------------------------------------------
(* What WholeReply says of one call.                                       *)
WellAnswered(r) ==
  LET read == Taken(r.body, ChatLimit)
  IN  \/ ~r.raw /\ r.reply = Texts(r.body) \cap read /\ (r.ok <=> r.reply # {})
      \/ /\ r.raw /\ r.ok /\ r.reply = read
         /\ r.body[1] = "other" \/ (r.json /\ Len(r.body) > ChatLimit)

(* The calls.  What each has in hand: an entry that was offered whole, or  *)
(* the blanks that stand for none; only a body that has begun can be whole.*)
Sound(r) ==
  /\ r.cfg \in Offers \cup {Unset}
  /\ r.at = "write" => r.op = "save"
  /\ r.at \in {"ask", "body"} /\ r.op = "chat" => Complete(r.cfg)
  /\ r.at \in {"idle", "write", "read", "ask"} => ~r.whole /\ r.body = <<>>
  /\ r.whole => r.body # <<>>
  /\ r.at = "done" /\ r.op = "chat" /\ r.whole => WellAnswered(r)

SoundCalls ==
  /\ row \in Offers \cup {Unset}
  /\ \A c \in Calls : Sound(call[c])

AiInv == AiTypeOK /\ SoundCalls

LEMMA UnsetIsEntry == Unset \in Entry /\ ~Complete(Unset) /\ Offers \subseteq Entry
  BY AiConstantsOK DEF Unset, Entry, Complete

LEMMA NoCallIsSound ==
  /\ NoCall \in Call /\ Sound(NoCall)
  /\ \A c \in Calls : Len(NoCall.body) <= MaxChunks[c]
<1>1. NoCall \in Call /\ Sound(NoCall)
  BY UnsetIsEntry DEF NoCall, Call, Sound
<1>2. Len(<<>>) = 0 /\ NoCall.body = <<>>
  BY DEF NoCall
<1>3. QED
  BY <1>1, <1>2, AiConstantsOK

(* A step of one call needs to be looked at in that call only.             *)
LEMMA OneCall ==
  ASSUME AiInv, NEW c \in Calls, NEW r \in Call, Sound(r),
         Len(r.body) <= MaxChunks[c],
         call' = [call EXCEPT ![c] = r], row' \in Offers \cup {Unset}
  PROVE  AiInv'
<1>1. row' \in Entry /\ call' \in [Calls -> Call]
  BY UnsetIsEntry DEF AiInv, AiTypeOK
<1>2. \A d \in Calls : call'[d] = IF d = c THEN r ELSE call[d]
  BY DEF AiInv, AiTypeOK
<1>3. \A d \in Calls : Sound(call'[d]) /\ Len(call'[d].body) <= MaxChunks[d]
  BY <1>2 DEF AiInv, AiTypeOK, SoundCalls
<1>4. AiTypeOK'
  BY <1>1, <1>3 DEF AiTypeOK
<1>5. SoundCalls'
  BY <1>3 DEF SoundCalls, Sound, Complete, WellAnswered, Texts, Taken
<1>6. QED
  BY <1>4, <1>5 DEF AiInv

(* What a chat is told of a body that has come whole.                      *)
LEMMA ShownWell ==
  ASSUME NEW c \in Calls, call[c] \in Call, call[c].whole, call[c].body # <<>>,
         NEW r \in Call, r.body = call[c].body, r.json = call[c].json,
         r.ok <=> Shown(c) # {}, r.raw = Raw(c), r.reply = Shown(c)
  PROVE  WellAnswered(r)
<1> DEFINE b == call[c].body
           read == Taken(b, ChatLimit)
<1>1. b \in Seq(Chunk) /\ DOMAIN b = 1 .. Len(b) /\ Len(b) \in Nat \ {0}
  <2>1. b \in Seq(Chunk)
    BY DEF Call
  <2>2. Len(b) # 0
    BY <2>1
  <2>3. QED
    BY <2>1, <2>2
<1>2. Texts(b) \subseteq DOMAIN b
  BY DEF Texts
<1>3. CASE ~Raw(c)
  <2>1. Shown(c) = Texts(b) \cap read
    BY <1>3 DEF Shown, Parse
  <2>2. QED
    BY <1>3, <2>1 DEF WellAnswered
<1>4. CASE Raw(c)
  <2>1. Shown(c) = read
    BY <1>4 DEF Shown, Taken
  <2>2. 1 \in read
    BY <1>1, AiConstantsOK DEF Taken
  <2>3. b[1] = "other" \/ (call[c].json /\ Len(b) > ChatLimit)
    BY <1>4 DEF Raw, Events, Completion, Cut
  <2>4. QED
    BY <1>4, <2>1, <2>2, <2>3 DEF WellAnswered
<1>5. QED
  BY <1>3, <1>4

LEMMA ShownNumbers ==
  ASSUME NEW c \in Calls, call[c] \in Call
  PROVE  Shown(c) \in SUBSET Nat /\ Raw(c) \in BOOLEAN
<1>1. DOMAIN call[c].body \subseteq Nat
  <2>1. call[c].body \in Seq(Chunk)
    BY DEF Call
  <2>2. QED
    BY <2>1
<1>2. QED
  BY <1>1 DEF Shown, Taken, Raw
-----------------------------------------------------------------------------
LEMMA ArriveStep ==
  ASSUME AiInv, NEW c \in Calls, Arrive(c)
  PROVE  AiInv'
<1>1. ASSUME NEW op \in {"status", "chat"}, Ask(c, op) PROVE AiInv'
  <2> DEFINE r == [NoCall EXCEPT !.at = "read", !.op = op]
  <2>1. r \in Call /\ Sound(r) /\ Len(r.body) <= MaxChunks[c]
    BY NoCallIsSound, UnsetIsEntry DEF Call, NoCall, Sound
  <2>2. QED
    BY <1>1, <2>1, OneCall DEF Ask, AiInv, SoundCalls
<1>2. ASSUME NEW op \in {"save", "models"}, NEW o \in Offers, AskWith(c, op, o)
      PROVE  AiInv'
  <2> DEFINE r == [NoCall EXCEPT !.at = IF op = "save" THEN "write" ELSE "ask",
                                 !.op = op, !.cfg = o]
  <2>1. r \in Call /\ Sound(r) /\ Len(r.body) <= MaxChunks[c]
    BY NoCallIsSound, UnsetIsEntry DEF Call, NoCall, Sound
  <2>2. QED
    BY <1>2, <2>1, OneCall DEF AskWith, AiInv, SoundCalls
<1>3. QED
  BY <1>1, <1>2 DEF Arrive

LEMMA HandleStep ==
  ASSUME AiInv, NEW c \in Calls, Handle(c)
  PROVE  AiInv'
<1> DEFINE k == call[c]
<1>1. /\ k \in Call /\ Sound(k) /\ Len(k.body) <= MaxChunks[c]
      /\ call \in [Calls -> Call] /\ row \in Offers \cup {Unset}
  BY DEF AiInv, AiTypeOK, SoundCalls
<1>2. CASE Reject(c)
  <2> DEFINE r == [k EXCEPT !.at = "done", !.ok = FALSE, !.raw = FALSE, !.reply = {}]
  <2>1. r \in Call /\ Sound(r) /\ Len(r.body) <= MaxChunks[c]
    BY <1>1, <1>2 DEF Call, Sound, Reject
  <2>2. call' = [call EXCEPT ![c] = r] /\ row' = row
    BY <1>1, <1>2 DEF Reject, Ends
  <2>3. QED
    BY <1>1, <2>1, <2>2, OneCall
<1>3. CASE Save(c)
  <2> DEFINE r == [k EXCEPT !.at = "done", !.ok = TRUE]
  <2>1. r \in Call /\ Sound(r) /\ Len(r.body) <= MaxChunks[c] /\ k.cfg \in Offers \cup {Unset}
    BY <1>1, <1>3 DEF Call, Sound, Save, CallAt
  <2>2. call' = [call EXCEPT ![c] = r] /\ row' = k.cfg
    BY <1>1, <1>3 DEF Save
  <2>3. QED
    BY <1>1, <2>1, <2>2, OneCall
<1>4. CASE Status(c)
  <2> DEFINE r == [k EXCEPT !.at = "done", !.ok = TRUE,
                            !.cfg = IF Complete(row) THEN row ELSE Unset]
  <2>1. r \in Call /\ Sound(r) /\ Len(r.body) <= MaxChunks[c]
    BY <1>1, <1>4, UnsetIsEntry DEF Call, Sound, Status, CallAt
  <2>2. call' = [call EXCEPT ![c] = r] /\ row' = row
    BY <1>1, <1>4 DEF Status
  <2>3. QED
    BY <1>1, <2>1, <2>2, OneCall
<1>5. CASE ReadConfig(c)
  <2> DEFINE r == [k EXCEPT !.at = "ask", !.cfg = row]
  <2>1. r \in Call /\ Sound(r) /\ Len(r.body) <= MaxChunks[c]
    BY <1>1, <1>5, UnsetIsEntry DEF Call, Sound, ReadConfig, CallAt
  <2>2. call' = [call EXCEPT ![c] = r] /\ row' = row
    BY <1>1, <1>5 DEF ReadConfig
  <2>3. QED
    BY <1>1, <2>1, <2>2, OneCall
<1>6. CASE Receive(c)
  <2>1. k.at = "body"
    BY <1>6 DEF Receive, CallAt
  <2>2. ASSUME k.op = "models", NEW ok \in BOOLEAN, Ends(c, ok, FALSE, {})
        PROVE  AiInv'
    <3> DEFINE r == [k EXCEPT !.at = "done", !.ok = ok, !.raw = FALSE, !.reply = {}]
    <3>1. r \in Call /\ Sound(r) /\ Len(r.body) <= MaxChunks[c]
      BY <1>1, <2>1, <2>2 DEF Call, Sound
    <3>2. call' = [call EXCEPT ![c] = r] /\ row' = row
      BY <1>1, <2>2 DEF Ends
    <3>3. QED
      BY <1>1, <3>1, <3>2, OneCall
  <2>3. ASSUME k.op # "models", Ends(c, Shown(c) # {}, Raw(c), Shown(c))
        PROVE  AiInv'
    <3> DEFINE ok == Shown(c) # {}
               r == [k EXCEPT !.at = "done", !.ok = ok, !.raw = Raw(c),
                              !.reply = Shown(c)]
    <3>1. ok \in BOOLEAN
      OBVIOUS
    <3>2. r \in Call
      BY <1>1, <3>1, ShownNumbers DEF Call
    <3>3. /\ r.body = k.body /\ r.json = k.json /\ (r.ok <=> Shown(c) # {})
          /\ r.raw = Raw(c) /\ r.reply = Shown(c) /\ r.whole = k.whole
          /\ r.at = "done" /\ r.op = k.op /\ r.cfg = k.cfg
      BY <1>1, <3>1 DEF Call
    <3>4. k.whole => k.body # <<>>
      BY <1>1 DEF Sound
    <3>5. k.whole => WellAnswered(r)
      BY <1>1, <3>2, <3>3, <3>4, ShownWell
    <3>6. Sound(r)
      BY <1>1, <3>3, <3>4, <3>5 DEF Sound
    <3>7. call' = [call EXCEPT ![c] = r] /\ row' = row
      BY <1>1, <2>3 DEF Ends
    <3>8. QED
      BY <1>1, <3>2, <3>3, <3>6, <3>7, OneCall
  <2>4. (~Cut(c, ListLimit) /\ k.body[1] = "text") \in BOOLEAN
    OBVIOUS
  <2>5. QED
    BY <1>6, <2>2, <2>3, <2>4 DEF Receive
<1>7. CASE Returned(c)
  BY <1>1, <1>7, NoCallIsSound, OneCall DEF Returned
<1>8. QED
  BY <1>2, <1>3, <1>4, <1>5, <1>6, <1>7 DEF Handle

LEMMA ProviderStep ==
  ASSUME AiInv, NEW c \in Calls, Provider(c)
  PROVE  AiInv'
<1> DEFINE k == call[c]
<1>1. /\ k \in Call /\ Sound(k) /\ Len(k.body) <= MaxChunks[c]
      /\ call \in [Calls -> Call] /\ row \in Offers \cup {Unset}
  BY DEF AiInv, AiTypeOK, SoundCalls
<1>2. CASE Answers(c)
  <2>1. PICK json \in BOOLEAN :
          call' = [call EXCEPT ![c].at = "body", ![c].json = json]
    BY <1>2 DEF Answers
  <2> DEFINE r == [k EXCEPT !.at = "body", !.json = json]
  <2>2. r \in Call
    BY <1>1 DEF Call
  <2>4. Len(r.body) <= MaxChunks[c]
    BY <1>1 DEF Call
  <2>5. k.at = "ask" /\ ~k.whole /\ k.body = <<>> /\ Len(k.body) = 0
    BY <1>1, <1>2 DEF Sound, Answers, CallAt
  <2>6. Sound(r)
    BY <1>1, <2>5, AiConstantsOK DEF Call, Sound
  <2>3. call' = [call EXCEPT ![c] = r] /\ row' = row
    BY <1>1, <1>2, <2>1 DEF Answers
  <2>7. QED
    BY <1>1, <2>2, <2>3, <2>4, <2>6, OneCall
<1>3. CASE EndOfBody(c)
  <2> DEFINE r == [k EXCEPT !.whole = TRUE]
  <2>1. r \in Call /\ Sound(r) /\ Len(r.body) <= MaxChunks[c]
    BY <1>1, <1>3 DEF Call, Sound, EndOfBody, CallAt
  <2>2. call' = [call EXCEPT ![c] = r] /\ row' = row
    BY <1>1, <1>3 DEF EndOfBody
  <2>3. QED
    BY <1>1, <2>1, <2>2, OneCall
<1>4. ASSUME NEW m \in Chunk, Send(c, m) PROVE AiInv'
  <2> DEFINE r == [k EXCEPT !.body = Append(k.body, m)]
  <2>1. /\ Append(k.body, m) \in Seq(Chunk)
        /\ Len(Append(k.body, m)) = Len(k.body) + 1
        /\ Append(k.body, m) # <<>>
    BY <1>1, <1>4 DEF Call
  <2>2. k.at = "body" /\ ~k.whole /\ Len(k.body) < MaxChunks[c]
    BY <1>1, <1>4 DEF Send, CallAt
  <2>3. Len(k.body) \in Nat /\ MaxChunks[c] \in Nat
    BY <1>1, AiConstantsOK DEF Call
  <2>4. r \in Call
    BY <1>1, <2>1 DEF Call
  <2>7. Len(r.body) <= MaxChunks[c]
    BY <1>1, <2>1, <2>2, <2>3 DEF Call
  <2>8. Sound(r)
    BY <1>1, <2>1, <2>2 DEF Call, Sound
  <2>5. call' = [call EXCEPT ![c] = r] /\ row' = row
    BY <1>1, <1>4 DEF Send
  <2>6. QED
    BY <1>1, <2>4, <2>5, <2>7, <2>8, OneCall
<1>5. QED
  BY <1>2, <1>3, <1>4 DEF Provider

LEMMA AiExitStep == AiInv /\ AiExit => AiInv'
<1> SUFFICES ASSUME AiInv, AiExit PROVE AiInv'
  OBVIOUS
<1>1. row' = row /\ call' \in [Calls -> Call] /\ \A c \in Calls : call'[c] = NoCall
  BY NoCallIsSound DEF AiExit
<1>2. \A c \in Calls : Len(call'[c].body) <= MaxChunks[c]
  BY <1>1, NoCallIsSound
<1>3. \A c \in Calls : Sound(call'[c])
  BY <1>1, NoCallIsSound
<1>4. QED
  BY <1>1, <1>2, <1>3
     DEF AiInv, AiTypeOK, SoundCalls, Sound, Complete, WellAnswered, Texts, Taken

LEMMA AiNext == AiInv /\ [Next]_vars => AiInv'
<1>1. AiInv /\ UNCHANGED avars => AiInv'
  BY DEF AiInv, AiTypeOK, SoundCalls, Sound, Complete, WellAnswered, Texts, Taken, avars
<1>2. QED
  BY <1>1, ArriveStep, HandleStep, ProviderStep, AiExitStep
     DEF Next, vars, Terminal, Settings, AiStep, Term, Drained, GraceOver, Crash,
         Ended, Boot
-----------------------------------------------------------------------------
(* The process: what is down serves no call and no connection.             *)
Process ==
  /\ life \in {"up", "draining", "drained", "cut"} /\ use \in Uses
  /\ ~Runs => /\ at = "off" \/ (via = "rest" /\ at = "idle")
              /\ \A c \in Calls : call[c].at = "idle"

Inv == SessionInv /\ Steady /\ AiInv /\ Process

LEMMA InitInv == Init => Inv
<1> SUFFICES ASSUME Init PROVE Inv
  OBVIOUS
<1>1. SessionTypeOK
  <2>1. None \in Place /\ 0 \in 0 .. MaxMoves /\ Top \in Folders
    BY SessionConstantsOK DEF Place
  <2>2. QED
    BY <2>1 DEF Init, SessionInit, SessionTypeOK
<1>2. Placed /\ Steady
  BY DEF Init, SessionInit, Placed, Agrees, Arrived, Here, Steady
<1>3. AiInv
  BY NoCallIsSound, UnsetIsEntry DEF Init, AiInit, AiInv, AiTypeOK, SoundCalls
<1>4. Process
  BY DEF Init, Process, Runs
<1>5. QED
  BY <1>1, <1>2, <1>3, <1>4 DEF Inv, SessionInv

LEMMA EndedProcess ==
  ASSUME SessionInv, NEW how \in {"drained", "cut"}, Ended(how), use \in Uses
  PROVE  Process'
<1>1. at' = "off" \/ (via' = "rest" /\ at' = "idle")
  BY DEF Ended, SessionExit, Lose, AnswerLost, svars, SessionInv, SessionTypeOK
<1>2. \A c \in Calls : call'[c].at = "idle"
  BY DEF Ended, AiExit, NoCall
<1>3. QED
  BY <1>1, <1>2 DEF Process, Ended, Runs

LEMMA ProcessNext == Inv /\ [Next]_vars => Process'
<1> SUFFICES ASSUME Inv, [Next]_vars PROVE Process'
  OBVIOUS
<1>1. ASSUME Runs, UNCHANGED <<life, use>> PROVE Process'
  BY <1>1 DEF Inv, Process, Runs
<1>2. CASE UNCHANGED vars
  BY <1>2 DEF Inv, Process, Runs, vars, svars, avars
<1>3. CASE Terminal
  <2>1. CASE Runs
    BY <1>1, <1>3, <2>1 DEF Terminal
  <2>2. CASE ~Runs /\ Host
    BY <1>3, <2>2 DEF Terminal, Inv, Process, Runs, Host, Remove, Make, Deploy,
       Changes, avars
  <2>3. CASE ~Runs /\ ~Host /\ Command
    BY <1>3, <2>3 DEF Terminal, Inv, Process, Runs, Up, SessionInv,
       SessionTypeOK, Command, Run, Refuse, CdBack, Cd, TakesCd, Takes
  <2>4. QED
    BY <1>3, <2>1, <2>2, <2>3 DEF Terminal, Runs, Up
<1>4. CASE Settings
  BY <1>1, <1>4 DEF Settings, Runs, Up
<1>5. CASE Term
  BY <1>5 DEF Inv, Process, Term, Runs
<1>6. CASE Drained \/ GraceOver \/ Crash
  BY <1>6, EndedProcess DEF Drained, GraceOver, Crash, Inv, Process
<1>7. CASE Boot
  BY <1>7 DEF Boot, Inv, Process, Runs
<1>8. QED
  BY <1>2, <1>3, <1>4, <1>5, <1>6, <1>7 DEF Next

LEMMA InvNext == Inv /\ [Next]_vars => Inv'
  BY SessionNext, SteadyNext, AiNext, ProcessNext DEF Inv

LEMMA Invariance == Spec => []Inv
  BY InitInv, InvNext, PTL DEF Spec
-----------------------------------------------------------------------------
(* TypeOK is an invariant: no client is served without a folder, and what  *)
(* is down serves nobody.                                                  *)
THEOREM TypeCorrect == Spec => []TypeOK
<1>1. Inv => TypeOK
  BY DEF Inv, SessionInv, AiInv, Process, TypeOK
<1>2. QED
  BY Invariance, <1>1, PTL

(* No chat is sent with a mixture of two entries, whatever saves run.      *)
THEOREM ChatsUseOneEntry == Spec => []OneEntry
<1>1. Inv => OneEntry
  BY UnsetIsEntry DEF Inv, AiInv, AiTypeOK, Call, SoundCalls, Sound, OneEntry
<1>2. QED
  BY Invariance, <1>1, PTL

(* A body that came whole is answered with all its texts of the first      *)
(* 8 MiB, or as it stands if it is not recognised, however the provider    *)
(* cuts its stream.                                                        *)
THEOREM RepliesAreWhole == Spec => []WholeReply
<1>1. Inv => WholeReply
  BY DEF Inv, AiInv, SoundCalls, Sound, WellAnswered, WholeReply
<1>2. QED
  BY Invariance, <1>1, PTL

(* A command runs where its client was when it sent it, or not at all.     *)
THEOREM CommandsRunWhereShown == Spec => RunsWhereShown
<1> DEFINE A == at = "idle" /\ at' = "run" =>
                  \/ ranIn' = prompt
                  \/ via = "rest" /\ IF mode = "app" THEN strayed'
                                     ELSE prompt \notin there
<1>1. ASSUME Inv, Command PROVE A
  <2>1. PICK r \in Place, c \in Place, v \in Place :
          \/ \E what \in {"run", "cd"} : Run(r, c, v, what)
          \/ Refuse(r, c, v) \/ CdBack(r, c, v)
          \/ \E t \in Folders \cup Names : Cd(r, c, v, t)
    BY <1>1 DEF Command
  <2>2. ASSUME NEW what \in {"run", "cd"}, Run(r, c, v, what) PROVE A
    <3>1. at = "idle" /\ Opened(r, c, v)
      BY <2>2 DEF Run, Takes
    <3>2. at' = "run" => ranIn' = IF mode = "app" THEN r ELSE Here(r, c)
      BY <2>2 DEF Run
    <3>3. CASE via = "ws"
      BY <1>1, <3>1, <3>2, <3>3
         DEF Inv, SessionInv, Placed, Agrees, Here, Opened
    <3>4. CASE via = "rest" /\ mode # "app"
      <4>1. None \notin there
        BY <1>1, SessionConstantsOK DEF Inv, SessionInv, SessionTypeOK
      <4>2. QED
        BY <3>1, <3>2, <3>4, <4>1 DEF Here, Opened, SetCwd
    <3>5. CASE via = "rest" /\ mode = "app"
      <4>1. PICK f \in Lookups : r \in Roots(f) /\ strayed' = (strayed \/ Amiss(f))
        BY <3>1, <3>5 DEF Opened
      <4>2. ASSUME ~strayed' PROVE r = prompt
        <5>1. ~strayed /\ ~Amiss(f)
          BY <4>1, <4>2
        <5>2. Found(Usual) = {r}
          BY <1>1, <3>5, <4>1, <5>1, UsualRoots DEF Inv, SessionInv
        <5>3. Found(Usual) = {prompt}
          BY <1>1, <3>1, <3>5, <5>1 DEF Inv, Steady
        <5>4. QED
          BY <5>2, <5>3
      <4>3. QED
        BY <3>2, <3>5, <4>2
    <3>6. QED
      BY <1>1, <3>3, <3>4, <3>5 DEF Inv, SessionInv, SessionTypeOK
  <2>3. QED
    BY <2>1, <2>2 DEF Refuse, CdBack, Cd, Moved
<1>2. Inv /\ [Next]_vars => [A]_svars
  BY <1>1 DEF Next, vars, Terminal, Settings, Term, Drained, GraceOver, Crash,
     Ended, Boot, Host, Remove, Make, Deploy, Changes, Connect, SessionStep,
     RunEnds, Answer, Replied, AnswerLost, Lose, SessionExit, SessionBoot
<1>3. QED
  BY Invariance, <1>2, PTL DEF Spec, RunsWhereShown

(* A cd that answers 0 has taken the client where it wanted, unless bash   *)
(* has run it or, over REST, a relative one started from a folder gone.    *)
THEOREM CdIsObeyed == Spec => CdObeyed
<1> DEFINE A == Answer /\ cmd = "cd" /\ code = "ok" =>
                  prompt' = goal \/ ranIn # None \/ (via = "rest" /\ adrift)
<1>1. Inv => A
  BY DEF Inv, SessionInv, Placed, Arrived, Answer, Replied, CwdFrame
<1>2. Inv /\ [Next]_vars => [A]_svars
  BY <1>1
<1>3. QED
  BY Invariance, <1>2, PTL DEF Spec, CdObeyed
=============================================================================
