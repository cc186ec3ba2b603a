--------------------------- MODULE TerminalWSProofs ---------------------------
(***************************************************************************)
(* Theorems about TerminalWS, for any periods, deadlines and frames.       *)
(***************************************************************************)
EXTENDS TerminalWS, TLAPS

LEMMA TypeInit == Init => TypeOK
<1>1. <<>> \in Seq(Frame)
  OBVIOUS
<1>2. /\ 0 \in 0 .. Forever /\ ReadDeadline \in 0 .. ReadDeadline
      /\ PingPeriod \in 0 .. PingPeriod /\ 0 \in 0 .. MaxFrames
      /\ 0 \in 0 .. DropTime + 1 /\ 0 \in 0 .. ReadDeadline
  BY WSConstantsOK DEF Forever, DropTime
<1>3. QED
  BY <1>1, <1>2 DEF Init, TypeOK

(* What is taken from a sequence of frames, and put at its end.            *)
LEMMA TailIsFrames ==
  ASSUME NEW q \in Seq(Frame), q # <<>>
  PROVE  /\ Tail(q) \in Seq(Frame) /\ Len(Tail(q)) = Len(q) - 1
         /\ \A i \in DOMAIN Tail(q) : Tail(q)[i] = q[i + 1]
         /\ Len(q) > 0 /\ Head(q) = q[1]
  OBVIOUS

LEMMA AppendIsFrames ==
  ASSUME NEW q \in Seq(Frame), NEW f \in Frame
  PROVE  /\ Append(q, f) \in Seq(Frame) /\ Len(Append(q, f)) = Len(q) + 1
         /\ \A i \in DOMAIN q : Append(q, f)[i] = q[i]
         /\ Append(q, f)[Len(q) + 1] = f
  OBVIOUS

LEMMA TypeStep == TypeOK /\ [Next]_vars => TypeOK'
<1> SUFFICES ASSUME TypeOK, [Next]_vars PROVE TypeOK'
  OBVIOUS
<1> USE WSConstantsOK DEF Forever, DropTime, history
<1>1. ASSUME NEW f \in Frame \ {"pong"}, Send(f) PROVE TypeOK'
  BY <1>1, AppendIsFrames DEF Send, TypeOK, ping
<1>2. CASE Pong
  <2>1. inbox' \in Seq(Frame)
    BY <1>2, AppendIsFrames DEF Pong, TypeOK, Frame
  <2>2. QED
    BY <1>2, <2>1 DEF Pong, TypeOK, ping
<1>3. ASSUME NEW how \in {"silent", "left"}, Goes(how) PROVE TypeOK'
  BY <1>3 DEF Goes, TypeOK, ping
<1>4. CASE Fill
  <2>1. <<>> \in Seq(Frame)
    OBVIOUS
  <2>2. QED
    BY <1>4, <2>1 DEF Fill, TypeOK, ping
<1>5. ASSUME NEW f, Reads(f) PROVE buffer' \in Seq(Frame)
  BY <1>5, TailIsFrames DEF Reads, TypeOK
<1>6. CASE ReadPong \/ ReadOther
  <2>1. buffer' \in Seq(Frame)
    BY <1>5, <1>6 DEF ReadPong, ReadOther
  <2>2. 0 \in 0 .. ReadDeadline /\ ReadDeadline \in 0 .. ReadDeadline
    OBVIOUS
  <2>3. QED
    BY <1>6, <2>1, <2>2 DEF ReadPong, ReadOther, Reads, TypeOK, ping
<1>7. CASE ReadExec
  BY <1>5, <1>7 DEF ReadExec, Reads, TypeOK, ping
<1>8. CASE CommandEnds \/ StopPinger
  BY <1>8 DEF CommandEnds, StopPinger, TypeOK, ping, input
<1>9. CASE ReadClose
  BY <1>5, <1>9 DEF ReadClose, Reads, TypeOK, ping
<1>10. CASE ReadFails
  <2>1. overdue' \in BOOLEAN
    BY <1>10 DEF ReadFails
  <2>2. QED
    BY <1>10, <2>1 DEF ReadFails, TypeOK, ping, input
<1>11. CASE SendPing
  <2>1. pongDue' \in BOOLEAN
    BY <1>11 DEF SendPing
  <2>2. QED
    BY <1>11, <2>1 DEF SendPing, TypeOK
<1>12. CASE Tick
  BY <1>12 DEF Tick, Less, TypeOK, input
<1>13. CASE UNCHANGED vars
  BY <1>13 DEF TypeOK, vars
<1>14. QED
  BY <1>1, <1>2, <1>3, <1>4, <1>6, <1>7, <1>8, <1>9, <1>10, <1>11, <1>12, <1>13
     DEF Next, Loop, Pinger

(* TypeOK is an invariant: no command is waited for that has ended, and    *)
(* the ping goroutine stops only when its channel is closed.               *)
THEOREM TypeCorrect == Spec => []TypeOK
  BY TypeInit, TypeStep, PTL DEF Spec
-----------------------------------------------------------------------------
(* Frames on their way.  A patient client has one exec frame there at most.*)
Once(q)  == \A i, j \in DOMAIN q : q[i] = "exec" /\ q[j] = "exec" => i = j
Pongs(q) == \E i \in DOMAIN q : q[i] = "pong"

OneExec ==
  /\ Once(buffer) /\ Once(inbox)
  /\ ~(ExecWaits(buffer) /\ ExecWaits(inbox))
  /\ loop = "run" => ~ExecWaits(buffer) /\ ~ExecWaits(inbox)

InQueue == Pongs(buffer) \/ Pongs(inbox)
Pending == pongDue \/ InQueue

(* How far the deadline is from where it was.  While no pong is due it has *)
(* moved since the last ping.  A pong that is due costs no time but that   *)
(* of the commands that run before it is read.                             *)
Timely ==
  /\ execDone \/ overdue => loop = "closed"
  /\ peer = "here" /\ loop # "closed" =>
       /\ ~Pending => deadline + PingPeriod >= ReadDeadline + pingIn
       /\ deadline + busy + PingPeriod >= ReadDeadline

Inv == TypeOK /\ Timely /\ ResponsiveKept

LEMMA TailFacts ==
  ASSUME NEW q \in Seq(Frame), q # <<>>
  PROVE  /\ Once(q) => Once(Tail(q))
         /\ ExecWaits(Tail(q)) => ExecWaits(q)
         /\ Head(q) = "exec" /\ Once(q) => ~ExecWaits(Tail(q))
         /\ Head(q) = "exec" => ExecWaits(q)
         /\ Pongs(Tail(q)) => Pongs(q)
         /\ Head(q) # "pong" => (Pongs(q) => Pongs(Tail(q)))
<1>1. /\ Tail(q) \in Seq(Frame) /\ Len(Tail(q)) = Len(q) - 1
      /\ \A i \in DOMAIN Tail(q) : Tail(q)[i] = q[i + 1]
      /\ Len(q) > 0 /\ Head(q) = q[1]
  BY TailIsFrames
<1>2. /\ DOMAIN q = 1 .. Len(q) /\ DOMAIN Tail(q) = 1 .. Len(Tail(q))
      /\ Len(q) \in Nat
  BY <1>1
<1>3. \A i \in DOMAIN Tail(q) : i + 1 \in DOMAIN q /\ i + 1 # 1 /\ i \in Nat
  BY <1>1, <1>2
<1>4. \A i \in DOMAIN q : i = 1 \/ (i - 1 \in DOMAIN Tail(q) /\ Tail(q)[i - 1] = q[i])
  BY <1>1, <1>2
<1>5. Once(q) => Once(Tail(q))
  BY <1>1, <1>3 DEF Once
<1>6. ExecWaits(Tail(q)) => ExecWaits(q)
  BY <1>1, <1>3 DEF ExecWaits
<1>7. Head(q) = "exec" /\ Once(q) => ~ExecWaits(Tail(q))
  BY <1>1, <1>2, <1>3 DEF ExecWaits, Once
<1>8. Head(q) = "exec" => ExecWaits(q)
  BY <1>1, <1>2 DEF ExecWaits
<1>9. Pongs(Tail(q)) => Pongs(q)
  BY <1>1, <1>3 DEF Pongs
<1>10. Head(q) # "pong" => (Pongs(q) => Pongs(Tail(q)))
  BY <1>1, <1>4 DEF Pongs
<1>11. QED
  BY <1>5, <1>6, <1>7, <1>8, <1>9, <1>10

LEMMA AppendFacts ==
  ASSUME NEW q \in Seq(Frame), NEW f \in Frame
  PROVE  /\ Once(q) /\ f # "exec" => Once(Append(q, f))
         /\ ~ExecWaits(q) => Once(Append(q, f))
         /\ f # "exec" => (ExecWaits(Append(q, f)) => ExecWaits(q))
         /\ Pongs(q) => Pongs(Append(q, f))
         /\ f # "pong" => (Pongs(Append(q, f)) => Pongs(q))
         /\ f = "pong" => Pongs(Append(q, f))
<1> DEFINE a == Append(q, f)
<1>1. /\ a \in Seq(Frame) /\ Len(a) = Len(q) + 1
      /\ \A i \in DOMAIN q : a[i] = q[i]
      /\ a[Len(q) + 1] = f
  BY AppendIsFrames
<1> HIDE DEF a
<1>2. /\ DOMAIN q = 1 .. Len(q) /\ DOMAIN a = 1 .. Len(a) /\ Len(q) \in Nat
  BY <1>1
<1>3. /\ DOMAIN q \subseteq DOMAIN a /\ Len(q) + 1 \in DOMAIN a
      /\ \A i \in DOMAIN a : i \in DOMAIN q \/ i = Len(q) + 1
  BY <1>1, <1>2
<1>4. Once(q) /\ f # "exec" => Once(a)
  BY <1>1, <1>3 DEF Once
<1>5. ~ExecWaits(q) => Once(a)
  BY <1>1, <1>3 DEF Once, ExecWaits
<1>6. f # "exec" => (ExecWaits(a) => ExecWaits(q))
  BY <1>1, <1>3 DEF ExecWaits
<1>7. /\ Pongs(q) => Pongs(a)
      /\ f # "pong" => (Pongs(a) => Pongs(q))
      /\ f = "pong" => Pongs(a)
  BY <1>1, <1>3 DEF Pongs
<1>8. QED
  BY <1>4, <1>5, <1>6, <1>7 DEF a
-----------------------------------------------------------------------------
LEMMA OneExecStep ==
  ASSUME Patient, TypeOK, OneExec, [Next]_vars
  PROVE  OneExec'
<1> USE DEF OneExec
<1>1. ASSUME UNCHANGED <<buffer, inbox, loop, execDone>> PROVE OneExec'
  BY <1>1 DEF Once, ExecWaits
<1>2. ASSUME NEW f \in Frame \ {"pong"}, Send(f) PROVE OneExec'
  <2>1. UNCHANGED <<buffer, loop, execDone>> /\ inbox' = Append(inbox, f)
    BY <1>2 DEF Send
  <2>2. CASE f = "exec"
    <3>1. loop # "run" /\ ~ExecWaits(buffer) /\ ~ExecWaits(inbox)
      BY <1>2, <2>2 DEF Send
    <3>2. Once(inbox')
      BY <2>1, <3>1, AppendFacts DEF TypeOK
    <3>3. QED
      BY <2>1, <3>1, <3>2 DEF Once, ExecWaits
  <2>3. CASE f # "exec"
    <3>1. Once(inbox') /\ (ExecWaits(inbox') => ExecWaits(inbox))
      BY <2>1, <2>3, AppendFacts DEF TypeOK
    <3>2. QED
      BY <2>1, <3>1
  <2>4. QED
    BY <2>2, <2>3
<1>3. CASE Pong
  <2>1. UNCHANGED <<buffer, loop, execDone>>
        /\ (inbox' = inbox \/ inbox' = Append(inbox, "pong"))
    BY <1>3 DEF Pong
  <2>2. Once(inbox') /\ (ExecWaits(inbox') => ExecWaits(inbox))
    BY <2>1, AppendFacts DEF TypeOK, Frame
  <2>3. QED
    BY <2>1, <2>2
<1>4. CASE Fill
  <2>1. ~ExecWaits(<<>>) /\ Once(<<>>)
    BY DEF ExecWaits, Once
  <2>2. QED
    BY <1>4, <2>1 DEF Fill
<1>5. ASSUME NEW f, Reads(f)
      PROVE  /\ Once(buffer') /\ inbox' = inbox
             /\ ExecWaits(buffer') => ExecWaits(buffer)
             /\ f = "exec" => ExecWaits(buffer) /\ ~ExecWaits(buffer')
  BY <1>5, TailFacts DEF Reads, TypeOK
<1>6. CASE ReadPong \/ ReadOther
  BY <1>5, <1>6 DEF ReadPong, ReadOther
<1>7. CASE ReadExec
  BY <1>5, <1>7 DEF ReadExec, Reads
<1>8. CASE ReadClose
  BY <1>5, <1>8 DEF ReadClose
<1>9. CASE CommandEnds \/ ReadFails
  BY <1>9 DEF CommandEnds, ReadFails, input
<1>10. QED
  BY <1>1, <1>2, <1>3, <1>4, <1>6, <1>7, <1>8, <1>9
     DEF Next, Loop, Pinger, Goes, SendPing, StopPinger, Tick, vars, ping, input

LEMMA SumsCompare ==
  /\ \A r, p, n \in Nat : n <= p => r + p >= r + n /\ r + 0 + p >= r
  /\ \A d, b, p, r, n \in Nat : d + p >= r + n => d + b + p >= r
  /\ \A d, e, b, p, r \in Nat :
       e + 1 >= d /\ d + b + p >= r =>
         (b < r => e + (b + 1) + p >= r) /\ (b = r => e + b + p >= r)
  OBVIOUS

LEMMA TimelyStep ==
  ASSUME TypeOK, TypeOK', Timely, [Next]_vars
  PROVE  Timely'
<1> USE WSConstantsOK
<1> USE DEF Timely
<1>1. ASSUME UNCHANGED <<buffer, inbox, loop, deadline, busy, pingIn, pongDue,
                         execDone, overdue>>,
             peer' = "here" => peer = "here"
      PROVE  Timely'
  BY <1>1 DEF Pending, InQueue
<1>2. ASSUME UNCHANGED <<deadline, busy, pingIn, execDone, overdue, peer>>,
             Pending' <=> Pending, loop' # "closed", loop # "closed"
      PROVE  Timely'
  BY <1>2
<1>3. ASSUME NEW f \in Frame \ {"pong"}, Send(f) PROVE Timely'
  <2>1. /\ UNCHANGED <<buffer, loop, deadline, busy, pingIn, pongDue, execDone, overdue, peer>>
        /\ inbox' = Append(inbox, f)
    BY <1>3 DEF Send, ping, history
  <2>2. Pongs(inbox') <=> Pongs(inbox)
    BY <2>1, AppendFacts DEF TypeOK
  <2>3. Pending' <=> Pending
    BY <2>1, <2>2 DEF InQueue, Pending
  <2>4. QED
    BY <2>1, <2>3
<1>4. CASE Pong
  <2>1. /\ UNCHANGED <<buffer, loop, deadline, busy, pingIn, execDone, overdue, peer>>
        /\ \/ inbox' = inbox /\ inbox # <<>> /\ inbox[Len(inbox)] = "pong"
           \/ inbox' = Append(inbox, "pong")
    BY <1>4 DEF Pong, ping, history
  <2>2. Pongs(inbox')
    <3>1. CASE inbox' = inbox /\ inbox # <<>> /\ inbox[Len(inbox)] = "pong"
      BY <3>1 DEF Pongs, TypeOK
    <3>2. CASE inbox' = Append(inbox, "pong")
      BY <3>2, AppendFacts DEF TypeOK, Frame
    <3>3. QED
      BY <2>1, <3>1, <3>2
  <2>3. Pending'
    BY <2>2 DEF InQueue, Pending
  <2>4. QED
    BY <2>1, <2>3
<1>5. CASE Fill
  <2>1. /\ UNCHANGED <<loop, deadline, busy, pingIn, pongDue, execDone, overdue, peer>>
        /\ buffer = <<>> /\ buffer' = inbox /\ inbox' = <<>>
    BY <1>5 DEF Fill, ping, history
  <2>2. ~Pongs(<<>>)
    BY DEF Pongs
  <2>3. Pending' <=> Pending
    BY <2>1, <2>2 DEF InQueue, Pending
  <2>4. QED
    BY <2>1, <2>3
<1>6. ASSUME NEW f, Reads(f), f # "pong" PROVE Pending' <=> Pending
  <2>1. /\ buffer # <<>> /\ Head(buffer) = f /\ buffer' = Tail(buffer)
        /\ UNCHANGED <<inbox, pongDue>>
    BY <1>6 DEF Reads
  <2>2. Pongs(buffer') <=> Pongs(buffer)
    BY <1>6, <2>1, TailFacts DEF TypeOK
  <2>3. QED
    BY <2>1, <2>2 DEF InQueue, Pending
<1>7. CASE ReadOther
  <2>1. UNCHANGED <<loop, deadline, busy, pingIn, execDone, overdue, peer>>
    BY <1>7 DEF ReadOther, Reads, ping, history
  <2>2. Pending' <=> Pending
    BY <1>6, <1>7 DEF ReadOther
  <2>3. QED
    BY <2>1, <2>2
<1>8. CASE ReadPong
  <2>1. /\ deadline' = ReadDeadline /\ busy' = 0 /\ UNCHANGED <<loop, execDone, overdue>>
        /\ pingIn' \in Nat /\ pingIn' <= PingPeriod
    BY <1>8 DEF ReadPong, Reads, TypeOK, ping, history
  <2>2. /\ deadline' + PingPeriod >= ReadDeadline + pingIn'
        /\ deadline' + busy' + PingPeriod >= ReadDeadline
    BY <2>1, SumsCompare
  <2>3. QED
    BY <2>1, <2>2
<1>9. CASE ReadExec
  <2>1. /\ loop = "read" /\ loop' = "run"
        /\ UNCHANGED <<deadline, busy, pingIn, execDone, overdue, peer>>
    BY <1>9 DEF ReadExec, Reads, ping, history
  <2>2. Pending' <=> Pending
    BY <1>6, <1>9 DEF ReadExec
  <2>3. QED
    BY <2>1, <2>2
<1>10. CASE CommandEnds
  <2>1. /\ loop = "run" /\ loop' = "read"
        /\ UNCHANGED <<deadline, busy, pingIn, execDone, overdue, peer, buffer, inbox, pongDue>>
    BY <1>10 DEF CommandEnds, input, ping, history
  <2>2. QED
    BY <2>1 DEF Pending, InQueue
<1>11. CASE ReadClose \/ ReadFails
  BY <1>11 DEF ReadClose, ReadFails
<1>12. CASE SendPing
  <2>1. /\ UNCHANGED <<loop, deadline, busy, execDone, overdue, peer>>
        /\ pongDue' = (peer = "here" /\ loop # "closed")
    BY <1>12 DEF SendPing, history
  <2>2. peer' = "here" /\ loop' # "closed" => Pending'
    BY <2>1 DEF Pending
  <2>3. QED
    BY <2>1, <2>2
<1>13. CASE StopPinger
  BY <1>1, <1>13 DEF StopPinger, input, history
<1>14. CASE Tick
  <2>1. /\ UNCHANGED <<buffer, inbox, pongDue, peer, loop, execDone, overdue>>
        /\ loop # "closed" /\ deadline' = Less(deadline) /\ pingIn' = Less(pingIn)
        /\ busy' = IF loop = "run" /\ busy < ReadDeadline THEN busy + 1 ELSE busy
    BY <1>14 DEF Tick, input
  <2>2. SUFFICES ASSUME peer = "here"
                 PROVE  /\ ~Pending' => deadline' + PingPeriod >= ReadDeadline + pingIn'
                        /\ deadline' + busy' + PingPeriod >= ReadDeadline
    BY <2>1
  <2>3. (Pending' <=> Pending) /\ ~execDone /\ pinger = "on" /\ pingIn > 0
    BY <1>14, <2>1 DEF Tick, Quiet, Pending, InQueue, TypeOK
  <2>4. ~Pending => deadline' + PingPeriod >= ReadDeadline + pingIn'
    BY <2>1, <2>2, <2>3 DEF Less, TypeOK
  <2>5. CASE loop = "run"
    <3>1. /\ deadline \in Nat /\ deadline' \in Nat /\ deadline' + 1 >= deadline
          /\ busy \in Nat /\ busy <= ReadDeadline
          /\ busy' = IF busy < ReadDeadline THEN busy + 1 ELSE busy
          /\ deadline + busy + PingPeriod >= ReadDeadline
      BY <2>1, <2>2, <2>5 DEF Less, TypeOK
    <3>2. /\ busy < ReadDeadline => deadline' + (busy + 1) + PingPeriod >= ReadDeadline
          /\ busy = ReadDeadline => deadline' + busy + PingPeriod >= ReadDeadline
      BY <3>1, SumsCompare
    <3>3. busy < ReadDeadline \/ busy = ReadDeadline
      BY <3>1
    <3>4. deadline' + busy' + PingPeriod >= ReadDeadline
      BY <3>1, <3>2, <3>3
    <3>5. QED
      BY <2>3, <2>4, <3>4
  <2>6. CASE loop = "read"
    <3>1. ~Pongs(<<>>)
      BY DEF Pongs
    <3>2. ~Pending
      BY <1>14, <2>2, <2>6, <3>1 DEF Tick, Quiet, Pending, InQueue
    <3>3. /\ deadline' \in Nat /\ busy' \in Nat /\ pingIn' \in Nat
          /\ PingPeriod \in Nat /\ ReadDeadline \in Nat
      BY DEF TypeOK
    <3>4. QED
      BY <2>3, <2>4, <3>2, <3>3, SumsCompare
  <2>7. QED
    BY <2>1, <2>3, <2>4, <2>5, <2>6 DEF TypeOK
<1>15. QED
  BY <1>1, <1>3, <1>4, <1>5, <1>7, <1>8, <1>9, <1>10, <1>11, <1>12, <1>13, <1>14
     DEF Next, Loop, Pinger, Goes, vars, ping, history

LEMMA KeptStep ==
  ASSUME Inv, [Next]_vars
  PROVE  ResponsiveKept'
<1> USE DEF Inv, ResponsiveKept
<1>1. CASE ReadFails
  <2>1. /\ overdue' = (deadline = 0) /\ loop = "read"
        /\ UNCHANGED <<busy, peer>>
    BY <1>1 DEF ReadFails, input
  <2>2. ASSUME peer = "here", deadline = 0 PROVE busy + PingPeriod >= ReadDeadline
    BY <2>1, <2>2, WSConstantsOK DEF Timely, TypeOK
  <2>3. QED
    BY <2>1, <2>2
<1>2. CASE ReadPong \/ Tick
  <2>1. UNCHANGED overdue /\ loop # "closed"
    BY <1>2 DEF ReadPong, Reads, Tick
  <2>2. QED
    BY <2>1 DEF Timely
<1>3. ASSUME UNCHANGED <<overdue, busy>>, peer' = "here" => peer = "here"
      PROVE  ResponsiveKept'
  BY <1>3
<1>4. QED
  BY <1>1, <1>2, <1>3
     DEF Next, Loop, Pinger, Send, Pong, Goes, Fill, ReadOther, ReadExec,
         CommandEnds, ReadClose, Reads, SendPing, StopPinger, vars, ping, input,
         history

LEMMA InitInv == Init => Inv
<1> SUFFICES ASSUME Init PROVE Inv
  OBVIOUS
<1>1. ~Pending /\ ResponsiveKept
  BY DEF Init, Pending, InQueue, Pongs, ResponsiveKept
<1>2. Timely
  BY <1>1, WSConstantsOK DEF Init, Timely
<1>3. QED
  BY <1>1, <1>2, TypeInit DEF Inv

(* A client that answers pings loses its session to the deadline only when *)
(* commands have held the loop, since it last read a pong, for as long as  *)
(* the deadline less one ping period; whatever the periods, however long   *)
(* the commands, and whether it waits for them or sends them all at once.  *)
THEOREM ResponsiveAlwaysKept == Spec => []ResponsiveKept
<1>1. Inv /\ [Next]_vars => Inv'
  <2> SUFFICES ASSUME Inv, [Next]_vars PROVE Inv'
    OBVIOUS
  <2>1. TypeOK'
    BY TypeStep DEF Inv
  <2>2. QED
    BY <2>1, TimelyStep, KeptStep DEF Inv
<1>2. Inv => ResponsiveKept
  BY DEF Inv
<1>3. QED
  BY InitInv, <1>1, <1>2, PTL DEF Spec
-----------------------------------------------------------------------------
(* What a session may still last once its client is gone: the command that *)
(* runs or waits, and the deadline, which a pong that is on its way will   *)
(* move once more.                                                         *)
Owed ==
  IF loop = "run" THEN left
  ELSE IF ExecWaits(buffer) \/ ExecWaits(inbox) THEN MaxRun ELSE 0

Renewal == IF InQueue THEN ReadDeadline ELSE 0

Held == loop # "closed" /\ ~(loop = "run" /\ left = Forever)

InTime ==
  /\ peer = "here" => goneFor = 0
  /\ peer # "here" /\ Held => /\ goneFor + deadline <= DropTime
                              /\ goneFor + Owed + Renewal <= DropTime

LEMMA OwedIsNat ==
  ASSUME TypeOK, Held
  PROVE  Owed \in 0 .. MaxRun /\ Renewal \in {0, ReadDeadline}
  BY WSConstantsOK DEF TypeOK, Held, Owed, Renewal, Forever

LEMMA LessStays ==
  /\ \A g, e, x, d \in Nat : g + x <= d /\ e <= x => g + e <= d
  /\ \A g, o, p, r, x, d \in Nat :
       g + o + r <= d /\ p <= o /\ x <= r => g + r <= d /\ g + p + x <= d
  OBVIOUS

(* Time that has not passed leaves a session no more than it had.          *)
LEMMA InTimeKept ==
  ASSUME TypeOK, TypeOK', InTime, peer # "here", UNCHANGED <<peer, goneFor>>,
         Held' => Held, deadline' <= deadline,
         Held' => Owed' <= Owed /\ Renewal' <= Renewal
  PROVE  InTime'
<1> SUFFICES ASSUME Held' PROVE /\ goneFor' + deadline' <= DropTime
                                /\ goneFor' + Owed' + Renewal' <= DropTime
  BY DEF InTime
<1>1. Owed \in Nat /\ Renewal \in Nat
  BY OwedIsNat, WSConstantsOK
<1>2. Owed' \in Nat /\ Renewal' \in Nat
  BY WSConstantsOK DEF TypeOK, Held, Owed, Renewal, Forever
<1>3. goneFor \in Nat /\ deadline \in Nat /\ deadline' \in Nat /\ DropTime \in Nat
  BY WSConstantsOK DEF TypeOK, DropTime
<1>4. Held /\ goneFor + deadline <= DropTime /\ goneFor + Owed + Renewal <= DropTime
  BY DEF InTime
<1>5. Owed' <= Owed /\ Renewal' <= Renewal /\ deadline' <= deadline /\ goneFor' = goneFor
  OBVIOUS
<1>6. goneFor + deadline' <= DropTime
  BY <1>3, <1>4, <1>5, LessStays
<1>7. goneFor + Owed' + Renewal' <= DropTime
  BY <1>1, <1>2, <1>3, <1>4, <1>5, LessStays
<1>8. QED
  BY <1>5, <1>6, <1>7

LEMMA SameDeadline ==
  ASSUME TypeOK, UNCHANGED deadline PROVE deadline' <= deadline
  BY WSConstantsOK DEF TypeOK

LEMMA RenewalKept ==
  ASSUME InQueue' => InQueue PROVE Renewal' <= Renewal
<1>1. CASE InQueue'
  BY <1>1, WSConstantsOK DEF Renewal
<1>2. CASE ~InQueue'
  <2>1. Renewal' = 0 /\ Renewal \in Nat
    BY <1>2, WSConstantsOK DEF Renewal
  <2>2. QED
    BY <2>1
<1>3. QED
  BY <1>1, <1>2

LEMMA InTimeStep ==
  ASSUME Patient, TypeOK, TypeOK', OneExec, InTime, [Next]_vars
  PROVE  InTime'
<1> USE WSConstantsOK
<1>1. ASSUME peer' = "here" PROVE InTime'
  <2>1. peer = "here" /\ goneFor' = goneFor
    BY <1>1 DEF Next, Loop, Pinger, Send, Pong, Goes, Fill, ReadPong, ReadOther,
       ReadExec, CommandEnds, ReadClose, ReadFails, Reads, SendPing, StopPinger,
       Tick, vars, ping, input, history
  <2>2. QED
    BY <1>1, <2>1 DEF InTime
<1>2. ASSUME NEW how \in {"silent", "left"}, Goes(how) PROVE InTime'
  <2>1. /\ goneFor' = 0
        /\ UNCHANGED <<deadline, loop, left, buffer, inbox>>
    BY <1>2 DEF Goes, InTime, history
  <2>2. Held' => Owed' \in 0 .. MaxRun /\ Renewal' \in {0, ReadDeadline}
    <3>1. (Held' <=> Held) /\ Owed' = Owed /\ Renewal' = Renewal
      BY <2>1 DEF Held, Owed, Renewal, InQueue
    <3>2. QED
      BY <3>1, OwedIsNat
  <2>3. deadline' \in 0 .. ReadDeadline
    BY <2>1 DEF TypeOK
  <2>4. QED
    BY <2>1, <2>2, <2>3, <1>1 DEF InTime, DropTime
<1> SUFFICES ASSUME peer' # "here", peer # "here" PROVE InTime'
  <2>1. CASE peer' = "here"
    BY <2>1, <1>1
  <2>2. CASE peer = "here" /\ peer' # "here"
    <3>1. \E how \in {"silent", "left"} : Goes(how)
      BY <2>2 DEF Next, Loop, Pinger, Send, Pong, Fill, ReadPong, ReadOther,
         ReadExec, CommandEnds, ReadClose, ReadFails, Reads, SendPing,
         StopPinger, Tick, vars, ping, input
    <3>2. QED
      BY <3>1, <1>2
  <2>3. QED
    BY <2>1, <2>2
<1>3. ASSUME UNCHANGED <<peer, goneFor, deadline, loop, left, buffer, inbox>>
      PROVE  InTime'
  BY <1>3 DEF InTime, Held, Owed, Renewal, InQueue
<1>4. CASE Fill
  <2>1. /\ UNCHANGED <<peer, goneFor, deadline, loop, left>>
        /\ buffer = <<>> /\ buffer' = inbox /\ inbox' = <<>>
    BY <1>4 DEF Fill, ping, history
  <2>2. ~ExecWaits(<<>>) /\ ~Pongs(<<>>)
    BY DEF ExecWaits, Pongs
  <2>3. (InQueue' <=> InQueue) /\ Owed' = Owed
    BY <2>1, <2>2 DEF InQueue, Owed
  <2>4. QED
    BY <2>1, <2>3 DEF InTime, Held, Renewal
<1>5. ASSUME NEW f, Reads(f)
      PROVE  /\ loop = "read" /\ UNCHANGED <<inbox, peer>>
             /\ InQueue' => InQueue
             /\ ExecWaits(buffer') => ExecWaits(buffer)
             /\ f = "pong" => InQueue
             /\ f = "exec" => ExecWaits(buffer)
  <2>1. /\ buffer \in Seq(Frame) /\ buffer # <<>> /\ Head(buffer) = f
        /\ buffer' = Tail(buffer) /\ loop = "read" /\ UNCHANGED <<inbox, peer>>
    BY <1>5 DEF Reads, TypeOK
  <2>2. /\ Pongs(buffer') => Pongs(buffer)
        /\ ExecWaits(buffer') => ExecWaits(buffer)
        /\ f = "exec" => ExecWaits(buffer)
    BY <2>1, TailFacts
  <2>3. f = "pong" => Pongs(buffer)
    BY <2>1, TailIsFrames DEF Pongs
  <2>4. QED
    BY <2>1, <2>2, <2>3 DEF InQueue
<1>6. CASE ReadOther
  <2>1. UNCHANGED <<goneFor, deadline, loop, left>>
    BY <1>6 DEF ReadOther, Reads, ping, history
  <2>2. /\ loop = "read" /\ UNCHANGED <<inbox, peer>>
        /\ InQueue' => InQueue
        /\ ExecWaits(buffer') => ExecWaits(buffer)
    BY <1>5, <1>6 DEF ReadOther
  <2>3. Held' /\ Held /\ loop' = "read"
    BY <2>1, <2>2 DEF Held
  <2>4. Owed' <= Owed
    BY <2>2, <2>3 DEF Owed
  <2>5. Renewal' <= Renewal
    BY <2>2, RenewalKept
  <2>6. QED
    BY <2>1, <2>2, <2>3, <2>4, <2>5, SameDeadline, InTimeKept
<1>7. CASE ReadPong
  <2>1. UNCHANGED <<goneFor, loop, left>> /\ deadline' = ReadDeadline
    BY <1>7 DEF ReadPong, Reads, ping, history
  <2>2. /\ loop = "read" /\ UNCHANGED <<inbox, peer>> /\ InQueue
        /\ ExecWaits(buffer') => ExecWaits(buffer)
    BY <1>5, <1>7 DEF ReadPong
  <2>3. Held /\ Renewal = ReadDeadline /\ Owed' <= Owed /\ Owed' \in Nat
    <3>1. Held /\ Renewal = ReadDeadline
      BY <2>2 DEF Held, Renewal
    <3>2. Owed' <= Owed /\ Owed' \in Nat
      BY <2>1, <2>2 DEF Owed
    <3>3. QED
      BY <3>1, <3>2
  <2>4. goneFor + Owed + ReadDeadline <= DropTime /\ Owed \in Nat
    BY <2>3, OwedIsNat DEF InTime
  <2>5. goneFor \in Nat /\ DropTime \in Nat /\ ReadDeadline \in Nat
    BY DEF TypeOK, DropTime
  <2>6. Renewal' \in {0, ReadDeadline}
    BY DEF Renewal
  <2>7. Renewal' \in Nat /\ Renewal' <= ReadDeadline
    BY <2>5, <2>6
  <2>8. /\ goneFor + ReadDeadline <= DropTime
        /\ goneFor + Owed' + Renewal' <= DropTime
    BY <2>3, <2>4, <2>5, <2>7, LessStays
  <2>9. QED
    BY <2>1, <2>8 DEF InTime
<1>8. CASE ReadExec
  <2>1. /\ UNCHANGED <<goneFor, deadline>> /\ loop' = "run"
        /\ left' \in 0 .. MaxRun \/ left' = Forever
    BY <1>8 DEF ReadExec, Reads, ping, history
  <2>2. /\ loop = "read" /\ UNCHANGED <<inbox, peer>>
        /\ InQueue' => InQueue
        /\ ExecWaits(buffer)
    BY <1>5, <1>8 DEF ReadExec
  <2>3. Held /\ Owed = MaxRun
    BY <2>2 DEF Held, Owed
  <2>4. Held' => Owed' <= Owed
    <3>1. Held' => left' \in 0 .. MaxRun /\ Owed' = left'
      BY <2>1 DEF Held, Owed
    <3>2. QED
      BY <2>3, <3>1
  <2>5. Renewal' <= Renewal
    BY <2>2, RenewalKept
  <2>6. QED
    BY <2>1, <2>2, <2>3, <2>4, <2>5, SameDeadline, InTimeKept
<1>9. CASE CommandEnds
  <2>1. /\ loop = "run" /\ left = 0 /\ loop' = "read"
        /\ UNCHANGED <<left, buffer, inbox, peer, deadline, goneFor>>
    BY <1>9 DEF CommandEnds, input, history
  <2>2. Held /\ Owed = 0 /\ Owed' = 0 /\ Renewal' = Renewal
    BY <2>1 DEF Held, Owed, Renewal, InQueue, OneExec, Forever
  <2>3. Renewal' <= Renewal /\ Owed' <= Owed
    BY <2>2 DEF Renewal
  <2>4. QED
    BY <2>1, <2>2, <2>3, SameDeadline, InTimeKept
<1>10. CASE ReadClose \/ ReadFails
  BY <1>10 DEF ReadClose, ReadFails, InTime, Held
<1>11. CASE SendPing \/ StopPinger
  BY <1>3, <1>11 DEF SendPing, StopPinger, input, history
<1>12. CASE Tick
  <2>1. /\ UNCHANGED <<loop, buffer, inbox, peer>> /\ loop # "closed"
        /\ deadline' = Less(deadline)
        /\ goneFor' = IF goneFor > DropTime THEN goneFor ELSE goneFor + 1
    BY <1>12 DEF Tick, input
  <2> SUFFICES ASSUME Held'
               PROVE  /\ goneFor' + deadline' <= DropTime
                      /\ goneFor' + Owed' + Renewal' <= DropTime
    BY DEF InTime
  <2>2. /\ goneFor \in Nat /\ deadline \in Nat /\ DropTime \in Nat
        /\ left \in Nat /\ ReadDeadline \in Nat
    BY DEF TypeOK, DropTime, Forever
  <2>3. CASE loop = "run"
    <3>1. left # Forever /\ left > 0 /\ left' = left - 1
      BY <1>12, <2>1, <2>2, <2>3 DEF Tick, Quiet, Less, Held, TypeOK, Forever
    <3>2. Held /\ Owed = left /\ Owed' = left - 1 /\ Renewal' = Renewal
      BY <2>1, <2>3, <3>1 DEF Held, Owed, Renewal, InQueue
    <3>3. Renewal \in Nat
      BY <2>2 DEF Renewal
    <3>4. goneFor + deadline <= DropTime /\ goneFor + left + Renewal <= DropTime
      BY <3>2 DEF InTime
    <3>5. goneFor' = goneFor + 1
      BY <2>1, <2>2, <3>4
    <3>6. QED
      BY <2>1, <2>2, <3>1, <3>2, <3>3, <3>4, <3>5 DEF Less
  <2>4. CASE loop = "read"
    <3>1. buffer = <<>> /\ inbox = <<>> /\ deadline > 0
      BY <1>12, <2>4 DEF Tick, Quiet
    <3>2. ~ExecWaits(<<>>) /\ ~Pongs(<<>>)
      BY DEF ExecWaits, Pongs
    <3>3. Held /\ Owed' = 0 /\ Renewal' = 0
      BY <2>1, <2>4, <3>1, <3>2 DEF Held, Owed, Renewal, InQueue
    <3>4. goneFor + deadline <= DropTime
      BY <3>3 DEF InTime
    <3>5. goneFor' = goneFor + 1 /\ deadline' = deadline - 1
      BY <2>1, <2>2, <3>1, <3>4 DEF Less
    <3>6. QED
      BY <2>2, <3>1, <3>3, <3>4, <3>5
  <2>5. QED
    BY <2>1, <2>3, <2>4 DEF TypeOK
<1>13. QED
  BY <1>3, <1>4, <1>6, <1>7, <1>8, <1>9, <1>10, <1>11, <1>12
     DEF Next, Loop, Pinger, Send, Pong, Goes, vars

(* A session outlasts its client by no more than the read deadline and the *)
(* longest command that ends, unless its command is one that does not, for *)
(* all timings.                                                            *)
THEOREM GoneDroppedInTime == ASSUME Patient PROVE Spec => []DroppedInTime
<1> DEFINE I == TypeOK /\ OneExec /\ InTime
<1>1. Init => I
  <2>1. Init => OneExec /\ InTime
    BY DEF Init, OneExec, Once, ExecWaits, InTime
  <2>2. QED
    BY <2>1, TypeInit
<1>2. I /\ [Next]_vars => I'
  BY TypeStep, OneExecStep, InTimeStep
<1>3. I => DroppedInTime
  <2> SUFFICES ASSUME I, Held, peer # "here" PROVE goneFor <= DropTime
    BY WSConstantsOK DEF DroppedInTime, Held, InTime, DropTime
  <2>1. goneFor + deadline <= DropTime /\ goneFor \in Nat /\ deadline \in Nat
        /\ DropTime \in Nat
    BY WSConstantsOK DEF InTime, TypeOK, DropTime
  <2>2. QED
    BY <2>1
<1>4. QED
  BY <1>1, <1>2, <1>3, PTL DEF Spec
=============================================================================
