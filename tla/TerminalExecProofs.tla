-------------------------- MODULE TerminalExecProofs --------------------------
(***************************************************************************)
(* Theorems about TerminalExec, for any transports, pipe capacity, output  *)
(* and number of commands.                                                 *)
(***************************************************************************)
EXTENDS TerminalExec, TLAPS

Numbered(n) == [i \in 1 .. n |-> i]

(* A command in progress owes what is planned and not written; one over    *)
(* the WebSocket does not end before it has written that, while somebody   *)
(* has the read ends of its pipes.                                         *)
Child ==
  /\ alive => turn \in Turn(plan, made)
  /\ pc = "answering" => proc = "none"
  /\ transport = "ws" /\ pc = "copying" /\ ~alive => made = plan

(* The copiers work while streamCmd waits for them, and a copier whose     *)
(* write failed works no more.                                             *)
Copiers ==
  \A s \in Streams :
    /\ pc # "copying" => copier[s] \notin {"reading", "writing"}
    /\ pc = "copying" => copier[s] # "off"
    /\ s \in failed => copier[s] = "done"
    /\ copier[s] = "writing" => taken[s] > 0

(* Unless writes overlapped, the client has, of a stream without a failed  *)
(* write, what the copier has taken, or is about to be sent the last of it.*)
Pending(s) == IF copier[s] = "writing" THEN 1 ELSE 0

Counts ==
  ~mixed => \A s \in Streams :
    /\ shown[s] = Numbered(Len(shown[s]))
    /\ Len(shown[s]) + Pending(s) <= taken[s]
    /\ peer # "gone" /\ s \notin failed => Len(shown[s]) + Pending(s) = taken[s]

(* Over the WebSocket a copier that is done has taken all, unless a write  *)
(* failed; and a client that is told the end has been sent all.            *)
Ends ==
  /\ transport = "ws" =>
       \A s \in Streams \ failed :
         copier[s] = "done" \/ pc \in {"waiting", "answering"} =>
           taken[s] = plan[s]
  /\ told => pc = "idle"
  /\ ExitAfterOutput

(* What the parties wait for: streamCmd waits for a bash that was started, *)
(* and no copier over the WebSocket is done before the command is, unless  *)
(* its write failed.                                                       *)
Waits ==
  /\ pc \in {"copying", "waiting"} => proc # "none"
  /\ pc = "waiting" => \A s \in Streams : copier[s] = "done"
  /\ transport = "ws" /\ pc \in {"copying", "waiting"} =>
       \A s \in Streams \ failed : copier[s] = "done" => ~alive
  /\ kind = "direct" /\ proc = "exited" => ~alive

Inv == TypeOK /\ Child /\ Copiers /\ Counts /\ Ends /\ Waits
-----------------------------------------------------------------------------
LEMMA NumberedIsSeq ==
  ASSUME NEW n \in Nat
  PROVE  /\ Numbered(n) \in Seq(0 .. n) /\ Len(Numbered(n)) = n
         /\ Append(Numbered(n), n + 1) = Numbered(n + 1)
  BY DEF Numbered

LEMMA ZeroOutput ==
  /\ [s \in Streams |-> 0] \in [Streams -> 0 .. MaxChunks]
  /\ <<>> = Numbered(0)
  BY ExecConstantsOK DEF Numbered

LEMMA InitInv == Init => Inv
<1> SUFFICES ASSUME Init PROVE Inv
  OBVIOUS
<1>1. TypeOK
  <2>1. /\ plan \in [Streams -> 0 .. MaxChunks] /\ made = plan /\ taken = plan
        /\ copier \in [Streams -> {"off", "reading", "writing", "done"}]
        /\ shown \in [Streams -> Seq(0 .. MaxChunks)]
        /\ cmds \in 0 .. MaxCmds
    BY ExecConstantsOK, ZeroOutput DEF Init
  <2>2. \A s \in Streams : /\ taken[s] <= made[s] /\ made[s] <= plan[s]
                           /\ made[s] - taken[s] <= Capacity
    BY ExecConstantsOK DEF Init
  <2>3. /\ pc = "idle" /\ proc = "none" /\ kind = "direct" /\ alive = FALSE
        /\ turn = "none" /\ clash = {} /\ mixed = FALSE /\ failed = {} /\ told = FALSE
        /\ sendErr = FALSE /\ up = TRUE /\ peer = "here" /\ transport \in Transports
    BY DEF Init
  <2>4. QED
    BY <2>1, <2>2, <2>3 DEF TypeOK
<1>2. Child /\ Copiers /\ Ends /\ Waits
  BY DEF Init, Child, Copiers, Ends, ExitAfterOutput, Waits
<1>3. Counts
  <2>1. \A s \in Streams : shown[s] = <<>> /\ Len(shown[s]) = 0 /\ taken[s] = 0
    BY DEF Init
  <2>2. \A s \in Streams : Pending(s) = 0
    BY DEF Init, Pending
  <2>3. QED
    BY <2>1, <2>2, ZeroOutput DEF Counts
<1>4. QED
  BY <1>1, <1>2, <1>3 DEF Inv
-----------------------------------------------------------------------------
LEMMA TurnType ==
  ASSUME NEW p, NEW m PROVE Turn(p, m) \subseteq Streams \cup {"none"}
  BY DEF Turn, Owing

LEMMA AcceptTypes ==
  ASSUME TypeOK, Accept
  PROVE  /\ made' \in [Streams -> 0 .. MaxChunks]
         /\ taken' \in [Streams -> 0 .. MaxChunks]
         /\ \A s \in Streams : made'[s] = 0 /\ taken'[s] = 0
         /\ shown' \in [Streams -> Seq(0 .. MaxChunks)]
         /\ cmds' \in 0 .. MaxCmds /\ mixed' \in BOOLEAN
         /\ failed' = {} /\ told' = FALSE
         /\ UNCHANGED <<transport, clash, sendErr, peer, up>>
<1>1. mixed' \in BOOLEAN
  BY DEF Accept
<1>2. QED
  BY <1>1, ZeroOutput, ExecConstantsOK DEF TypeOK, Accept

(* What a writer may make of a chunk is a sequence of at most one.         *)
LEMMA ShownType ==
  ASSUME TypeOK, NEW s \in Streams, taken[s] \in 1 .. MaxChunks, shown' \in Shows(s)
  PROVE  shown' \in [Streams -> Seq(0 .. MaxChunks)]
<1>1. CASE shown' = shown
  BY <1>1 DEF TypeOK
<1>2. ASSUME NEW chunk \in Arrives(s), shown' = [shown EXCEPT ![s] = @ \o chunk]
      PROVE  shown' \in [Streams -> Seq(0 .. MaxChunks)]
  <2>1. chunk \in Seq(0 .. MaxChunks)
    <3>1. 0 \in 0 .. MaxChunks /\ taken[s] \in 0 .. MaxChunks
      BY ExecConstantsOK
    <3>2. /\ <<>> \in Seq(0 .. MaxChunks) /\ <<0>> \in Seq(0 .. MaxChunks)
          /\ <<taken[s]>> \in Seq(0 .. MaxChunks)
      BY <3>1
    <3>3. chunk = <<taken[s]>> \/ chunk = <<>> \/ chunk = <<0>>
      BY <1>2 DEF Arrives, Garbled
    <3>4. QED
      BY <3>2, <3>3
  <2>2. shown[s] \in Seq(0 .. MaxChunks)
    BY DEF TypeOK
  <2>3. shown[s] \o chunk \in Seq(0 .. MaxChunks)
    BY <2>1, <2>2
  <2>4. QED
    BY <1>2, <2>3 DEF TypeOK
<1>3. QED
  BY <1>1, <1>2 DEF Shows

(* A copier takes a chunk that is there.                                   *)
LEMMA TakeTypes ==
  ASSUME TypeOK, NEW s \in Streams, Take(s)
  PROVE  /\ taken' \in [Streams -> 0 .. MaxChunks]
         /\ \A t \in Streams : taken'[t] <= made[t] /\ made[t] - taken'[t] <= Capacity
<1>1. /\ taken \in [Streams -> 0 .. MaxChunks] /\ made \in [Streams -> 0 .. MaxChunks]
      /\ \A t \in Streams : taken[t] <= made[t] /\ made[t] - taken[t] <= Capacity
  BY DEF TypeOK
<1>2. taken[s] < made[s] /\ taken' = [taken EXCEPT ![s] = taken[s] + 1]
  BY DEF Take
<1>3. taken[s] + 1 \in 0 .. MaxChunks
  BY <1>1, <1>2, ExecConstantsOK
<1>4. taken' \in [Streams -> 0 .. MaxChunks]
  BY <1>1, <1>2, <1>3
<1>5. \A t \in Streams \ {s} : taken'[t] = taken[t]
  BY <1>1, <1>2
<1>6. taken'[s] = taken[s] + 1
  BY <1>1, <1>2
<1>7. QED
  BY <1>1, <1>2, <1>4, <1>5, <1>6, ExecConstantsOK

LEMMA TypeStep == Inv /\ [Next]_vars => TypeOK'
<1> SUFFICES ASSUME Inv, [Next]_vars PROVE TypeOK'
  OBVIOUS
<1> USE ExecConstantsOK DEF Inv
<1>1. CASE Exec
  <2>1. /\ turn' \in Streams \cup {"none"}
        /\ plan' \in [Streams -> 0 .. MaxChunks]
        /\ copier' \in [Streams -> {"off", "reading", "writing", "done"}]
    BY <1>1, TurnType DEF Exec
  <2>2. Accept
    BY <1>1 DEF Exec
  <2>3. /\ pc' = "copying" /\ proc' = "running" /\ alive' = TRUE
        /\ kind' \in {"direct", "child", "background"}
    BY <1>1 DEF Exec
  <2>4. \A s \in Streams : /\ taken'[s] <= made'[s] /\ made'[s] <= plan'[s]
                           /\ made'[s] - taken'[s] <= Capacity
    BY <2>1, <2>2, AcceptTypes
  <2>5. QED
    BY <2>1, <2>2, <2>3, <2>4, AcceptTypes DEF TypeOK
<1>2. CASE ExecFails
  <2>1. Accept /\ plan' \in [Streams -> 0 .. MaxChunks]
        /\ \A s \in Streams : plan'[s] = 0
    BY <1>2, ZeroOutput DEF ExecFails
  <2>2. \A s \in Streams : /\ taken'[s] <= made'[s] /\ made'[s] <= plan'[s]
                           /\ made'[s] - taken'[s] <= Capacity
    BY <2>1, AcceptTypes
  <2>3. pc' = "answering" /\ turn' = "none" /\ UNCHANGED <<proc, kind, alive, copier>>
    BY <1>2 DEF ExecFails
  <2>4. QED
    BY <2>1, <2>2, <2>3, AcceptTypes DEF TypeOK
<1>3. ASSUME NEW s \in Streams, Write(s) PROVE TypeOK'
  <2>1. turn' \in Streams \cup {"none"} /\ s \in Owing(plan, made)
    BY <1>3, TurnType DEF Write, Child, Turn, Streams
  <2>2. made[s] < plan[s]
    BY <2>1 DEF Owing
  <2>3. mixed' \in BOOLEAN /\ clash' \subseteq Streams
    BY <1>3 DEF Write, TypeOK, writes
  <2>4. QED
    BY <1>3, <2>1, <2>2, <2>3 DEF Write, TypeOK, client, world
<1>4. CASE CommandEnds \/ Exit \/ Killed \/ Reap
  <2>1. mixed' \in BOOLEAN /\ clash' \subseteq Streams
    BY <1>4 DEF CommandEnds, Exit, Killed, Reap, TypeOK, writes
  <2>2. CASE CommandEnds \/ Exit
    BY <2>1, <2>2 DEF CommandEnds, Exit, TypeOK, client, world, child
  <2>3. CASE Killed \/ Reap
    BY <2>1, <2>3 DEF Killed, Reap, TypeOK, client, world, child
  <2>4. QED
    BY <1>4, <2>2, <2>3
<1>5. ASSUME NEW s \in Streams, Take(s) PROVE TypeOK'
  <2>1. clash' \subseteq Streams /\ mixed' \in BOOLEAN
    BY <1>5 DEF Take, Busy, TypeOK
  <2>2. /\ taken' \in [Streams -> 0 .. MaxChunks]
        /\ \A t \in Streams : taken'[t] <= made[t] /\ made[t] - taken'[t] <= Capacity
    BY <1>5, TakeTypes
  <2>3. copier' \in [Streams -> {"off", "reading", "writing", "done"}]
    BY <1>5 DEF Take, TypeOK
  <2>4. QED
    BY <1>5, <2>1, <2>2, <2>3 DEF Take, TypeOK, client, world, child, writes
<1>6. ASSUME NEW s \in Streams, Eof(s) PROVE TypeOK'
  BY <1>6 DEF Eof, TypeOK, client, world, child, writes
<1>7. ASSUME NEW s \in Streams, Sent(s) PROVE TypeOK'
  <2>1. shown' \in [Streams -> Seq(0 .. MaxChunks)]
    <3>1. taken[s] \in 1 .. MaxChunks
      BY <1>7 DEF Sent, Returned, Copiers, TypeOK
    <3>2. QED
      BY <1>7, <3>1, ShownType DEF Sent
  <2>2. copier' \in [Streams -> {"off", "reading", "writing", "done"}]
    BY <1>7 DEF Sent, AfterWrite, TypeOK
  <2>3. QED
    BY <1>7, <2>1, <2>2 DEF Sent, Returned, TypeOK, world, child
<1>8. ASSUME NEW s \in Streams, SendFails(s) PROVE TypeOK'
  BY <1>8 DEF SendFails, Returned, TypeOK, world, child
<1>9. ASSUME NEW s \in Streams, Panic(s) PROVE TypeOK'
  <2>1. mixed' \in BOOLEAN /\ clash' \subseteq Streams
    BY <1>9 DEF Panic, TypeOK, writes
  <2>2. QED
    BY <1>9, <2>1 DEF Panic, TypeOK, client, child
<1>10. CASE BothDone \/ Answer \/ Client
  <2>1. CASE BothDone \/ Client
    BY <2>1 DEF BothDone, Client, TypeOK, client, world, child, writes
  <2>2. CASE Answer
    <3>1. told' \in BOOLEAN
      BY <2>2 DEF Answer
    <3>2. QED
      BY <2>2, <3>1 DEF Answer, TypeOK, world, child, writes, Child
  <2>3. QED
    BY <1>10, <2>1, <2>2
<1>11. CASE UNCHANGED vars
  BY <1>11 DEF TypeOK, vars
<1>12. QED
  BY <1>1, <1>2, <1>3, <1>4, <1>5, <1>6, <1>7, <1>8, <1>9, <1>10, <1>11
     DEF Next, Server, Command

LEMMA ChildStep == Inv /\ [Next]_vars => Child'
<1> SUFFICES ASSUME Inv, [Next]_vars PROVE Child'
  OBVIOUS
<1> USE DEF Inv, Child
<1>1. ASSUME UNCHANGED <<pc, proc, child, transport>> PROVE Child'
  BY <1>1 DEF child, Turn, Owing
<1>2. CASE Exec
  BY <1>2 DEF Exec, Accept
<1>3. CASE ExecFails
  <2>1. /\ turn' = "none" /\ pc' = "answering" /\ proc' = "none"
        /\ \A s \in Streams : made'[s] = 0 /\ plan'[s] = 0
    BY <1>3 DEF ExecFails, Accept, TypeOK
  <2>2. Owing(plan', made') = {}
    BY <2>1 DEF Owing
  <2>3. QED
    BY <2>1, <2>2 DEF Turn
<1>4. ASSUME NEW s \in Streams, Write(s) PROVE Child'
  BY <1>4 DEF Write, world
<1>5. CASE CommandEnds
  <2> SUFFICES ASSUME transport = "ws", pc = "copying" PROVE made = plan
    BY <1>5 DEF CommandEnds, world
  <2>1. Owing(plan, made) = {}
    BY <1>5 DEF CommandEnds, Turn, Owing, Streams, Waits
  <2>2. \A s \in Streams : made[s] = plan[s]
    BY <2>1 DEF Owing, TypeOK
  <2>3. made = plan
    BY <2>2 DEF TypeOK
  <2>4. QED
    BY <2>3
<1>6. CASE Exit
  BY <1>6 DEF Exit, child, world, Turn, Owing
<1>7. CASE Killed
  BY <1>7 DEF Killed, world, Turn, Owing
<1>8. CASE Reap
  BY <1>8 DEF Reap, world, child, Turn, Owing
<1>9. CASE BothDone \/ Answer
  BY <1>9 DEF BothDone, Answer, child, world, Turn, Owing
<1>10. QED
  BY <1>1, <1>2, <1>3, <1>4, <1>5, <1>6, <1>7, <1>8, <1>9
     DEF Next, Server, Command, Take, Eof, Sent, SendFails, Returned, Panic,
         Client, vars, world, child

LEMMA CopiersStep == Inv /\ [Next]_vars => Copiers'
<1> SUFFICES ASSUME Inv, [Next]_vars PROVE Copiers'
  OBVIOUS
<1> USE DEF Inv, Copiers
<1>1. ASSUME UNCHANGED <<pc, copier, failed, taken>> PROVE Copiers'
  BY <1>1
<1>2. CASE Exec
  BY <1>2 DEF Exec, Accept
<1>3. CASE ExecFails
  BY <1>3 DEF ExecFails, Accept
<1>4. ASSUME NEW s \in Streams, Take(s) PROVE Copiers'
  BY <1>4 DEF Take, client, TypeOK
<1>5. ASSUME NEW s \in Streams, Eof(s) PROVE Copiers'
  BY <1>5 DEF Eof, client, TypeOK
<1>6. ASSUME NEW s \in Streams, Sent(s) PROVE Copiers'
  BY <1>6 DEF Sent, Returned, AfterWrite, TypeOK
<1>7. ASSUME NEW s \in Streams, SendFails(s) PROVE Copiers'
  BY <1>7 DEF SendFails, Returned, TypeOK
<1>8. CASE BothDone
  BY <1>8 DEF BothDone, client
<1>9. CASE Reap \/ Answer
  BY <1>9 DEF Reap, Answer, client
<1>10. QED
  BY <1>1, <1>2, <1>3, <1>4, <1>5, <1>6, <1>7, <1>8, <1>9
     DEF Next, Server, Command, Write, CommandEnds, Exit, Killed, Panic, Client,
         vars, client

LEMMA CountsStep == Inv /\ [Next]_vars => Counts'
<1> SUFFICES ASSUME Inv, [Next]_vars PROVE Counts'
  OBVIOUS
<1> USE DEF Inv
<1>1. ASSUME UNCHANGED <<copier, taken, shown, failed, mixed>>,
             peer' # "gone" => peer # "gone"
      PROVE  Counts'
  BY <1>1 DEF Counts, Pending
<1>2. CASE Exec \/ ExecFails
  <2>1. \A s \in Streams : shown'[s] = <<>> /\ Len(shown'[s]) = 0 /\ taken'[s] = 0
    BY <1>2 DEF Exec, ExecFails, Accept
  <2>2. \A s \in Streams : copier'[s] # "writing"
    BY <1>2 DEF Exec, ExecFails, Accept, Copiers
  <2>3. \A s \in Streams : Pending(s)' = 0
    BY <2>2 DEF Pending
  <2>4. QED
    BY <2>1, <2>3, ZeroOutput DEF Counts
<1>3. ASSUME NEW s \in Streams, Take(s) PROVE Counts'
  <2>1. Pending(s)' = 1 /\ Pending(s) = 0 /\ taken'[s] = taken[s] + 1
    BY <1>3 DEF Take, Pending, TypeOK
  <2>2. \A t \in Streams \ {s} : Pending(t)' = Pending(t) /\ taken'[t] = taken[t]
    BY <1>3 DEF Take, Pending, TypeOK
  <2>3. \A t \in Streams : Len(shown[t]) \in Nat /\ taken[t] \in Nat
    BY DEF TypeOK
  <2>4. UNCHANGED <<shown, failed, peer>> /\ (~mixed' => ~mixed)
    BY <1>3 DEF Take, client, world
  <2>5. QED
    BY <2>1, <2>2, <2>3, <2>4 DEF Counts
<1>4. ASSUME NEW s \in Streams, Eof(s) PROVE Counts'
  <2>1. \A t \in Streams : Pending(t)' = Pending(t)
    BY <1>4 DEF Eof, Pending, TypeOK
  <2>2. QED
    BY <1>4, <2>1 DEF Eof, Counts, client, world, writes
<1>5. ASSUME NEW s \in Streams, Sent(s) PROVE Counts'
  <2> SUFFICES ASSUME ~mixed PROVE Counts'
    BY <1>5 DEF Sent, Returned, Counts
  <2>1. Pending(s)' = 0 /\ Pending(s) = 1
    BY <1>5 DEF Sent, Returned, AfterWrite, Pending, TypeOK
  <2>2. \A t \in Streams \ {s} : Pending(t)' = Pending(t) /\ shown'[t] = shown[t]
    BY <1>5 DEF Sent, Shows, Pending, TypeOK
  <2>3. UNCHANGED <<taken, failed, peer, mixed>> /\ s \notin failed
    BY <1>5 DEF Sent, Returned, world, Copiers
  <2>4. \A t \in Streams : Len(shown[t]) \in Nat /\ taken[t] \in Nat
    BY DEF TypeOK
  <2>5. CASE peer = "gone"
    <3>1. shown' = shown
      BY <1>5, <2>5 DEF Sent, Shows
    <3>2. QED
      BY <2>1, <2>2, <2>3, <2>4, <2>5, <3>1 DEF Counts
  <2>6. CASE peer # "gone"
    <3> DEFINE n == Len(shown[s])
    <3>1. taken[s] = n + 1 /\ shown[s] = Numbered(n) /\ n \in Nat
      BY <2>1, <2>3, <2>4, <2>6 DEF Counts
    <3>2. shown'[s] = Append(shown[s], n + 1)
      <4>1. shown' = [shown EXCEPT ![s] = @ \o <<taken[s]>>]
        BY <1>5, <2>6 DEF Sent, Shows, Arrives
      <4>2. shown'[s] = shown[s] \o <<n + 1>>
        BY <3>1, <4>1 DEF TypeOK
      <4>3. shown[s] \in Seq(0 .. MaxChunks)
        BY DEF TypeOK
      <4>4. QED
        BY <3>1, <4>2, <4>3
    <3>3. shown'[s] = Numbered(n + 1) /\ Len(shown'[s]) = n + 1
      <4>1. Append(Numbered(n), n + 1) = Numbered(n + 1)
        BY <3>1, NumberedIsSeq
      <4>2. n + 1 \in Nat
        BY <3>1
      <4>3. Len(Numbered(n + 1)) = n + 1
        BY <4>2, NumberedIsSeq
      <4>4. QED
        BY <3>1, <3>2, <4>1, <4>3
    <3>4. /\ shown'[s] = Numbered(Len(shown'[s]))
          /\ Len(shown'[s]) + 0 = taken[s]
      BY <3>1, <3>3
    <3>5. QED
      BY <2>1, <2>2, <2>3, <2>4, <3>4 DEF Counts
  <2>7. QED
    BY <2>5, <2>6
<1>6. ASSUME NEW s \in Streams, SendFails(s) PROVE Counts'
  <2>1. Pending(s)' = 0 /\ Pending(s) \in {0, 1}
    BY <1>6 DEF SendFails, Pending, TypeOK
  <2>2. \A t \in Streams \ {s} : Pending(t)' = Pending(t)
    BY <1>6 DEF SendFails, Pending, TypeOK
  <2>3. UNCHANGED <<taken, shown, peer, mixed>> /\ failed' = failed \cup {s}
    BY <1>6 DEF SendFails, Returned, world
  <2>4. \A t \in Streams : Len(shown[t]) \in Nat /\ taken[t] \in Nat
    BY DEF TypeOK
  <2>5. QED
    BY <2>1, <2>2, <2>3, <2>4 DEF Counts
<1>7. QED
  BY <1>1, <1>2, <1>3, <1>4, <1>5, <1>6
     DEF Next, Server, Command, Write, CommandEnds, Exit, Killed, BothDone, Reap,
         Answer, Panic, Client, vars, client, world, writes

LEMMA EndsStep == Inv /\ [Next]_vars => Ends'
<1> SUFFICES ASSUME Inv, [Next]_vars PROVE Ends'
  OBVIOUS
<1> USE DEF Inv
<1>1. ASSUME UNCHANGED <<transport, copier, pc, taken, plan, failed, told, shown, mixed>>
      PROVE  Ends'
  BY <1>1 DEF Ends, ExitAfterOutput
<1>2. CASE Exec
  BY <1>2 DEF Exec, Accept, Ends, ExitAfterOutput
<1>3. CASE ExecFails
  BY <1>3 DEF ExecFails, Accept, Ends, ExitAfterOutput
<1>4. ASSUME pc = "copying", ~told', pc' = "copying" PROVE Ends' <=>
        (transport' = "ws" =>
           \A s \in Streams \ failed' : copier'[s] = "done" => taken'[s] = plan'[s])
  BY <1>4 DEF Ends, ExitAfterOutput
<1>5. ASSUME NEW s \in Streams, copier[s] \in {"reading", "writing"}
      PROVE  pc = "copying" /\ ~told
  BY <1>5 DEF Copiers, Ends, TypeOK
<1>6. ASSUME NEW s \in Streams, Take(s) PROVE Ends'
  BY <1>4, <1>5, <1>6 DEF Take, Ends, TypeOK, client, world, child, writes
<1>7. ASSUME NEW s \in Streams, Eof(s) PROVE Ends'
  <2>1. pc = "copying" /\ ~told
    BY <1>5, <1>7 DEF Eof
  <2>2. transport = "ws" => taken[s] = plan[s]
    BY <1>7, <2>1 DEF Eof, Child, TypeOK
  <2>3. QED
    BY <1>4, <1>7, <2>1, <2>2 DEF Eof, Ends, TypeOK, client, world, child, writes
<1>8. ASSUME NEW s \in Streams, Sent(s) PROVE Ends'
  <2>1. pc = "copying" /\ ~told
    BY <1>5, <1>8 DEF Sent, Returned
  <2>2. \A t \in Streams : transport = "ws" /\ copier'[t] = "done" =>
          copier[t] = "done"
    BY <1>8 DEF Sent, AfterWrite, TypeOK
  <2>3. QED
    BY <1>4, <1>8, <2>1, <2>2 DEF Sent, Returned, Ends, world, child, writes
<1>9. ASSUME NEW s \in Streams, SendFails(s) PROVE Ends'
  <2>1. pc = "copying" /\ ~told
    BY <1>5, <1>9 DEF SendFails, Returned
  <2>2. \A t \in Streams \ {s} : copier'[t] = copier[t]
    BY <1>9 DEF SendFails, TypeOK
  <2>3. QED
    BY <1>4, <1>9, <2>1, <2>2 DEF SendFails, Returned, Ends, world, child, writes
<1>10. CASE BothDone
  BY <1>10 DEF BothDone, Ends, ExitAfterOutput, client, world, child, writes
<1>11. CASE Reap
  BY <1>11 DEF Reap, Ends, ExitAfterOutput, client, world, child, writes
<1>12. CASE Answer
  <2>1. \A s \in Streams : Pending(s) = 0
    BY <1>12 DEF Answer, Copiers, Pending
  <2>2. told' => peer # "gone"
    BY <1>12 DEF Answer
  <2>3. \A s \in Streams \ failed :
          told' /\ transport = "ws" /\ ~mixed => Len(shown[s]) = plan[s]
    BY <1>12, <2>1, <2>2 DEF Answer, Counts, Ends, TypeOK
  <2>4. QED
    BY <1>12, <2>3 DEF Answer, Ends, ExitAfterOutput, world, child, writes
<1>13. QED
  BY <1>1, <1>2, <1>3, <1>6, <1>7, <1>8, <1>9, <1>10, <1>11, <1>12
     DEF Next, Server, Command, Write, CommandEnds, Exit, Killed, Panic, Client,
         vars, client, world, child, writes

LEMMA WaitsStep == Inv /\ [Next]_vars => Waits'
<1> SUFFICES ASSUME Inv, [Next]_vars PROVE Waits'
  OBVIOUS
<1> USE DEF Inv, Waits
<1>1. ASSUME UNCHANGED <<pc, proc, kind, alive, copier, failed, transport>>
      PROVE  Waits'
  BY <1>1
<1>2. CASE Exec
  BY <1>2 DEF Exec, Accept
<1>3. CASE ExecFails
  BY <1>3 DEF ExecFails, Accept, TypeOK
<1>4. CASE CommandEnds
  BY <1>4 DEF CommandEnds, client, world
<1>5. CASE Exit
  BY <1>5 DEF Exit, child, client, world
<1>6. CASE Killed
  BY <1>6 DEF Killed, client, world
<1>7. ASSUME NEW s \in Streams, Take(s) PROVE Waits'
  BY <1>7 DEF Take, TypeOK, Copiers, child, client, world
<1>8. ASSUME NEW s \in Streams, Eof(s) PROVE Waits'
  BY <1>8 DEF Eof, TypeOK, Copiers, child, client, world
<1>9. ASSUME NEW s \in Streams, Sent(s) PROVE Waits'
  BY <1>9 DEF Sent, Returned, AfterWrite, TypeOK, Copiers, child, world
<1>10. ASSUME NEW s \in Streams, SendFails(s) PROVE Waits'
  BY <1>10 DEF SendFails, Returned, TypeOK, Copiers, child, world
<1>11. CASE BothDone
  BY <1>11 DEF BothDone, child, client, world
<1>12. CASE Reap
  BY <1>12 DEF Reap, client, world, child
<1>13. CASE Answer
  BY <1>13 DEF Answer, child, world
<1>14. QED
  BY <1>1, <1>2, <1>3, <1>4, <1>5, <1>6, <1>7, <1>8, <1>9, <1>10, <1>11, <1>12,
     <1>13
     DEF Next, Server, Command, Write, Panic, Client, vars, child, client, world

LEMMA Invariance == Spec => []Inv
<1>1. Inv /\ [Next]_vars => Inv'
  BY TypeStep, ChildStep, CopiersStep, CountsStep, EndsStep, WaitsStep DEF Inv
<1>2. QED
  BY InitInv, <1>1, PTL DEF Spec
-----------------------------------------------------------------------------
(* TypeOK is an invariant: the pipes never hold more than they can, and no *)
(* command is over whose bash has not been waited for.                     *)
THEOREM TypeCorrect == Spec => []TypeOK
<1>1. Inv => TypeOK
  BY DEF Inv
<1>2. QED
  BY Invariance, <1>1, PTL

(* What is shown of a stream is a prefix of what was written on it, however*)
(* failures, stalls and clients interleave with the copiers, until two     *)
(* writes overlap.                                                         *)
THEOREM OutputAlwaysPrefix == Spec => []OutputIsPrefix
<1>1. Inv => OutputIsPrefix
  BY DEF Inv, Counts, Numbered, OutputIsPrefix
<1>2. QED
  BY Invariance, <1>1, PTL

(* An exit code over the WebSocket is told after all the output of the     *)
(* streams whose writes went well, unless writes overlapped.               *)
THEOREM ExitFollowsOutput == Spec => []ExitAfterOutput
<1>1. Inv => ExitAfterOutput
  BY DEF Inv, Ends
<1>2. QED
  BY Invariance, <1>1, PTL

(* The command, bash, the copiers and the handler never all wait for each  *)
(* other, whatever the size of the pipes and of the output: no command     *)
(* over the WebSocket hangs unless a write failed or its client reads no   *)
(* more, and no REST command whose client has left.                        *)
THEOREM CommandsNeverStuck == Spec => []NeverStuck
<1>1. Inv => NeverStuck
  <2> SUFFICES ASSUME Inv, up, pc # "idle", peer # "stalled", MustEnd,
                      ~BashMoves, ~HandlerMoves,
                      \A s \in Streams : ~CopierMoves(s)
               PROVE  CommandMoves
    BY DEF NeverStuck
  <2> USE DEF Inv
  <2>1. CASE pc = "waiting"
    <3>1. proc = "running" /\ alive /\ \A s \in Streams : copier[s] = "done"
      BY <2>1 DEF Waits, TypeOK, HandlerMoves, BashMoves
    <3>2. transport = "ws" /\ failed = {}
      BY <3>1 DEF MustEnd, BashMoves
    <3>3. QED
      BY <2>1, <3>1, <3>2 DEF Waits, Streams
  <2>2. CASE pc = "copying"
    <3>1. PICK s \in Streams : copier[s] = "reading"
      BY <2>2 DEF HandlerMoves, CopierMoves, Copiers, TypeOK
    <3>2. alive
      BY <3>1 DEF CopierMoves, BashMoves, TypeOK
    <3>3. transport = "ws" /\ failed = {}
      BY <2>2, <3>2 DEF MustEnd, BashMoves, Waits, TypeOK
    <3>4. \A t \in Streams : copier[t] = "reading" /\ taken[t] >= made[t]
      BY <2>2, <3>2, <3>3 DEF Waits, Copiers, CopierMoves, TypeOK
    <3>5. QED
      BY <3>2, <3>4, ExecConstantsOK DEF CommandMoves, TypeOK
  <2>3. QED
    BY <2>1, <2>2 DEF TypeOK, HandlerMoves
<1>2. QED
  BY Invariance, <1>1, PTL
=============================================================================
