------------------------ MODULE StreamControlProofs -------------------------
(***************************************************************************)
(* What StreamControl guarantees for every set of streams and clients and  *)
(* every bound: its inductive invariant holds, and with it the type        *)
(* invariant, InputRowsMatchEntries and LatestTaskAccounted; it implements *)
(* Registry, and the rows are always enough to restore from; the channel a *)
(* task reads is closed once and for all; and, for the outputs that cannot *)
(* fail, OutputRowsHaveEntries.                                            *)
(***************************************************************************)
EXTENDS StreamControlPlaces

-----------------------------------------------------------------------------
(* UDP outputs. *)

LEMMA UdpMovesSilent ==
  ASSUME NEW s \in Streams, NEW g \in Gens, UdpOutput(s), NEW m \in Moves(s, g)
  PROVE  m.say = "nothing"
<1>1. s \notin Inputs
  BY StreamControlAssumption DEF UdpOutput
<1>2. \A closed \in BOOLEAN : \A n \in UdpOutputMoves(phase[s][g], closed) :
        n.say = "nothing"
  BY DEF UdpOutputMoves, Move, Fault
<1>3. (Reads(s) /\ Closed(s, g)) \in BOOLEAN
  BY DEF Reads, Closed
<1> QED
  BY <1>1, <1>2, <1>3 DEF Moves, OutputMoves, UdpOutput

LEMMA SendSilent ==
  ASSUME TypeOK, UdpSilent, NEW s \in Streams, NEW say \in Says, Send(s, say),
         UdpOutput(s) => say = "nothing"
  PROVE  UdpSilent'
<1>1. CASE say = "nothing"
  BY <1>1 DEF Send, UdpSilent
<1>2. CASE say # "nothing"
  <2> DEFINE m == [s |-> s, st |-> say]
  <2>1. m \in Messages /\ m.s = s
    BY <1>2 DEF Messages, Says
  <2>2. queue \in Seq(Messages) /\ queue' = Append(queue, m)
    BY <1>2 DEF Send, TypeOK
  <2> HIDE DEF m
  <2>3. /\ Len(queue') = Len(queue) + 1 /\ Len(queue) \in Nat
        /\ \A n \in 1..Len(queue) : queue'[n] = queue[n]
        /\ queue'[Len(queue) + 1] = m
    BY <2>1, <2>2, AppendProperties
  <2> QED
    BY <1>2, <2>1, <2>3 DEF UdpSilent
<1> QED
  BY <1>1, <1>2

LEMMA RunShown ==
  ASSUME TypeOK, UdpShown, NEW o \in Outputs, RunOutput(o)
  PROVE  UdpShown'
  BY StreamControlAssumption
     DEF TypeOK, UdpShown, UdpOutput, RunOutput, InitialStatus, OutputStatus,
         Streams

LEMMA HaltShown ==
  ASSUME TypeOK, UdpShown, NEW i \in Inputs, HaltInput(i)
  PROVE  UdpShown'
  BY StreamControlAssumption
     DEF TypeOK, UdpShown, UdpOutput, HaltInput, Set, RunningOf, Streams

LEMMA RestartShown ==
  ASSUME TypeOK, UdpShown, NEW i \in Inputs, NEW failed, NEW S,
         RestartOutputs(i, failed), ShowSpawned(S),
         StoppedOf(i) \ failed \subseteq S
  PROVE  UdpShown'
<1>1. running' = running \cup (StoppedOf(i) \ failed)
  BY DEF RestartOutputs
<1>2. ASSUME NEW o \in running', UdpOutput(o) PROVE status'[o] = "Connected"
  <2>1. o \in Streams /\ o \notin Inputs /\ InitialStatus(o) = "Connected"
    BY <1>2, StreamControlAssumption
       DEF UdpOutput, InitialStatus, OutputStatus, Streams
  <2>2. o \in S \/ o \in running
    BY <1>1
  <2> QED
    BY <1>2, <2>1, <2>2 DEF ShowSpawned, UdpShown
<1> QED
  BY <1>2 DEF UdpShown, UdpOutput

LEMMA UdpStep ==
  TypeOK /\ HandlersPlaced /\ UdpOutputsConnected /\ [Next]_vars
    => UdpOutputsConnected'
<1> SUFFICES ASSUME TypeOK, HandlersPlaced, UdpOutputsConnected, [Next]_vars
             PROVE  UdpOutputsConnected'
  OBVIOUS
<1> USE DEF UdpOutputsConnected
<1>1. ASSUME NEW s \in Streams, NEW g \in Gens, TaskStep(s, g)
      PROVE  UdpOutputsConnected'
  <2>1. PICK m \in Moves(s, g) : Send(s, m.say)
    BY <1>1 DEF TaskStep
  <2>2. m.say \in Says /\ (UdpOutput(s) => m.say = "nothing")
    BY MovesTyped, UdpMovesSilent
  <2>3. UdpSilent'
    BY <2>1, <2>2, SendSilent
  <2> QED
    BY <1>1, <2>3 DEF TaskStep, memory, UdpShown
<1>2. ASSUME NEW s \in Streams, NEW g \in Gens, LateStep(s, g)
      PROVE  UdpOutputsConnected'
  <2>1. PICK m \in Moves(s, g) : Send(s, m.say)
    BY <1>2 DEF LateStep
  <2>2. m.say \in Says /\ (UdpOutput(s) => m.say = "nothing")
    BY MovesTyped, UdpMovesSilent
  <2>3. UdpSilent'
    BY <2>1, <2>2, SendSilent
  <2> QED
    BY <1>2, <2>3 DEF LateStep, memory, UdpShown
<1>3. ASSUME NEW s \in Streams, NEW g \in Gens, AbortLands(s, g)
      PROVE  UdpOutputsConnected'
  BY <1>3
     DEF AbortLands, memory, UdpShown, UdpSilent
<1>4. ASSUME Process
      PROVE  UdpOutputsConnected'
  <2> DEFINE m == Head(queue)
  <2>1. /\ queue \in Seq(Messages) /\ queue # <<>>
        /\ m = queue[1] /\ Len(queue) \in Nat \ {0}
        /\ Len(queue') = Len(queue) - 1
        /\ \A n \in 1..Len(queue') : queue'[n] = queue[n + 1]
    BY <1>4, HeadTailProperties DEF Process, TypeOK
  <2>2. UdpSilent' /\ ~UdpOutput(m.s)
    BY <2>1 DEF UdpSilent
  <2>3. UdpShown'
    BY <1>4, <2>2 DEF Process, UdpShown, UdpOutput, TypeOK
  <2> QED
    BY <2>2, <2>3
<1>5. ASSUME NEW c \in Clients, NEW i \in Inputs, CreateInput(c, i)
      PROVE  UdpOutputsConnected'
  BY <1>5
     DEF CreateInput, memory, UdpShown, UdpSilent
<1>6. ASSUME NEW c \in Clients, NEW i \in Inputs, DeleteInput(c, i)
      PROVE  UdpOutputsConnected'
  BY <1>6, StreamControlAssumption
     DEF DeleteInput, UdpShown, UdpSilent, Set, UdpOutput, Streams, TypeOK
<1>7. ASSUME NEW c \in Clients, NEW i \in Inputs, StartInput(c, i)
      PROVE  UdpOutputsConnected'
  BY <1>7
     DEF StartInput, memory, UdpShown, UdpSilent
<1>8. ASSUME NEW c \in Clients, NEW i \in Inputs, StopInput(c, i)
      PROVE  UdpOutputsConnected'
  BY <1>8, HaltShown DEF StopInput, HaltInput, UdpSilent
<1>9. ASSUME NEW c \in Clients, NEW i \in Inputs, UpdateInput(c, i)
      PROVE  UdpOutputsConnected'
  BY <1>9
     DEF UpdateInput, memory, UdpShown, UdpSilent
<1>10. ASSUME NEW c \in Clients, NEW o \in Outputs, CreateOutput(c, o)
       PROVE  UdpOutputsConnected'
  BY <1>10, RunShown
     DEF CreateOutput, LookupFails, UdpShown, UdpSilent
<1>11. ASSUME NEW c \in Clients, NEW o \in Outputs, DeleteOutput(c, o)
       PROVE  UdpOutputsConnected'
  <2>1. queue' = queue
    BY <1>11 DEF DeleteOutput
  <2>2. CASE running' = running \ {o}
       /\ status' = [status EXCEPT ![o] = "Stopped"]
    BY <2>1, <2>2 DEF UdpShown, UdpSilent, TypeOK
  <2>3. CASE running' = running /\ status' = status
    BY <2>1, <2>3 DEF UdpShown, UdpSilent
  <2> QED
    BY <1>11, <2>2, <2>3 DEF DeleteOutput
<1>12. ASSUME NEW c \in Clients, NEW o \in Outputs, StartOutput(c, o)
       PROVE  UdpOutputsConnected'
  BY <1>12
     DEF StartOutput, memory, UdpShown, UdpSilent
<1>13. ASSUME NEW c \in Clients, NEW o \in Outputs, StopOutput(c, o)
       PROVE  UdpOutputsConnected'
  BY <1>13
     DEF StopOutput, memory, UdpShown, UdpSilent
<1>14. ASSUME NEW c \in Clients, NEW o \in Outputs, UpdateOutput(c, o)
       PROVE  UdpOutputsConnected'
  BY <1>14
     DEF UpdateOutput, memory, UdpShown, UdpSilent
<1>15. ASSUME NEW c \in Clients, SpawnInput(c)
       PROVE  UdpOutputsConnected'
  BY <1>15
     DEF SpawnInput, memory, UdpShown, UdpSilent
<1>16. ASSUME NEW c \in Clients, InsertInput(c)
       PROVE  UdpOutputsConnected'
  <2>1. pc[c].s \in Inputs /\ running' = running /\ queue' = queue
    BY <1>16, PlacedTyped DEF InsertInput
  <2>2. \A o \in Outputs : status'[o] = status[o]
    BY <1>16, <2>1, StreamControlAssumption DEF InsertInput, TypeOK, Streams
  <2> QED
    BY <2>1, <2>2 DEF UdpShown, UdpSilent, UdpOutput
<1>17. ASSUME NEW c \in Clients, InsertFailedInput(c)
       PROVE  UdpOutputsConnected'
  <2>1. pc[c].s \in Inputs /\ running' = running /\ queue' = queue
    BY <1>17, PlacedTyped DEF InsertFailedInput
  <2>2. \A o \in Outputs : status'[o] = status[o]
    BY <1>17, <2>1, StreamControlAssumption
       DEF InsertFailedInput, TypeOK, Streams
  <2> QED
    BY <2>1, <2>2 DEF UdpShown, UdpSilent, UdpOutput
<1>18. ASSUME NEW c \in Clients, RestartInput(c)
       PROVE  UdpOutputsConnected'
  BY <1>18
     DEF RestartInput, memory, UdpShown, UdpSilent
<1>19. ASSUME NEW c \in Clients, Respawn(c)
       PROVE  UdpOutputsConnected'
  <2> DEFINE i == pc[c].s
  <2>1. i \in Inputs /\ queue' = queue
    BY <1>19, PlacedTyped DEF Respawn
  <2>2. CASE UNCHANGED memory
    BY <2>1, <2>2 DEF memory, UdpShown, UdpSilent
  <2>3. ASSUME NEW failed \in SUBSET StoppedOf(i),
               RestartOutputs(i, failed),
               ShowSpawned({i} \cup (StoppedOf(i) \ failed))
        PROVE  UdpShown'
    BY <2>1, <2>3, RestartShown
  <2>4. UdpSilent'
    BY <2>1 DEF UdpSilent
  <2> QED
    BY <1>19, <2>2, <2>3, <2>4 DEF Respawn
<1>20. ASSUME NEW c \in Clients, ReachInput(c) \/ CheckSource(c) \/ Attach(c)
       PROVE  UdpOutputsConnected'
  BY <1>20
     DEF ReachInput, CheckSource, Attach, memory, UdpShown, UdpSilent
<1>21. ASSUME NEW c \in Clients, Adopt(c)
       PROVE  UdpOutputsConnected'
  <2> DEFINE i == pc[c].s
  <2>1. i \in Inputs /\ queue' = queue
    BY <1>21, PlacedTyped DEF Adopt
  <2>2. CASE UNCHANGED memory
    BY <2>1, <2>2 DEF memory, UdpShown, UdpSilent
  <2>3. ASSUME NEW failed \in SUBSET StoppedOf(i),
               RestartOutputs(i, failed),
               ShowSpawned({i} \cup (StoppedOf(i) \ failed))
        PROVE  UdpShown'
    BY <2>1, <2>3, RestartShown
  <2>4. UdpSilent'
    BY <2>1 DEF UdpSilent
  <2> QED
    BY <1>21, <2>2, <2>3, <2>4 DEF Adopt
<1>22. ASSUME NEW c \in Clients, ProbeInput(c)
       PROVE  UdpOutputsConnected'
  BY <1>22
     DEF ProbeInput, memory, UdpShown, UdpSilent
<1>23. ASSUME NEW c \in Clients, HaltForUpdate(c)
       PROVE  UdpOutputsConnected'
  BY <1>23, HaltShown DEF HaltForUpdate, HaltInput, UdpSilent, UdpShown, memory
<1>24. ASSUME NEW c \in Clients, BeginOutput(c)
       PROVE  UdpOutputsConnected'
  BY <1>24, RunShown, PlacedTyped
     DEF BeginOutput, LookupFails, UdpShown, UdpSilent, memory
<1>25. ASSUME NEW c \in Clients, EndOutput(c)
       PROVE  UdpOutputsConnected'
  <2>1. CASE UNCHANGED memory /\ queue' = queue
    BY <2>1 DEF memory, UdpShown, UdpSilent
  <2>2. CASE HaltOutput(pc[c].s)
    BY <2>2 DEF HaltOutput, UdpShown, UdpSilent, TypeOK
  <2> QED
    BY <1>25, <2>1, <2>2 DEF EndOutput
<1>26. ASSUME NEW c \in Clients, ProbeOutput(c)
       PROVE  UdpOutputsConnected'
  BY <1>26
     DEF ProbeOutput, memory, UdpShown, UdpSilent
<1>27. ASSUME NEW c \in Clients, ParkOutput(c)
       PROVE  UdpOutputsConnected'
  BY <1>27
     DEF ParkOutput, memory, UdpShown, UdpSilent
<1>28. ASSUME NEW c \in Clients, ReadStatus(c)
       PROVE  UdpOutputsConnected'
  BY <1>28
     DEF ReadStatus, memory, UdpShown, UdpSilent
<1>29. ASSUME NEW c \in Clients, WriteRow(c)
       PROVE  UdpOutputsConnected'
  BY <1>29
     DEF WriteRow, memory, UdpShown, UdpSilent
<1>30. ASSUME Restart
       PROVE  UdpOutputsConnected'
  <2>1. UdpSilent'
    BY <1>30 DEF Restart, UdpSilent
  <2>2. ASSUME NEW o \in Sending(row'), UdpOutput(o)
        PROVE  LoadedStatus(row')[o] = "Connected"
    BY <2>2, StreamControlAssumption
       DEF LoadedStatus, Live, InitialStatus, OutputStatus, UdpOutput, Streams
  <2>3. UdpShown'
    BY <1>30, <2>2 DEF Restart, UdpShown, UdpOutput
  <2> QED
    BY <2>1, <2>3
<1>31. CASE UNCHANGED vars
  BY <1>31 DEF vars, memory, UdpShown, UdpSilent
<1> QED
  BY <1>1, <1>2, <1>3, <1>4, <1>5, <1>6, <1>7, <1>8, <1>9, <1>10, <1>11,
     <1>12, <1>13, <1>14, <1>15, <1>16,
     <1>17, <1>18, <1>19, <1>20, <1>21, <1>22, <1>23, <1>24, <1>25, <1>26,
     <1>27, <1>28, <1>29, <1>30, <1>31
     DEF Next, TaskAction, Request, Continue

-----------------------------------------------------------------------------
(* The newest task of a stream. *)

\* No create_input about to store its task is disturbed.
InsertsKept == \A d \in Clients : At(d, "insert") => pc'[d] = pc[d]

LEMMA InsertsMove ==
  ASSUME TypeOK, NEW c \in Clients, ~At(c, "insert")
  PROVE  /\ Return(c) => InsertsKept
         /\ \A label : Goto(c, label) => InsertsKept
         /\ \A label, op, s : Begin(c, label, op, s) => InsertsKept
         /\ \A label, g : Carry(c, label, g) => InsertsKept
  BY DEF TypeOK, Return, Goto, Begin, Carry, InsertsKept, At

LEMMA AccountedKept ==
  ASSUME NEW s \in Streams, Accounted(s), gen'[s] = gen[s],
         gen[s] \in aborted[s] => gen[s] \in aborted'[s],
         handle[s] = gen[s] /\ Found(s) /\ gen[s] # 0 =>
           (handle'[s] = handle[s] /\ Found(s)') \/ gen[s] \in aborted'[s],
         \A d \in Clients : At(d, "insert") /\ pc[d].s = s => pc'[d] = pc[d]
  PROVE  Accounted(s)'
  BY DEF Accounted, At

\* Entries may be added and statuses change.
LEMMA AccountedFrame ==
  ASSUME LatestTaskAccounted, InsertsKept, UNCHANGED <<handle, gen, aborted>>,
         present \subseteq present', running \subseteq running'
  PROVE  LatestTaskAccounted'
<1> SUFFICES ASSUME NEW s \in Streams, Tracked(s) PROVE Accounted(s)'
  BY DEF LatestTaskAccounted, Tracked, Base
<1> QED
  BY AccountedKept DEF LatestTaskAccounted, InsertsKept, Found

\* Whoever takes a task from an entry aborts it.
LEMMA AbortAccounts ==
  ASSUME TypeOK, LatestTaskAccounted, InsertsKept, NEW S \in SUBSET Streams,
         Abort(S), gen' = gen,
         \A s \in Streams \ S :
           Tracked(s) /\ Found(s) => handle'[s] = handle[s] /\ Found(s)'
  PROVE  LatestTaskAccounted'
<1> SUFFICES ASSUME NEW s \in Streams, Tracked(s) PROVE Accounted(s)'
  BY DEF LatestTaskAccounted, Tracked, Base
<1>1. /\ aborted[s] \subseteq aborted'[s]
      /\ s \in S /\ handle[s] # 0 => handle[s] \in aborted'[s]
  BY DEF Abort, TypeOK
<1> QED
  BY <1>1, AccountedKept DEF LatestTaskAccounted, InsertsKept

\* Whoever spawns a task under the lock puts it in the entry.
LEMMA SpawnAccounts ==
  ASSUME TypeOK, LatestTaskAccounted, InsertsKept, NEW S \in SUBSET Streams,
         NEW ch, Spawn(S, ch), aborted' = aborted,
         present \subseteq present', running \subseteq running',
         \A s \in S : Tracked(s) => handle'[s] = gen[s] + 1 /\ Found(s)',
         \A s \in Streams \ S : Tracked(s) => handle'[s] = handle[s]
  PROVE  LatestTaskAccounted'
<1> SUFFICES ASSUME NEW s \in Streams, Tracked(s) PROVE Accounted(s)'
  BY DEF LatestTaskAccounted, Tracked, Base
<1>1. CASE s \in S
  <2>1. gen'[s] = gen[s] + 1
    BY <1>1 DEF Spawn
  <2> QED
    BY <1>1, <2>1 DEF Accounted
<1>2. CASE s \notin S
  <2>1. gen'[s] = gen[s] /\ Accounted(s)
    BY <1>2 DEF Spawn, LatestTaskAccounted
  <2>2. Found(s) => Found(s)'
    BY DEF Found
  <2> QED
    BY <1>2, <2>1, <2>2, AccountedKept DEF InsertsKept
<1> QED
  BY <1>1, <1>2

LEMMA RunAccounts ==
  ASSUME TypeOK, LatestTaskAccounted, InsertsKept, NEW o \in Outputs,
         RunOutput(o), Parent[o] \in present
  PROVE  LatestTaskAccounted'
<1> DEFINE ch == [s \in {o} |-> channel[Parent[o]]]
<1>1. /\ Spawn({o}, ch)
      /\ present' = present /\ running' = running \cup {o}
      /\ aborted' = aborted /\ handle' = [handle EXCEPT ![o] = gen[o] + 1]
  BY DEF RunOutput
<1>2. {o} \in SUBSET Streams /\ o \notin Inputs
  BY StreamControlAssumption DEF Streams
<1>3. handle'[o] = gen[o] + 1 /\ Found(o)'
  BY <1>1, <1>2 DEF Found, TypeOK
<1>4. \A s \in Streams \ {o} : handle'[s] = handle[s]
  BY <1>1 DEF TypeOK
<1> HIDE DEF ch
<1> QED
  BY <1>1, <1>2, <1>3, <1>4, SpawnAccounts

LEMMA HaltAccounts ==
  ASSUME TypeOK, UdpShown, LatestTaskAccounted, InsertsKept,
         NEW i \in Inputs, HaltInput(i)
  PROVE  LatestTaskAccounted'
<1> DEFINE S == {i} \cup ToRestart(i)
<1>1. S \in SUBSET Streams /\ Abort(S) /\ gen' = gen
  BY DEF HaltInput, ToRestart, RunningOf, OutputsOf, Streams
<1>2. ASSUME NEW s \in Streams \ S, Tracked(s), Found(s)
      PROVE  s \notin {i} \cup RunningOf(i)
  <2>1. CASE s \in Inputs
    BY <1>2, <2>1, StreamControlAssumption DEF RunningOf, OutputsOf
  <2>2. CASE s \notin Inputs
    <3>1. UdpOutput(s) /\ s \in running
      BY <1>2, <2>2 DEF Tracked, Base, UdpOutput, Found
    <3>2. IsActive(status[s])
      BY <3>1 DEF UdpShown, IsActive
    <3> QED
      BY <1>2, <2>2, <3>2 DEF ToRestart
  <2> QED
    BY <2>1, <2>2
<1>3. ASSUME NEW s \in Streams \ S, Tracked(s), Found(s)
      PROVE  handle'[s] = handle[s] /\ Found(s)'
  BY <1>2, <1>3 DEF HaltInput, Set, Found, TypeOK
<1> HIDE DEF S
<1> QED
  BY <1>1, <1>3, AbortAccounts

LEMMA LatestTaskStep ==
  TypeOK /\ HandlersPlaced /\ UdpOutputsConnected /\ LatestTaskAccounted
      /\ [Next]_vars
    => LatestTaskAccounted'
<1> SUFFICES ASSUME TypeOK, HandlersPlaced, UdpOutputsConnected,
                    LatestTaskAccounted, [Next]_vars
             PROVE  LatestTaskAccounted'
  OBVIOUS
<1>1. ASSUME NEW s \in Streams, NEW g \in Gens, TaskStep(s, g)
      PROVE  LatestTaskAccounted'
  BY <1>1, AccountedFrame
     DEF TaskStep, InsertsKept, memory, taskVars
<1>2. ASSUME NEW s \in Streams, NEW g \in Gens, LateStep(s, g)
      PROVE  LatestTaskAccounted'
  BY <1>2, AccountedFrame
     DEF LateStep, InsertsKept, memory, taskVars
<1>3. ASSUME NEW s \in Streams, NEW g \in Gens, AbortLands(s, g)
      PROVE  LatestTaskAccounted'
  BY <1>3, AccountedFrame
     DEF AbortLands, InsertsKept, memory, taskVars
<1>4. ASSUME Process
      PROVE  LatestTaskAccounted'
  BY <1>4, AccountedFrame
     DEF Process, InsertsKept, memory, taskVars
<1>5. ASSUME NEW c \in Clients, NEW i \in Inputs, CreateInput(c, i)
      PROVE  LatestTaskAccounted'
  <2>1. ~At(c, "insert")
    BY <1>5 DEF CreateInput, At
  <2> QED
    BY <1>5, <2>1, InsertsMove, AccountedFrame
       DEF CreateInput, memory, taskVars
<1>6. ASSUME NEW c \in Clients, NEW i \in Inputs, DeleteInput(c, i)
      PROVE  LatestTaskAccounted'
  <2> DEFINE S == {i} \cup RunningOf(i)
  <2>1. S \in SUBSET Streams /\ Abort(S) /\ gen' = gen /\ InsertsKept
    BY <1>6 DEF DeleteInput, RunningOf, OutputsOf, Streams, InsertsKept
  <2>2. ASSUME NEW s \in Streams \ S, Found(s)
        PROVE  handle'[s] = handle[s] /\ Found(s)'
    <3>1. s \notin {i} \cup OutputsOf(i)
      BY <2>2, StreamControlAssumption DEF Found, RunningOf, OutputsOf
    <3>2. handle'[s] = handle[s]
      BY <1>6, <3>1 DEF DeleteInput, Set, TypeOK
    <3>3. Found(s)'
      BY <1>6, <2>2, <3>1 DEF DeleteInput, Found, OutputsOf, Streams
    <3> QED
      BY <3>2, <3>3
  <2> HIDE DEF S
  <2> QED
    BY <2>1, <2>2, AbortAccounts
<1>7. ASSUME NEW c \in Clients, NEW i \in Inputs, StartInput(c, i)
      PROVE  LatestTaskAccounted'
  <2>1. ~At(c, "insert")
    BY <1>7 DEF StartInput, At
  <2> QED
    BY <1>7, <2>1, InsertsMove, AccountedFrame DEF StartInput, memory, taskVars
<1>8. ASSUME NEW c \in Clients, NEW i \in Inputs, StopInput(c, i)
      PROVE  LatestTaskAccounted'
  <2>1. InsertsKept
    BY <1>8, InsertsMove DEF StopInput, At
  <2> QED
    BY <1>8, <2>1, HaltAccounts DEF StopInput, UdpOutputsConnected
<1>9. ASSUME NEW c \in Clients, NEW i \in Inputs, UpdateInput(c, i)
      PROVE  LatestTaskAccounted'
  <2>1. ~At(c, "insert")
    BY <1>9 DEF UpdateInput, At
  <2> QED
    BY <1>9, <2>1, InsertsMove, AccountedFrame
       DEF UpdateInput, memory, taskVars
<1>10. ASSUME NEW c \in Clients, NEW o \in Outputs, CreateOutput(c, o)
       PROVE  LatestTaskAccounted'
  <2>1. InsertsKept
    BY <1>10 DEF CreateOutput, InsertsKept
  <2>2. CASE RunOutput(o)
    BY <1>10, <2>1, <2>2, RunAccounts DEF CreateOutput
  <2>3. CASE LookupFails(o)
    BY <2>1, <2>3, AccountedFrame DEF LookupFails, taskVars
  <2> QED
    BY <1>10, <2>2, <2>3 DEF CreateOutput
<1>11. ASSUME NEW c \in Clients, NEW o \in Outputs, DeleteOutput(c, o)
       PROVE  LatestTaskAccounted'
  <2>1. InsertsKept
    BY <1>11 DEF DeleteOutput, InsertsKept
  <2>2. CASE /\ Abort({o}) /\ running' = running \ {o}
             /\ handle' = [handle EXCEPT ![o] = 0]
    <3>1. {o} \in SUBSET Streams /\ Abort({o}) /\ gen' = gen
      BY <1>11, <2>2 DEF Streams, DeleteOutput
    <3>2. ASSUME NEW s \in Streams \ {o}, Found(s)
          PROVE  handle'[s] = handle[s] /\ Found(s)'
      BY <1>11, <2>2, <3>2 DEF Found, DeleteOutput, TypeOK
    <3> QED
      BY <2>1, <3>1, <3>2, AbortAccounts
  <2>3. CASE UNCHANGED <<aborted, running, handle, status>>
    BY <1>11, <2>1, <2>3, AccountedFrame DEF DeleteOutput
  <2> QED
    BY <1>11, <2>2, <2>3 DEF DeleteOutput
<1>12. ASSUME NEW c \in Clients, NEW o \in Outputs, StartOutput(c, o)
       PROVE  LatestTaskAccounted'
  <2>1. ~At(c, "insert")
    BY <1>12 DEF StartOutput, At
  <2> QED
    BY <1>12, <2>1, InsertsMove, AccountedFrame
       DEF StartOutput, memory, taskVars
<1>13. ASSUME NEW c \in Clients, NEW o \in Outputs, StopOutput(c, o)
       PROVE  LatestTaskAccounted'
  <2>1. ~At(c, "insert")
    BY <1>13 DEF StopOutput, At
  <2> QED
    BY <1>13, <2>1, InsertsMove, AccountedFrame
       DEF StopOutput, memory, taskVars
<1>14. ASSUME NEW c \in Clients, NEW o \in Outputs, UpdateOutput(c, o)
       PROVE  LatestTaskAccounted'
  <2>1. ~At(c, "insert")
    BY <1>14 DEF UpdateOutput, At
  <2> QED
    BY <1>14, <2>1, InsertsMove, AccountedFrame
       DEF UpdateOutput, memory, taskVars
<1>15. ASSUME NEW c \in Clients, SpawnInput(c)
       PROVE  LatestTaskAccounted'
  <2>0. PICK i \in Inputs : i = pc[c].s
    BY <1>15, PlacedTyped DEF SpawnInput
  <2>1. ~At(c, "insert") /\ UNCHANGED <<present, running, handle, aborted>>
    BY <1>15 DEF SpawnInput, At, memory, taskVars
  <2>2. CASE Goto(c, "refuse") /\ UNCHANGED taskVars
    BY <2>1, <2>2, InsertsMove, AccountedFrame DEF taskVars
  <2>3. ASSUME NEW ch, Spawn({i}, ch), Carry(c, "insert", gen[i] + 1)
        PROVE  LatestTaskAccounted'
    <3>1. InsertsKept
      BY <2>1, <2>3, InsertsMove
    <3>2. pc'[c].at = "insert" /\ pc'[c].s = i /\ pc'[c].g = gen[i] + 1
      BY <2>0, <2>3 DEF Carry, TypeOK, Handlers
    <3>3. /\ i \in Streams /\ gen'[i] = gen[i] + 1
          /\ \A s \in Streams \ {i} : gen'[s] = gen[s]
      BY <2>3 DEF Spawn, Streams
    <3> SUFFICES ASSUME NEW s \in Streams, Tracked(s) PROVE Accounted(s)'
      BY DEF LatestTaskAccounted, Tracked, Base
    <3>4. CASE s = i
      BY <3>2, <3>3, <3>4 DEF Accounted
    <3>5. CASE s # i
      BY <2>1, <3>1, <3>3, <3>5, AccountedKept
         DEF LatestTaskAccounted, InsertsKept, Found
    <3> QED
      BY <3>4, <3>5
  <2> QED
    BY <1>15, <2>0, <2>2, <2>3 DEF SpawnInput
<1>16. ASSUME NEW c \in Clients, InsertInput(c)
       PROVE  LatestTaskAccounted'
  <2>0. PICK i \in Inputs : i = pc[c].s
    BY <1>16, PlacedTyped DEF InsertInput
  <2>1. i \in Streams /\ pc[c].g = gen[i]
    BY <1>16, <2>0 DEF InsertInput, At, HandlersPlaced, Creator, CreatorOK,
                      CreateLabels, Streams
  <2>2. /\ gen' = gen /\ aborted' = aborted /\ running' = running
        /\ present' = present \cup {i}
        /\ handle' = [handle EXCEPT ![i] = gen[i]]
    BY <1>16, <2>0, <2>1 DEF InsertInput, taskVars
  <2>3. \A d \in Clients \ {c} : pc'[d] = pc[d]
    BY <1>16 DEF InsertInput, Return, TypeOK
  <2> SUFFICES ASSUME NEW s \in Streams, Tracked(s) PROVE Accounted(s)'
    BY DEF LatestTaskAccounted, Tracked, Base
  <2>4. CASE s = i
    BY <2>0, <2>1, <2>2, <2>4 DEF Accounted, Found, TypeOK
  <2>5. CASE s # i
    <3>1. handle'[s] = handle[s] /\ (Found(s) => Found(s)')
      BY <2>2, <2>5 DEF Found, TypeOK
    <3> QED
      BY <2>0, <2>2, <2>3, <2>5, <3>1, AccountedKept DEF LatestTaskAccounted
  <2> QED
    BY <2>4, <2>5
<1>17. ASSUME NEW c \in Clients, InsertFailedInput(c)
       PROVE  LatestTaskAccounted'
  <2>1. ~At(c, "insert")
    BY <1>17 DEF InsertFailedInput, At
  <2> QED
    BY <1>17, <2>1, InsertsMove, AccountedFrame
       DEF InsertFailedInput, memory, taskVars
<1>18. ASSUME NEW c \in Clients, RestartInput(c)
       PROVE  LatestTaskAccounted'
  <2>1. ~At(c, "insert")
    BY <1>18 DEF RestartInput, At
  <2> QED
    BY <1>18, <2>1, InsertsMove, AccountedFrame
       DEF RestartInput, memory, taskVars
<1>19. ASSUME NEW c \in Clients, Respawn(c)
       PROVE  LatestTaskAccounted'
  <2> DEFINE i == pc[c].s
  <2>0. i \in Inputs
    BY <1>19, PlacedTyped DEF Respawn
  <2>1. InsertsKept
    BY <1>19, InsertsMove DEF Respawn, At
  <2>2. CASE i \notin present
    BY <1>19, <2>0, <2>1, <2>2, AccountedFrame DEF Respawn, memory, taskVars
  <2>3. CASE i \in present
    <3>1. PICK failed \in SUBSET StoppedOf(i) :
            LET S == {i} \cup (StoppedOf(i) \ failed) IN
            /\ RestartOutputs(i, failed)
            /\ Spawn(S, [s \in S |-> IF s = i THEN 0 ELSE gen[i] + 1])
            /\ handle' = [s \in Streams |-> IF s \in S THEN gen[s] + 1
                                                       ELSE handle[s]]
      BY <1>19, <2>0, <2>3 DEF Respawn
    <3> DEFINE S  == {i} \cup (StoppedOf(i) \ failed)
               ch == [s \in S |-> IF s = i THEN 0 ELSE gen[i] + 1]
    <3>2. S \in SUBSET Streams /\ Spawn(S, ch)
      BY <2>0, <3>1 DEF StoppedOf, OutputsOf, Streams
    <3>3. /\ present' = present /\ aborted' = aborted
          /\ running' = running \cup (StoppedOf(i) \ failed)
      BY <1>19, <2>0, <2>3, <3>1 DEF Respawn, RestartOutputs
    <3>4. \A s \in S : handle'[s] = gen[s] + 1 /\ Found(s)'
      BY <2>0, <2>3, <3>1, <3>2, <3>3, StreamControlAssumption
         DEF Found, StoppedOf, OutputsOf
    <3>5. \A s \in Streams \ S : handle'[s] = handle[s]
      BY <3>1
    <3> HIDE DEF S, ch
    <3> QED
      BY <2>1, <3>2, <3>3, <3>4, <3>5, SpawnAccounts
  <2> QED
    BY <2>2, <2>3
<1>20. ASSUME NEW c \in Clients, Attach(c)
       PROVE  LatestTaskAccounted'
  <2>0. PICK i \in Inputs : i = pc[c].s
    BY <1>20, PlacedTyped DEF Attach
  <2>1. ~At(c, "insert") /\ UNCHANGED <<present, running, handle, aborted>>
    BY <1>20 DEF Attach, At, memory, taskVars
  <2>2. CASE Return(c) /\ UNCHANGED taskVars
    BY <2>1, <2>2, InsertsMove, AccountedFrame DEF taskVars
  <2>3. ASSUME NEW ch, Spawn({i}, ch), Carry(c, "adopt", gen[i] + 1)
        PROVE  LatestTaskAccounted'
    <3>1. InsertsKept
      BY <2>1, <2>3, InsertsMove
    <3>2. ~Tracked(i) /\ {i} \in SUBSET Streams
      BY <1>20, <2>0, PlacedTyped, StreamControlAssumption
         DEF Attach, Tracked, Base, Streams
    <3> QED
      BY <2>1, <2>3, <3>1, <3>2, SpawnAccounts
  <2> QED
    BY <1>20, <2>0, <2>2, <2>3 DEF Attach
<1>21. ASSUME NEW c \in Clients, Adopt(c)
       PROVE  LatestTaskAccounted'
  <2> DEFINE i == pc[c].s
  <2>0. i \in Inputs
    BY <1>21, PlacedTyped DEF Adopt
  <2>1. InsertsKept /\ ~Tracked(i)
    BY <1>21, <2>0, InsertsMove, StreamControlAssumption
       DEF Adopt, At, HandlersPlaced, PlaceOK, Tracked, Base
  <2>2. CASE i \notin present
    BY <1>21, <2>0, <2>1, <2>2, AccountedFrame DEF Adopt, memory, taskVars
  <2>3. CASE i \in present
    <3> DEFINE g == pc[c].g
    <3>1. PICK failed \in SUBSET StoppedOf(i) :
            LET S == StoppedOf(i) \ failed IN
            /\ RestartOutputs(i, failed)
            /\ Spawn(S, [s \in S |-> g])
            /\ handle' = [s \in Streams |-> IF s = i THEN g
                            ELSE IF s \in S THEN gen[s] + 1 ELSE handle[s]]
      BY <1>21, <2>0, <2>3 DEF Adopt
    <3> DEFINE S  == StoppedOf(i) \ failed
               ch == [s \in S |-> g]
    <3>2. S \in SUBSET Streams /\ Spawn(S, ch) /\ i \notin S
      BY <3>1, StreamControlAssumption DEF StoppedOf, OutputsOf, Streams
    <3>3. /\ present' = present /\ aborted' = aborted
          /\ running' = running \cup (StoppedOf(i) \ failed)
      BY <1>21, <2>0, <2>3, <3>1 DEF Adopt, RestartOutputs
    <3>4. \A s \in S : handle'[s] = gen[s] + 1 /\ Found(s)'
      BY <2>3, <3>1, <3>2, <3>3, StreamControlAssumption
         DEF Found, StoppedOf, OutputsOf
    <3>5. \A s \in Streams \ S : s # i => handle'[s] = handle[s]
      BY <3>1
    <3> HIDE DEF S, ch
    <3> QED
      BY <2>1, <3>2, <3>3, <3>4, <3>5, SpawnAccounts
  <2> QED
    BY <2>2, <2>3
<1>22. ASSUME NEW c \in Clients, ProbeInput(c)
       PROVE  LatestTaskAccounted'
  <2>1. ~At(c, "insert")
    BY <1>22 DEF ProbeInput, At
  <2> QED
    BY <1>22, <2>1, InsertsMove, AccountedFrame
       DEF ProbeInput, memory, taskVars
<1>23. ASSUME NEW c \in Clients, HaltForUpdate(c)
       PROVE  LatestTaskAccounted'
  <2>1. InsertsKept /\ pc[c].s \in Inputs
    BY <1>23, InsertsMove DEF HaltForUpdate, At
  <2>2. CASE HaltInput(pc[c].s)
    BY <2>1, <2>2, HaltAccounts DEF UdpOutputsConnected
  <2>3. CASE UNCHANGED <<memory, taskVars>>
    BY <2>1, <2>3, AccountedFrame DEF memory, taskVars
  <2> QED
    BY <1>23, <2>2, <2>3 DEF HaltForUpdate
<1>24. ASSUME NEW c \in Clients, BeginOutput(c)
       PROVE  LatestTaskAccounted'
  <2>1. InsertsKept /\ pc[c].s \in Outputs
    BY <1>24, InsertsMove, PlacedTyped DEF BeginOutput, At
  <2>2. CASE RunOutput(pc[c].s) /\ Parent[pc[c].s] \in present
    BY <2>1, <2>2, RunAccounts
  <2>3. CASE LookupFails(pc[c].s) \/ UNCHANGED <<memory, taskVars, budget>>
    BY <2>1, <2>3, AccountedFrame DEF LookupFails, memory, taskVars
  <2> QED
    BY <1>24, <2>2, <2>3 DEF BeginOutput
<1>25. ASSUME NEW c \in Clients, EndOutput(c)
       PROVE  LatestTaskAccounted'
  <2>1. InsertsKept
    BY <1>25, InsertsMove DEF EndOutput, At
  <2>2. PICK o \in Outputs : o = pc[c].s
    BY <1>25, PlacedTyped DEF EndOutput
  <2>3. CASE HaltOutput(o)
    <3>1. {o} \in SUBSET Streams /\ Abort({o}) /\ gen' = gen
      BY <2>3 DEF Streams, HaltOutput
    <3>2. ASSUME NEW s \in Streams \ {o}, Found(s)
          PROVE  handle'[s] = handle[s] /\ Found(s)'
      BY <2>3, <3>2 DEF Found, HaltOutput, TypeOK
    <3> QED
      BY <2>1, <3>1, <3>2, AbortAccounts
  <2>4. CASE UNCHANGED <<memory, taskVars, queue, row, budget>>
    BY <2>1, <2>4, AccountedFrame DEF memory, taskVars
  <2> QED
    BY <1>25, <2>2, <2>3, <2>4 DEF EndOutput
<1>26. ASSUME NEW c \in Clients, ProbeOutput(c)
       PROVE  LatestTaskAccounted'
  <2>1. ~At(c, "insert")
    BY <1>26 DEF ProbeOutput, At
  <2> QED
    BY <1>26, <2>1, InsertsMove, AccountedFrame
       DEF ProbeOutput, memory, taskVars
<1>27. ASSUME NEW c \in Clients, ParkOutput(c)
       PROVE  LatestTaskAccounted'
  <2>1. ~At(c, "insert")
    BY <1>27 DEF ParkOutput, At
  <2> QED
    BY <1>27, <2>1, InsertsMove, AccountedFrame
       DEF ParkOutput, memory, taskVars
<1>28. ASSUME NEW c \in Clients, ReadStatus(c)
       PROVE  LatestTaskAccounted'
  <2>1. InsertsKept
    BY <1>28 DEF ReadStatus, InsertsKept, At, TypeOK
  <2> QED
    BY <1>28, <2>1, AccountedFrame DEF ReadStatus, memory, taskVars
<1>29. ASSUME NEW c \in Clients, WriteRow(c)
       PROVE  LatestTaskAccounted'
  <2>1. ~At(c, "insert")
    BY <1>29 DEF WriteRow, At
  <2> QED
    BY <1>29, <2>1, InsertsMove, AccountedFrame DEF WriteRow, memory, taskVars
<1>30. ASSUME Restart
       PROVE  LatestTaskAccounted'
  <2> SUFFICES ASSUME NEW s \in Streams, Tracked(s) PROVE Accounted(s)'
    BY DEF LatestTaskAccounted, Tracked, Base
  <2>1. CASE s \notin Live(row')
    BY <1>30, <2>1 DEF Restart, FirstGen, Accounted
  <2>2. CASE s \in Live(row')
    BY <1>30, <2>2, StreamControlAssumption
       DEF Restart, Accounted, Found, Live, Resumed, Sending, Loaded, Rowed,
           Streams
  <2> QED
    BY <2>1, <2>2
<1>31. ASSUME NEW c \in Clients, ReachInput(c) \/ CheckSource(c)
       PROVE  LatestTaskAccounted'
  <2>1. ~At(c, "insert")
    BY <1>31 DEF ReachInput, CheckSource, At
  <2> QED
    BY <1>31, <2>1, InsertsMove, AccountedFrame
       DEF ReachInput, CheckSource, memory, taskVars
<1>32. CASE UNCHANGED vars
  BY <1>32, AccountedFrame DEF vars, memory, taskVars, InsertsKept
<1> QED
  BY <1>1, <1>2, <1>3, <1>4, <1>5, <1>6, <1>7, <1>8, <1>9, <1>10, <1>11,
     <1>12, <1>13, <1>14, <1>15, <1>16,
     <1>17, <1>18, <1>19, <1>20, <1>21, <1>22, <1>23, <1>24, <1>25, <1>26,
     <1>27, <1>28, <1>29, <1>30, <1>31, <1>32
     DEF Next, TaskAction, Request, Continue

-----------------------------------------------------------------------------
(* The theorems. *)

LEMMA InitialInvariant == Init => IInv
<1> SUFFICES ASSUME Init PROVE IInv
  OBVIOUS
<1> USE StreamControlAssumption
<1>1. row \in [Streams -> RowStates] /\ pc = [c \in Clients |-> Idle]
      /\ queue = <<>> /\ present = Inputs \cap Rowed(row)
  BY DEF Init, InitialRows
<1>2. TypeOK
  <2>1. <<>> \in Seq(Messages)
    BY EmptySeq
  <2>2. /\ Sending(row) \subseteq Outputs /\ Parked(row) \subseteq Outputs
        /\ LoadedStatus(row) \in [Streams -> Status]
        /\ FirstGen(row) \in [Streams -> 0..MaxGen]
        /\ LoadedChannel(row) \in [Inputs -> 0..MaxGen]
        /\ LoadedPhase(row) \in [Streams -> [Gens -> Phases]]
        /\ LoadedSub(row) \in [Streams -> [Gens -> 0..MaxGen]]
    BY LoadTyped
  <2> QED
    BY <1>1, <2>1, <2>2, IdleTyped DEF Init, TypeOK
<1>3. HandlersPlaced /\ AttachingKnown
  BY <1>1 DEF HandlersPlaced, PlaceOK, Creator, Idle, CreateLabels,
              AttachingKnown, Attaching, AttachLabels, InputLabels, OutputLabels
<1>4. InputRowsMatchEntries
  BY <1>1 DEF InputRowsMatchEntries, Creating, Idle, HasRow, Rowed, Streams
<1>5. UdpOutputsConnected
  <2>1. ASSUME NEW o \in Sending(row), UdpOutput(o)
        PROVE  LoadedStatus(row)[o] = "Connected"
    BY <2>1 DEF LoadedStatus, Live, InitialStatus, OutputStatus, UdpOutput,
                Streams
  <2> QED
    BY <1>1, <2>1 DEF Init, UdpOutputsConnected, UdpShown, UdpSilent
<1>6. LatestTaskAccounted
  <2> SUFFICES ASSUME NEW s \in Streams, Tracked(s) PROVE Accounted(s)
    BY DEF LatestTaskAccounted
  <2>1. CASE s \notin Live(row)
    BY <2>1 DEF Init, FirstGen, Accounted
  <2>2. CASE s \in Live(row)
    BY <2>2 DEF Init, Accounted, Found, Live, Resumed, Sending, Loaded, Rowed,
                Streams
  <2> QED
    BY <2>1, <2>2
<1> QED
  BY <1>2, <1>3, <1>4, <1>5, <1>6 DEF IInv

LEMMA InvariantStep == IInv /\ [Next]_vars => IInv'
  BY TypeStep, PlacedStep, InputRowsStep, AttachingStep, UdpStep,
     LatestTaskStep DEF IInv

\* The strengthened invariant.
THEOREM Invariant == Spec => []IInv
  BY InitialInvariant, InvariantStep, PTL DEF Spec

\* Every entry, task table, message and handler has the type the code gives it,
\* whatever requests, notifications and restarts do.
THEOREM TypeCorrect == Spec => []TypeOK
<1>1. IInv => TypeOK
  BY DEF IInv
<1> QED
  BY <1>1, Invariant, PTL

\* create_input, delete_input and load_from_db keep the rows of inputs and the
\* keys of ACTIVE_STREAMS together, at every step of every handler.
THEOREM InputRowsMatch == Spec => []InputRowsMatchEntries
<1>1. IInv => InputRowsMatchEntries
  BY DEF IInv
<1> QED
  BY <1>1, Invariant, PTL

\* The task of a UDP or SRT input, or of a UDP output, that was spawned last
\* is never lost: an entry can abort it, or somebody has.
THEOREM LatestTaskKept == Spec => []LatestTaskAccounted
<1>1. IInv => LatestTaskAccounted
  BY DEF IInv
<1> QED
  BY <1>1, Invariant, PTL

-----------------------------------------------------------------------------
(* Streams whose tasks do not fail. *)

\* No task fails for good, and none finishes a poll after its abort.
NoTaskFails == Budget["error"] = 0 /\ Budget["late"] = 0

\* A UDP sender never reports, so its entry never shows a failure; the entries
\* of the other outputs and of base inputs do not when no task fails.  (An SPTS
\* input may show Stopped at any time, when its source has ended.)
Reliable(s) == UdpOutput(s) \/ (NoTaskFails /\ (Base(s) \/ s \in Outputs))

\* No fault is left, no message about a reliable stream says that it has
\* ended, and no entry of one that has a task shows that.
FaultFree == NoTaskFails => budget["error"] = 0 /\ budget["late"] = 0
GoodNews  == \A n \in 1..Len(queue) :
               Reliable(queue[n].s) => IsActive(queue[n].st)
HasTask(s) == IF s \in Inputs THEN s \in present /\ handle[s] # 0
                              ELSE s \in running
ShownActive(s) == HasTask(s) => IsActive(status[s])
EntriesActive  == \A s \in Streams : Reliable(s) => ShownActive(s)

WellShown == FaultFree /\ GoodNews /\ EntriesActive

LEMMA InitialActive == \A s \in Streams : IsActive(InitialStatus(s))
BY StreamControlAssumption
   DEF Streams, InitialStatus, InputStatus, OutputStatus, Announce, IsActive

LEMMA EntriesPrimed ==
  ASSUME \A s \in Streams : Reliable(s) => ShownActive(s)'
  PROVE  EntriesActive'
BY DEF EntriesActive, Reliable, NoTaskFails, UdpOutput, Base

\* Faults other than the two do not matter.
LEMMA FaultFreeKept ==
  ASSUME TypeOK, FaultFree,
         budget' = budget \/ Spend("lookup") \/ Spend("crash")
  PROVE  FaultFree'
BY DEF TypeOK, FaultFree, NoTaskFails, Spend, Faults

\* A reliable stream sends good news, or nothing.
LEMMA MovesActive ==
  ASSUME NEW s \in Streams, NEW g \in Gens, Reliable(s), NEW m \in Moves(s, g),
         NoTaskFails => ~m.fault
  PROVE  m.say = "nothing" \/ IsActive(m.say)
<1>1. CASE UdpOutput(s)
  BY <1>1, UdpMovesSilent
<1>2. CASE NoTaskFails /\ Base(s)
  BY <1>2, StreamControlAssumption
     DEF Base, Moves, InputMoves, UdpInputMoves, SrtMoves, Move, Fault,
         Announce, IsActive
<1>3. CASE NoTaskFails /\ s \in Outputs
  BY <1>3, StreamControlAssumption
     DEF Moves, OutputMoves, UdpOutputMoves, SrtMoves, Move, Fault, Announce,
         IsActive
<1> QED BY <1>1, <1>2, <1>3 DEF Reliable

LEMMA SendActive ==
  ASSUME TypeOK, GoodNews, NEW s \in Streams, NEW say \in Says, Send(s, say),
         Reliable(s) => say = "nothing" \/ IsActive(say)
  PROVE  GoodNews'
<1> DEFINE Good(m) == Reliable(m.s) => IsActive(m.st)
<1>0. \A n \in 1..Len(queue) : Good(queue[n])
  BY DEF GoodNews
<1>1. SUFFICES \A n \in 1..Len(queue') : Good(queue'[n])
  BY DEF GoodNews, Reliable, NoTaskFails, UdpOutput, Base
<1>2. CASE say = "nothing"
  BY <1>0, <1>2 DEF Send
<1>3. CASE say # "nothing"
  <2> DEFINE m == [s |-> s, st |-> say]
  <2>1. m \in Messages /\ Good(m)
    BY <1>3 DEF Messages, Says
  <2>2. queue \in Seq(Messages) /\ queue' = Append(queue, m)
    BY <1>3 DEF Send, TypeOK
  <2> HIDE DEF m, Good
  <2>3. /\ Len(queue') = Len(queue) + 1 /\ Len(queue) \in Nat
        /\ \A n \in 1..Len(queue) : queue'[n] = queue[n]
        /\ queue'[Len(queue) + 1] = m
    BY <2>1, <2>2, AppendProperties
  <2> QED
    BY <1>0, <2>1, <2>3
<1> QED BY <1>2, <1>3

\* Steps of handlers: what they show is active, the rest they leave alone.
LEMMA ShownFrame ==
  ASSUME TypeOK, WellShown, queue' = queue,
         budget' = budget \/ Spend("lookup"),
         \A s \in Streams :
           \/ IsActive(status'[s])
           \/ ~HasTask(s)'
           \/ HasTask(s) /\ status'[s] = status[s]
           \/ ~Reliable(s)
  PROVE  WellShown'
<1>1. EntriesActive'
  BY EntriesPrimed DEF WellShown, EntriesActive, ShownActive
<1>2. GoodNews'
  BY DEF WellShown, GoodNews, Reliable, NoTaskFails, UdpOutput, Base
<1> QED BY <1>1, <1>2, FaultFreeKept DEF WellShown

LEMMA RunActive ==
  ASSUME TypeOK, WellShown, NEW o \in Outputs, RunOutput(o), queue' = queue
  PROVE  WellShown'
<1>1. /\ o \in Streams /\ present' = present /\ running' = running \cup {o}
      /\ status' = [status EXCEPT ![o] = InitialStatus(o)]
      /\ handle' = [handle EXCEPT ![o] = gen[o] + 1] /\ budget' = budget
  BY DEF RunOutput, Streams
<1>2. \A s \in Streams \ {o} : status'[s] = status[s] /\ (HasTask(s)' => HasTask(s))
  BY <1>1 DEF TypeOK, HasTask
<1>3. IsActive(status'[o])
  BY <1>1, InitialActive DEF TypeOK
<1> QED BY <1>1, <1>2, <1>3, ShownFrame

LEMMA HaltInputActive ==
  ASSUME TypeOK, WellShown, NEW i \in Inputs, HaltInput(i)
  PROVE  WellShown'
<1>1. /\ present' = present /\ running' = running \ RunningOf(i)
      /\ queue' = queue /\ budget' = budget
      /\ handle' = Set(handle, {i} \cup RunningOf(i), 0)
      /\ status' = Set(status, {i} \cup RunningOf(i), "Stopped")
  BY DEF HaltInput
<1>2. \A s \in Streams : ~HasTask(s)' \/ (HasTask(s) /\ status'[s] = status[s])
  BY <1>1, StreamControlAssumption DEF Set, TypeOK, HasTask, RunningOf, Streams
<1> QED BY <1>1, <1>2, ShownFrame

\* An output that leaves output_tasks is not shown any more.
LEMMA OutputGone ==
  ASSUME TypeOK, WellShown, NEW o \in Outputs, present' = present, queue' = queue,
         running' = running \ {o}, budget' = budget,
         handle' = [handle EXCEPT ![o] = 0],
         status' = [status EXCEPT ![o] = "Stopped"]
  PROVE  WellShown'
<1>1. \A s \in Streams : ~HasTask(s)' \/ (HasTask(s) /\ status'[s] = status[s])
  BY StreamControlAssumption DEF TypeOK, HasTask, Streams
<1> QED BY <1>1, ShownFrame

\* What Respawn and Adopt do: R is shown as just spawned.
LEMMA RestartActive ==
  ASSUME TypeOK, WellShown, NEW i \in Inputs, NEW failed, NEW R,
         RestartOutputs(i, failed), ShowSpawned(R),
         StoppedOf(i) \ failed \subseteq R,
         present' = present, queue' = queue,
         \A s \in Streams \ R : handle'[s] = handle[s]
  PROVE  WellShown'
<1>1. running' = running \cup (StoppedOf(i) \ failed)
      /\ (budget' = budget \/ Spend("lookup"))
  BY DEF RestartOutputs
<1>2. \A s \in Streams \cap R : IsActive(status'[s])
  BY InitialActive DEF ShowSpawned
<1>3. \A s \in Streams \ R : (HasTask(s)' => HasTask(s)) /\ status'[s] = status[s]
  BY <1>1 DEF ShowSpawned, HasTask
<1> QED BY <1>1, <1>2, <1>3, ShownFrame

LEMMA ShownStepOfClient ==
  ASSUME TypeOK, HandlersPlaced, WellShown, NEW c \in Clients,
         Request(c) \/ Continue(c)
  PROVE  WellShown'
<1> USE StreamControlAssumption
\* The frame of the steps that leave the map alone.
<1>f. ASSUME memory' = memory, queue' = queue, budget' = budget
      PROVE  WellShown'
  BY <1>f, ShownFrame DEF memory, HasTask
<1>1. ASSUME NEW i \in Inputs,
             CreateInput(c, i) \/ StartInput(c, i) \/ UpdateInput(c, i)
      PROVE  WellShown'
  BY <1>1, <1>f DEF CreateInput, StartInput, UpdateInput
<1>2. ASSUME NEW o \in Outputs,
             StartOutput(c, o) \/ StopOutput(c, o) \/ UpdateOutput(c, o)
      PROVE  WellShown'
  BY <1>2, <1>f DEF StartOutput, StopOutput, UpdateOutput
<1>3. CASE \/ SpawnInput(c) \/ RestartInput(c) \/ ReachInput(c) \/ CheckSource(c)
           \/ Attach(c) \/ ProbeInput(c) \/ ProbeOutput(c) \/ ReadStatus(c)
           \/ WriteRow(c)
  BY <1>3, <1>f DEF SpawnInput, RestartInput, ReachInput, CheckSource, Attach,
                    ProbeInput, ProbeOutput, ReadStatus, WriteRow
<1>4. ASSUME NEW i \in Inputs, DeleteInput(c, i) PROVE WellShown'
  <2>1. /\ present' = present \ {i} /\ running' = running \ OutputsOf(i)
        /\ queue' = queue /\ budget' = budget
        /\ status' = Set(status, {i} \cup OutputsOf(i), "Stopped")
        /\ handle' = Set(handle, {i} \cup OutputsOf(i), 0)
    BY <1>4 DEF DeleteInput
  <2>2. \A s \in Streams : ~HasTask(s)' \/ (HasTask(s) /\ status'[s] = status[s])
    BY <2>1 DEF Set, TypeOK, HasTask, OutputsOf, Streams
  <2> QED BY <2>1, <2>2, ShownFrame
<1>5. ASSUME NEW i \in Inputs, StopInput(c, i) PROVE WellShown'
  BY <1>5, HaltInputActive DEF StopInput
<1>6. ASSUME NEW o \in Outputs, LookupFails(o), queue' = queue PROVE WellShown'
  BY <1>6, ShownFrame DEF LookupFails, HasTask
<1>7. ASSUME NEW o \in Outputs, CreateOutput(c, o) PROVE WellShown'
  BY <1>6, <1>7, RunActive DEF CreateOutput
<1>8. ASSUME NEW o \in Outputs, DeleteOutput(c, o) PROVE WellShown'
  <2>1. present' = present /\ queue' = queue /\ budget' = budget
    BY <1>8 DEF DeleteOutput
  <2>2. CASE UNCHANGED <<running, handle, status>>
    BY <2>1, <2>2, ShownFrame DEF HasTask
  <2> QED BY <1>8, <2>1, <2>2, OutputGone DEF DeleteOutput
<1>9. CASE InsertInput(c)
  <2> DEFINE i == pc[c].s
  <2>1. /\ i \in Inputs /\ i \in Streams /\ present' = present \cup {i}
        /\ running' = running /\ queue' = queue /\ budget' = budget
        /\ status' = [status EXCEPT ![i] = InitialStatus(i)]
        /\ handle' = [handle EXCEPT ![i] = pc[c].g]
    BY <1>9, PlacedTyped DEF InsertInput, Streams
  <2>2. IsActive(status'[i])
    BY <2>1, InitialActive DEF TypeOK
  <2>3. \A s \in Streams \ {i} : status'[s] = status[s] /\ (HasTask(s)' => HasTask(s))
    BY <2>1 DEF TypeOK, HasTask
  <2> QED BY <2>1, <2>2, <2>3, ShownFrame
<1>10. CASE InsertFailedInput(c)
  <2> DEFINE i == pc[c].s
  <2>1. /\ i \in Inputs /\ i \in Streams /\ ~Reliable(i) /\ present' = present \cup {i}
        /\ running' = running /\ queue' = queue /\ budget' = budget
        /\ status' = [status EXCEPT ![i] = "Error"] /\ handle' = handle
    BY <1>10, PlacedTyped DEF InsertFailedInput, Streams, HandlersPlaced, CreatorOK,
                              Creator, CreateLabels, At, Reliable, Base, UdpOutput
  <2>2. \A s \in Streams \ {i} : status'[s] = status[s] /\ (HasTask(s)' => HasTask(s))
    BY <2>1 DEF TypeOK, HasTask
  <2> QED BY <2>1, <2>2, ShownFrame
<1>11. CASE Respawn(c)
  <2> DEFINE i == pc[c].s
  <2>1. i \in Inputs /\ queue' = queue
    BY <1>11, PlacedTyped DEF Respawn
  <2>2. ASSUME NEW failed, NEW R, R = {i} \cup (StoppedOf(i) \ failed),
               RestartOutputs(i, failed), present' = present, ShowSpawned(R),
               \A s \in Streams \ R : handle'[s] = handle[s]
        PROVE  WellShown'
    BY <2>1, <2>2, RestartActive
  <2>3. CASE i \in present /\ present' = present
    <3>1. PICK failed \in SUBSET StoppedOf(i) :
            LET S == {i} \cup (StoppedOf(i) \ failed) IN
            /\ RestartOutputs(i, failed)
            /\ ShowSpawned(S)
            /\ handle' = [s \in Streams |-> IF s \in S THEN gen[s] + 1
                                                       ELSE handle[s]]
      BY <1>11, <2>1, <2>3 DEF Respawn
    <3> QED BY <2>2, <2>3, <3>1
  <2> QED BY <1>11, <1>f, <2>1, <2>3 DEF Respawn
<1>12. CASE Adopt(c)
  <2> DEFINE i == pc[c].s
             g == pc[c].g
  <2>1. i \in Inputs /\ queue' = queue
    BY <1>12, PlacedTyped DEF Adopt
  <2>2. ASSUME NEW failed, NEW R, R = {i} \cup (StoppedOf(i) \ failed),
               RestartOutputs(i, failed), present' = present, ShowSpawned(R),
               \A s \in Streams \ R : handle'[s] = handle[s]
        PROVE  WellShown'
    BY <2>1, <2>2, RestartActive
  <2>3. CASE i \in present /\ present' = present
    <3>1. PICK failed \in SUBSET StoppedOf(i) :
            LET S == StoppedOf(i) \ failed IN
            /\ RestartOutputs(i, failed)
            /\ ShowSpawned({i} \cup S)
            /\ handle' = [s \in Streams |-> IF s = i THEN g
                            ELSE IF s \in S THEN gen[s] + 1 ELSE handle[s]]
      BY <1>12, <2>1, <2>3 DEF Adopt
    <3> QED BY <2>2, <2>3, <3>1
  <2> QED BY <1>12, <1>f, <2>1, <2>3 DEF Adopt
<1>13. CASE HaltForUpdate(c)
  BY <1>13, <1>f, HaltInputActive DEF HaltForUpdate
<1>14. CASE BeginOutput(c)
  <2>1. pc[c].s \in Outputs /\ queue' = queue
    BY <1>14, PlacedTyped DEF BeginOutput
  <2> QED BY <1>14, <1>6, <1>f, <2>1, RunActive DEF BeginOutput
<1>15. CASE EndOutput(c)
  <2>1. pc[c].s \in Outputs
    BY <1>15, PlacedTyped DEF EndOutput
  <2> QED BY <1>15, <1>f, <2>1, OutputGone DEF EndOutput, HaltOutput
<1>16. CASE ParkOutput(c)
  BY <1>16, ShownFrame DEF ParkOutput, taskVars, HasTask
<1> QED
  BY <1>1, <1>2, <1>3, <1>4, <1>5, <1>7, <1>8, <1>9, <1>10, <1>11, <1>12, <1>13,
     <1>14, <1>15, <1>16 DEF Request, Continue

LEMMA ShownInit == Init => WellShown
<1> SUFFICES ASSUME Init PROVE WellShown
  OBVIOUS
<1>1. \A s \in Streams : s \in Live(row) => IsActive(LoadedStatus(row)[s])
  BY InitialActive DEF LoadedStatus
<1>2. \A s \in Streams : HasTask(s) => s \in Live(row)
  BY StreamControlAssumption DEF Init, HasTask, FirstGen, Live
<1> QED
  BY <1>1, <1>2 DEF Init, WellShown, FaultFree, NoTaskFails, GoodNews,
                    EntriesActive, ShownActive

LEMMA ShownRestart ==
  ASSUME TypeOK, WellShown, Restart
  PROVE  WellShown'
<1>1. \A s \in Streams : s \in Live(row') => IsActive(LoadedStatus(row')[s])
  BY InitialActive DEF LoadedStatus
<1>2. \A s \in Streams : HasTask(s)' => s \in Live(row')
  BY StreamControlAssumption DEF Restart, HasTask, FirstGen, Live
<1>3. EntriesActive'
  BY <1>1, <1>2, EntriesPrimed DEF Restart, ShownActive
<1>4. GoodNews'
  BY DEF Restart, GoodNews
<1> QED BY <1>3, <1>4, FaultFreeKept DEF WellShown, Restart

LEMMA ShownStep ==
  TypeOK /\ HandlersPlaced /\ WellShown /\ [Next]_vars => WellShown'
<1> SUFFICES ASSUME TypeOK, HandlersPlaced, WellShown, [Next]_vars
             PROVE  WellShown'
  OBVIOUS
<1>f. ASSUME memory' = memory PROVE EntriesActive'
  BY <1>f, EntriesPrimed DEF memory, WellShown, EntriesActive, ShownActive, HasTask
<1>1. ASSUME NEW s \in Streams, NEW g \in Gens, TaskStep(s, g)
      PROVE  WellShown'
  <2>1. PICK m \in Moves(s, g) :
            Send(s, m.say) /\ IF m.fault THEN Spend("error") ELSE UNCHANGED budget
    BY <1>1 DEF TaskStep
  <2>2. (NoTaskFails => ~m.fault) /\ FaultFree'
    BY <2>1 DEF WellShown, FaultFree, Spend, NoTaskFails, TypeOK, Faults
  <2>3. GoodNews'
    BY <2>1, <2>2, MovesTyped, MovesActive, SendActive DEF WellShown
  <2> QED BY <1>1, <1>f, <2>2, <2>3 DEF TaskStep, WellShown
<1>2. ASSUME NEW s \in Streams, NEW g \in Gens, LateStep(s, g)
      PROVE  WellShown'
  <2>1. PICK m \in Moves(s, g) : Send(s, m.say) /\ Spend("late")
    BY <1>2 DEF LateStep
  <2>2. ~NoTaskFails /\ FaultFree'
    BY <2>1 DEF WellShown, FaultFree, Spend, NoTaskFails
  <2>3. GoodNews'
    BY <2>1, <2>2, MovesTyped, MovesActive, SendActive DEF WellShown
  <2> QED BY <1>2, <1>f, <2>2, <2>3 DEF LateStep, WellShown
<1>3. ASSUME memory' = memory, queue' = queue, budget' = budget PROVE WellShown'
  BY <1>3, <1>f, FaultFreeKept
     DEF WellShown, GoodNews, Reliable, NoTaskFails, UdpOutput, Base
<1>4. ASSUME NEW s \in Streams, NEW g \in Gens, AbortLands(s, g)
      PROVE  WellShown'
  BY <1>3, <1>4 DEF AbortLands
<1>5. CASE Process
  <2> DEFINE m == Head(queue)
  <2>1. /\ queue \in Seq(Messages) /\ queue # <<>> /\ m \in Messages
        /\ m = queue[1] /\ Len(queue) \in Nat \ {0}
        /\ Len(queue') = Len(queue) - 1
        /\ \A n \in 1..Len(queue') : queue'[n] = queue[n + 1]
    BY <1>5, HeadTailProperties DEF Process, TypeOK
  <2>2. Reliable(m.s) => IsActive(m.st)
    BY <2>1 DEF WellShown, GoodNews
  <2>3. \A s \in Streams : Reliable(s) => ShownActive(s)'
    BY <1>5, <2>1, <2>2
       DEF Process, TypeOK, WellShown, EntriesActive, ShownActive, HasTask
  <2>4. GoodNews'
    BY <2>1 DEF WellShown, GoodNews, Reliable, NoTaskFails, UdpOutput, Base
  <2> QED BY <1>5, <2>3, <2>4, EntriesPrimed, FaultFreeKept DEF Process, WellShown
<1>6. CASE UNCHANGED vars
  BY <1>3, <1>6 DEF vars
<1> QED
  BY <1>1, <1>2, <1>4, <1>5, <1>6, ShownStepOfClient, ShownRestart
     DEF Next, TaskAction

-----------------------------------------------------------------------------
(* Rows of outputs. *)

\* The row of an output is below that of its input; and the output is in one of
\* the maps, unless its host name may fail to resolve or its task may fail.
RowHeld(o) ==
  HasRow(o) => /\ Parent[o] \in present
               /\ Reliable(o) /\ o \notin HostNamed => o \in running \cup stopped
RowsHeld == \A o \in Outputs : RowHeld(o)

LEMMA RowsPrimed ==
  ASSUME \A o \in Outputs : RowHeld(o)'
  PROVE  RowsHeld'
BY DEF RowsHeld

\* Steps that write no new row and take no output out of the maps.
LEMMA RowsFrame ==
  ASSUME RowsHeld, present \subseteq present',
         \A o \in Outputs : HasRow(o)' => HasRow(o),
         \A o \in Outputs : Reliable(o) /\ o \notin HostNamed /\ HasRow(o)' =>
            (o \in running \cup stopped => o \in running' \cup stopped')
  PROVE  RowsHeld'
BY DEF RowsHeld, RowHeld, Reliable, NoTaskFails, UdpOutput, Base

\* stop_input keeps every output that shows active.
LEMMA HaltHolds ==
  ASSUME TypeOK, WellShown, RowsHeld, NEW i \in Inputs, HaltInput(i)
  PROVE  RowsHeld'
<1>1. /\ present' = present /\ row' = row
      /\ running' = running \ RunningOf(i)
      /\ stopped' = stopped \cup ToRestart(i)
  BY DEF HaltInput
<1>2. \A o \in Outputs : Reliable(o) /\ o \in RunningOf(i) => o \in ToRestart(i)
  BY StreamControlAssumption
     DEF RunningOf, ToRestart, WellShown, EntriesActive, ShownActive, HasTask, Streams
<1> QED BY <1>1, <1>2, RowsFrame DEF HasRow

LEMMA RestartHolds ==
  ASSUME RowsHeld, NEW i, NEW failed, RestartOutputs(i, failed),
         present' = present, row' = row
  PROVE  RowsHeld'
<1>1. /\ running' = running \cup (StoppedOf(i) \ failed)
      /\ stopped' = stopped \ StoppedOf(i) /\ failed \subseteq HostNamed
  BY DEF RestartOutputs
<1> QED BY <1>1, RowsFrame DEF HasRow

LEMMA RowsHeldStepOfClient ==
  ASSUME TypeOK, HandlersPlaced, WellShown, RowsHeld, NEW c \in Clients,
         Request(c) \/ Continue(c)
  PROVE  RowsHeld'
<1> USE StreamControlAssumption
<1>f. ASSUME present' = present, running' = running, stopped' = stopped,
             \A o \in Outputs : HasRow(o)' => HasRow(o)
      PROVE  RowsHeld'
  BY <1>f, RowsFrame
<1>1. ASSUME NEW i \in Inputs, CreateInput(c, i) PROVE RowsHeld'
  BY <1>1, <1>f DEF CreateInput, memory, HasRow, TypeOK, Streams
<1>2. ASSUME NEW i \in Inputs, DeleteInput(c, i) PROVE RowsHeld'
  <2>1. /\ present' = present \ {i} /\ running' = running \ OutputsOf(i)
        /\ stopped' = stopped \ OutputsOf(i)
    BY <1>2 DEF DeleteInput
  <2>2. \A o \in Outputs : HasRow(o)' => HasRow(o) /\ o \notin OutputsOf(i)
    BY <1>2 DEF DeleteInput, DeleteRows, HasRow, Streams
  <2>3. \A o \in Outputs : RowHeld(o)'
    BY <2>1, <2>2 DEF RowsHeld, RowHeld, OutputsOf, Reliable, NoTaskFails,
                      UdpOutput, Base
  <2> QED BY <2>3, RowsPrimed
<1>3. ASSUME NEW i \in Inputs, StartInput(c, i) \/ UpdateInput(c, i)
      PROVE  RowsHeld'
  BY <1>3, <1>f DEF StartInput, UpdateInput, memory, HasRow
<1>4. ASSUME NEW i \in Inputs, StopInput(c, i) PROVE RowsHeld'
  BY <1>4, HaltHolds DEF StopInput
<1>5. ASSUME NEW o \in Outputs, CreateOutput(c, o) PROVE RowsHeld'
  <2>1. /\ Parent[o] \in present /\ present' = present /\ stopped' = stopped
        /\ \A q \in Outputs \ {o} : row'[q] = row[q]
        /\ running' = running \cup {o} \/ (o \in HostNamed /\ running' = running)
    BY <1>5 DEF CreateOutput, RunOutput, LookupFails, TypeOK
  <2>2. \A q \in Outputs : RowHeld(q)'
    BY <2>1 DEF RowsHeld, RowHeld, HasRow, Reliable, NoTaskFails, UdpOutput, Base
  <2> QED BY <2>2, RowsPrimed
<1>6. ASSUME NEW o \in Outputs, DeleteOutput(c, o) PROVE RowsHeld'
  <2>1. /\ present' = present /\ running \ {o} \subseteq running'
        /\ stopped \ {o} \subseteq stopped'
    BY <1>6 DEF DeleteOutput
  <2>2. ~HasRow(o)' /\ \A q \in Outputs : HasRow(q)' => HasRow(q)
    BY <1>6 DEF DeleteOutput, DeleteRows, HasRow, Streams
  <2> QED BY <2>1, <2>2, RowsFrame
<1>7. ASSUME NEW o \in Outputs,
             StartOutput(c, o) \/ StopOutput(c, o) \/ UpdateOutput(c, o)
      PROVE  RowsHeld'
  BY <1>7, <1>f DEF StartOutput, StopOutput, UpdateOutput, memory, HasRow
<1>8. CASE \/ SpawnInput(c) \/ RestartInput(c) \/ ReachInput(c) \/ CheckSource(c)
           \/ Attach(c) \/ ProbeInput(c) \/ ProbeOutput(c) \/ ReadStatus(c)
  BY <1>8, <1>f DEF SpawnInput, RestartInput, ReachInput, CheckSource, Attach,
                    ProbeInput, ProbeOutput, ReadStatus, memory, HasRow
<1>9. CASE InsertInput(c) \/ InsertFailedInput(c)
  <2>1. present \subseteq present' /\ running' = running /\ stopped' = stopped
    BY <1>9 DEF InsertInput, InsertFailedInput
  <2>2. \A o \in Outputs : row'[o] = row[o]
    BY <1>9, PlacedTyped DEF InsertInput, InsertFailedInput, TypeOK, Streams
  <2> QED BY <2>1, <2>2, RowsFrame DEF HasRow
<1>10. CASE Respawn(c) \/ Adopt(c)
  BY <1>10, <1>f, RestartHolds DEF Respawn, Adopt, memory, HasRow
<1>11. CASE HaltForUpdate(c)
  BY <1>11, <1>f, HaltHolds DEF HaltForUpdate, memory, HasRow
<1>12. CASE BeginOutput(c)
  <2> DEFINE o == pc[c].s
  <2>1. row' = row
    BY <1>12 DEF BeginOutput
  <2>2. CASE /\ present' = present /\ stopped' = stopped \ {o}
             /\ running' = running \cup {o} \/ (o \in HostNamed /\ running' = running)
    BY <2>1, <2>2, RowsFrame DEF HasRow
  <2> QED BY <1>12, <1>f, <2>1, <2>2 DEF BeginOutput, RunOutput, LookupFails, memory, HasRow
<1>13. CASE EndOutput(c)
  <2> DEFINE o == pc[c].s
  <2>1. CASE HaltOutput(o)
    BY <2>1, RowsFrame DEF HaltOutput, HasRow
  <2> QED BY <1>13, <1>f, <2>1 DEF EndOutput, memory, HasRow
<1>14. CASE ParkOutput(c)
  BY <1>14, RowsFrame DEF ParkOutput, HasRow
<1>15. CASE WriteRow(c)
  BY <1>15, <1>f DEF WriteRow, memory, HasRow, TypeOK
<1> QED
  BY <1>1, <1>2, <1>3, <1>4, <1>5, <1>6, <1>7, <1>8, <1>9, <1>10, <1>11, <1>12,
     <1>13, <1>14, <1>15 DEF Request, Continue

LEMMA RowsHeldLoad ==
  ASSUME NEW r, NEW o \in Outputs, o \in Rowed(r), Parent[o] \in Rowed(r)
  PROVE  /\ Parent[o] \in Inputs \cap Rowed(r)
         /\ o \notin HostNamed => o \in Sending(r) \cup Parked(r)
BY StreamControlAssumption DEF Sending, Parked, Loaded

\* The rows a process leaves: an output that has one still has its input's.
LEMMA RowsLeft ==
  ASSUME TypeOK, Restart, \A o \in Outputs : HasRow(o) => HasRow(Parent[o])
  PROVE  \A o \in Outputs \cap Rowed(row') : Parent[o] \in Rowed(row')
BY StreamControlAssumption
   DEF Restart, CaughtDeleting, DeleteRows, OutputsOf, TypeOK, Rowed, HasRow, Streams

LEMMA RowsHeldInit == Init => RowsHeld
<1> SUFFICES ASSUME Init PROVE RowsHeld
  OBVIOUS
<1>1. \A o \in Outputs \cap Rowed(row) : Parent[o] \in Rowed(row)
  BY StreamControlAssumption DEF Init, InitialRows, Rowed, Streams
<1>2. \A o \in Outputs : HasRow(o) => o \in Rowed(row)
  BY DEF HasRow, Rowed, Streams
<1> QED BY <1>1, <1>2, RowsHeldLoad DEF Init, RowsHeld, RowHeld

LEMMA RowsHeldStep == IInv /\ WellShown /\ RowsHeld /\ [Next]_vars => RowsHeld'
<1> SUFFICES ASSUME IInv, WellShown, RowsHeld, [Next]_vars PROVE RowsHeld'
  OBVIOUS
<1>1. CASE memory' = memory /\ row' = row
  BY <1>1, RowsFrame DEF memory, HasRow
<1>2. CASE TaskAction \/ UNCHANGED vars
  BY <1>1, <1>2 DEF TaskAction, TaskStep, LateStep, AbortLands, vars
<1>3. CASE Process
  BY <1>3, RowsFrame DEF Process, HasRow
<1>4. CASE Restart
  <2>1. \A o \in Outputs : HasRow(o) => HasRow(Parent[o])
    BY StreamControlAssumption DEF RowsHeld, RowHeld, IInv, InputRowsMatchEntries
  <2>2. \A o \in Outputs \cap Rowed(row') : Parent[o] \in Rowed(row')
    BY <1>4, <2>1, RowsLeft DEF IInv
  <2>3. \A o \in Outputs : HasRow(o)' => o \in Rowed(row')
    BY DEF HasRow, Rowed, Streams
  <2>4. \A o \in Outputs : RowHeld(o)'
    BY <1>4, <2>2, <2>3, RowsHeldLoad DEF Restart, RowHeld
  <2> QED BY <2>4, RowsPrimed
<1> QED BY <1>2, <1>3, <1>4, RowsHeldStepOfClient DEF Next, IInv

\* An output that has a row is in output_tasks or stopped_outputs and can be
\* managed, whatever requests overlap and wherever the process dies, provided no
\* host name is looked up and no SRT task fails for good.
THEOREM OutputRowsKept ==
  (HostNamed = {} /\ \A o \in Outputs : Reliable(o))
    => (Spec => []OutputRowsHaveEntries)
<1> SUFFICES ASSUME HostNamed = {}, \A o \in Outputs : Reliable(o)
             PROVE  Spec => []OutputRowsHaveEntries
  OBVIOUS
<1>1. RowsHeld => OutputRowsHaveEntries
  BY DEF RowsHeld, RowHeld, OutputRowsHaveEntries, Rowed, HasRow
<1>2. Init => WellShown /\ RowsHeld
  BY ShownInit, RowsHeldInit
<1>3. IInv /\ WellShown /\ RowsHeld /\ [Next]_vars => WellShown' /\ RowsHeld'
  BY ShownStep, RowsHeldStep DEF IInv
<1> QED BY <1>1, <1>2, <1>3, Invariant, PTL DEF Spec

-----------------------------------------------------------------------------
(* The registry of streams. *)

\* The life of an id depends on its row and, for an input, on the map.
LEMMA LivesKept ==
  ASSUME \A s \in Streams : LifeOf(s)' = LifeOf(s)
  PROVE  StreamLives' = StreamLives
BY DEF StreamLives

LEMMA LivesFrame ==
  ASSUME row' = row, present' = present
  PROVE  StreamLives' = StreamLives
BY DEF StreamLives, LifeOf, HasRow

LEMMA LivesChange ==
  ASSUME NEW S \in SUBSET Streams, NEW to, \A s \in S : LifeOf(s)' = to,
         \A s \in Streams \ S : LifeOf(s)' = LifeOf(s)
  PROVE  Registered!Become(S, to)
BY DEF StreamLives, Registered!Become, Streams

\* A row is in use or it is "none" or "deleted".
LEMMA LifeCases ==
  ASSUME NEW s \in Streams
  PROVE  /\ StreamLives[s] = LifeOf(s)
         /\ LifeOf(s) = "free"    <=> row[s] = "none"
         /\ LifeOf(s) = "deleted" <=> row[s] = "deleted"
         /\ LifeOf(s) = "managed" <=> HasRow(s) /\ (s \in Outputs \/ s \in present)
         /\ LifeOf(s) = "creating" <=> HasRow(s) /\ s \notin Outputs /\ s \notin present
         /\ LifeOf(s)' = "free"    <=> row'[s] = "none"
         /\ LifeOf(s)' = "deleted" <=> row'[s] = "deleted"
         /\ LifeOf(s)' = "managed" <=> HasRow(s)' /\ (s \in Outputs \/ s \in present')
         /\ LifeOf(s)' = "creating" <=> HasRow(s)' /\ s \notin Outputs /\ s \notin present'
BY DEF StreamLives, LifeOf, HasRow

LEMMA ManagedOutputs ==
  ASSUME NEW i
  PROVE  Registered!ManagedOf(i) = {o \in OutputsOf(i) : HasRow(o)}
BY LifeCases DEF Registered!ManagedOf, Registered!Managed, OutputsOf, Streams

LEMMA RegistryStepOfClient ==
  ASSUME IInv, NEW c \in Clients, Request(c) \/ Continue(c)
  PROVE  [Registered!Next]_StreamLives
<1> USE StreamControlAssumption
<1>0. TypeOK /\ HandlersPlaced /\ InputRowsMatchEntries
  BY DEF IInv
<1>m. \A i \in present : i \in Inputs /\ i \in Streams /\ HasRow(i)
  BY <1>0 DEF TypeOK, InputRowsMatchEntries, Streams
<1>k. ASSUME \A s \in Streams : LifeOf(s)' = LifeOf(s)
      PROVE  [Registered!Next]_StreamLives
  BY <1>k, LivesKept
<1>1. ASSUME NEW i \in Inputs, CreateInput(c, i)
      PROVE  Registered!Create(i)
  <2>1. /\ i \in Streams /\ row[i] = "none" /\ i \notin present /\ i \notin Outputs
        /\ row' = [row EXCEPT ![i] = "Listening"] /\ present' = present
    BY <1>m, <1>1 DEF CreateInput, memory, Streams, HasRow
  <2>2. LifeOf(i)' = "creating" /\ StreamLives[i] = "free"
    BY <1>0, <2>1, LifeCases DEF HasRow, TypeOK
  <2>3. \A s \in Streams \ {i} : LifeOf(s)' = LifeOf(s)
    BY <2>1 DEF LifeOf, HasRow
  <2> QED BY <2>1, <2>2, <2>3, LivesChange DEF Registered!Create
<1>2. ASSUME NEW i \in Inputs, DeleteInput(c, i)
      PROVE  Registered!Delete(i)
  <2> DEFINE S == {i} \cup Registered!ManagedOf(i)
  <2>1. /\ i \in present /\ present' = present \ {i}
        /\ row' = [s \in Streams |->
              IF s \in {i} \cup OutputsOf(i) /\ HasRow(s) THEN "deleted" ELSE row[s]]
    BY <1>2 DEF DeleteInput, DeleteRows
  <2>2. Registered!ManagedOf(i) = {o \in OutputsOf(i) : HasRow(o)}
    BY ManagedOutputs
  <2>3. S \in SUBSET Streams /\ \A s \in S : LifeOf(s)' = "deleted"
    BY <1>m, <2>1, <2>2, LifeCases DEF OutputsOf, Streams
  <2>4. \A s \in Streams \ S : LifeOf(s)' = LifeOf(s)
    BY <2>1, <2>2 DEF LifeOf, HasRow
  <2>5. Registered!Managed(i)
    BY <1>m, <2>1, LifeCases DEF Registered!Managed
  <2> HIDE DEF S
  <2>6. Registered!Become(S, "deleted")
    BY <2>3, <2>4, LivesChange
  <2> QED BY <2>5, <2>6 DEF Registered!Delete, S
<1>3. ASSUME NEW i \in Streams, i = pc[c].s, InsertInput(c) \/ InsertFailedInput(c)
      PROVE  i \in Inputs /\ Registered!Admit(i)
  <2>1. At(c, "insert") \/ At(c, "refuse")
    BY <1>3 DEF InsertInput, InsertFailedInput
  <2>2. i \in Inputs /\ i \notin Outputs /\ i \notin present
    BY <1>0, <1>3, <2>1 DEF At, HandlersPlaced, PlaceOK, CreatorOK, Creator,
                            CreateLabels, InputLabels
  <2>3. HasRow(i)
    BY <1>0, <1>3, <2>1, <2>2 DEF InputRowsMatchEntries, Creating, At
  <2>4. /\ present' = present \cup {i} /\ HasRow(i)'
        /\ \A s \in Streams \ {i} : row'[s] = row[s]
    BY <1>0, <1>3, <2>3 DEF InsertInput, InsertFailedInput, TypeOK, HasRow
  <2>5. LifeOf(i)' = "managed" /\ StreamLives[i] = "creating"
    BY <2>2, <2>3, <2>4, LifeCases
  <2>6. \A s \in Streams \ {i} : LifeOf(s)' = LifeOf(s)
    BY <2>4 DEF LifeOf, HasRow
  <2> QED BY <2>2, <2>5, <2>6, LivesChange DEF Registered!Admit
<1>4. ASSUME NEW o \in Outputs, CreateOutput(c, o)
      PROVE  Registered!AddOutput(o)
  <2>1. /\ o \in Streams /\ row[o] = "none" /\ Parent[o] \in present
        /\ row' = [row EXCEPT ![o] = "Connecting"] /\ present' = present
    BY <1>4 DEF CreateOutput, RunOutput, LookupFails, Streams
  <2>2. LifeOf(o)' = "managed" /\ StreamLives[o] = "free"
    BY <1>0, <2>1, LifeCases DEF HasRow, TypeOK
  <2>3. \A s \in Streams \ {o} : LifeOf(s)' = LifeOf(s)
    BY <2>1 DEF LifeOf, HasRow
  <2>4. Registered!Managed(Parent[o])
    BY <1>m, <2>1, LifeCases DEF Registered!Managed
  <2> QED BY <2>1, <2>2, <2>3, <2>4, LivesChange DEF Registered!AddOutput
<1>5. ASSUME NEW o \in Outputs, DeleteOutput(c, o)
      PROVE  [Registered!Next]_StreamLives
  <2>1. /\ o \in Streams /\ Parent[o] \in present /\ present' = present
        /\ row' = [s \in Streams |->
              IF s \in {o} /\ HasRow(s) THEN "deleted" ELSE row[s]]
    BY <1>5 DEF DeleteOutput, DeleteRows, Streams
  <2>2. \A s \in Streams \ {o} : LifeOf(s)' = LifeOf(s)
    BY <2>1 DEF LifeOf, HasRow
  <2>3. CASE HasRow(o)
    <3>1. LifeOf(o)' = "deleted"
      BY <2>1, <2>3, LifeCases
    <3>2. Registered!Managed(Parent[o]) /\ Registered!Managed(o)
      BY <1>m, <2>1, <2>3, LifeCases DEF Registered!Managed
    <3>3. Registered!RemoveOutput(o)
      BY <2>1, <2>2, <3>1, <3>2, LivesChange DEF Registered!RemoveOutput
    <3> QED BY <3>3 DEF Registered!Next
  <2>4. CASE ~HasRow(o)
    <3>1. row'[o] = row[o]
      BY <2>1, <2>4
    <3> QED BY <2>1, <2>2, <3>1, <1>k DEF LifeOf, HasRow
  <2> QED BY <2>3, <2>4
<1>6. CASE WriteRow(c)
  <2>1. /\ present' = present
        /\ \A s \in Streams : row'[s] = row[s] \/ (HasRow(s) /\ HasRow(s)')
    BY <1>0, <1>6, FinalStatusTyped DEF WriteRow, memory, HasRow, TypeOK, Status
  <2> QED BY <2>1, <1>k DEF LifeOf, HasRow
<1>7. ASSUME row' = row, present' = present
      PROVE  [Registered!Next]_StreamLives
  BY <1>7, LivesFrame
<1>8. ASSUME NEW i \in Inputs,
             StartInput(c, i) \/ StopInput(c, i) \/ UpdateInput(c, i)
      PROVE  row' = row /\ present' = present
  BY <1>8 DEF StartInput, StopInput, UpdateInput, HaltInput, memory
<1>9. ASSUME NEW o \in Outputs,
             StartOutput(c, o) \/ StopOutput(c, o) \/ UpdateOutput(c, o)
      PROVE  row' = row /\ present' = present
  BY <1>9 DEF StartOutput, StopOutput, UpdateOutput, memory
<1>10. CASE \/ SpawnInput(c) \/ RestartInput(c) \/ Respawn(c) \/ ReachInput(c)
            \/ CheckSource(c) \/ Attach(c) \/ Adopt(c) \/ ProbeInput(c) \/ HaltForUpdate(c) \/ BeginOutput(c)
            \/ EndOutput(c) \/ ProbeOutput(c) \/ ParkOutput(c) \/ ReadStatus(c)
  <2>1. row' = row /\ present' = present
    BY <1>10 DEF SpawnInput, RestartInput, Respawn, ReachInput, CheckSource, Attach,
                 Adopt, ProbeInput, HaltForUpdate, HaltInput, BeginOutput, RunOutput, LookupFails,
                 EndOutput, HaltOutput, ProbeOutput, ParkOutput, ReadStatus, memory
  <2> QED BY <2>1, <1>7
<1>11. CASE InsertInput(c) \/ InsertFailedInput(c)
  <2>1. pc[c].s \in Streams
    BY <1>0, <1>11 DEF InsertInput, InsertFailedInput, At, HandlersPlaced, PlaceOK
  <2> QED BY <1>3, <1>11, <2>1 DEF Registered!Next
<1> QED
  BY <1>1, <1>2, <1>4, <1>5, <1>6, <1>7, <1>8, <1>9, <1>10, <1>11
     DEF Request, Continue, Registered!Next

\* After a restart all inputs that have a row are in the map.
LEMMA RecoverLives ==
  ASSUME present' = Inputs \cap Rowed(row'), NEW S \in SUBSET Streams,
         \A s \in Streams : row'[s] = IF s \in S THEN "deleted" ELSE row[s]
  PROVE  Registered!Recover(S)
<1> USE StreamControlAssumption
<1>1. ASSUME NEW s \in Streams
      PROVE  LifeOf(s)' = IF s \in S THEN "deleted"
                          ELSE IF s \in Inputs /\ LifeOf(s) = "creating"
                          THEN "managed" ELSE LifeOf(s)
  <2>1. CASE s \in S
    BY <2>1, LifeCases
  <2>2. CASE s \notin S /\ s \in Inputs
    <3>1. row'[s] = row[s] /\ s \notin Outputs /\ (HasRow(s)' => s \in present')
          /\ (HasRow(s)' <=> HasRow(s))
      BY <2>2 DEF Rowed, HasRow
    <3> QED BY <2>2, <3>1 DEF LifeOf, HasRow
  <2>3. CASE s \notin S /\ s \notin Inputs
    <3>1. row'[s] = row[s] /\ s \in Outputs
      BY <2>3 DEF Streams
    <3> QED BY <2>3, <3>1 DEF LifeOf, HasRow
  <2> QED BY <2>1, <2>2, <2>3
<1> QED BY <1>1 DEF StreamLives, Registered!Recover, Streams

LEMMA RegistryInit == Init => Registered!Init
<1> SUFFICES ASSUME Init PROVE Registered!Init
  OBVIOUS
<1> USE StreamControlAssumption
<1>1. /\ row \in [Streams -> RowStates] /\ present = Inputs \cap Rowed(row)
      /\ \A s \in Streams : HasRow(s) <=> s \in Preloaded
      /\ \A s \in Streams : row[s] # "deleted"
  BY DEF Init, InitialRows, HasRow
<1>2. \A s \in Streams : LifeOf(s) = IF s \in Preloaded THEN "managed" ELSE "free"
  BY <1>1 DEF LifeOf, HasRow, Rowed, Streams
<1> QED BY <1>2 DEF StreamLives, Registered!Init, Registered!Managed, Streams

LEMMA RegistryStep == IInv /\ [Next]_vars => [Registered!Next]_StreamLives
<1> SUFFICES ASSUME IInv, [Next]_vars PROVE [Registered!Next]_StreamLives
  OBVIOUS
<1>1. ASSUME NEW s \in Streams, NEW g \in Gens,
             TaskStep(s, g) \/ LateStep(s, g) \/ AbortLands(s, g)
      PROVE  row' = row /\ present' = present
  BY <1>1 DEF TaskStep, LateStep, AbortLands, memory
<1>2. CASE Process \/ UNCHANGED vars
  BY <1>2, LivesFrame DEF Process, vars, memory
<1>3. CASE Restart
  <2>1. present' = Inputs \cap Rowed(row')
    BY <1>3 DEF Restart
  <2>2. ASSUME row' = row PROVE Registered!Recover({})
    BY <2>1, <2>2, RecoverLives
  <2>3. ASSUME NEW i \in present, DeleteRows(OutputsOf(i))
        PROVE  /\ i \in Inputs /\ Registered!Managed(i)
               /\ Registered!Recover(Registered!ManagedOf(i))
    <3>1. i \in Inputs /\ i \in Streams /\ HasRow(i)
      BY DEF IInv, TypeOK, InputRowsMatchEntries, Streams
    <3>2. Registered!Managed(i)
      BY <3>1, LifeCases DEF Registered!Managed
    <3>3. LET S == Registered!ManagedOf(i) IN
          /\ S \in SUBSET Streams
          /\ \A s \in Streams : row'[s] = IF s \in S THEN "deleted" ELSE row[s]
      BY <2>3, ManagedOutputs DEF DeleteRows, OutputsOf, Streams
    <3> QED BY <2>1, <3>1, <3>2, <3>3, RecoverLives
  <2> QED BY <1>3, <2>2, <2>3 DEF Restart, CaughtDeleting, Registered!Next
<1> QED
  BY <1>1, <1>2, <1>3, LivesFrame, RegistryStepOfClient DEF Next, TaskAction

\* For any number of requests and wherever the process dies, rows and map change
\* as the registry says.
THEOREM RegistryImplemented == Spec => ImplementsRegistry
<1>1. IInv /\ [Next]_vars => [Registered!Next]_StreamLives
  BY RegistryStep
<1> QED
  BY <1>1, RegistryInit, Invariant, PTL DEF Spec, ImplementsRegistry, Registered!Spec

\* The registry leaves no output without its input ...
LEMMA RegistryFamilies ==
  Registered!NoOrphans /\ [Registered!Next]_StreamLives => Registered!NoOrphans'
<1> SUFFICES ASSUME Registered!NoOrphans, [Registered!Next]_StreamLives
             PROVE  Registered!NoOrphans'
  OBVIOUS
<1> USE StreamControlAssumption
    DEF Registered!NoOrphans, Registered!Managed, Registered!Become
<1>1. ASSUME NEW i \in Inputs, Registered!Create(i) \/ Registered!Admit(i)
      PROVE  Registered!NoOrphans'
  BY <1>1 DEF Registered!Create, Registered!Admit
<1>2. ASSUME NEW i \in Inputs, Registered!Delete(i)
      PROVE  Registered!NoOrphans'
  BY <1>2 DEF Registered!Delete, Registered!ManagedOf
<1>3. ASSUME NEW i \in Inputs, Registered!Recover(Registered!ManagedOf(i))
      PROVE  Registered!NoOrphans'
  BY <1>3 DEF Registered!Recover, Registered!ManagedOf
<1>4. ASSUME NEW o \in Outputs, Registered!AddOutput(o) \/ Registered!RemoveOutput(o)
      PROVE  Registered!NoOrphans'
  BY <1>4 DEF Registered!AddOutput, Registered!RemoveOutput
<1>5. CASE Registered!Recover({})
  BY <1>5 DEF Registered!Recover
<1>6. CASE UNCHANGED StreamLives
  BY <1>6
<1> QED BY <1>1, <1>2, <1>3, <1>4, <1>5, <1>6 DEF Registered!Next

\* ... so load_from_db restores every output that has a row.
THEOREM RestoreIsComplete == Spec => []RestoreFindsInputs
<1>1. Registered!Init => Registered!NoOrphans
  BY DEF Registered!Init, Registered!NoOrphans
<1>2. Registered!NoOrphans => RestoreFindsInputs
  BY StreamControlAssumption, LifeCases
     DEF Registered!NoOrphans, Registered!Managed, RestoreFindsInputs, Loaded,
         Rowed, HasRow, Streams
<1> QED
  BY <1>1, <1>2, RegistryFamilies, RegistryImplemented, PTL
     DEF ImplementsRegistry, Registered!Spec
-----------------------------------------------------------------------------
(* Channels.  A reader of a channel knows an input that is in the map, or was *)
(* until it was deleted; and the channel of a filter that is about to be      *)
(* adopted is new to everybody.                                               *)

Born(s, g) == phase[s][g] # "unborn"
Adopts(d, i, g)    == pc[d].at = "adopt" /\ pc[d].s = i /\ pc[d].g = g
WillAdopt(d, i, g) == pc'[d].at = "adopt" /\ pc'[d].s = i /\ pc'[d].g = g

NoneBornEarly == \A s \in Streams, g \in Gens : Born(s, g) => g <= gen[s]
ChannelsBorn  == \A i \in Inputs : channel[i] <= gen[i]
AdoptOK(d) == /\ Known(pc[d].s)
              /\ pc[d].g \in 1..gen[pc[d].s] /\ channel[pc[d].s] # pc[d].g
              /\ \A e \in Clients : Adopts(e, pc[d].s, pc[d].g) => e = d
AdoptsApart == \A d \in Clients : At(d, "adopt") => AdoptOK(d)
ReaderOK(s, g) ==
  /\ Known(Upstream(s)) /\ sub[s][g] <= gen[Upstream(s)]
  /\ \A d \in Clients : ~Adopts(d, Upstream(s), sub[s][g])
ReadersPlaced ==
  \A s \in Streams, g \in Gens : Reads(s) /\ Born(s, g) => ReaderOK(s, g)

ChanInv == NoneBornEarly /\ ChannelsBorn /\ AdoptsApart /\ ReadersPlaced

\* What a step other than a restart does to the channel of a reader.
ClosesOnce(s, g) ==
  phase'[s][g] \in LivePhases =>
    IF phase[s][g] = "unborn" THEN ~Closed(s, g)' ELSE Closed(s, g) => Closed(s, g)'
ChannelStep == \A s \in Streams, g \in Gens : Reads(s) => ClosesOnce(s, g)

\* An input that is known stays so, and one that has left the map is not back.
LEMMA KnownStays ==
  ASSUME IInv, IInv', [Next]_vars, NEW i \in Inputs, Known(i)
  PROVE  Known(i)' /\ (i \in present' => i \in present)
<1> USE StreamControlAssumption
<1>1. i \in Streams /\ i \notin Outputs
  BY DEF Streams
<1>2. (i \in present => HasRow(i)) /\ (i \in present' => HasRow(i)')
  BY DEF IInv, InputRowsMatchEntries
<1>3. LifeOf(i) \in {"managed", "deleted"} /\ StreamLives[i] = LifeOf(i)
  BY <1>1, <1>2, LifeCases DEF Known
<1>4. (LifeOf(i) = "deleted" => LifeOf(i)' = "deleted")
      /\ LifeOf(i)' \in {"managed", "deleted"}
  <2>1. StreamLives'[i] = LifeOf(i)'
    BY <1>1 DEF StreamLives
  <2>2. [Registered!Next]_StreamLives
    BY RegistryStep
  <2> QED
    BY <1>1, <1>3, <2>1, <2>2
       DEF Registered!Next, Registered!Create, Registered!Admit, Registered!Delete,
           Registered!AddOutput, Registered!RemoveOutput, Registered!Recover,
           Registered!Become, Registered!Managed, Registered!ManagedOf, Streams
<1>5. (i \in present' => LifeOf(i)' = "managed") /\ (LifeOf(i)' = "managed" => i \in present')
      /\ (LifeOf(i)' = "deleted" => row'[i] = "deleted")
      /\ (LifeOf(i) = "managed" => i \in present)
  BY <1>1, <1>2 DEF LifeOf, HasRow
<1> QED BY <1>3, <1>4, <1>5 DEF Known

LEMMA MovesAlive ==
  ASSUME NEW s \in Streams, NEW g \in Gens, NEW m \in Moves(s, g)
  PROVE  phase[s][g] \in LivePhases /\ m.next \in LivePhases \cup {"done"}
<1> DEFINE OK(n) == phase[s][g] \in LivePhases /\ n.next \in LivePhases \cup {"done"}
<1>1. \A closed \in BOOLEAN : \A n \in InputMoves(Kind[s], phase[s][g], closed) : OK(n)
  BY DEF InputMoves, UdpInputMoves, SptsMoves, SrtMoves, Move, Fault, LivePhases
<1>2. \A closed \in BOOLEAN : \A n \in OutputMoves(Kind[s], phase[s][g], closed) : OK(n)
  BY DEF OutputMoves, UdpOutputMoves, SrtMoves, Move, Fault, LivePhases
<1>3. (Reads(s) /\ Closed(s, g)) \in BOOLEAN
  BY DEF Reads, Closed
<1> QED BY <1>1, <1>2, <1>3 DEF Moves

\* Steps of tasks.
LEMMA ChannelsOfTasks ==
  ASSUME IInv, ChanInv, TaskAction
  PROVE  ChanInv' /\ ChannelStep
<1>1. PICK t \in Streams, h \in Gens : TaskStep(t, h) \/ LateStep(t, h) \/ AbortLands(t, h)
  BY DEF TaskAction
<1>2. PICK p \in LivePhases \cup {"done"} :
        phase[t][h] \in LivePhases /\ phase' = [phase EXCEPT ![t][h] = p]
  BY <1>1, MovesAlive DEF TaskStep, LateStep, AbortLands
<1>3. UNCHANGED <<present, channel, gen, sub, row, pc>>
  BY <1>1 DEF TaskStep, LateStep, AbortLands, memory
<1>4. \A s \in Streams, g \in Gens :
        /\ Born(s, g) <=> Born(s, g)'
        /\ phase[s][g] \notin LivePhases => phase'[s][g] = phase[s][g]
  BY <1>2 DEF Born, IInv, TypeOK, LivePhases
<1>5. ChanInv'
  BY <1>3, <1>4 DEF ChanInv, NoneBornEarly, ChannelsBorn, AdoptsApart, AdoptOK, Adopts,
                    At, Known, ReadersPlaced, ReaderOK, Upstream
<1>6. ASSUME NEW s \in Streams, NEW g \in Gens, Reads(s), phase'[s][g] \in LivePhases
      PROVE  phase[s][g] # "unborn" /\ (Closed(s, g) => Closed(s, g)')
  <2>1. phase[s][g] # "unborn"
    BY <1>4, <1>6 DEF LivePhases
  <2>2. sub[s][g] # 0 => sub[s][g] \in Gens
    BY <1>6, StreamControlAssumption DEF IInv, TypeOK, Gens
  <2>3. Upstream(s) \in Streams
    BY <1>6, UpstreamTyped DEF Streams
  <2>4. sub[s][g] # 0 /\ phase[Upstream(s)][sub[s][g]] = "done" =>
          phase'[Upstream(s)][sub[s][g]] = "done"
    BY <1>4, <2>2, <2>3 DEF LivePhases
  <2> QED BY <1>3, <2>1, <2>4 DEF Closed, Upstream
<1>7. ChannelStep
  BY <1>6 DEF ChannelStep, ClosesOnce
<1> QED BY <1>5, <1>7

\* Steps of handlers: what they spawn reads channels that are in the map, and
\* the channel in an entry is replaced by a new one or by an adopted one.
Adopting(d) ==
  /\ pc'[d].g = gen[pc'[d].s] + 1 /\ Known(pc'[d].s)
  /\ gen'[pc'[d].s] = gen[pc'[d].s] + 1
  /\ channel' = channel /\ \A e \in Clients : e # d => pc'[e] = pc[e]
Rechannelled(i) ==
  \/ channel'[i] = channel[i]
  \/ channel'[i] = 0 /\ i \notin present'
  \/ channel'[i] = gen[i] /\ ~Known(i)
  \/ channel'[i] = gen[i] + 1 /\ gen'[i] = gen[i] + 1
  \/ \E e \in Clients : Adopts(e, i, channel'[i]) /\ ~At(e, "adopt")'

LEMMA ChannelsOfHandlers ==
  ASSUME IInv, IInv', ChanInv,
         \A i \in Inputs : Known(i) => Known(i)' /\ (i \in present' => i \in present),
         NEW S \in SUBSET Streams, NEW ch, Spawn(S, ch),
         \A s \in S : Reads(s) =>
            Upstream(s) \in present' /\ ch[s] = channel'[Upstream(s)],
         \A i \in Inputs : Rechannelled(i),
         \A d \in Clients : At(d, "adopt")' =>
            (At(d, "adopt") /\ pc'[d] = pc[d]) \/ Adopting(d)
  PROVE  ChanInv' /\ ChannelStep
<1>1. /\ gen \in [Streams -> Nat] /\ gen' \in [Streams -> Nat]
      /\ channel \in [Inputs -> Nat] /\ channel' \in [Inputs -> Nat]
      /\ sub \in [Streams -> [Gens -> Nat]] /\ phase \in [Streams -> [Gens -> Phases]]
      /\ \A d \in Clients : pc[d].g \in Nat /\ pc'[d].g \in Nat
      /\ Inputs \subseteq Streams
  BY StreamControlAssumption DEF IInv, TypeOK, Handlers, Streams
<1>t. /\ \A s \in Streams : gen[s] \in Nat /\ gen'[s] \in Nat
      /\ \A i \in Inputs : channel[i] \in Nat /\ channel'[i] \in Nat /\ i \in Streams
  BY <1>1
<1>2. \A s \in Streams : IF s \in S THEN gen'[s] = gen[s] + 1 ELSE gen'[s] = gen[s]
  BY DEF Spawn
<1>g. \A s \in Streams : gen[s] <= gen'[s]
  BY <1>t, <1>2
<1>3. \A s \in Streams, g \in Gens :
        IF s \in S /\ g = gen[s] + 1
        THEN phase'[s][g] = "start" /\ sub'[s][g] = ch[s]
        ELSE phase'[s][g] = phase[s][g] /\ sub'[s][g] = sub[s][g]
  BY <1>1 DEF Spawn
<1>4. NoneBornEarly'
  <2> SUFFICES ASSUME NEW s \in Streams, NEW g \in Gens, Born(s, g)'
               PROVE  g <= gen'[s]
    BY DEF NoneBornEarly
  <2>1. CASE s \in S /\ g = gen[s] + 1
    BY <1>t, <1>2, <2>1
  <2>2. CASE ~(s \in S /\ g = gen[s] + 1)
    <3>1. g <= gen[s] /\ g \in Nat
      BY <1>3, <2>2 DEF Born, ChanInv, NoneBornEarly, Gens
    <3>2. gen[s] <= gen'[s] /\ gen[s] \in Nat /\ gen'[s] \in Nat
      BY <1>t, <1>g
    <3> QED BY <3>1, <3>2
  <2> QED BY <2>1, <2>2
<1>5. \A d \in Clients : At(d, "adopt") => pc[d].s \in Inputs
  BY PlacedTyped DEF IInv
<1>6. \A d \in Clients : At(d, "adopt")' => pc'[d].s \in Inputs
  BY DEF IInv, HandlersPlaced, PlaceOK, InputLabels, At
<1>7. ChannelsBorn'
  <2> SUFFICES ASSUME NEW i \in Inputs PROVE channel'[i] <= gen'[i]
    BY DEF ChannelsBorn
  <2>1. channel[i] <= gen[i] /\ gen[i] <= gen'[i]
    BY <1>t, <1>g DEF ChanInv, ChannelsBorn
  <2>2. ASSUME NEW e \in Clients, Adopts(e, i, channel'[i]) PROVE channel'[i] <= gen[i]
    <3>1. pc[e].g \in 1..gen[i] /\ pc[e].g = channel'[i]
      BY <2>2 DEF Adopts, At, ChanInv, AdoptsApart, AdoptOK
    <3> QED BY <1>t, <3>1
  <2>3. gen[i] \in Nat /\ gen'[i] \in Nat /\ channel'[i] \in Nat /\ channel[i] \in Nat
    BY <1>t
  <2>4. Rechannelled(i)
    OBVIOUS
  <2> QED BY <2>1, <2>2, <2>3, <2>4 DEF Rechannelled
<1>8. AdoptsApart'
  <2>1. ASSUME NEW d \in Clients, At(d, "adopt")', At(d, "adopt"), pc'[d] = pc[d]
        PROVE  AdoptOK(d)'
    <3> DEFINE i == pc[d].s
               g == pc[d].g
    <3>1. i \in Inputs /\ AdoptOK(d)
      BY <1>5, <2>1 DEF ChanInv, AdoptsApart
    <3>2. Known(i)'
      BY <2>1, <3>1 DEF AdoptOK, Known
    <3>3. g \in 1..gen'[i] /\ g <= gen[i] /\ g >= 1 /\ gen[i] <= gen'[i]
      <4>1. g \in 1..gen[i] /\ gen[i] <= gen'[i] /\ gen[i] \in Nat /\ gen'[i] \in Nat
        BY <1>t, <1>g, <3>1 DEF AdoptOK
      <4> HIDE DEF g, i
      <4> QED BY <4>1
    <3>4. channel'[i] # g
      <4>1. ASSUME NEW e \in Clients, Adopts(e, i, channel'[i]), ~At(e, "adopt")', channel'[i] = g
            PROVE  FALSE
        BY <2>1, <3>1, <4>1 DEF AdoptOK
      <4> QED BY <1>1, <3>1, <3>3, <4>1 DEF Rechannelled, AdoptOK
    <3>5. ASSUME NEW e \in Clients, WillAdopt(e, i, g) PROVE e = d
      <4>1. CASE pc'[e] = pc[e]
        BY <3>1, <3>5, <4>1 DEF Adopts, WillAdopt, AdoptOK
      <4>2. CASE Adopting(e)
        BY <1>1, <3>1, <3>3, <3>5, <4>2 DEF Adopting, WillAdopt
      <4> QED BY <3>5, <4>1, <4>2 DEF WillAdopt, At
    <3> QED BY <2>1, <3>2, <3>3, <3>4, <3>5 DEF AdoptOK, Known, Adopts, WillAdopt
  <2>2. ASSUME NEW d \in Clients, At(d, "adopt")', Adopting(d)
        PROVE  AdoptOK(d)'
    <3> DEFINE i == pc'[d].s
               g == pc'[d].g
    <3>1. i \in Inputs /\ Known(i)
      BY <1>6, <2>2 DEF Adopting, Known
    <3>2. g = gen[i] + 1 /\ gen'[i] = gen[i] + 1 /\ gen[i] \in Nat
      BY <1>1, <2>2, <3>1 DEF Adopting
    <3>3. channel'[i] # g
      BY <1>1, <2>2, <3>1, <3>2 DEF Adopting, ChanInv, ChannelsBorn
    <3>4. ASSUME NEW e \in Clients, WillAdopt(e, i, g), e # d PROVE FALSE
      <4>1. At(e, "adopt") /\ pc[e].s = i /\ pc[e].g = g
        BY <2>2, <3>4 DEF Adopting, WillAdopt, At
      <4> QED BY <1>1, <3>2, <4>1 DEF ChanInv, AdoptsApart, AdoptOK
    <3>5. i \in present' \/ row'[i] = "deleted"
      BY <3>1 DEF Known
    <3> QED BY <3>1, <3>2, <3>3, <3>4, <3>5 DEF AdoptOK, Known, Adopts, WillAdopt
  <2> QED BY <2>1, <2>2 DEF AdoptsApart
<1>9. ReadersPlaced'
  <2> SUFFICES ASSUME NEW s \in Streams, NEW g \in Gens, Reads(s), Born(s, g)'
               PROVE  ReaderOK(s, g)'
    BY DEF ReadersPlaced, Reads
  <2> DEFINE i == Upstream(s)
  <2>1. i \in Inputs /\ Upstream(s)' = i
    BY UpstreamTyped DEF Upstream
  <2>2. CASE s \in S /\ g = gen[s] + 1
    <3>1. i \in present' /\ sub'[s][g] = channel'[i]
      BY <1>3, <2>2
    <3>2. channel'[i] <= gen'[i]
      BY <1>7, <2>1 DEF ChannelsBorn
    <3>3. \A d \in Clients : ~WillAdopt(d, i, channel'[i])
      BY <1>8 DEF WillAdopt, AdoptsApart, AdoptOK, At
    <3> QED BY <2>1, <3>1, <3>2, <3>3 DEF ReaderOK, Known, Adopts, WillAdopt
  <2>3. CASE ~(s \in S /\ g = gen[s] + 1)
    <3>1. sub'[s][g] = sub[s][g] /\ ReaderOK(s, g) /\ sub[s][g] \in Nat
      BY <1>1, <1>3, <2>3 DEF Born, ChanInv, ReadersPlaced
    <3>2. Known(i)' /\ sub[s][g] <= gen'[i]
      <4>1. sub[s][g] <= gen[i] /\ gen[i] <= gen'[i] /\ gen[i] \in Nat /\ gen'[i] \in Nat
        BY <1>t, <1>g, <2>1, <3>1 DEF ReaderOK
      <4>2. Known(i)
        BY <3>1 DEF ReaderOK
      <4>3. sub[s][g] <= gen'[i]
        BY <3>1, <4>1
      <4> QED BY <2>1, <4>2, <4>3
    <3>3. ASSUME NEW d \in Clients, WillAdopt(d, i, sub[s][g]) PROVE FALSE
      <4>1. CASE pc'[d] = pc[d]
        BY <3>1, <3>3, <4>1 DEF Adopts, WillAdopt, ReaderOK
      <4>2. CASE Adopting(d)
        BY <1>1, <2>1, <3>1, <3>3, <4>2 DEF Adopting, WillAdopt, ReaderOK
      <4> QED BY <3>3, <4>1, <4>2 DEF WillAdopt, At
    <3> QED BY <2>1, <3>1, <3>2, <3>3 DEF ReaderOK, Known, Adopts, WillAdopt
  <2> QED BY <2>2, <2>3
<1>10. ASSUME NEW s \in Streams, NEW g \in Gens, Reads(s), phase'[s][g] \in LivePhases
       PROVE  IF phase[s][g] = "unborn" THEN ~Closed(s, g)' ELSE Closed(s, g) => Closed(s, g)'
  <2> DEFINE i == Upstream(s)
             k == sub[s][g]
  <2>1. i \in Inputs /\ Upstream(s)' = i /\ k \in Nat
    BY <1>1, <1>10, UpstreamTyped DEF Upstream
  <2>2. CASE phase[s][g] = "unborn"
    <3>1. s \in S /\ g = gen[s] + 1
      BY <1>3, <1>10, <2>2 DEF LivePhases
    <3>2. i \in present' /\ sub'[s][g] = channel'[i]
      BY <1>3, <1>10, <3>1
    <3> QED BY <2>1, <2>2, <3>2 DEF Closed
  <2>3. CASE Born(s, g) /\ Closed(s, g)
    <3>1. ReaderOK(s, g) /\ g <= gen[s]
      BY <1>10, <2>3 DEF ChanInv, ReadersPlaced, NoneBornEarly
    <3>2. sub'[s][g] = k
      BY <1>1, <1>3, <3>1 DEF Gens
    <3>3. k # 0 => phase'[i][k] = "done"
      <4>1. ASSUME k # 0 PROVE k \in Gens /\ phase[i][k] = "done" /\ k <= gen[i]
        <5>1. k \in 0..MaxGen
          BY <1>10 DEF IInv, TypeOK
        <5> QED BY <2>3, <3>1, <4>1, <5>1 DEF Closed, ReaderOK, Gens
      <4> QED BY <1>1, <1>3, <2>1, <4>1
    <3>4. ~(i \in present' /\ channel'[i] = k)
      <4> SUFFICES ASSUME i \in present', channel'[i] = k PROVE FALSE
        OBVIOUS
      <4>1. Known(i) /\ k <= gen[i] /\ i \in present
        BY <2>1, <3>1 DEF ReaderOK
      <4>2. channel[i] # k
        BY <2>3, <4>1 DEF Closed
      <4>3. ASSUME NEW e \in Clients, Adopts(e, i, channel'[i]) PROVE FALSE
        BY <3>1, <4>3 DEF ReaderOK
      <4> QED BY <1>1, <2>1, <4>1, <4>2, <4>3 DEF Rechannelled
    <3> QED BY <2>1, <2>3, <3>2, <3>3, <3>4 DEF Closed, Born
  <2> QED BY <2>2, <2>3 DEF Born
<1>11. ChannelStep
  BY <1>10 DEF ChannelStep, ClosesOnce
<1> QED BY <1>4, <1>7, <1>8, <1>9, <1>11 DEF ChanInv

\* Steps of handlers that spawn nothing.
LEMMA ChannelsQuiet ==
  ASSUME IInv, IInv', ChanInv,
         \A i \in Inputs : Known(i) => Known(i)' /\ (i \in present' => i \in present),
         UNCHANGED <<gen, phase, sub>>, \A i \in Inputs : Rechannelled(i),
         \A d \in Clients : At(d, "adopt")' => pc'[d] = pc[d]
  PROVE  ChanInv' /\ ChannelStep
<1> DEFINE ch == [s \in {} |-> 0]
<1>1. Spawn({}, ch)
  BY DEF IInv, TypeOK, Spawn
<1>2. \A d \in Clients : At(d, "adopt")' => At(d, "adopt") /\ pc'[d] = pc[d]
  BY DEF At
<1> HIDE DEF ch
<1> QED BY <1>1, <1>2, ChannelsOfHandlers

\* Where the handler of c goes, when it is not to "adopt".
LEMMA NoneAdopts ==
  ASSUME TypeOK, NEW c \in Clients,
         \/ pc' = pc
         \/ Return(c)
         \/ \E label \in Labels \ {"adopt"} :
              \/ Goto(c, label)
              \/ \E op, s : Begin(c, label, op, s)
              \/ \E g : Carry(c, label, g)
         \/ ReadStatus(c)
  PROVE  /\ \A d \in Clients : At(d, "adopt")' => At(d, "adopt") /\ pc'[d] = pc[d]
         /\ pc' # pc => ~At(c, "adopt")'
<1>1. pc \in [Clients -> Handlers]
  BY DEF TypeOK
<1>2. CASE pc' = pc
  BY <1>2 DEF At
<1>3. CASE pc' # pc /\ \E h : h.at # "adopt" /\ pc' = [pc EXCEPT ![c] = h]
  BY <1>1, <1>3 DEF At
<1>4. CASE Return(c)
  BY <1>2, <1>3, <1>4 DEF Return, Idle
<1>5. ASSUME NEW label \in Labels \ {"adopt"}, Goto(c, label)
      PROVE  \E h : h.at # "adopt" /\ pc' = [pc EXCEPT ![c] = h]
  <2>1. [pc[c] EXCEPT !.at = label].at = label
    BY <1>1 DEF Handlers
  <2>2. pc' = [pc EXCEPT ![c] = [pc[c] EXCEPT !.at = label]]
    BY <1>5 DEF Goto
  <2> QED BY <2>1, <2>2
<1>6. ASSUME NEW label \in Labels \ {"adopt"}, NEW op, NEW s, Begin(c, label, op, s)
      PROVE  \E h : h.at # "adopt" /\ pc' = [pc EXCEPT ![c] = h]
  BY <1>6 DEF Begin, Idle
<1>7. ASSUME NEW label \in Labels \ {"adopt"}, NEW g, Carry(c, label, g)
      PROVE  \E h : h.at # "adopt" /\ pc' = [pc EXCEPT ![c] = h]
  <2>1. [pc[c] EXCEPT !.at = label, !.g = g].at = label
    BY <1>1 DEF Handlers
  <2>2. pc' = [pc EXCEPT ![c] = [pc[c] EXCEPT !.at = label, !.g = g]]
    BY <1>7 DEF Carry
  <2> QED BY <2>1, <2>2
<1>8. CASE ReadStatus(c)
  <2>1. pc'[c].at = "write" /\ \A d \in Clients : d # c => pc'[d] = pc[d]
    BY <1>1, <1>8 DEF ReadStatus, Handlers
  <2> QED BY <2>1 DEF At
<1> QED BY <1>2, <1>3, <1>4, <1>5, <1>6, <1>7, <1>8

LEMMA RunChannels ==
  ASSUME IInv, IInv', ChanInv, NEW o \in Outputs, RunOutput(o), Parent[o] \in present,
         \A i \in Inputs : Known(i) => Known(i)' /\ (i \in present' => i \in present),
         \A d \in Clients : At(d, "adopt")' => At(d, "adopt") /\ pc'[d] = pc[d]
  PROVE  ChanInv' /\ ChannelStep
<1> DEFINE ch == [s \in {o} |-> channel[Parent[o]]]
<1>1. /\ Spawn({o}, ch) /\ present' = present /\ channel' = channel
      /\ {o} \in SUBSET Streams /\ Upstream(o) = Parent[o]
  BY DEF RunOutput, Streams, Upstream
<1>2. \A s \in {o} : Upstream(s) \in present' /\ ch[s] = channel'[Upstream(s)]
  BY <1>1
<1>3. \A i \in Inputs : Rechannelled(i)
  BY <1>1 DEF Rechannelled
<1> HIDE DEF ch
<1> QED BY <1>1, <1>2, <1>3, ChannelsOfHandlers

LEMMA ChannelsStepOfClient ==
  ASSUME IInv, IInv', ChanInv, NEW c \in Clients, Request(c) \/ Continue(c),
         \A i \in Inputs : Known(i) => Known(i)' /\ (i \in present' => i \in present)
  PROVE  ChanInv' /\ ChannelStep
<1>0. TypeOK /\ HandlersPlaced
  BY DEF IInv
<1>f. ASSUME channel' = channel PROVE \A i \in Inputs : Rechannelled(i)
  BY <1>f DEF Rechannelled
<1>q. ASSUME UNCHANGED <<channel, gen, phase, sub>>,
             \A d \in Clients : At(d, "adopt")' => At(d, "adopt") /\ pc'[d] = pc[d]
      PROVE  ChanInv' /\ ChannelStep
  BY <1>f, <1>q, ChannelsQuiet
<1>l. /\ {"spawn", "respawn", "write", "probe", "begin", "end", "refuse", "insert",
          "check", "halt", "park", "read", "source", "attach"} \subseteq Labels \ {"adopt"}
  BY DEF Labels
<1>1. ASSUME NEW i \in Inputs, CreateInput(c, i) \/ StartInput(c, i) \/ StopInput(c, i)
                                 \/ UpdateInput(c, i)
      PROVE  ChanInv' /\ ChannelStep
  <2>1. \E label \in {"spawn", "respawn", "write", "probe"} : \E op : Begin(c, label, op, i)
    BY <1>1 DEF CreateInput, StartInput, StopInput, UpdateInput
  <2>2. UNCHANGED <<channel, gen, phase, sub>>
    BY <1>1 DEF CreateInput, StartInput, StopInput, UpdateInput, HaltInput, memory,
                taskVars
  <2> QED BY <1>0, <1>l, <1>q, <2>1, <2>2, NoneAdopts
<1>2. ASSUME NEW o \in Outputs, StartOutput(c, o) \/ StopOutput(c, o) \/ UpdateOutput(c, o)
      PROVE  ChanInv' /\ ChannelStep
  <2>1. \E label \in {"begin", "end", "probe"} : \E op : Begin(c, label, op, o)
    BY <1>2 DEF StartOutput, StopOutput, UpdateOutput
  <2>2. UNCHANGED <<channel, gen, phase, sub>>
    BY <1>2 DEF StartOutput, StopOutput, UpdateOutput, memory, taskVars
  <2> QED BY <1>0, <1>l, <1>q, <2>1, <2>2, NoneAdopts
<1>3. ASSUME NEW i \in Inputs, DeleteInput(c, i) PROVE ChanInv' /\ ChannelStep
  <2>1. /\ UNCHANGED <<gen, phase, sub, pc>>
        /\ present' = present \ {i} /\ channel' = [channel EXCEPT ![i] = 0]
    BY <1>3 DEF DeleteInput
  <2>2. \A j \in Inputs : Rechannelled(j)
    BY <1>0, <2>1 DEF Rechannelled, TypeOK
  <2> QED BY <2>1, <2>2, ChannelsQuiet
<1>4. ASSUME NEW o \in Outputs, CreateOutput(c, o) PROVE ChanInv' /\ ChannelStep
  <2>1. pc' = pc /\ Parent[o] \in present
    BY <1>4 DEF CreateOutput
  <2>2. \A d \in Clients : At(d, "adopt")' => At(d, "adopt") /\ pc'[d] = pc[d]
    BY <2>1 DEF At
  <2>3. CASE LookupFails(o)
    BY <2>2, <2>3, <1>q DEF LookupFails, taskVars
  <2> QED BY <1>4, <2>1, <2>2, <2>3, RunChannels DEF CreateOutput
<1>5. ASSUME NEW o \in Outputs, DeleteOutput(c, o) PROVE ChanInv' /\ ChannelStep
  <2>1. UNCHANGED <<channel, gen, phase, sub, pc>>
    BY <1>5 DEF DeleteOutput
  <2> QED BY <2>1, <1>q DEF At
<1>6. CASE SpawnInput(c)
  <2> DEFINE i == pc[c].s
  <2>1. i \in Inputs /\ i \in Streams /\ memory' = memory
    BY <1>0, <1>6, PlacedTyped DEF SpawnInput, Streams
  <2>2. CASE UNCHANGED taskVars /\ Goto(c, "refuse")
    BY <1>0, <1>l, <1>q, <2>1, <2>2, NoneAdopts DEF memory, taskVars
  <2>3. CASE UNCHANGED aborted /\ ~(Kind[i] = "spts" /\ Source[i] \notin present)
    <3> DEFINE ch == [s \in {i} |-> IF Reads(i) THEN channel[Source[i]] ELSE 0]
    <3>1. Spawn({i}, ch) /\ Carry(c, "insert", gen[i] + 1)
      BY <1>6, <2>3 DEF SpawnInput
    <3>2. channel' = channel /\ present' = present
      BY <2>1 DEF memory
    <3>3. \A s \in {i} : Reads(s) => Upstream(s) \in present' /\ ch[s] = channel'[Upstream(s)]
      BY <2>1, <2>3, <3>2, StreamControlAssumption DEF Reads, Upstream
    <3>4. \A d \in Clients : At(d, "adopt")' => At(d, "adopt") /\ pc'[d] = pc[d]
      BY <1>0, <1>l, <3>1, NoneAdopts
    <3> HIDE DEF i, ch
    <3> QED BY <1>f, <2>1, <3>1, <3>2, <3>3, <3>4, ChannelsOfHandlers
  <2> QED BY <1>6, <2>2, <2>3 DEF SpawnInput
<1>7. CASE InsertInput(c) \/ InsertFailedInput(c)
  <2> DEFINE i == pc[c].s
  <2>1. At(c, "insert") \/ At(c, "refuse")
    BY <1>7 DEF InsertInput, InsertFailedInput
  <2>2. i \in Inputs /\ i \notin present /\ (At(c, "insert") => pc[c].g = gen[i])
    BY <1>0, <2>1, PlacedTyped DEF At, HandlersPlaced, CreatorOK, Creator, CreateLabels
  <2>3. HasRow(i)
    BY <2>1, <2>2 DEF IInv, InputRowsMatchEntries, Creating, At
  <2>4. ~Known(i)
    BY <2>2, <2>3 DEF Known, HasRow
  <2>5. channel' = [channel EXCEPT ![i] = gen[i]] \/ channel' = channel
    BY <1>7, <2>2 DEF InsertInput, InsertFailedInput
  <2>6. \A j \in Inputs : Rechannelled(j)
    BY <1>0, <2>2, <2>4, <2>5 DEF Rechannelled, TypeOK
  <2>7. UNCHANGED <<gen, phase, sub>> /\ Return(c)
    BY <1>7 DEF InsertInput, InsertFailedInput, taskVars
  <2> QED BY <1>0, <2>6, <2>7, NoneAdopts, ChannelsQuiet
<1>8. CASE Respawn(c)
  <2> DEFINE i == pc[c].s
  <2>1. i \in Inputs /\ i \in Streams /\ Kind[i] # "spts"
    BY <1>0, <1>8, PlacedTyped DEF Respawn, Streams
  <2>2. \A d \in Clients : At(d, "adopt")' => At(d, "adopt") /\ pc'[d] = pc[d]
    BY <1>0, <1>8, <1>l, NoneAdopts DEF Respawn
  <2>3. CASE UNCHANGED <<memory, taskVars>>
    BY <1>q, <2>2, <2>3 DEF memory, taskVars
  <2>4. CASE i \in present /\ present' = present /\ aborted' = aborted
    <3>1. PICK failed \in SUBSET StoppedOf(i) :
            LET S == {i} \cup (StoppedOf(i) \ failed) IN
            /\ Spawn(S, [s \in S |-> IF s = i THEN 0 ELSE gen[i] + 1])
            /\ channel' = [channel EXCEPT ![i] = gen[i] + 1]
      BY <1>8, <2>4 DEF Respawn
    <3> DEFINE S  == {i} \cup (StoppedOf(i) \ failed)
               ch == [s \in S |-> IF s = i THEN 0 ELSE gen[i] + 1]
    <3>2. S \in SUBSET Streams /\ Spawn(S, ch) /\ i \in S
      BY <2>1, <3>1 DEF StoppedOf, OutputsOf, Streams
    <3>3. channel'[i] = gen[i] + 1 /\ gen'[i] = gen[i] + 1
          /\ \A j \in Inputs \ {i} : channel'[j] = channel[j]
      BY <1>0, <2>1, <3>1, <3>2 DEF TypeOK, Spawn
    <3>4. \A s \in S : Reads(s) => Upstream(s) = i /\ ch[s] = gen[i] + 1
      BY <2>1, StreamControlAssumption DEF Reads, Upstream, StoppedOf, OutputsOf
    <3>5. \A j \in Inputs : Rechannelled(j)
      BY <3>3 DEF Rechannelled
    <3> HIDE DEF i, S, ch
    <3> QED BY <2>2, <2>4, <3>2, <3>3, <3>4, <3>5, ChannelsOfHandlers
  <2> QED BY <1>8, <2>3, <2>4 DEF Respawn
<1>9. CASE Attach(c)
  <2> DEFINE i == pc[c].s
  <2>1. i \in Inputs /\ i \in Streams /\ Kind[i] = "spts" /\ memory' = memory
    BY <1>0, <1>9, PlacedTyped DEF Attach, Streams
  <2>2. CASE UNCHANGED taskVars /\ Return(c)
    BY <1>0, <1>q, <2>1, <2>2, NoneAdopts DEF memory, taskVars
  <2>3. CASE UNCHANGED aborted /\ Source[i] \in present
    <3> DEFINE ch == [s \in {i} |-> channel[Source[i]]]
    <3>1. CASE Spawn({i}, ch) /\ Carry(c, "adopt", gen[i] + 1)
      <4>1. channel' = channel /\ present' = present
        BY <2>1 DEF memory
      <4>2. \A s \in {i} : Reads(s) =>
              Upstream(s) \in present' /\ ch[s] = channel'[Upstream(s)]
        BY <2>1, <2>3, <4>1, StreamControlAssumption DEF Upstream
      <4>3. /\ pc'[c].s = i /\ pc'[c].g = gen[i] + 1
            /\ \A e \in Clients : e # c => pc'[e] = pc[e]
        BY <1>0, <3>1 DEF Carry, TypeOK, Handlers
      <4>4. gen'[i] = gen[i] + 1
        BY <2>1, <3>1 DEF Spawn
      <4>5. Adopting(c)
        BY <1>9, <4>1, <4>3, <4>4
           DEF Adopting, Attach, IInv, AttachingKnown, Attaching, AttachLabels,
               At, Known
      <4>6. \A d \in Clients : At(d, "adopt")' =>
              (At(d, "adopt") /\ pc'[d] = pc[d]) \/ Adopting(d)
        BY <4>3, <4>5 DEF At
      <4> HIDE DEF i, ch
      <4> QED BY <1>f, <2>1, <3>1, <4>1, <4>2, <4>6, ChannelsOfHandlers
    <3>2. CASE Return(c) /\ UNCHANGED taskVars
      BY <2>2, <3>2
    <3> QED BY <1>9, <2>3, <3>1, <3>2 DEF Attach
  <2> QED BY <1>9, <2>2, <2>3 DEF Attach
<1>10. CASE Adopt(c)
  <2> DEFINE i == pc[c].s
             g == pc[c].g
  <2>1. i \in Inputs /\ i \in Streams /\ Adopts(c, i, g)
    BY <1>0, <1>10, PlacedTyped DEF Adopt, At, Adopts, Streams
  <2>2. \A d \in Clients : At(d, "adopt")' => At(d, "adopt") /\ pc'[d] = pc[d]
    BY <1>0, <1>10, <1>l, NoneAdopts DEF Adopt
  <2>3. CASE UNCHANGED <<memory, taskVars>>
    BY <1>q, <2>2, <2>3 DEF memory, taskVars
  <2>4. CASE i \in present /\ present' = present /\ aborted' = aborted
    <3>1. PICK failed \in SUBSET StoppedOf(i) :
            LET S == StoppedOf(i) \ failed IN
            /\ Spawn(S, [s \in S |-> g]) /\ channel' = [channel EXCEPT ![i] = g]
            /\ Goto(c, IF pc[c].op = "update" THEN "write" ELSE "read")
      BY <1>10, <2>4 DEF Adopt
    <3> DEFINE S  == StoppedOf(i) \ failed
               ch == [s \in S |-> g]
    <3>2. S \in SUBSET Streams /\ Spawn(S, ch)
      BY <3>1 DEF StoppedOf, OutputsOf, Streams
    <3>3. channel'[i] = g /\ \A j \in Inputs \ {i} : channel'[j] = channel[j]
      BY <1>0, <2>1, <3>1 DEF TypeOK
    <3>4. \A s \in S : Upstream(s) = i /\ ch[s] = g
      BY DEF Upstream, StoppedOf, OutputsOf
    <3>5. ~At(c, "adopt")'
      BY <1>0, <3>1 DEF Goto, At, TypeOK, Handlers
    <3>6. \A j \in Inputs : Rechannelled(j)
      BY <2>1, <3>3, <3>5 DEF Rechannelled
    <3> HIDE DEF i, g, S, ch
    <3> QED BY <2>2, <2>4, <3>2, <3>3, <3>4, <3>6, ChannelsOfHandlers
  <2> QED BY <1>10, <2>3, <2>4 DEF Adopt
<1>11. CASE RestartInput(c) \/ ReachInput(c) \/ CheckSource(c) \/ ProbeInput(c) \/ HaltForUpdate(c) \/ EndOutput(c)
            \/ ProbeOutput(c) \/ ParkOutput(c) \/ ReadStatus(c) \/ WriteRow(c)
  <2>1. UNCHANGED <<channel, gen, phase, sub>>
    BY <1>11 DEF RestartInput, ReachInput, CheckSource, ProbeInput, HaltForUpdate,
                 HaltInput, EndOutput, HaltOutput, ProbeOutput, ParkOutput, ReadStatus, WriteRow, memory, taskVars
  <2>2. \/ Return(c) \/ ReadStatus(c)
        \/ \E label \in {"respawn", "halt", "check", "park", "write", "end", "begin",
                        "source", "attach"} :
             Goto(c, label)
    BY <1>11 DEF RestartInput, ReachInput, CheckSource, ProbeInput, HaltForUpdate,
                 EndOutput, ProbeOutput,
                 ParkOutput, WriteRow
  <2> QED BY <1>0, <1>l, <1>q, <2>1, <2>2, NoneAdopts
<1>12. CASE BeginOutput(c)
  <2> DEFINE o == pc[c].s
  <2>1. o \in Outputs
    BY <1>0, <1>12, PlacedTyped DEF BeginOutput
  <2>2. \A d \in Clients : At(d, "adopt")' => At(d, "adopt") /\ pc'[d] = pc[d]
    BY <1>0, <1>12, <1>l, NoneAdopts DEF BeginOutput
  <2>3. CASE UNCHANGED <<channel, taskVars>>
    BY <1>q, <2>2, <2>3 DEF taskVars
  <2>4. CASE RunOutput(o) /\ Parent[o] \in present
    <3> HIDE DEF o
    <3> QED BY <2>1, <2>2, <2>4, RunChannels
  <2> QED BY <1>12, <2>3, <2>4 DEF BeginOutput, LookupFails, memory
<1> QED
  BY <1>1, <1>2, <1>3, <1>4, <1>5, <1>6, <1>7, <1>8, <1>9, <1>10, <1>11, <1>12
     DEF Request, Continue

\* The tasks a process starts with.
LEMMA ChannelsLoaded ==
  ASSUME NEW r, NEW s \in Streams, NEW g \in Gens, LoadedPhase(r)[s][g] # "unborn"
  PROVE  /\ g = 1 /\ FirstGen(r)[s] = 1
         /\ Reads(s) => /\ Upstream(s) \in Inputs \cap Rowed(r)
                        /\ LoadedSub(r)[s][g] = LoadedChannel(r)[Upstream(s)]
                        /\ LoadedChannel(r)[Upstream(s)] = FirstGen(r)[Upstream(s)]
<1>1. g = 1 /\ s \in Live(r)
  BY DEF LoadedPhase
<1>2. ASSUME Reads(s) PROVE Upstream(s) \in Inputs \cap Rowed(r)
  BY <1>1, <1>2, UpstreamTyped, StreamControlAssumption
     DEF Live, Resumed, Sending, Loaded, Reads, Upstream, Streams
<1> QED BY <1>1, <1>2 DEF FirstGen, LoadedSub, LoadedChannel

LEMMA ChannelsInit == Init => ChanInv
<1> SUFFICES ASSUME Init PROVE ChanInv
  OBVIOUS
<1>1. \A i \in Inputs : channel[i] <= gen[i] /\ channel[i] = gen[i]
  BY DEF Init, LoadedChannel, FirstGen, Streams
<1>2. \A d \in Clients : pc[d].at = "idle"
  BY DEF Init, Idle
<1>3. ASSUME NEW s \in Streams, NEW g \in Gens, Born(s, g)
      PROVE  g <= gen[s] /\ (Reads(s) => ReaderOK(s, g))
  BY <1>1, <1>2, <1>3, ChannelsLoaded DEF Init, Born, ReaderOK, Known, Adopts
<1> QED
  BY <1>1, <1>2, <1>3
     DEF ChanInv, NoneBornEarly, ChannelsBorn, AdoptsApart, At, ReadersPlaced

LEMMA ChannelsRestart ==
  ASSUME Restart
  PROVE  /\ ChanInv'
         /\ \A s \in Streams, g \in Gens : Reads(s) /\ phase'[s][g] \in LivePhases =>
              ~Closed(s, g)'
<1>1. \A i \in Inputs : channel'[i] <= gen'[i] /\ channel'[i] = gen'[i]
  BY DEF Restart, LoadedChannel, FirstGen, Streams
<1>2. \A d \in Clients : pc'[d].at = "idle"
  BY DEF Restart, Idle
<1>3. ASSUME NEW s \in Streams, NEW g \in Gens, phase'[s][g] # "unborn"
      PROVE  /\ g <= gen'[s]
             /\ Reads(s) => /\ Upstream(s) \in present' /\ Upstream(s) \in Inputs
                            /\ sub'[s][g] = channel'[Upstream(s)]
  BY <1>3, ChannelsLoaded DEF Restart
<1>4. ASSUME NEW s \in Streams, NEW g \in Gens, Reads(s), phase'[s][g] # "unborn"
      PROVE  ReaderOK(s, g)' /\ ~Closed(s, g)'
  BY <1>1, <1>2, <1>3, <1>4 DEF ReaderOK, Known, Adopts, Upstream, Closed
<1> QED
  BY <1>1, <1>2, <1>3, <1>4
     DEF ChanInv, NoneBornEarly, ChannelsBorn, AdoptsApart, At, ReadersPlaced, Born, Reads,
         LivePhases

LEMMA ChannelsStep ==
  IInv /\ ChanInv /\ [Next]_vars => ChanInv' /\ (ChannelStep \/ Restart \/ UNCHANGED vars)
<1> SUFFICES ASSUME IInv, ChanInv, [Next]_vars
             PROVE  ChanInv' /\ (ChannelStep \/ Restart \/ UNCHANGED vars)
  OBVIOUS
<1>1. IInv' /\ \A i \in Inputs : Known(i) => Known(i)' /\ (i \in present' => i \in present)
  BY InvariantStep, KnownStays
<1>2. CASE Process
  <2>1. UNCHANGED <<channel, gen, phase, sub, pc>>
    BY <1>2 DEF Process, taskVars
  <2>2. \A i \in Inputs : Rechannelled(i)
    BY <2>1 DEF Rechannelled
  <2> QED BY <1>1, <2>1, <2>2, ChannelsQuiet
<1>3. CASE UNCHANGED vars
  <2>1. UNCHANGED <<present, channel, gen, phase, sub, row, pc>>
    BY <1>3 DEF vars, memory, taskVars
  <2> QED
    BY <1>3, <2>1 DEF ChanInv, NoneBornEarly, ChannelsBorn, AdoptsApart, AdoptOK, Adopts, At,
                      Known, ReadersPlaced, ReaderOK, Upstream, Born, Reads
<1> QED
  BY <1>1, <1>2, <1>3, ChannelsOfTasks, ChannelsStepOfClient, ChannelsRestart DEF Next

\* What TaskLife takes for granted, and with it SrtLoop and SptsFlow, is true of
\* StreamControl for any number of requests: a reader finds its channel open, and
\* no restart of its input, overlap of starts or deletion opens a closed one.
THEOREM ChannelsKeptClosed == Spec => ChannelsCloseOnce
<1> DEFINE A == \A s \in Streams, g \in Gens :
                  Reads(s) /\ phase'[s][g] \in LivePhases =>
                    IF Restart \/ phase[s][g] = "unborn" THEN ~Closed(s, g)'
                    ELSE Closed(s, g) => Closed(s, g)'
<1>1. IInv /\ ChanInv /\ [Next]_vars => ChanInv'
  BY ChannelsStep
<1>2. IInv /\ ChanInv /\ [Next]_vars => A \/ UNCHANGED vars
  <2> SUFFICES ASSUME IInv, ChanInv, [Next]_vars, ~UNCHANGED vars PROVE A
    OBVIOUS
  <2>1. CASE Restart
    BY <2>1, ChannelsRestart
  <2>2. CASE ~Restart
    BY <2>2, ChannelsStep DEF ChannelStep, ClosesOnce
  <2> QED BY <2>1, <2>2
<1> HIDE DEF A
<1>3. Spec => [][A]_vars
  BY <1>1, <1>2, ChannelsInit, Invariant, PTL DEF Spec
<1> QED BY <1>3 DEF A, ChannelsCloseOnce
=============================================================================
