------------------------- MODULE StreamControlSerial -------------------------
(***************************************************************************)
(* StreamControl when requests are served one at a time: for any set of    *)
(* streams, any bounds and any faults, crashes and late steps included, an *)
(* output is in one map and has a row, and a row that says stopped is      *)
(* true; and a stream whose entry shows no failure has one task at work.   *)
(* With two requests none of this holds.                                   *)
(*                                                                         *)
(* What is needed besides is what the handler under way relies on: that    *)
(* update_output, which puts an output in stopped_outputs without looking, *)
(* has found it with a row and not running; that whoever started an input  *)
(* whose row says stopped is about to write the row; and that an input is  *)
(* started only where a check found it inactive, hence without a task.     *)
(***************************************************************************)
EXTENDS StreamControlProofs, FiniteSetTheorems

OneAtATime == \A c, d \in Clients : c = d

\* What update_output has made sure of when it stores the merged configuration.
OutputWork ==
  \A c \in Clients :
    /\ At(c, "probe") \/ At(c, "park") => (pc[c].s \in Outputs => HasRow(pc[c].s))
    /\ At(c, "park") => pc[c].s \notin running

OutputsPlaced == OutputInOneMap /\ OutputEntriesHaveRows /\ OutputWork

-----------------------------------------------------------------------------
(* Rows that are written or deleted *)

LEMMA RowKept ==
  ASSUME OutputsPlaced, row' = row, running' \cup stopped' \subseteq running \cup stopped,
         running' \cap stopped' = {}
  PROVE  OutputInOneMap' /\ OutputEntriesHaveRows'
  BY DEF OutputsPlaced, OutputInOneMap, OutputEntriesHaveRows, Rowed

LEMMA MapsKept ==
  ASSUME OutputsPlaced, running' = running, stopped' = stopped,
         \A s \in Streams : HasRow(s) => HasRow(s)'
  PROVE  OutputInOneMap' /\ OutputEntriesHaveRows'
  BY DEF OutputsPlaced, OutputInOneMap, OutputEntriesHaveRows, Rowed, HasRow

LEMMA WorkAtRest ==
  ASSUME OneAtATime, NEW c \in Clients,
         ~At(c, "probe")', ~At(c, "park")'
  PROVE  OutputWork'
  BY DEF OneAtATime, OutputWork

LEMMA WorkStays ==
  ASSUME OutputsPlaced, pc' = pc, row' = row, running' = running
  PROVE  OutputWork'
  BY DEF OutputsPlaced, OutputWork, At, HasRow

\* Where a handler is after a step of its own.
LEMMA Moved ==
  ASSUME TypeOK, NEW c \in Clients
  PROVE  /\ Return(c) => pc'[c].at = "idle"
         /\ \A label : Goto(c, label) =>
              /\ pc'[c].at = label /\ pc'[c].s = pc[c].s
              /\ pc'[c].op = pc[c].op /\ pc'[c].st = pc[c].st
         /\ \A label, op, s : Begin(c, label, op, s) =>
              pc'[c].at = label /\ pc'[c].s = s /\ pc'[c].op = op
         /\ \A label, g : Carry(c, label, g) =>
              pc'[c].at = label /\ pc'[c].s = pc[c].s /\ pc'[c].op = pc[c].op
<1>1. Return(c) => pc'[c].at = "idle"
  BY DEF TypeOK, Return, Idle
<1>2. ASSUME NEW label, Goto(c, label)
      PROVE  /\ pc'[c].at = label /\ pc'[c].s = pc[c].s
             /\ pc'[c].op = pc[c].op /\ pc'[c].st = pc[c].st
  BY <1>2 DEF TypeOK, Goto, Handlers
<1>3. ASSUME NEW label, NEW op, NEW s, Begin(c, label, op, s)
      PROVE  pc'[c].at = label /\ pc'[c].s = s /\ pc'[c].op = op
  BY <1>3 DEF TypeOK, Begin, Idle
<1>4. ASSUME NEW label, NEW g, Carry(c, label, g)
      PROVE  pc'[c].at = label /\ pc'[c].s = pc[c].s /\ pc'[c].op = pc[c].op
  BY <1>4 DEF TypeOK, Carry, Handlers
<1> QED BY <1>1, <1>2, <1>3, <1>4

\* One step of the only handler.
LEMMA OutputsStepOfClient ==
  ASSUME OneAtATime, TypeOK, HandlersPlaced, OutputsPlaced, NEW c \in Clients,
         Request(c) \/ Continue(c)
  PROVE  OutputsPlaced'
<1> USE StreamControlAssumption
<1>1. ASSUME NEW i \in Inputs, CreateInput(c, i) PROVE OutputsPlaced'
  <2>1. running' = running /\ stopped' = stopped /\ pc'[c].at = "spawn"
        /\ \A s \in Streams : HasRow(s) => HasRow(s)'
    BY <1>1, Moved DEF CreateInput, memory, TypeOK, HasRow
  <2> QED BY <2>1, MapsKept, WorkAtRest DEF OutputsPlaced, At
<1>2. ASSUME NEW i \in Inputs, DeleteInput(c, i) PROVE OutputsPlaced'
  <2>1. running' = running \ OutputsOf(i) /\ stopped' = stopped \ OutputsOf(i)
        /\ pc'[c].at = "idle"
        /\ \A s \in Outputs \ OutputsOf(i) : HasRow(s) => HasRow(s)'
    BY <1>2 DEF DeleteInput, DeleteRows, At, HasRow, Streams
  <2>2. OutputInOneMap' /\ OutputEntriesHaveRows'
    BY <2>1 DEF OutputsPlaced, OutputInOneMap, OutputEntriesHaveRows, Rowed,
                HasRow, TypeOK, Streams
  <2> QED BY <2>1, <2>2, WorkAtRest DEF OutputsPlaced, At
<1>3. ASSUME NEW i \in Inputs, StartInput(c, i) PROVE OutputsPlaced'
  <2>1. running' = running /\ stopped' = stopped /\ pc'[c].at = "respawn"
        /\ row' = row
    BY <1>3, Moved DEF StartInput, memory
  <2> QED BY <2>1, MapsKept, WorkAtRest DEF OutputsPlaced, At, HasRow
<1>4. ASSUME NEW i \in Inputs, HaltInput(i) PROVE OutputInOneMap' /\ OutputEntriesHaveRows'
  <2>1. running' = running \ RunningOf(i) /\ stopped' = stopped \cup ToRestart(i)
        /\ row' = row /\ ToRestart(i) \subseteq RunningOf(i)
        /\ RunningOf(i) \subseteq running
    BY <1>4 DEF HaltInput, ToRestart, RunningOf
  <2>2. running' \cap stopped' = {}
        /\ running' \cup stopped' \subseteq running \cup stopped
    BY <2>1 DEF OutputsPlaced, OutputInOneMap
  <2> QED BY <2>1, <2>2, RowKept
<1>5. ASSUME NEW i \in Inputs, StopInput(c, i) PROVE OutputsPlaced'
  <2>1. HaltInput(i) /\ pc'[c].at = "write"
    BY <1>5, Moved DEF StopInput
  <2> QED BY <2>1, <1>4, WorkAtRest DEF OutputsPlaced, At
<1>6. ASSUME NEW i \in Inputs, UpdateInput(c, i) PROVE OutputsPlaced'
  <2>1. running' = running /\ stopped' = stopped /\ row' = row
        /\ pc'[c].at = "probe" /\ pc'[c].s = i
    BY <1>6, Moved DEF UpdateInput, memory
  <2>2. OutputWork'
    BY <2>1 DEF OneAtATime, OutputWork, At
  <2> QED BY <2>1, <2>2, MapsKept DEF OutputsPlaced, HasRow
<1>7. ASSUME NEW o \in Outputs, RunOutput(o)
      PROVE  running' = running \cup {o}
  BY <1>7 DEF RunOutput
<1>8. ASSUME NEW o \in Outputs, CreateOutput(c, o) PROVE OutputsPlaced'
  <2>1. row[o] = "none" /\ stopped' = stopped /\ pc'[c].at = "idle"
        /\ (running' = running \cup {o} \/ running' = running)
        /\ row' = [row EXCEPT ![o] = "Connecting"]
    BY <1>8, <1>7 DEF CreateOutput, LookupFails, At
  <2>2. o \notin stopped /\ o \in Streams
    BY <2>1 DEF OutputsPlaced, OutputEntriesHaveRows, Rowed, Streams
  <2>3. OutputInOneMap' /\ OutputEntriesHaveRows'
    BY <2>1, <2>2 DEF OutputsPlaced, OutputInOneMap, OutputEntriesHaveRows,
                      Rowed, TypeOK
  <2> QED BY <2>1, <2>3, WorkAtRest DEF OutputsPlaced, At
<1>9. ASSUME NEW o \in Outputs, DeleteOutput(c, o) PROVE OutputsPlaced'
  <2>1. /\ running' \subseteq running /\ stopped' \subseteq stopped
        /\ o \notin running' \cup stopped' /\ pc'[c].at = "idle"
        /\ \A s \in Streams \ {o} : row'[s] = row[s]
    BY <1>9 DEF DeleteOutput, DeleteRows, At, OutputsPlaced, OutputInOneMap
  <2>2. OutputInOneMap' /\ OutputEntriesHaveRows'
    BY <2>1 DEF OutputsPlaced, OutputInOneMap, OutputEntriesHaveRows, Rowed
  <2> QED BY <2>1, <2>2, WorkAtRest DEF OutputsPlaced, At
<1>10. ASSUME NEW o \in Outputs, StartOutput(c, o) \/ StopOutput(c, o)
       PROVE  OutputsPlaced'
  <2>1. running' = running /\ stopped' = stopped /\ row' = row
        /\ pc'[c].at \in {"begin", "end"}
    BY <1>10, Moved DEF StartOutput, StopOutput, memory
  <2> QED BY <2>1, MapsKept, WorkAtRest DEF OutputsPlaced, At, HasRow
<1>11. ASSUME NEW o \in Outputs, UpdateOutput(c, o) PROVE OutputsPlaced'
  <2>1. running' = running /\ stopped' = stopped /\ row' = row
        /\ pc'[c].at = "probe" /\ pc'[c].s = o /\ HasRow(o)
    BY <1>11, Moved DEF UpdateOutput, memory
  <2>2. OutputWork'
    BY <2>1 DEF OneAtATime, OutputWork, At, HasRow
  <2> QED BY <2>1, <2>2, MapsKept DEF OutputsPlaced, HasRow
<1>12. CASE SpawnInput(c)
  <2>1. running' = running /\ stopped' = stopped /\ row' = row
        /\ pc'[c].at \in {"refuse", "insert"}
    BY <1>12, Moved DEF SpawnInput, memory
  <2> QED BY <2>1, MapsKept, WorkAtRest DEF OutputsPlaced, At, HasRow
<1>13. CASE InsertInput(c) \/ InsertFailedInput(c)
  <2>1. running' = running /\ stopped' = stopped /\ pc'[c].at = "idle"
        /\ \A s \in Streams : HasRow(s) => HasRow(s)'
    BY <1>13, Moved DEF InsertInput, InsertFailedInput, TypeOK, HasRow
  <2> QED BY <2>1, MapsKept, WorkAtRest DEF OutputsPlaced, At
<1>14. CASE RestartInput(c)
  <2>1. running' = running /\ stopped' = stopped /\ row' = row
        /\ pc'[c].at \in {"respawn", "idle"}
    BY <1>14, Moved DEF RestartInput, memory
  <2> QED BY <2>1, MapsKept, WorkAtRest DEF OutputsPlaced, At, HasRow
<1>15. ASSUME NEW i, NEW failed, RestartOutputs(i, failed), row' = row
       PROVE  OutputInOneMap' /\ OutputEntriesHaveRows'
  <2>1. running' = running \cup (StoppedOf(i) \ failed)
        /\ stopped' = stopped \ StoppedOf(i)
        /\ StoppedOf(i) \subseteq stopped
    BY <1>15 DEF RestartOutputs, StoppedOf
  <2>2. running' \cap stopped' = {}
        /\ running' \cup stopped' \subseteq running \cup stopped
    BY <2>1 DEF OutputsPlaced, OutputInOneMap
  <2> QED BY <1>15, <2>2, RowKept
<1>16. CASE Respawn(c) \/ Adopt(c)
  <2>1. row' = row /\ pc'[c].at \in {"idle", "write", "read"}
    BY <1>16, Moved DEF Respawn, Adopt
  <2>2. CASE memory' = memory
    BY <2>1, <2>2, MapsKept, WorkAtRest DEF memory, OutputsPlaced, At, HasRow
  <2>3. CASE \E i, failed : RestartOutputs(i, failed)
    BY <2>1, <2>3, <1>15, WorkAtRest DEF OutputsPlaced, At
  <2> QED BY <1>16, <2>2, <2>3 DEF Respawn, Adopt
<1>17. CASE ReachInput(c) \/ CheckSource(c) \/ Attach(c)
  <2>1. running' = running /\ stopped' = stopped /\ row' = row
        /\ pc'[c].at \in {"source", "attach", "adopt", "idle"}
    BY <1>17, Moved DEF ReachInput, CheckSource, Attach, memory
  <2> QED BY <2>1, MapsKept, WorkAtRest DEF OutputsPlaced, At, HasRow
<1>18. CASE ProbeInput(c)
  <2>1. running' = running /\ stopped' = stopped /\ row' = row
        /\ pc'[c].at \in {"halt", "check"}
    BY <1>18, Moved DEF ProbeInput, memory
  <2> QED BY <2>1, MapsKept, WorkAtRest DEF OutputsPlaced, At, HasRow
<1>19. CASE HaltForUpdate(c)
  <2>1. pc'[c].at \in {"check", "idle"} /\ pc[c].s \in Inputs
    BY <1>19, Moved DEF HaltForUpdate
  <2>2. CASE HaltInput(pc[c].s)
    BY <2>1, <2>2, <1>4, WorkAtRest DEF OutputsPlaced, At
  <2>3. CASE running' = running /\ stopped' = stopped /\ row' = row
    BY <2>1, <2>3, MapsKept, WorkAtRest DEF OutputsPlaced, At, HasRow
  <2> QED BY <1>19, <2>2, <2>3 DEF HaltForUpdate, memory
<1>20. CASE BeginOutput(c)
  <2> DEFINE o == pc[c].s
  <2>1. o \in Outputs /\ row' = row
    BY <1>20 DEF BeginOutput, HandlersPlaced, PlaceOK, OutputLabels, At
  <2>2. pc'[c].at \in {"idle", "write", "read"}
    BY <1>20, Moved DEF BeginOutput
  <2>3. CASE running' = running /\ stopped' = stopped
    BY <2>1, <2>2, <2>3, MapsKept, WorkAtRest DEF OutputsPlaced, At, HasRow
  <2>4. CASE o \in stopped /\ stopped' = stopped \ {o}
             /\ running' \in {running, running \cup {o}}
    <3>1. running' \cap stopped' = {}
          /\ running' \cup stopped' \subseteq running \cup stopped
      BY <2>4 DEF OutputsPlaced, OutputInOneMap
    <3> QED BY <2>1, <2>2, <3>1, RowKept, WorkAtRest DEF OutputsPlaced, At
  <2> QED BY <1>20, <2>1, <2>3, <2>4, <1>7 DEF BeginOutput, LookupFails, memory
<1>21. CASE EndOutput(c)
  <2> DEFINE o == pc[c].s
  <2>1. o \in Outputs /\ row' = row
    BY <1>21 DEF EndOutput, HaltOutput, HandlersPlaced, PlaceOK, OutputLabels, At
  <2>2. CASE running' = running /\ stopped' = stopped /\ pc'[c].at = "idle"
    BY <2>1, <2>2, MapsKept, WorkAtRest DEF OutputsPlaced, At, HasRow
  <2>3. CASE /\ o \in running /\ running' = running \ {o}
             /\ stopped' = stopped \cup {o}
             /\ pc'[c].at \in {"park", "write"} /\ pc'[c].s = o
    <3>1. running' \cap stopped' = {}
          /\ running' \cup stopped' \subseteq running \cup stopped
      BY <2>3 DEF OutputsPlaced, OutputInOneMap
    <3>2. HasRow(o)'
      BY <2>1, <2>3 DEF OutputsPlaced, OutputEntriesHaveRows, Rowed, HasRow
    <3>3. OutputWork'
      BY <2>3, <3>2 DEF OneAtATime, OutputWork, At, HasRow
    <3> QED BY <2>1, <3>1, <3>3, RowKept DEF OutputsPlaced
  <2> QED BY <1>21, <2>2, <2>3, Moved DEF EndOutput, HaltOutput, memory
<1>22. CASE ProbeOutput(c)
  <2>1. running' = running /\ stopped' = stopped /\ row' = row
        /\ pc'[c].at \in {"idle", "end", "park"}
    BY <1>22, Moved DEF ProbeOutput, memory
  <2>2. pc'[c].at = "park" => pc'[c].s = pc[c].s /\ pc[c].s \notin running
    <3>1. CASE Return(c)
      BY <3>1, Moved
    <3>2. CASE pc[c].s \in running /\ Goto(c, "end")
      BY <3>2, Moved
    <3>3. CASE pc[c].s \notin running /\ Goto(c, "park")
      BY <3>3, Moved
    <3> QED BY <1>22, <3>1, <3>2, <3>3 DEF ProbeOutput
  <2>3. pc[c].s \in Outputs => HasRow(pc[c].s)
    BY <1>22 DEF ProbeOutput, OutputsPlaced, OutputWork
  <2>4. OutputWork'
    BY <2>1, <2>2, <2>3 DEF OneAtATime, OutputWork, At, HasRow
  <2> QED BY <2>1, <2>4, MapsKept DEF OutputsPlaced, HasRow
<1>23. CASE ParkOutput(c)
  <2> DEFINE o == pc[c].s
  <2>1. /\ o \in Outputs /\ HasRow(o) /\ o \notin running
        /\ row' = row /\ running' = running /\ pc'[c].at = "begin"
        /\ stopped' \subseteq stopped \cup {o}
    BY <1>23, Moved DEF ParkOutput, OutputsPlaced, OutputWork, HandlersPlaced,
                        PlaceOK, OutputLabels, At
  <2>2. OutputInOneMap' /\ OutputEntriesHaveRows'
    BY <2>1 DEF OutputsPlaced, OutputInOneMap, OutputEntriesHaveRows, Rowed,
                HasRow, Streams
  <2> QED BY <2>1, <2>2, WorkAtRest DEF OutputsPlaced, At
<1>24. CASE ReadStatus(c)
  <2>1. running' = running /\ stopped' = stopped /\ row' = row
        /\ pc'[c].at = "write"
    BY <1>24 DEF ReadStatus, memory, TypeOK, Handlers
  <2> QED BY <2>1, MapsKept, WorkAtRest DEF OutputsPlaced, At, HasRow
<1>25. CASE WriteRow(c)
  <2>1. running' = running /\ stopped' = stopped /\ pc'[c].at = "idle"
    BY <1>25, Moved DEF WriteRow, memory
  <2>2. \A s \in Streams : HasRow(s) => HasRow(s)'
    BY <1>25, FinalStatusTyped DEF WriteRow, HasRow, TypeOK, Status
  <2> QED BY <2>1, <2>2, MapsKept, WorkAtRest DEF OutputsPlaced, At
<1> QED
  BY <1>1, <1>2, <1>3, <1>5, <1>6, <1>8, <1>9, <1>10, <1>11, <1>12, <1>13,
     <1>14, <1>16, <1>17, <1>18, <1>19, <1>20, <1>21, <1>22, <1>23, <1>24,
     <1>25 DEF Request, Continue

\* load_from_db.
LEMMA LoadedPlaced ==
  ASSUME NEW r
  PROVE  /\ Sending(r) \cap Parked(r) = {}
         /\ Sending(r) \cup Parked(r) \subseteq Rowed(r)
  BY DEF Sending, Parked, Loaded

LEMMA OutputsInit == Init => OutputsPlaced
  BY LoadedPlaced DEF Init, OutputsPlaced, OutputInOneMap, OutputEntriesHaveRows,
                      OutputWork, At, Idle

LEMMA OutputsStep ==
  ASSUME OneAtATime
  PROVE  IInv /\ OutputsPlaced /\ [Next]_vars => OutputsPlaced'
<1> SUFFICES ASSUME IInv, OutputsPlaced, [Next]_vars PROVE OutputsPlaced'
  OBVIOUS
<1>1. ASSUME NEW s \in Streams, NEW g \in Gens,
             TaskStep(s, g) \/ LateStep(s, g) \/ AbortLands(s, g)
      PROVE  OutputsPlaced'
  <2>1. pc' = pc /\ row' = row /\ running' = running /\ stopped' = stopped
    BY <1>1 DEF TaskStep, LateStep, AbortLands, memory
  <2> QED BY <2>1, MapsKept, WorkStays DEF OutputsPlaced, HasRow
<1>2. CASE Process \/ UNCHANGED vars
  <2>1. pc' = pc /\ row' = row /\ running' = running /\ stopped' = stopped
    BY <1>2 DEF Process, vars, memory
  <2> QED BY <2>1, MapsKept, WorkStays DEF OutputsPlaced, HasRow
<1>3. CASE Restart
  <2>1. running' = Sending(row') /\ stopped' = Parked(row')
        /\ pc' = [c \in Clients |-> Idle]
    BY <1>3 DEF Restart
  <2> QED BY <2>1, LoadedPlaced
          DEF OutputsPlaced, OutputInOneMap, OutputEntriesHaveRows, OutputWork,
              At, Idle, Rowed
<1> QED
  BY <1>1, <1>2, <1>3, OutputsStepOfClient DEF Next, TaskAction, IInv

\* One request at a time, an output is never in output_tasks and stopped_outputs
\* at once, whatever fails and wherever the process dies.
THEOREM SerialOutputInOneMap == OneAtATime => (Spec => []OutputInOneMap)
<1> SUFFICES ASSUME OneAtATime PROVE Spec => []OutputInOneMap
  OBVIOUS
<1>1. OutputsPlaced => OutputInOneMap
  BY DEF OutputsPlaced
<1> QED BY <1>1, Invariant, OutputsInit, OutputsStep, PTL DEF Spec

\* One request at a time, every output in the map has a row.
THEOREM SerialOutputsHaveRows == OneAtATime => (Spec => []OutputEntriesHaveRows)
<1> SUFFICES ASSUME OneAtATime PROVE Spec => []OutputEntriesHaveRows
  OBVIOUS
<1>1. OutputsPlaced => OutputEntriesHaveRows
  BY DEF OutputsPlaced
<1> QED BY <1>1, Invariant, OutputsInit, OutputsStep, PTL DEF Spec

-----------------------------------------------------------------------------
(* A row that says stopped *)

\* Whoever started the input is about to write another status to the row.
AboutToWrite(c) ==
  \/ At(c, "read") /\ pc[c].op = "start"
  \/ At(c, "write") /\ pc[c].op = "update"
  \/ At(c, "write") /\ pc[c].op = "start" /\ pc[c].st # "Stopped"

StoppedIsTrue ==
  \A i \in present : Base(i) /\ row[i] = "Stopped" /\ handle[i] # 0 =>
    \E c \in Clients : pc[c].s = i /\ AboutToWrite(c)

\* An input with a task does not show Stopped, and no message of a base input
\* says so.
TasksShown == \A i \in present : Base(i) /\ handle[i] # 0 => status[i] # "Stopped"
NoneSaysStopped == \A n \in 1..Len(queue) : Base(queue[n].s) => queue[n].st # "Stopped"

\* Which request can be where, and what it has done.
Ordered(c) ==
  /\ At(c, "respawn") \/ At(c, "source") \/ At(c, "attach") \/ At(c, "adopt") =>
       pc[c].op \in {"start", "update"}
  /\ At(c, "begin") => pc[c].op \in {"start", "update"}
  /\ At(c, "probe") \/ At(c, "check") \/ At(c, "halt") \/ At(c, "park") =>
       pc[c].op = "update"
  /\ At(c, "end") => pc[c].op \in {"stop", "update"}
  /\ At(c, "read") => pc[c].op = "start"
  /\ At(c, "write") => pc[c].op \in {"start", "stop", "update"}
  /\ Creator(c) => row[pc[c].s] # "Stopped"
  /\ At(c, "write") => \A i \in present : Base(i) /\ pc[c].s = i /\
       (pc[c].op = "stop" \/ (pc[c].op = "start" /\ pc[c].st = "Stopped"))
       => handle[i] = 0
RequestsOrdered == \A c \in Clients : Ordered(c)

StopsPlaced == StoppedIsTrue /\ TasksShown /\ NoneSaysStopped /\ RequestsOrdered

-----------------------------------------------------------------------------
(* Steps that leave base inputs alone *)

\* Base inputs that are still there have the row, the handle and the status
\* they had.
BaseKept ==
  \A i \in present' :
    i \in present /\ (Base(i) => /\ row'[i] = row[i] /\ handle'[i] = handle[i]
                                 /\ status'[i] = status[i])

LEMMA StopsFrame ==
  ASSUME OneAtATime, StopsPlaced, NEW c \in Clients, BaseKept, queue' = queue,
         ~AboutToWrite(c), Ordered(c)'
  PROVE  StopsPlaced'
<1>1. StoppedIsTrue'
  BY DEF OneAtATime, StopsPlaced, StoppedIsTrue, BaseKept, Base
<1>2. TasksShown'
  BY DEF StopsPlaced, TasksShown, BaseKept, Base
<1>3. NoneSaysStopped'
  BY DEF StopsPlaced, NoneSaysStopped, Base
<1>4. RequestsOrdered'
  BY DEF OneAtATime, RequestsOrdered
<1> QED BY <1>1, <1>2, <1>3, <1>4 DEF StopsPlaced

\* Places of a handler that say nothing about rows.
LEMMA OrderedAt ==
  ASSUME NEW c,
         \/ At(c, "idle")'
         \/ At(c, "probe")' /\ pc'[c].op = "update"
         \/ At(c, "respawn")' /\ pc'[c].op \in {"start", "update"}
         \/ At(c, "source")' /\ pc'[c].op \in {"start", "update"}
         \/ At(c, "attach")' /\ pc'[c].op \in {"start", "update"}
         \/ At(c, "adopt")' /\ pc'[c].op \in {"start", "update"}
         \/ At(c, "begin")' /\ pc'[c].op \in {"start", "update"}
         \/ At(c, "check")' /\ pc'[c].op = "update"
         \/ At(c, "halt")' /\ pc'[c].op = "update"
         \/ At(c, "park")' /\ pc'[c].op = "update"
         \/ At(c, "end")' /\ pc'[c].op \in {"stop", "update"}
         \/ At(c, "read")' /\ pc'[c].op = "start"
         \/ At(c, "write")' /\ pc'[c].op = "update"
         \/ At(c, "write")' /\ pc'[c].op \in {"start", "stop"}
              /\ ~(pc'[c].s \in Inputs)
  PROVE  Ordered(c)'
BY DEF Ordered, At, Creator, CreateLabels, Base

\* Spawning senders, and aborting them, is not about inputs.
LEMMA RunKept ==
  ASSUME TypeOK, NEW o \in Outputs, RunOutput(o),
         \A i \in Inputs : row'[i] = row[i]
  PROVE  BaseKept
BY StreamControlAssumption DEF TypeOK, RunOutput, BaseKept, Streams

LEMMA HaltKept ==
  ASSUME TypeOK, NEW o \in Outputs, HaltOutput(o)
  PROVE  BaseKept
BY StreamControlAssumption DEF TypeOK, HaltOutput, BaseKept, Streams

\* stop_input leaves the input without a task.
LEMMA HaltStops ==
  ASSUME OneAtATime, TypeOK, StopsPlaced, NEW c \in Clients, NEW i \in Inputs,
         HaltInput(i), ~AboutToWrite(c),
         pc'[c].at \in {"write", "check"}, pc'[c].s = i,
         pc'[c].op = IF pc'[c].at = "write" THEN "stop" ELSE "update"
  PROVE  StopsPlaced'
<1>1. /\ present' = present /\ row' = row /\ queue' = queue
      /\ i \in Streams /\ handle'[i] = 0
      /\ \A j \in Inputs \ {i} : handle'[j] = handle[j] /\ status'[j] = status[j]
  BY StreamControlAssumption
     DEF HaltInput, Set, TypeOK, Streams, RunningOf, OutputsOf
<1>2. StoppedIsTrue' /\ TasksShown'
  BY <1>1 DEF OneAtATime, StopsPlaced, StoppedIsTrue, TasksShown, Base
<1>3. NoneSaysStopped'
  BY <1>1 DEF StopsPlaced, NoneSaysStopped, Base
<1>4. Ordered(c)'
  BY <1>1 DEF Ordered, At, Creator, CreateLabels
<1> QED
  BY <1>2, <1>3, <1>4 DEF OneAtATime, StopsPlaced, RequestsOrdered

\* start_input for a base input.
LEMMA RespawnStops ==
  ASSUME OneAtATime, TypeOK, HandlersPlaced, StopsPlaced, NEW c \in Clients,
         Respawn(c)
  PROVE  StopsPlaced'
<1> DEFINE i == pc[c].s
<1>1. /\ i \in Inputs /\ Kind[i] # "spts" /\ pc[c].op \in {"start", "update"}
      /\ ~AboutToWrite(c) /\ queue' = queue /\ row' = row
  BY DEF Respawn, HandlersPlaced, PlaceOK, InputLabels, At, StopsPlaced,
         RequestsOrdered, Ordered, AboutToWrite
<1>2. CASE Return(c) /\ UNCHANGED memory
  <2>1. BaseKept /\ At(c, "idle")'
    BY <1>1, <1>2, Moved DEF memory, BaseKept, At
  <2> QED BY <1>1, <2>1, StopsFrame, OrderedAt
<1>3. CASE present' = present /\ \E failed \in SUBSET StoppedOf(i) :
             LET S == {i} \cup (StoppedOf(i) \ failed) IN
             /\ ShowSpawned(S)
             /\ handle'  = [s \in Streams |-> IF s \in S THEN gen[s] + 1
                                                          ELSE handle[s]]
             /\ Goto(c, IF pc[c].op = "update" THEN "write" ELSE "read")
  <2>1. PICK failed \in SUBSET StoppedOf(i) :
             LET S == {i} \cup (StoppedOf(i) \ failed) IN
             /\ ShowSpawned(S)
             /\ handle'  = [s \in Streams |-> IF s \in S THEN gen[s] + 1
                                                          ELSE handle[s]]
             /\ Goto(c, IF pc[c].op = "update" THEN "write" ELSE "read")
    BY <1>3
  <2>2. \A j \in Inputs \ {i} : handle'[j] = handle[j] /\ status'[j] = status[j]
    BY <2>1, StreamControlAssumption DEF ShowSpawned, StoppedOf, OutputsOf, Streams
  <2>3. status'[i] = InitialStatus(i) /\ InitialStatus(i) # "Stopped"
    BY <1>1, <2>1 DEF ShowSpawned, InitialStatus, InputStatus, Announce, Streams
  <2>4. /\ pc'[c].at = (IF pc[c].op = "update" THEN "write" ELSE "read")
        /\ pc'[c].s = i /\ pc'[c].op = pc[c].op
    BY <2>1, Moved
  <2>5. AboutToWrite(c)' /\ Ordered(c)'
    BY <1>1, <2>4 DEF AboutToWrite, Ordered, At, Creator, CreateLabels
  <2>6. StoppedIsTrue'
    BY <1>1, <1>3, <2>2, <2>4, <2>5 DEF OneAtATime, StopsPlaced, StoppedIsTrue, Base
  <2>7. TasksShown'
    BY <1>1, <1>3, <2>2, <2>3 DEF StopsPlaced, TasksShown, Base
  <2>8. NoneSaysStopped'
    BY <1>1 DEF StopsPlaced, NoneSaysStopped, Base
  <2> QED
    BY <2>5, <2>6, <2>7, <2>8 DEF OneAtATime, StopsPlaced, RequestsOrdered
<1> QED BY <1>2, <1>3 DEF Respawn

\* start_input for an SPTS input.
LEMMA AdoptStops ==
  ASSUME OneAtATime, TypeOK, HandlersPlaced, StopsPlaced, NEW c \in Clients,
         Adopt(c)
  PROVE  StopsPlaced'
<1> DEFINE i == pc[c].s
           g == pc[c].g
<1>1. /\ i \in Inputs /\ Kind[i] = "spts" /\ pc[c].op \in {"start", "update"}
      /\ ~AboutToWrite(c) /\ queue' = queue /\ row' = row
  BY DEF Adopt, HandlersPlaced, PlaceOK, InputLabels, At, StopsPlaced,
         RequestsOrdered, Ordered, AboutToWrite
<1>2. CASE Return(c) /\ UNCHANGED memory
  <2>1. BaseKept /\ At(c, "idle")'
    BY <1>1, <1>2, Moved DEF memory, BaseKept, At
  <2> QED BY <1>1, <2>1, StopsFrame, OrderedAt
<1>3. CASE present' = present /\ \E failed \in SUBSET StoppedOf(i) :
             LET S == StoppedOf(i) \ failed IN
             /\ ShowSpawned({i} \cup S)
             /\ handle' = [s \in Streams |-> IF s = i THEN g
                             ELSE IF s \in S THEN gen[s] + 1 ELSE handle[s]]
             /\ Goto(c, IF pc[c].op = "update" THEN "write" ELSE "read")
  <2>1. PICK failed \in SUBSET StoppedOf(i) :
             LET S == StoppedOf(i) \ failed IN
             /\ ShowSpawned({i} \cup S)
             /\ handle' = [s \in Streams |-> IF s = i THEN g
                             ELSE IF s \in S THEN gen[s] + 1 ELSE handle[s]]
             /\ Goto(c, IF pc[c].op = "update" THEN "write" ELSE "read")
    BY <1>3
  <2>2. \A j \in Inputs \ {i} : handle'[j] = handle[j] /\ status'[j] = status[j]
    BY <2>1, StreamControlAssumption DEF ShowSpawned, StoppedOf, OutputsOf, Streams
  <2>3. BaseKept
    BY <1>1, <1>3, <2>2 DEF BaseKept, Base, TypeOK
  <2>4. /\ pc'[c].at = (IF pc[c].op = "update" THEN "write" ELSE "read")
        /\ pc'[c].op = pc[c].op
    BY <2>1, Moved
  <2>5. Ordered(c)'
    BY <1>1, <2>4, OrderedAt DEF At
  <2> QED BY <1>1, <2>3, <2>5, StopsFrame
<1> QED BY <1>2, <1>3 DEF Adopt

-----------------------------------------------------------------------------
\* One step of the only handler.
LEMMA StopsStepOfClient ==
  ASSUME OneAtATime, IInv, StopsPlaced, NEW c \in Clients,
         Request(c) \/ Continue(c)
  PROVE  StopsPlaced'
<1> USE StreamControlAssumption
<1>0. TypeOK /\ HandlersPlaced /\ Ordered(c) /\ InputRowsMatchEntries
  BY DEF IInv, StopsPlaced, RequestsOrdered
\* The frame of every step that leaves what is said of inputs as it is.
<1>f. ASSUME present' = present, row' = row, handle' = handle, status' = status
      PROVE  BaseKept
  BY <1>f DEF BaseKept
<1>1. ASSUME NEW i \in Inputs, CreateInput(c, i) PROVE StopsPlaced'
  <2>1. /\ i \notin present /\ present' = present /\ handle' = handle
        /\ status' = status /\ queue' = queue /\ i \in Streams
        /\ row' = [row EXCEPT ![i] = "Listening"]
        /\ pc'[c].at = "spawn" /\ pc'[c].s = i /\ ~AboutToWrite(c)
    BY <1>0, <1>1, Moved DEF CreateInput, memory, InputRowsMatchEntries, HasRow,
                             Streams, At, AboutToWrite
  <2>2. BaseKept
    BY <2>1 DEF BaseKept
  <2>3. Ordered(c)'
    BY <1>0, <2>1 DEF Ordered, At, Creator, TypeOK
  <2> QED BY <2>1, <2>2, <2>3, StopsFrame
<1>2. ASSUME NEW i \in Inputs, DeleteInput(c, i) PROVE StopsPlaced'
  <2>1. queue' = queue /\ ~AboutToWrite(c) /\ At(c, "idle")'
    BY <1>2 DEF DeleteInput, At, AboutToWrite
  <2>2. BaseKept
    BY <1>0, <1>2 DEF DeleteInput, DeleteRows, Set, BaseKept, TypeOK, Streams,
                      OutputsOf
  <2> QED BY <2>1, <2>2, StopsFrame, OrderedAt
<1>3. ASSUME NEW i \in Inputs, StartInput(c, i) \/ UpdateInput(c, i)
      PROVE  StopsPlaced'
  <2>1. /\ queue' = queue /\ ~AboutToWrite(c) /\ BaseKept
        /\ \/ At(c, "respawn")' /\ pc'[c].op = "start"
           \/ At(c, "probe")' /\ pc'[c].op = "update"
    BY <1>0, <1>3, <1>f, Moved DEF StartInput, UpdateInput, memory, At, AboutToWrite
  <2> QED BY <2>1, StopsFrame, OrderedAt
<1>4. ASSUME NEW i \in Inputs, StopInput(c, i) PROVE StopsPlaced'
  <2>1. /\ HaltInput(i) /\ ~AboutToWrite(c)
        /\ pc'[c].at = "write" /\ pc'[c].s = i /\ pc'[c].op = "stop"
    BY <1>0, <1>4, Moved DEF StopInput, At, AboutToWrite
  <2> QED BY <1>0, <2>1, HaltStops
<1>5. ASSUME NEW o \in Outputs, CreateOutput(c, o) PROVE StopsPlaced'
  <2>1. /\ queue' = queue /\ ~AboutToWrite(c) /\ At(c, "idle")'
        /\ \A i \in Inputs : row'[i] = row[i]
    BY <1>0, <1>5 DEF CreateOutput, At, AboutToWrite, TypeOK, Streams
  <2>2. CASE RunOutput(o)
    BY <1>0, <2>1, <2>2, RunKept, StopsFrame, OrderedAt
  <2>3. CASE LookupFails(o)
    <3>1. BaseKept
      BY <1>0, <2>1, <2>3 DEF LookupFails, BaseKept, TypeOK
    <3> QED BY <2>1, <3>1, StopsFrame, OrderedAt
  <2> QED BY <1>5, <2>2, <2>3 DEF CreateOutput
<1>6. ASSUME NEW o \in Outputs, DeleteOutput(c, o) PROVE StopsPlaced'
  <2>1. queue' = queue /\ ~AboutToWrite(c) /\ At(c, "idle")'
    BY <1>6 DEF DeleteOutput, At, AboutToWrite
  <2>2. BaseKept
    BY <1>0, <1>6 DEF DeleteOutput, DeleteRows, BaseKept, TypeOK, Streams
  <2> QED BY <2>1, <2>2, StopsFrame, OrderedAt
<1>7. ASSUME NEW o \in Outputs,
             StartOutput(c, o) \/ StopOutput(c, o) \/ UpdateOutput(c, o)
      PROVE  StopsPlaced'
  <2>1. /\ queue' = queue /\ ~AboutToWrite(c) /\ BaseKept
        /\ \/ At(c, "begin")' /\ pc'[c].op = "start"
           \/ At(c, "end")' /\ pc'[c].op = "stop"
           \/ At(c, "probe")' /\ pc'[c].op = "update"
    BY <1>0, <1>7, <1>f, Moved
       DEF StartOutput, StopOutput, UpdateOutput, memory, At, AboutToWrite
  <2> QED BY <2>1, StopsFrame, OrderedAt
<1>8. CASE SpawnInput(c)
  <2>1. /\ queue' = queue /\ row' = row /\ ~AboutToWrite(c) /\ BaseKept
        /\ pc'[c].at \in {"refuse", "insert"} /\ pc'[c].s = pc[c].s
        /\ row[pc[c].s] # "Stopped"
    BY <1>0, <1>8, <1>f, Moved DEF SpawnInput, memory, At, AboutToWrite, Ordered,
                                   Creator, CreateLabels
  <2>2. Ordered(c)'
    BY <2>1 DEF Ordered, At
  <2> QED BY <2>1, <2>2, StopsFrame
<1>9. CASE InsertInput(c)
  <2> DEFINE i == pc[c].s
  <2>1. /\ i \in Inputs /\ row[i] # "Stopped" /\ i \notin present
    BY <1>0, <1>9 DEF InsertInput, HandlersPlaced, PlaceOK, CreatorOK, Creator,
                      CreateLabels, InputLabels, At, Ordered
  <2>2. /\ present' = present \cup {i} /\ row' = row /\ queue' = queue
        /\ status' = [status EXCEPT ![i] = InitialStatus(i)]
        /\ handle' = [handle EXCEPT ![i] = pc[c].g]
        /\ At(c, "idle")' /\ ~AboutToWrite(c)
    BY <1>0, <1>9, Moved DEF InsertInput, At, AboutToWrite
  <2>3. InitialStatus(i) # "Stopped"
    BY <2>1 DEF InitialStatus, InputStatus, Announce
  <2>4. StoppedIsTrue'
    BY <1>0, <2>1, <2>2 DEF OneAtATime, StopsPlaced, StoppedIsTrue, Base, TypeOK,
                            Streams
  <2>5. TasksShown'
    BY <1>0, <2>1, <2>2, <2>3 DEF StopsPlaced, TasksShown, Base, TypeOK, Streams
  <2>6. NoneSaysStopped'
    BY <2>2 DEF StopsPlaced, NoneSaysStopped, Base
  <2> QED
    BY <2>2, <2>4, <2>5, <2>6, OrderedAt DEF OneAtATime, StopsPlaced, RequestsOrdered
<1>10. CASE InsertFailedInput(c)
  <2> DEFINE i == pc[c].s
  <2>1. /\ i \in Inputs /\ ~Base(i)
    BY <1>0, <1>10 DEF InsertFailedInput, HandlersPlaced, PlaceOK, CreatorOK,
                       Creator, CreateLabels, InputLabels, At, Base
  <2>2. /\ present' = present \cup {i} /\ queue' = queue /\ handle' = handle
        /\ status' = [status EXCEPT ![i] = "Error"]
        /\ row' = [row EXCEPT ![i] = "Error"]
        /\ At(c, "idle")' /\ ~AboutToWrite(c)
    BY <1>0, <1>10, Moved DEF InsertFailedInput, At, AboutToWrite
  <2>3. StoppedIsTrue' /\ TasksShown'
    BY <1>0, <2>1, <2>2 DEF OneAtATime, StopsPlaced, StoppedIsTrue, TasksShown,
                            Base, TypeOK, Streams
  <2>4. NoneSaysStopped'
    BY <2>2 DEF StopsPlaced, NoneSaysStopped, Base
  <2> QED
    BY <2>2, <2>3, <2>4, OrderedAt DEF OneAtATime, StopsPlaced, RequestsOrdered
<1>11. CASE RestartInput(c)
  <2>1. /\ queue' = queue /\ ~AboutToWrite(c) /\ BaseKept
        /\ \/ At(c, "respawn")' /\ pc'[c].op = "update"
           \/ At(c, "idle")'
    BY <1>0, <1>11, <1>f, Moved DEF RestartInput, memory, At, AboutToWrite, Ordered
  <2> QED BY <2>1, StopsFrame, OrderedAt
<1>12. CASE Respawn(c)
  BY <1>0, <1>12, RespawnStops
<1>13. CASE Adopt(c)
  BY <1>0, <1>13, AdoptStops
<1>14. CASE ReachInput(c) \/ CheckSource(c) \/ Attach(c)
  <2>1. /\ queue' = queue /\ ~AboutToWrite(c) /\ BaseKept
        /\ \/ /\ At(c, "source")' \/ At(c, "attach")' \/ At(c, "adopt")'
              /\ pc'[c].op \in {"start", "update"}
           \/ At(c, "idle")'
    BY <1>0, <1>14, <1>f, Moved
       DEF ReachInput, CheckSource, Attach, memory, At, AboutToWrite, Ordered
  <2> QED BY <2>1, StopsFrame, OrderedAt
<1>15. CASE ProbeInput(c)
  <2>1. /\ queue' = queue /\ ~AboutToWrite(c) /\ BaseKept
        /\ At(c, "halt")' \/ At(c, "check")'
        /\ pc'[c].op = "update"
    BY <1>0, <1>15, <1>f, Moved DEF ProbeInput, memory, At, AboutToWrite, Ordered
  <2> QED BY <2>1, StopsFrame, OrderedAt
<1>16. CASE HaltForUpdate(c)
  <2>1. pc[c].s \in Inputs /\ ~AboutToWrite(c) /\ pc[c].op = "update"
    BY <1>0, <1>16 DEF HaltForUpdate, At, AboutToWrite, Ordered
  <2>2. CASE HaltInput(pc[c].s) /\ Goto(c, "check")
    <3>1. pc'[c].at = "check" /\ pc'[c].s = pc[c].s /\ pc'[c].op = "update"
      BY <1>0, <2>1, <2>2, Moved
    <3> QED BY <1>0, <2>1, <2>2, <3>1, HaltStops
  <2>3. CASE Return(c) /\ UNCHANGED <<memory, queue, row>>
    <3>1. queue' = queue /\ BaseKept /\ At(c, "idle")'
      BY <1>0, <2>3, <1>f, Moved DEF memory, At
    <3> QED BY <2>1, <3>1, StopsFrame, OrderedAt
  <2> QED BY <1>16, <2>2, <2>3 DEF HaltForUpdate
<1>17. CASE BeginOutput(c)
  <2> DEFINE o == pc[c].s
  <2>1. /\ o \in Outputs /\ ~AboutToWrite(c) /\ pc[c].op \in {"start", "update"}
        /\ queue' = queue /\ row' = row
    BY <1>0, <1>17 DEF BeginOutput, HandlersPlaced, PlaceOK, OutputLabels, At,
                       AboutToWrite, Ordered
  <2>2. CASE RunOutput(o) /\ Goto(c, IF pc[c].op = "update" THEN "write" ELSE "read")
    <3>1. Ordered(c)'
      BY <1>0, <2>1, <2>2, Moved, OrderedAt DEF At
    <3> QED BY <1>0, <2>1, <2>2, <3>1, RunKept, StopsFrame
  <2>3. CASE Return(c) /\ UNCHANGED <<present, handle, status>>
    <3>1. BaseKept /\ At(c, "idle")'
      BY <1>0, <2>1, <2>3, <1>f, Moved DEF At
    <3> QED BY <2>1, <3>1, StopsFrame, OrderedAt
  <2> QED BY <1>17, <2>2, <2>3 DEF BeginOutput, LookupFails, memory
<1>18. CASE EndOutput(c)
  <2> DEFINE o == pc[c].s
  <2>1. /\ o \in Outputs /\ ~AboutToWrite(c) /\ pc[c].op \in {"stop", "update"}
    BY <1>0, <1>18 DEF EndOutput, HandlersPlaced, PlaceOK, OutputLabels, At,
                       AboutToWrite, Ordered
  <2>2. CASE HaltOutput(o) /\ Goto(c, IF pc[c].op = "update" THEN "park" ELSE "write")
    <3>1. /\ pc'[c].at = (IF pc[c].op = "update" THEN "park" ELSE "write")
          /\ pc'[c].op = pc[c].op /\ pc'[c].s = o
      BY <1>0, <2>2, Moved
    <3>2. Ordered(c)' /\ queue' = queue
      BY <2>1, <2>2, <3>1, OrderedAt DEF At, HaltOutput
    <3> QED BY <1>0, <2>1, <2>2, <3>2, HaltKept, StopsFrame
  <2>3. CASE Return(c) /\ UNCHANGED <<memory, queue, row>>
    <3>1. queue' = queue /\ BaseKept /\ At(c, "idle")'
      BY <1>0, <2>3, <1>f, Moved DEF memory, At
    <3> QED BY <2>1, <3>1, StopsFrame, OrderedAt
  <2> QED BY <1>18, <2>2, <2>3 DEF EndOutput
<1>19. CASE ProbeOutput(c)
  <2>1. /\ queue' = queue /\ ~AboutToWrite(c) /\ BaseKept /\ pc[c].op = "update"
    BY <1>0, <1>19, <1>f DEF ProbeOutput, memory, At, AboutToWrite, Ordered
  <2>2. CASE Return(c)
    BY <1>0, <2>1, <2>2, Moved, StopsFrame, OrderedAt DEF At
  <2>3. CASE Goto(c, "end") \/ Goto(c, "park")
    BY <1>0, <2>1, <2>3, Moved, StopsFrame, OrderedAt DEF At
  <2> QED BY <1>19, <2>2, <2>3 DEF ProbeOutput
<1>20. CASE ParkOutput(c)
  <2>1. /\ queue' = queue /\ ~AboutToWrite(c) /\ BaseKept
        /\ At(c, "begin")' /\ pc'[c].op = "update"
    BY <1>0, <1>20, <1>f, Moved DEF ParkOutput, At, AboutToWrite, Ordered
  <2> QED BY <2>1, StopsFrame, OrderedAt
<1>21. CASE ReadStatus(c)
  <2> DEFINE s == pc[c].s
             st == IF Found(s) THEN status[s]
                   ELSE IF s \in Inputs THEN "Listening" ELSE "Connecting"
  <2>1. /\ memory' = memory /\ queue' = queue /\ row' = row
        /\ pc'[c].at = "write" /\ pc'[c].s = s /\ pc'[c].op = "start"
        /\ pc'[c].st = st /\ At(c, "read")
    BY <1>0, <1>21 DEF ReadStatus, TypeOK, Handlers, Ordered
  <2>2. \A i \in present : Base(i) /\ s = i /\ st = "Stopped" => handle[i] = 0
    BY DEF StopsPlaced, TasksShown, Found, Base
  <2>3. Ordered(c)'
    BY <2>1, <2>2 DEF Ordered, At, Creator, CreateLabels, memory, Base
  <2>4. StoppedIsTrue'
    <3> SUFFICES ASSUME NEW i \in present, Base(i), row[i] = "Stopped", handle[i] # 0
                 PROVE  pc'[c].s = i /\ AboutToWrite(c)'
      BY <2>1 DEF StoppedIsTrue, memory, Base
    <3>1. s = i
      BY DEF OneAtATime, StopsPlaced, StoppedIsTrue
    <3> QED BY <2>1, <2>2, <3>1 DEF AboutToWrite, At
  <2>5. TasksShown' /\ NoneSaysStopped'
    BY <2>1 DEF StopsPlaced, TasksShown, NoneSaysStopped, memory, Base
  <2> QED
    BY <2>3, <2>4, <2>5 DEF OneAtATime, StopsPlaced, RequestsOrdered
<1>22. CASE WriteRow(c)
  <2> DEFINE s == pc[c].s
  <2>1. /\ memory' = memory /\ queue' = queue /\ At(c, "idle")' /\ At(c, "write")
        /\ s \in Streams
        /\ row' = IF HasRow(s) THEN [row EXCEPT ![s] = FinalStatus(c)] ELSE row
    BY <1>0, <1>22, Moved DEF WriteRow, At, HandlersPlaced, PlaceOK
  <2>2. StoppedIsTrue'
    <3> SUFFICES ASSUME NEW i \in present, Base(i), row'[i] = "Stopped", handle[i] # 0
                 PROVE  FALSE
      BY <2>1 DEF StoppedIsTrue, memory, Base
    <3>1. i \in Inputs /\ HasRow(i)
      BY <1>0 DEF InputRowsMatchEntries, Base
    <3>2. CASE s # i
      <4>1. row[i] = "Stopped"
        BY <1>0, <2>1, <3>2 DEF TypeOK
      <4> QED BY <4>1, <3>2 DEF OneAtATime, StopsPlaced, StoppedIsTrue
    <3>3. CASE s = i
      <4>1. FinalStatus(c) = "Stopped"
        BY <1>0, <2>1, <3>1, <3>3 DEF TypeOK
      <4>2. pc[c].op \in {"start", "stop"} /\ (pc[c].op = "start" => pc[c].st = "Stopped")
        BY <1>0, <2>1, <3>1, <3>3, <4>1 DEF FinalStatus, Ordered
      <4> QED BY <1>0, <2>1, <3>3, <4>2 DEF Ordered
    <3> QED BY <3>2, <3>3
  <2>3. TasksShown' /\ NoneSaysStopped'
    BY <2>1 DEF StopsPlaced, TasksShown, NoneSaysStopped, memory, Base
  <2> QED
    BY <2>1, <2>2, <2>3, OrderedAt DEF OneAtATime, StopsPlaced, RequestsOrdered
<1> QED
  BY <1>1, <1>2, <1>3, <1>4, <1>5, <1>6, <1>7, <1>8, <1>9, <1>10, <1>11, <1>12,
     <1>13, <1>14, <1>15, <1>16, <1>17, <1>18, <1>19, <1>20, <1>21, <1>22
     DEF Request, Continue

-----------------------------------------------------------------------------
(* Tasks, the processor, and the start of the process *)

\* No task of a base input reports Stopped.
LEMMA BaseMovesSay ==
  ASSUME NEW s \in Streams, NEW g \in Gens, Base(s), NEW m \in Moves(s, g)
  PROVE  m.say # "Stopped"
BY StreamControlAssumption
   DEF Base, Moves, InputMoves, UdpInputMoves, SrtMoves, Move, Fault, Announce

LEMMA SendSays ==
  ASSUME TypeOK, NoneSaysStopped, NEW s \in Streams, NEW say \in Says, Send(s, say),
         Base(s) => say # "Stopped"
  PROVE  NoneSaysStopped'
<1>1. CASE say = "nothing"
  BY <1>1 DEF Send, NoneSaysStopped, Base
<1>2. CASE say # "nothing"
  <2>1. queue' = Append(queue, [s |-> s, st |-> say]) /\ queue \in Seq(Messages)
    BY <1>2 DEF Send, TypeOK
  <2>2. Len(queue') = Len(queue) + 1
        /\ queue'[Len(queue) + 1] = [s |-> s, st |-> say]
        /\ \A n \in 1..Len(queue) : queue'[n] = queue[n]
    BY <2>1
  <2> QED BY <2>1, <2>2 DEF NoneSaysStopped, Base
<1> QED BY <1>1, <1>2

LEMMA StopsInit == Init => StopsPlaced
<1> SUFFICES ASSUME Init PROVE StopsPlaced
  OBVIOUS
<1> USE StreamControlAssumption
<1>1. \A i \in Inputs : Base(i) /\ FirstGen(row)[i] # 0 =>
        row[i] # "Stopped" /\ LoadedStatus(row)[i] # "Stopped"
  BY DEF FirstGen, LoadedStatus, Live, Resumed, Sending, Loaded, Base, Streams,
         InitialStatus, InputStatus, Announce
<1>2. present \subseteq Inputs /\ handle = FirstGen(row) /\ status = LoadedStatus(row)
      /\ queue = <<>> /\ pc = [c \in Clients |-> Idle]
  BY DEF Init
<1> QED
  BY <1>1, <1>2 DEF StopsPlaced, StoppedIsTrue, TasksShown, NoneSaysStopped,
                    RequestsOrdered, Ordered, At, Idle, Creator, CreateLabels

LEMMA StopsRestart == Restart => StopsPlaced'
<1> SUFFICES ASSUME Restart PROVE StopsPlaced'
  OBVIOUS
<1> USE StreamControlAssumption
<1>1. \A i \in Inputs : Base(i) /\ FirstGen(row')[i] # 0 =>
        row'[i] # "Stopped" /\ LoadedStatus(row')[i] # "Stopped"
  BY DEF FirstGen, LoadedStatus, Live, Resumed, Sending, Loaded, Base, Streams,
         InitialStatus, InputStatus, Announce
<1>2. present' \subseteq Inputs /\ handle' = FirstGen(row')
      /\ status' = LoadedStatus(row')
      /\ queue' = <<>> /\ pc' = [c \in Clients |-> Idle]
  BY DEF Restart
<1> QED
  BY <1>1, <1>2 DEF StopsPlaced, StoppedIsTrue, TasksShown, NoneSaysStopped,
                    RequestsOrdered, Ordered, At, Idle, Creator, CreateLabels, Base

LEMMA StopsStep ==
  ASSUME OneAtATime
  PROVE  IInv /\ StopsPlaced /\ [Next]_vars => StopsPlaced'
<1> SUFFICES ASSUME IInv, StopsPlaced, [Next]_vars PROVE StopsPlaced'
  OBVIOUS
<1>0. TypeOK
  BY DEF IInv
<1>f. ASSUME pc' = pc, row' = row, present' = present, handle' = handle,
             status' = status
      PROVE  StoppedIsTrue' /\ TasksShown' /\ RequestsOrdered'
  BY <1>f DEF StopsPlaced, StoppedIsTrue, TasksShown, RequestsOrdered, Ordered,
              AboutToWrite, At, Base, Creator
<1>1. ASSUME NEW s \in Streams, NEW g \in Gens, TaskStep(s, g) \/ LateStep(s, g)
      PROVE  StopsPlaced'
  <2>1. PICK m \in Moves(s, g) : Send(s, m.say)
    BY <1>1 DEF TaskStep, LateStep
  <2>2. NoneSaysStopped'
    BY <1>0, <2>1, MovesTyped, BaseMovesSay, SendSays DEF StopsPlaced
  <2>3. pc' = pc /\ row' = row /\ memory' = memory
    BY <1>1 DEF TaskStep, LateStep
  <2> QED BY <1>f, <2>2, <2>3 DEF StopsPlaced, memory
<1>2. ASSUME NEW s \in Streams, NEW g \in Gens, AbortLands(s, g)
      PROVE  StopsPlaced'
  BY <1>2, <1>f DEF AbortLands, StopsPlaced, memory, NoneSaysStopped, Base
<1>3. CASE Process
  <2> DEFINE m == Head(queue)
  <2>1. /\ queue \in Seq(Messages) /\ queue # <<>> /\ queue' = Tail(queue)
        /\ present' = present /\ handle' = handle /\ row' = row /\ pc' = pc
        /\ status' = IF Found(m.s) THEN [status EXCEPT ![m.s] = m.st] ELSE status
    BY <1>0, <1>3 DEF Process, TypeOK
  <2>2. Base(m.s) => m.st # "Stopped"
    BY <2>1 DEF StopsPlaced, NoneSaysStopped
  <2>3. TasksShown'
    BY <1>0, <2>1, <2>2 DEF StopsPlaced, TasksShown, TypeOK, Base, Streams
  <2>4. NoneSaysStopped'
    <3>1. \A n \in 1..Len(queue') : queue'[n] = queue[n + 1] /\ n + 1 \in 1..Len(queue)
      BY <2>1
    <3> QED BY <3>1 DEF StopsPlaced, NoneSaysStopped, Base
  <2>5. StoppedIsTrue' /\ RequestsOrdered'
    BY <2>1 DEF StopsPlaced, StoppedIsTrue, RequestsOrdered, Ordered,
                AboutToWrite, At, Base, Creator
  <2> QED BY <2>3, <2>4, <2>5 DEF StopsPlaced
<1>4. CASE UNCHANGED vars
  BY <1>4, <1>f DEF vars, memory, StopsPlaced, NoneSaysStopped, Base
<1> QED
  BY <1>1, <1>2, <1>3, <1>4, StopsStepOfClient, StopsRestart DEF Next, TaskAction

\* One request at a time, an input whose row says stopped has no task once the
\* request is over, however late notifications come and whatever crashes.
THEOREM SerialStoppedIsTrue == OneAtATime => (Spec => []StoppedRowHasNoTask)
<1> SUFFICES ASSUME OneAtATime PROVE Spec => []StoppedRowHasNoTask
  OBVIOUS
<1>1. StopsPlaced => StoppedRowHasNoTask
  BY DEF StopsPlaced, StoppedIsTrue, StoppedRowHasNoTask, AllIdle, AboutToWrite, At
<1> QED BY <1>1, Invariant, StopsInit, StopsStep, PTL DEF Spec

-----------------------------------------------------------------------------
(* One task per stream *)

\* Every task of a reliable stream can be reached.
TasksHeld == \A s \in Streams : Reliable(s) => \A g \in LiveTasks(s) : Reachable(s, g)

\* start_input found the input inactive, so it has no task.
StartsOnIdle ==
  \A c \in Clients : At(c, "respawn") /\ Reliable(pc[c].s) => handle[pc[c].s] = 0

TasksPlaced == TasksHeld /\ StartsOnIdle

LEMMA HeldPrimed ==
  ASSUME \A s \in Streams : Reliable(s) => \A g \in LiveTasks(s)' : Reachable(s, g)'
  PROVE  TasksHeld'
BY DEF TasksHeld, Reliable, NoTaskFails, UdpOutput, Base

\* One handler, and it is not at the end of a check.
LEMMA StartsElsewhere ==
  ASSUME OneAtATime, NEW c \in Clients, ~At(c, "respawn")'
  PROVE  StartsOnIdle'
BY DEF OneAtATime, StartsOnIdle

\* Without a handler about to store a task, a live task is in the entry.
LEMMA HeldByEntry ==
  ASSUME OneAtATime, TasksHeld, NEW c \in Clients, ~At(c, "insert"),
         NEW s \in Streams, Reliable(s), NEW g \in LiveTasks(s)
  PROVE  handle[s] = g /\ Found(s)
BY DEF OneAtATime, TasksHeld, Reachable

\* A step of a handler that spawns nothing and aborts what it takes away.
LEMMA HeldFrame ==
  ASSUME OneAtATime, TypeOK, TasksHeld, NEW c \in Clients, ~At(c, "insert"),
         phase' = phase, \A s \in Streams : aborted[s] \subseteq aborted'[s],
         \A s \in Streams : Reliable(s) /\ Found(s) /\ handle[s] # 0 =>
            \/ handle[s] \in aborted'[s]
            \/ handle'[s] = handle[s] /\ Found(s)'
  PROVE  TasksHeld'
<1> SUFFICES ASSUME NEW s \in Streams, Reliable(s), NEW g \in LiveTasks(s)'
             PROVE  Reachable(s, g)'
  BY HeldPrimed
<1>1. g \in LiveTasks(s) /\ g # 0 /\ g \notin aborted'[s]
  BY StreamControlAssumption DEF LiveTasks, Gens
<1>2. handle[s] = g /\ Found(s)
  BY <1>1, HeldByEntry
<1> QED BY <1>1, <1>2 DEF Reachable

\* A step of a handler that spawns a task for each stream of S, none of which
\* has one, and stores them.
LEMMA HeldSpawn ==
  ASSUME OneAtATime, TypeOK, TasksHeld, NEW c \in Clients, ~At(c, "insert"),
         NEW S \in SUBSET Streams, NEW ch, Spawn(S, ch), aborted' = aborted,
         \A s \in S : Reliable(s) => handle[s] = 0 \/ ~Found(s),
         \A s \in S, g \in Gens : Reliable(s) /\ g = gen[s] + 1 => Reachable(s, g)',
         \A s \in Streams \ S : Reliable(s) /\ Found(s) =>
            handle'[s] = handle[s] /\ Found(s)'
  PROVE  TasksHeld'
<1> SUFFICES ASSUME NEW s \in Streams, Reliable(s), NEW g \in LiveTasks(s)'
             PROVE  Reachable(s, g)'
  BY HeldPrimed
<1>1. g \in Gens /\ g # 0 /\ g \notin aborted[s] /\ phase'[s][g] \in LivePhases
  BY StreamControlAssumption DEF LiveTasks, Gens
<1>2. CASE s \notin S
  <2>1. g \in LiveTasks(s)
    BY <1>1, <1>2 DEF Spawn, LiveTasks
  <2> QED BY <1>2, <2>1, HeldByEntry DEF Reachable
<1>3. CASE s \in S
  <2>1. \A h \in LiveTasks(s) : FALSE
    BY <1>3, HeldByEntry, StreamControlAssumption DEF LiveTasks, Gens
  <2>2. g = gen[s] + 1
    BY <1>1, <1>3, <2>1 DEF Spawn, LiveTasks, TypeOK
  <2> QED BY <1>1, <1>3, <2>2
<1> QED BY <1>2, <1>3

LEMMA HeldRun ==
  ASSUME OneAtATime, TypeOK, TasksHeld, NEW c \in Clients, ~At(c, "insert"),
         NEW o \in Outputs, RunOutput(o), o \notin running, Parent[o] \in present
  PROVE  TasksHeld'
<1> DEFINE ch == [s \in {o} |-> channel[Parent[o]]]
<1>1. /\ Spawn({o}, ch) /\ aborted' = aborted /\ present' = present
      /\ running' = running \cup {o} /\ handle' = [handle EXCEPT ![o] = gen[o] + 1]
  BY DEF RunOutput
<1>2. o \in Streams /\ o \notin Inputs /\ {o} \in SUBSET Streams
  BY StreamControlAssumption DEF Streams
<1>3. ~Found(o) /\ \A g \in Gens : g = gen[o] + 1 => Reachable(o, g)'
  BY <1>1, <1>2 DEF Reachable, Found, TypeOK
<1>4. \A s \in Streams \ {o} : handle'[s] = handle[s] /\ (Found(s) => Found(s)')
  BY <1>1 DEF TypeOK, Found
<1> HIDE DEF ch
<1> QED BY <1>1, <1>2, <1>3, <1>4, HeldSpawn

\* What Respawn and Adopt do to the outputs of an input, and to the input itself
\* when it is in S.
LEMMA HeldRestart ==
  ASSUME OneAtATime, TypeOK, TasksHeld, OutputInOneMap,
         NEW c \in Clients, ~At(c, "insert"),
         NEW i \in present, NEW failed, NEW S \in SUBSET Streams, NEW ch,
         RestartOutputs(i, failed), Spawn(S, ch),
         present' = present, aborted' = aborted,
         S \ {i} = StoppedOf(i) \ failed,
         i \in S /\ Reliable(i) => handle[i] = 0,
         \A s \in S : handle'[s] = gen[s] + 1,
         \A s \in Streams \ S : (s = i /\ ~Reliable(i)) \/ handle'[s] = handle[s]
  PROVE  TasksHeld'
<1>1. running' = running \cup (StoppedOf(i) \ failed) /\ i \in Inputs
  BY DEF RestartOutputs, TypeOK
<1>2. \A s \in S : s # i => s \in Outputs /\ s \notin Inputs /\ s \in stopped
                            /\ Parent[s] = i /\ s \in running'
  BY <1>1, StreamControlAssumption DEF StoppedOf, OutputsOf
<1>3. \A s \in S : Found(s)' /\ (s # i => ~Found(s))
  BY <1>1, <1>2 DEF Found, OutputInOneMap
<1>4. \A s \in Streams : Found(s) => Found(s)'
  BY <1>1 DEF Found
<1>5. \A s \in S, g \in Gens : Reliable(s) /\ g = gen[s] + 1 => Reachable(s, g)'
  BY <1>3 DEF Reachable
<1>6. \A s \in S : Reliable(s) => handle[s] = 0 \/ ~Found(s)
  BY <1>3
<1>7. \A s \in Streams \ S : Reliable(s) /\ Found(s) =>
            handle'[s] = handle[s] /\ Found(s)'
  BY <1>4
<1> QED BY <1>5, <1>6, <1>7, HeldSpawn

\* stop_input aborts the task of the input and those of its outputs, which all
\* show active.
LEMMA HeldHalt ==
  ASSUME OneAtATime, TypeOK, WellShown, TasksHeld, NEW c \in Clients,
         ~At(c, "insert"), NEW i \in Inputs, HaltInput(i)
  PROVE  TasksHeld'
<1>1. /\ present' = present /\ running' = running \ RunningOf(i) /\ phase' = phase
      /\ Abort({i} \cup ToRestart(i))
      /\ handle' = Set(handle, {i} \cup RunningOf(i), 0)
  BY DEF HaltInput
<1>2. \A o \in Outputs : Reliable(o) /\ o \in RunningOf(i) => o \in ToRestart(i)
  BY StreamControlAssumption
     DEF RunningOf, ToRestart, WellShown, EntriesActive, ShownActive, HasTask, Streams
<1>3. \A s \in Streams : aborted[s] \subseteq aborted'[s]
        /\ (s \in {i} \cup ToRestart(i) /\ handle[s] # 0 => handle[s] \in aborted'[s])
  BY <1>1 DEF Abort
<1>4. \A s \in Streams : s \notin {i} \cup RunningOf(i) =>
        handle'[s] = handle[s] /\ (Found(s) => Found(s)')
  BY <1>1 DEF Set, Found, TypeOK
<1>5. \A s \in RunningOf(i) : s \in Outputs
  BY DEF RunningOf, OutputsOf
<1> QED BY <1>1, <1>2, <1>3, <1>4, <1>5, HeldFrame

\* An output that leaves output_tasks is aborted.
LEMMA HeldGone ==
  ASSUME OneAtATime, TypeOK, TasksHeld, NEW c \in Clients, ~At(c, "insert"),
         NEW o \in Outputs, Abort({o}), present' = present, phase' = phase,
         running' = running \ {o}, handle' = [handle EXCEPT ![o] = 0]
  PROVE  TasksHeld'
<1>1. \A s \in Streams : aborted[s] \subseteq aborted'[s]
        /\ (s = o /\ handle[s] # 0 => handle[s] \in aborted'[s])
  BY DEF Abort
<1>2. \A s \in Streams : s # o => handle'[s] = handle[s] /\ (Found(s) => Found(s)')
  BY DEF Found, TypeOK
<1> QED BY <1>1, <1>2, HeldFrame

LEMMA HeldStepOfClient ==
  ASSUME OneAtATime, IInv, WellShown, OutputsPlaced, TasksPlaced, NEW c \in Clients,
         Request(c) \/ Continue(c)
  PROVE  TasksHeld'
<1> USE StreamControlAssumption
<1>0. TypeOK /\ HandlersPlaced /\ TasksHeld /\ OutputInOneMap
  BY DEF IInv, TasksPlaced, OutputsPlaced
\* The frame of the steps that leave the map and the tasks alone.
<1>f. ASSUME ~At(c, "insert"), present \subseteq present', running' = running,
             handle' = handle, phase' = phase, aborted' = aborted
      PROVE  TasksHeld'
  BY <1>0, <1>f, HeldFrame DEF Found
<1>1. ASSUME NEW i \in Inputs,
             CreateInput(c, i) \/ StartInput(c, i) \/ UpdateInput(c, i)
      PROVE  TasksHeld'
  BY <1>1, <1>f DEF CreateInput, StartInput, UpdateInput, memory, taskVars, At
<1>2. ASSUME NEW o \in Outputs,
             StartOutput(c, o) \/ StopOutput(c, o) \/ UpdateOutput(c, o)
      PROVE  TasksHeld'
  BY <1>2, <1>f DEF StartOutput, StopOutput, UpdateOutput, memory, taskVars, At
<1>3. CASE \/ RestartInput(c) \/ ReachInput(c) \/ CheckSource(c) \/ ProbeInput(c)
           \/ ProbeOutput(c) \/ ReadStatus(c) \/ WriteRow(c) \/ ParkOutput(c)
           \/ InsertFailedInput(c)
  BY <1>3, <1>f DEF RestartInput, ReachInput, CheckSource, ProbeInput, ProbeOutput,
                    ReadStatus, WriteRow, ParkOutput, InsertFailedInput, memory,
                    taskVars, At
<1>4. ASSUME NEW i \in Inputs, DeleteInput(c, i) PROVE TasksHeld'
  <2>1. /\ present' = present \ {i} /\ running' = running \ OutputsOf(i)
        /\ Abort({i} \cup RunningOf(i)) /\ phase' = phase
        /\ handle' = Set(handle, {i} \cup OutputsOf(i), 0) /\ ~At(c, "insert")
    BY <1>4 DEF DeleteInput, At
  <2>2. \A s \in Streams : aborted[s] \subseteq aborted'[s]
          /\ (s \in {i} \cup RunningOf(i) /\ handle[s] # 0 => handle[s] \in aborted'[s])
    BY <2>1 DEF Abort
  <2>3. \A s \in Streams : Found(s) /\ s \notin {i} \cup RunningOf(i) =>
          handle'[s] = handle[s] /\ Found(s)'
    BY <1>0, <2>1 DEF Set, Found, RunningOf, OutputsOf, TypeOK, Streams
  <2> QED BY <1>0, <2>1, <2>2, <2>3, HeldFrame
<1>5. ASSUME NEW i \in Inputs, StopInput(c, i) PROVE TasksHeld'
  BY <1>0, <1>5, HeldHalt DEF StopInput, At
<1>6. ASSUME NEW o \in Outputs, CreateOutput(c, o) PROVE TasksHeld'
  <2>1. Parent[o] \in present /\ o \notin running /\ ~At(c, "insert")
    BY <1>6 DEF CreateOutput, OutputsPlaced, OutputEntriesHaveRows, Rowed, At
  <2>2. CASE LookupFails(o)
    BY <2>1, <2>2, <1>f DEF LookupFails, taskVars
  <2> QED BY <1>0, <1>6, <2>1, <2>2, HeldRun DEF CreateOutput
<1>7. ASSUME NEW o \in Outputs, DeleteOutput(c, o) PROVE TasksHeld'
  <2>1. present' = present /\ phase' = phase /\ ~At(c, "insert")
    BY <1>7 DEF DeleteOutput, At
  <2> QED BY <1>0, <1>f, <1>7, <2>1, HeldGone DEF DeleteOutput
<1>8. CASE SpawnInput(c)
  <2> DEFINE i == pc[c].s
  <2>1. /\ i \in Inputs /\ i \in Streams /\ ~At(c, "insert") /\ i \notin present
        /\ memory' = memory
    BY <1>0, <1>8, PlacedTyped DEF SpawnInput, At, HandlersPlaced, Creator, CreatorOK,
                                   CreateLabels, Streams
  <2>2. CASE UNCHANGED taskVars
    BY <2>1, <2>2, <1>f DEF memory, taskVars
  <2>3. ASSUME NEW ch, Spawn({i}, ch), Carry(c, "insert", gen[i] + 1), aborted' = aborted
        PROVE  TasksHeld'
    <3>1. pc'[c].at = "insert" /\ pc'[c].s = i /\ pc'[c].g = gen[i] + 1
      BY <1>0, <2>3 DEF Carry, TypeOK, Handlers
    <3>2. \A s \in {i}, g \in Gens : Reliable(s) /\ g = gen[s] + 1 => Reachable(s, g)'
      BY <3>1 DEF Reachable, At
    <3>3. ~Found(i) /\ \A s \in Streams : handle'[s] = handle[s] /\ (Found(s) => Found(s)')
      BY <2>1 DEF Found, memory
    <3> HIDE DEF i
    <3> QED BY <1>0, <2>1, <2>3, <3>2, <3>3, HeldSpawn
  <2> QED BY <1>8, <2>2, <2>3 DEF SpawnInput
<1>9. CASE InsertInput(c)
  <2> DEFINE i == pc[c].s
  <2>1. /\ i \in Inputs /\ i \in Streams /\ i \notin present /\ At(c, "insert")
    BY <1>0, <1>9, PlacedTyped DEF InsertInput, At, HandlersPlaced, Creator, CreatorOK,
                                   CreateLabels, Streams
  <2>2. /\ present' = present \cup {i} /\ running' = running
        /\ handle' = [handle EXCEPT ![i] = pc[c].g]
        /\ phase' = phase /\ aborted' = aborted
    BY <1>9 DEF InsertInput, taskVars
  <2> SUFFICES ASSUME NEW s \in Streams, Reliable(s), NEW g \in LiveTasks(s)'
               PROVE  Reachable(s, g)'
    BY HeldPrimed
  <2>3. g \in LiveTasks(s)
    BY <2>2 DEF LiveTasks
  <2>4. CASE s = i
    <3>1. pc[c].g = g
      BY <2>1, <2>3, <2>4 DEF OneAtATime, TasksPlaced, TasksHeld, Reachable, Found
    <3> QED BY <1>0, <2>1, <2>2, <2>4, <3>1 DEF Reachable, Found, TypeOK
  <2>5. CASE s # i
    <3>1. handle[s] = g /\ Found(s)
      BY <2>1, <2>3, <2>5 DEF OneAtATime, TasksPlaced, TasksHeld, Reachable
    <3> QED BY <1>0, <2>2, <2>5, <3>1 DEF Reachable, Found, TypeOK
  <2> QED BY <2>4, <2>5
<1>10. CASE Respawn(c)
  <2> DEFINE i == pc[c].s
  <2>1. i \in Inputs /\ ~At(c, "insert") /\ (Reliable(i) => handle[i] = 0)
    BY <1>0, <1>10, PlacedTyped DEF Respawn, At, TasksPlaced, StartsOnIdle
  <2>2. CASE UNCHANGED <<memory, taskVars>>
    BY <2>1, <2>2, <1>f DEF memory, taskVars
  <2>3. CASE i \in present /\ present' = present /\ aborted' = aborted
    <3>1. PICK failed \in SUBSET StoppedOf(i) :
            LET S == {i} \cup (StoppedOf(i) \ failed) IN
            /\ RestartOutputs(i, failed)
            /\ Spawn(S, [s \in S |-> IF s = i THEN 0 ELSE gen[i] + 1])
            /\ handle' = [s \in Streams |-> IF s \in S THEN gen[s] + 1
                                                       ELSE handle[s]]
      BY <1>10, <2>1, <2>3 DEF Respawn
    <3> DEFINE S  == {i} \cup (StoppedOf(i) \ failed)
               ch == [s \in S |-> IF s = i THEN 0 ELSE gen[i] + 1]
    <3>2. /\ S \in SUBSET Streams /\ Spawn(S, ch) /\ S \ {i} = StoppedOf(i) \ failed
          /\ \A s \in S : handle'[s] = gen[s] + 1
          /\ \A s \in Streams \ S : handle'[s] = handle[s]
      BY <2>1, <3>1 DEF StoppedOf, OutputsOf, Streams
    <3> HIDE DEF i, S, ch
    <3> QED BY <1>0, <2>1, <2>3, <3>1, <3>2, HeldRestart
  <2> QED BY <1>10, <2>1, <2>2, <2>3 DEF Respawn
<1>11. CASE Attach(c)
  <2> DEFINE i == pc[c].s
  <2>1. /\ i \in Inputs /\ i \in Streams /\ ~At(c, "insert") /\ ~Reliable(i)
        /\ memory' = memory
    BY <1>0, <1>11, PlacedTyped DEF Attach, At, Reliable, UdpOutput, Base, Streams
  <2>2. CASE UNCHANGED taskVars
    BY <2>1, <2>2, <1>f DEF memory, taskVars
  <2>3. ASSUME NEW ch, Spawn({i}, ch), aborted' = aborted
        PROVE  TasksHeld'
    <3>1. \A s \in Streams : handle'[s] = handle[s] /\ (Found(s) => Found(s)')
      BY <2>1 DEF Found, memory
    <3> HIDE DEF i
    <3> QED BY <1>0, <2>1, <2>3, <3>1, HeldSpawn
  <2> QED BY <1>11, <2>2, <2>3 DEF Attach
<1>12. CASE Adopt(c)
  <2> DEFINE i == pc[c].s
             g == pc[c].g
  <2>1. i \in Inputs /\ ~At(c, "insert") /\ ~Reliable(i)
    BY <1>0, <1>12, PlacedTyped DEF Adopt, At, Reliable, UdpOutput, Base,
                                    HandlersPlaced, PlaceOK
  <2>2. CASE UNCHANGED <<memory, taskVars>>
    BY <2>1, <2>2, <1>f DEF memory, taskVars
  <2>3. CASE i \in present /\ present' = present /\ aborted' = aborted
    <3>1. PICK failed \in SUBSET StoppedOf(i) :
            LET S == StoppedOf(i) \ failed IN
            /\ RestartOutputs(i, failed)
            /\ Spawn(S, [s \in S |-> g])
            /\ handle' = [s \in Streams |-> IF s = i THEN g
                            ELSE IF s \in S THEN gen[s] + 1 ELSE handle[s]]
      BY <1>12, <2>1, <2>3 DEF Adopt
    <3> DEFINE S  == StoppedOf(i) \ failed
               ch == [s \in S |-> g]
    <3>2. /\ S \in SUBSET Streams /\ Spawn(S, ch) /\ i \notin S
          /\ S \ {i} = StoppedOf(i) \ failed
          /\ \A s \in S : handle'[s] = gen[s] + 1
          /\ \A s \in Streams \ S : s = i \/ handle'[s] = handle[s]
      BY <2>1, <3>1 DEF StoppedOf, OutputsOf, Streams
    <3> HIDE DEF i, S, ch
    <3> QED BY <1>0, <2>1, <2>3, <3>1, <3>2, HeldRestart
  <2> QED BY <1>12, <2>1, <2>2, <2>3 DEF Adopt
<1>13. CASE HaltForUpdate(c)
  BY <1>0, <1>13, <1>f, HeldHalt DEF HaltForUpdate, At, memory, taskVars
<1>14. CASE BeginOutput(c)
  <2> DEFINE o == pc[c].s
  <2>1. o \in Outputs /\ ~At(c, "insert")
    BY <1>0, <1>14, PlacedTyped DEF BeginOutput, At
  <2>2. CASE RunOutput(o) /\ o \in stopped /\ Parent[o] \in present
    BY <1>0, <2>1, <2>2, HeldRun DEF OutputInOneMap
  <2> QED BY <1>14, <1>f, <2>1, <2>2 DEF BeginOutput, LookupFails, memory, taskVars
<1>15. CASE EndOutput(c)
  <2>1. pc[c].s \in Outputs /\ ~At(c, "insert")
    BY <1>0, <1>15, PlacedTyped DEF EndOutput, At
  <2> QED BY <1>0, <1>15, <1>f, <2>1, HeldGone DEF EndOutput, HaltOutput, memory, taskVars
<1> QED
  BY <1>1, <1>2, <1>3, <1>4, <1>5, <1>6, <1>7, <1>8, <1>9, <1>10, <1>11, <1>12,
     <1>13, <1>14, <1>15 DEF Request, Continue

\* An input is only started where a check has found it inactive.
LEMMA StartsStepOfClient ==
  ASSUME OneAtATime, IInv, WellShown, NEW c \in Clients, Request(c) \/ Continue(c)
  PROVE  StartsOnIdle'
<1> USE StreamControlAssumption
<1>0. TypeOK /\ HandlersPlaced
  BY DEF IInv
<1>s. ASSUME NEW i \in Inputs, MayStart(i), pc'[c].s = i, handle' = handle
      PROVE  StartsOnIdle'
  <2>1. Reliable(i) => handle[i] = 0
    BY <1>s DEF MayStart, WellShown, EntriesActive, ShownActive, HasTask, Streams
  <2>2. \A d \in Clients : d = c
    BY DEF OneAtATime
  <2>3. Reliable(i)' <=> Reliable(i)
    BY DEF Reliable, NoTaskFails, UdpOutput, Base
  <2> QED BY <1>s, <2>1, <2>2, <2>3 DEF StartsOnIdle
<1>1. ASSUME NEW i \in Inputs, CreateInput(c, i) PROVE StartsOnIdle'
  <2>1. pc'[c].at = "spawn"
    BY <1>0, <1>1, Moved DEF CreateInput
  <2> QED BY <2>1, StartsElsewhere DEF At
<1>2. ASSUME NEW i \in Inputs, DeleteInput(c, i) PROVE StartsOnIdle'
  BY <1>2, StartsElsewhere DEF DeleteInput, At
<1>3. ASSUME NEW i \in Inputs, StartInput(c, i) PROVE StartsOnIdle'
  BY <1>0, <1>3, <1>s, Moved DEF StartInput, memory
<1>4. ASSUME NEW i \in Inputs, StopInput(c, i) PROVE StartsOnIdle'
  <2>1. pc'[c].at = "write"
    BY <1>0, <1>4, Moved DEF StopInput
  <2> QED BY <2>1, StartsElsewhere DEF At
<1>5. ASSUME NEW i \in Inputs, UpdateInput(c, i) PROVE StartsOnIdle'
  <2>1. pc'[c].at = "probe"
    BY <1>0, <1>5, Moved DEF UpdateInput
  <2> QED BY <2>1, StartsElsewhere DEF At
<1>6. ASSUME NEW o \in Outputs, CreateOutput(c, o) \/ DeleteOutput(c, o)
      PROVE  StartsOnIdle'
  BY <1>6, StartsElsewhere DEF CreateOutput, DeleteOutput, At
<1>7. ASSUME NEW o \in Outputs,
             StartOutput(c, o) \/ StopOutput(c, o) \/ UpdateOutput(c, o)
      PROVE  StartsOnIdle'
  <2>1. pc'[c].at \in {"begin", "end", "probe"}
    BY <1>0, <1>7, Moved DEF StartOutput, StopOutput, UpdateOutput
  <2> QED BY <2>1, StartsElsewhere DEF At
<1>8. CASE SpawnInput(c)
  <2>1. pc'[c].at \in {"refuse", "insert"}
    BY <1>0, <1>8, Moved DEF SpawnInput
  <2> QED BY <2>1, StartsElsewhere DEF At
<1>9. CASE InsertInput(c) \/ InsertFailedInput(c) \/ WriteRow(c)
  <2>1. pc'[c].at = "idle"
    BY <1>0, <1>9, Moved DEF InsertInput, InsertFailedInput, WriteRow
  <2> QED BY <2>1, StartsElsewhere DEF At
<1>10. CASE RestartInput(c)
  <2>1. CASE MayStart(pc[c].s) /\ Goto(c, "respawn")
    BY <1>0, <1>10, <1>s, <2>1, Moved DEF RestartInput, memory
  <2>2. CASE Return(c)
    BY <1>0, <2>2, Moved, StartsElsewhere DEF At
  <2> QED BY <1>10, <2>1, <2>2 DEF RestartInput
<1>11. CASE \/ Respawn(c) \/ ReachInput(c) \/ CheckSource(c) \/ Attach(c)
            \/ Adopt(c)
  <2>1. pc'[c].at \in {"idle", "write", "read", "source", "attach", "adopt"}
    BY <1>0, <1>11, Moved DEF Respawn, ReachInput, CheckSource, Attach, Adopt
  <2> QED BY <2>1, StartsElsewhere DEF At
<1>12. CASE ProbeInput(c) \/ ProbeOutput(c)
  <2>1. pc'[c].at \in {"halt", "check", "idle", "end", "park"}
    BY <1>0, <1>12, Moved DEF ProbeInput, ProbeOutput
  <2> QED BY <2>1, StartsElsewhere DEF At
<1>13. CASE HaltForUpdate(c) \/ BeginOutput(c) \/ EndOutput(c) \/ ParkOutput(c)
  <2>1. pc'[c].at \in {"check", "idle", "write", "read", "park", "begin"}
    BY <1>0, <1>13, Moved DEF HaltForUpdate, BeginOutput, EndOutput, ParkOutput
  <2> QED BY <2>1, StartsElsewhere DEF At
<1>14. CASE ReadStatus(c)
  <2>1. pc'[c].at = "write"
    BY <1>0, <1>14 DEF ReadStatus, TypeOK, Handlers
  <2> QED BY <2>1, StartsElsewhere DEF At
<1> QED
  BY <1>1, <1>2, <1>3, <1>4, <1>5, <1>6, <1>7, <1>8, <1>9, <1>10, <1>11, <1>12,
     <1>13, <1>14 DEF Request, Continue

\* load_from_db stores each task it spawns.
LEMMA TasksInit == Init => TasksPlaced
<1> SUFFICES ASSUME Init PROVE TasksPlaced
  OBVIOUS
<1>1. StartsOnIdle
  BY DEF Init, StartsOnIdle, At, Idle
<1>2. \A s \in Live(row) : Found(s)
  BY StreamControlAssumption
     DEF Init, Found, Live, Resumed, Sending, Loaded, Rowed, Streams
<1>3. \A s \in Streams : \A g \in LiveTasks(s) : g = 1 /\ s \in Live(row)
  BY DEF Init, LiveTasks, LoadedPhase, LivePhases
<1>4. TasksHeld
  BY <1>2, <1>3 DEF Init, TasksHeld, Reachable, FirstGen
<1> QED BY <1>1, <1>4 DEF TasksPlaced

LEMMA TasksRestart == Restart => TasksPlaced'
<1> SUFFICES ASSUME Restart PROVE TasksPlaced'
  OBVIOUS
<1>1. StartsOnIdle'
  BY DEF Restart, StartsOnIdle, At, Idle
<1>2. \A s \in Live(row') : Found(s)'
  BY StreamControlAssumption
     DEF Restart, Found, Live, Resumed, Sending, Loaded, Rowed, Streams
<1>3. \A s \in Streams : \A g \in LiveTasks(s)' : g = 1 /\ s \in Live(row')
  BY DEF Restart, LiveTasks, LoadedPhase, LivePhases
<1>4. \A s \in Streams : \A g \in LiveTasks(s)' : Reachable(s, g)'
  BY <1>2, <1>3 DEF Restart, Reachable, FirstGen
<1> QED BY <1>1, <1>4, HeldPrimed DEF TasksPlaced

\* A task that is at an end makes no move.
LEMMA OnlyLiveMove ==
  ASSUME TypeOK, NEW s \in Streams, NEW g \in Gens, NEW m \in Moves(s, g)
  PROVE  phase[s][g] \in LivePhases
BY StreamControlAssumption
   DEF Moves, InputMoves, OutputMoves, UdpInputMoves, SptsMoves, SrtMoves,
       UdpOutputMoves, LivePhases, Streams, InputKinds, OutputKinds

LEMMA TasksStep ==
  ASSUME OneAtATime
  PROVE  IInv /\ WellShown /\ OutputsPlaced /\ TasksPlaced /\ [Next]_vars => TasksPlaced'
<1> SUFFICES ASSUME IInv, WellShown, OutputsPlaced, TasksPlaced, [Next]_vars
             PROVE  TasksPlaced'
  OBVIOUS
<1>0. TypeOK
  BY DEF IInv
<1>f. ASSUME pc' = pc, present' = present, running' = running, handle' = handle,
             \A s \in Streams : LiveTasks(s)' \subseteq LiveTasks(s)
      PROVE  TasksPlaced'
  <2>1. \A s \in Streams : Reliable(s)' <=> Reliable(s)
    BY DEF Reliable, NoTaskFails, UdpOutput, Base
  <2>2. TasksHeld'
    BY <1>f, HeldPrimed DEF TasksPlaced, TasksHeld, Reachable, Found, At
  <2>3. StartsOnIdle'
    BY <1>f DEF TasksPlaced, StartsOnIdle, At, Reliable, NoTaskFails, UdpOutput, Base
  <2> QED BY <2>2, <2>3 DEF TasksPlaced
<1>1. ASSUME NEW s \in Streams, NEW g \in Gens, TaskStep(s, g) \/ LateStep(s, g)
      PROVE  TasksPlaced'
  <2>1. PICK m \in Moves(s, g) : \E p : phase' = [phase EXCEPT ![s][g] = p]
    BY <1>1 DEF TaskStep, LateStep
  <2>2. PICK p : phase' = [phase EXCEPT ![s][g] = p]
    BY <2>1
  <2>3. phase[s][g] \in LivePhases
    BY <1>0, <2>1, OnlyLiveMove
  <2>4. g \in aborted[s] => phase' = [phase EXCEPT ![s][g] = "done"]
    BY <1>1 DEF TaskStep, LateStep
  <2>5. \A t \in Streams : LiveTasks(t)' \subseteq LiveTasks(t)
    BY <1>0, <1>1, <2>2, <2>3, <2>4 DEF TaskStep, LateStep, LiveTasks, TypeOK
  <2> QED BY <1>1, <1>f, <2>5 DEF TaskStep, LateStep, memory
<1>2. ASSUME NEW s \in Streams, NEW g \in Gens, AbortLands(s, g)
      PROVE  TasksPlaced'
  <2>1. \A t \in Streams : LiveTasks(t)' \subseteq LiveTasks(t)
    BY <1>0, <1>2 DEF AbortLands, LiveTasks, TypeOK, LivePhases
  <2> QED BY <1>2, <1>f, <2>1 DEF AbortLands, memory
<1>3. CASE Process \/ UNCHANGED vars
  BY <1>3, <1>f DEF Process, vars, memory, taskVars, LiveTasks
<1> QED
  BY <1>1, <1>2, <1>3, HeldStepOfClient, StartsStepOfClient, TasksRestart
     DEF Next, TaskAction, TasksPlaced

\* Live tasks that are all held are at most one: only a stream without an entry
\* is being created.
LEMMA HeldIsOne ==
  ASSUME OneAtATime, HandlersPlaced, TasksHeld, NEW s \in Streams, Reliable(s)
  PROVE  Cardinality(LiveTasks(s)) <= 1
<1> USE StreamControlAssumption
<1>1. ASSUME NEW g \in LiveTasks(s), NEW h \in LiveTasks(s) PROVE g = h
  <2>1. Reachable(s, g) /\ Reachable(s, h)
    BY DEF TasksHeld
  <2>2. \A c \in Clients : At(c, "insert") /\ pc[c].s = s => ~Found(s)
    BY DEF HandlersPlaced, PlaceOK, CreatorOK, Creator, CreateLabels, InputLabels,
           At, Found
  <2> QED BY <2>1, <2>2 DEF Reachable, OneAtATime
<1>2. CASE LiveTasks(s) = {}
  BY <1>2, FS_EmptySet
<1>3. ASSUME NEW g \in LiveTasks(s) PROVE Cardinality(LiveTasks(s)) <= 1
  <2>1. LiveTasks(s) = {g}
    BY <1>1
  <2>2. Cardinality(LiveTasks(s)) = 1
    BY <2>1, FS_Singleton
  <2> QED BY <2>2
<1> QED BY <1>2, <1>3

\* One request at a time, every task at work of a UDP output can be reached,
\* whatever fails, and that of any other stream but an SPTS input when no task
\* fails or finishes a poll after its abort.  (Otherwise a notification that is
\* applied late, Error, or Stopped for an SPTS input, makes the entry of the next
\* task show an end it has not met, and start_input replaces a task that runs.)
THEOREM SerialTasksHeld == OneAtATime => (Spec => []TasksHeld)
<1> SUFFICES ASSUME OneAtATime PROVE Spec => []TasksHeld
  OBVIOUS
<1> DEFINE I == IInv /\ WellShown /\ OutputsPlaced /\ TasksPlaced
<1>1. Init => I
  BY InitialInvariant, ShownInit, OutputsInit, TasksInit
<1>2. I /\ [Next]_vars => I'
  BY InvariantStep, ShownStep, OutputsStep, TasksStep DEF IInv
<1>3. I => TasksHeld
  BY DEF TasksPlaced
<1> QED BY <1>1, <1>2, <1>3, PTL DEF Spec

\* Hence a UDP output never has two tasks at work, nor, when no task fails, has
\* any other stream but an SPTS input.
TasksSingle ==
  \A s \in Streams : Reliable(s) => Cardinality(LiveTasks(s)) <= 1

THEOREM SerialTasksSingle == OneAtATime => (Spec => []TasksSingle)
<1> SUFFICES ASSUME OneAtATime PROVE Spec => []TasksSingle
  OBVIOUS
<1>1. HandlersPlaced /\ TasksHeld => TasksSingle
  BY HeldIsOne DEF TasksSingle
<1>2. IInv => HandlersPlaced
  BY DEF IInv
<1> QED BY <1>1, <1>2, Invariant, SerialTasksHeld, PTL

\* And what has been deleted has no task at work: the safety half of the promise
\* that a deleted input goes quiet.
DeletedIsAborted ==
  \A s \in Streams : Reliable(s) /\ row[s] = "deleted" => LiveTasks(s) = {}

THEOREM SerialDeletedIsAborted == OneAtATime => (Spec => []DeletedIsAborted)
<1> SUFFICES ASSUME OneAtATime PROVE Spec => []DeletedIsAborted
  OBVIOUS
<1>1. IInv /\ OutputEntriesHaveRows /\ TasksHeld => DeletedIsAborted
  <2> SUFFICES ASSUME IInv, OutputEntriesHaveRows, TasksHeld,
                      NEW s \in Streams, Reliable(s), row[s] = "deleted",
                      NEW g \in LiveTasks(s)
               PROVE  FALSE
    BY DEF DeletedIsAborted
  <2>1. ~HasRow(s) /\ Reachable(s, g)
    BY DEF HasRow, TasksHeld
  <2>2. CASE s \in Inputs
    <3>1. s \notin present /\ ~Creating(s)
      BY <2>1, <2>2 DEF IInv, InputRowsMatchEntries
    <3> QED BY <2>1, <2>2, <3>1 DEF Reachable, Found, Creating, At
  <2>3. CASE s \notin Inputs
    <3>1. s \notin running
      BY <2>1 DEF OutputEntriesHaveRows, Rowed, HasRow
    <3>2. \A c \in Clients : At(c, "insert") => pc[c].s \in Inputs
      BY PlacedTyped DEF IInv, At, HandlersPlaced, PlaceOK, CreateLabels, InputLabels
    <3> QED BY <2>1, <2>3, <3>1, <3>2 DEF Reachable, Found
  <2> QED BY <2>2, <2>3
<1> QED BY <1>1, Invariant, SerialOutputsHaveRows, SerialTasksHeld, PTL

\* With neither SPTS inputs nor tasks that fail, every stream is reliable.
LEMMA AllReliable ==
  ASSUME NoTaskFails, \A i \in Inputs : Kind[i] # "spts"
  PROVE  \A s \in Streams : Reliable(s)
BY DEF Reliable, Base, Streams

\* No step of a handler, no message that is applied late and no restart then
\* leaves a task that nothing can abort, ...
THEOREM SerialTasksReachable ==
  OneAtATime /\ NoTaskFails /\ (\A i \in Inputs : Kind[i] # "spts") =>
    (Spec => []EveryTaskReachable)
<1> SUFFICES ASSUME OneAtATime, NoTaskFails, \A i \in Inputs : Kind[i] # "spts"
             PROVE  Spec => []EveryTaskReachable
  OBVIOUS
<1>1. TasksHeld => EveryTaskReachable
  BY AllReliable DEF TasksHeld, EveryTaskReachable
<1> QED BY <1>1, SerialTasksHeld, PTL

\* ... or two tasks of one stream at work.
THEOREM SerialOneLiveTask ==
  OneAtATime /\ NoTaskFails /\ (\A i \in Inputs : Kind[i] # "spts") =>
    (Spec => []OneLiveTask)
<1> SUFFICES ASSUME OneAtATime, NoTaskFails, \A i \in Inputs : Kind[i] # "spts"
             PROVE  Spec => []OneLiveTask
  OBVIOUS
<1>1. TasksSingle => OneLiveTask
  BY AllReliable DEF TasksSingle, OneLiveTask
<1> QED BY <1>1, SerialTasksSingle, PTL
=============================================================================
