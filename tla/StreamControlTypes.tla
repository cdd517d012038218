------------------------- MODULE StreamControlTypes -------------------------
(***************************************************************************)
(* The inductive invariant of StreamControl, and the proof that every step *)
(* keeps its first part: everything has the type the code gives it.        *)
(***************************************************************************)
EXTENDS StreamControl, SequenceTheorems, TLAPS

CreateLabels == {"spawn", "insert", "refuse"}
AttachLabels == {"source", "attach"}
InputLabels  == CreateLabels \cup AttachLabels
                  \cup {"respawn", "adopt", "check", "halt"}
OutputLabels == {"begin", "end", "park"}

\* A handler works on a stream of the kind its place in the code is about.
PlaceOK(h) ==
  /\ h.at = "idle" \/ h.s \in Streams
  /\ h.at \in InputLabels => h.s \in Inputs
  /\ h.at \in OutputLabels => h.s \in Outputs
  /\ h.at \in AttachLabels \cup {"adopt"} => Kind[h.s] = "spts"

\* A create_input owns an input that nobody else knows yet.
Creator(c) == pc[c].at \in CreateLabels
CreatorOK(c) ==
  /\ pc[c].s \notin present
  /\ At(c, "insert") => pc[c].g = gen[pc[c].s]
  /\ At(c, "refuse") => Kind[pc[c].s] = "spts"
  /\ \A d \in Clients : Creator(d) /\ pc[d].s = pc[c].s => c = d

HandlersPlaced ==
  \A c \in Clients : PlaceOK(pc[c]) /\ (Creator(c) => CreatorOK(c))

\* The input that start_input attaches to its source is not one that is being
\* created: it has an entry, or it has been deleted since the entry was found.
Attaching(c) == pc[c].at \in AttachLabels
Known(i)     == i \in present \/ row[i] = "deleted"
AttachingKnown == \A c \in Clients : Attaching(c) => Known(pc[c].s)

\* A UDP output in output_tasks shows Connected, and no message is about one.
UdpOutput(s) == s \in Outputs /\ Kind[s] = "udp"
UdpShown  == \A o \in running : UdpOutput(o) => status[o] = "Connected"
UdpSilent == \A n \in 1..Len(queue) : ~UdpOutput(queue[n].s)
UdpOutputsConnected == UdpShown /\ UdpSilent

IInv == /\ TypeOK
        /\ HandlersPlaced
        /\ InputRowsMatchEntries
        /\ AttachingKnown
        /\ UdpOutputsConnected
        /\ LatestTaskAccounted

-----------------------------------------------------------------------------
(* Types: the operators the actions are built from. *)

LEMMA InitialTyped == \A s \in Streams : InitialStatus(s) \in Status
  BY StreamControlAssumption
     DEF Streams, InitialStatus, InputStatus, OutputStatus, Announce, Status

LEMMA UpstreamTyped == \A s \in Streams : Reads(s) => Upstream(s) \in Inputs
  BY StreamControlAssumption DEF Reads, Upstream, Streams

LEMMA MovesTyped ==
  \A s \in Streams, g \in Gens : \A m \in Moves(s, g) :
    m.say \in Says /\ m.next \in Phases
<1> SUFFICES ASSUME NEW s \in Streams, NEW g \in Gens, NEW m \in Moves(s, g)
             PROVE  m.say \in Says /\ m.next \in Phases
  OBVIOUS
<1>1. \A closed \in BOOLEAN :
        \A n \in InputMoves(Kind[s], phase[s][g], closed) :
          n.say \in Says /\ n.next \in Phases
  BY DEF InputMoves, UdpInputMoves, SptsMoves, SrtMoves, Move, Fault, Announce,
         Says, Status, Phases, LivePhases
<1>2. \A closed \in BOOLEAN :
        \A n \in OutputMoves(Kind[s], phase[s][g], closed) :
          n.say \in Says /\ n.next \in Phases
  BY DEF OutputMoves, UdpOutputMoves, SrtMoves, Move, Fault, Announce, Says,
         Status, Phases, LivePhases
<1>3. (Reads(s) /\ Closed(s, g)) \in BOOLEAN
  BY DEF Reads, Closed
<1> QED
  BY <1>1, <1>2, <1>3 DEF Moves

LEMMA SendTyped ==
  ASSUME TypeOK, NEW s \in Streams, NEW say \in Says, Send(s, say)
  PROVE  queue' \in Seq(Messages)
<1>1. CASE say = "nothing"
  BY <1>1 DEF Send, TypeOK
<1>2. CASE say # "nothing"
  <2>1. [s |-> s, st |-> say] \in Messages
    BY <1>2 DEF Messages, Says
  <2>2. queue \in Seq(Messages)
        /\ queue' = Append(queue, [s |-> s, st |-> say])
    BY <1>2 DEF Send, TypeOK
  <2> QED
    BY <2>1, <2>2, AppendProperties
<1> QED
  BY <1>1, <1>2

LEMMA ZeroTyped == 0 \in 0..MaxGen /\ "Stopped" \in Status
  BY StreamControlAssumption DEF Status

LEMMA SpendTyped ==
  ASSUME TypeOK, NEW f \in Faults, Spend(f)
  PROVE  budget' \in [Faults -> Nat]
  BY DEF TypeOK, Spend

LEMMA IdleTyped == Idle \in Handlers
  BY StreamControlAssumption DEF Idle, Handlers, Labels, Ops, Status

LEMMA BeginTyped ==
  ASSUME TypeOK, NEW c \in Clients, NEW label \in Labels, NEW op \in Ops,
         NEW s \in Streams, Begin(c, label, op, s)
  PROVE  pc' \in [Clients -> Handlers]
<1>1. [Idle EXCEPT !.at = label, !.op = op, !.s = s] \in Handlers
  BY IdleTyped DEF Handlers
<1> QED
  BY <1>1 DEF TypeOK, Begin

LEMMA GotoTyped ==
  ASSUME TypeOK, NEW c \in Clients, NEW label \in Labels, Goto(c, label)
  PROVE  pc' \in [Clients -> Handlers]
<1>0. pc[c] \in Handlers
  BY DEF TypeOK
<1>1. [pc[c] EXCEPT !.at = label] \in Handlers
  BY <1>0 DEF Handlers
<1> QED
  BY <1>1 DEF TypeOK, Goto

LEMMA ReturnTyped ==
  ASSUME TypeOK, NEW c \in Clients, Return(c)
  PROVE  pc' \in [Clients -> Handlers]
  BY IdleTyped DEF TypeOK, Return

\* Spawning on channels that exist keeps the tables of the tasks well typed.
LEMMA SpawnTyped ==
  ASSUME TypeOK, NEW S \in SUBSET Streams, NEW ch,
         \A s \in S : ch[s] \in 0..MaxGen, Spawn(S, ch)
  PROVE  /\ gen' \in [Streams -> 0..MaxGen]
         /\ phase' \in [Streams -> [Gens -> Phases]]
         /\ sub' \in [Streams -> [Gens -> 0..MaxGen]]
         /\ \A s \in S : gen[s] + 1 \in Gens /\ gen[s] + 1 \in 0..MaxGen
<1>1. \A s \in S : gen[s] + 1 \in Gens /\ gen[s] + 1 \in 0..MaxGen
  BY StreamControlAssumption DEF TypeOK, Spawn, Gens
<1>2. gen' \in [Streams -> 0..MaxGen]
  BY <1>1, StreamControlAssumption DEF TypeOK, Spawn, Gens
<1>3. "start" \in Phases
  BY DEF Phases, LivePhases
<1>4. phase' \in [Streams -> [Gens -> Phases]]
  BY <1>1, <1>3 DEF TypeOK, Spawn
<1>5. sub' \in [Streams -> [Gens -> 0..MaxGen]]
  BY <1>1 DEF TypeOK, Spawn
<1> QED
  BY <1>1, <1>2, <1>4, <1>5

LEMMA AbortTyped ==
  ASSUME TypeOK, NEW S \in SUBSET Streams, Abort(S)
  PROVE  aborted' \in [Streams -> SUBSET Gens]
  BY StreamControlAssumption DEF TypeOK, Abort, Gens

LEMMA DeleteRowsTyped ==
  ASSUME TypeOK, NEW S, DeleteRows(S)
  PROVE  row' \in [Streams -> RowStates]
  BY DEF TypeOK, DeleteRows, RowStates

LEMMA LoadTyped ==
  ASSUME NEW r
  PROVE  /\ Sending(r) \subseteq Outputs /\ Parked(r) \subseteq Outputs
         /\ LoadedStatus(r) \in [Streams -> Status]
         /\ FirstGen(r) \in [Streams -> 0..MaxGen]
         /\ LoadedChannel(r) \in [Inputs -> 0..MaxGen]
         /\ LoadedPhase(r) \in [Streams -> [Gens -> Phases]]
         /\ LoadedSub(r) \in [Streams -> [Gens -> 0..MaxGen]]
<1>1. Sending(r) \subseteq Outputs /\ Parked(r) \subseteq Outputs
  BY DEF Sending, Parked, Loaded
<1>2. LoadedStatus(r) \in [Streams -> Status]
  BY InitialTyped DEF LoadedStatus, Status
<1>3. FirstGen(r) \in [Streams -> 0..MaxGen]
  BY StreamControlAssumption DEF FirstGen
<1>4. LoadedChannel(r) \in [Inputs -> 0..MaxGen]
  BY <1>3 DEF LoadedChannel, Streams
<1>5. LoadedPhase(r) \in [Streams -> [Gens -> Phases]]
  BY DEF LoadedPhase, Phases, LivePhases
<1>6. LoadedSub(r) \in [Streams -> [Gens -> 0..MaxGen]]
  BY <1>3, UpstreamTyped, StreamControlAssumption DEF LoadedSub, Streams
<1> QED
  BY <1>1, <1>2, <1>3, <1>4, <1>5, <1>6

LEMMA CarryTyped ==
  ASSUME TypeOK, NEW c \in Clients, NEW label \in Labels, NEW g \in 0..MaxGen,
         Carry(c, label, g)
  PROVE  pc' \in [Clients -> Handlers]
<1>0. pc[c] \in Handlers
  BY DEF TypeOK
<1>1. [pc[c] EXCEPT !.at = label, !.g = g] \in Handlers
  BY <1>0 DEF Handlers
<1> QED
  BY <1>1 DEF TypeOK, Carry

LEMMA PlacedTyped ==
  ASSUME HandlersPlaced, NEW c \in Clients
  PROVE  /\ At(c, "spawn") \/ At(c, "insert") \/ At(c, "refuse") =>
              pc[c].s \in Inputs
         /\ At(c, "respawn") \/ At(c, "adopt") \/ At(c, "check")
              \/ At(c, "halt") => pc[c].s \in Inputs
         /\ At(c, "source") \/ At(c, "attach") =>
              pc[c].s \in Inputs /\ Kind[pc[c].s] = "spts"
         /\ At(c, "begin") \/ At(c, "end") \/ At(c, "park") =>
              pc[c].s \in Outputs
         /\ ~At(c, "idle") => pc[c].s \in Streams
  BY DEF HandlersPlaced, PlaceOK, At, InputLabels, CreateLabels, AttachLabels,
         OutputLabels

LEMMA RunOutputTyped ==
  ASSUME TypeOK, NEW o \in Outputs, RunOutput(o)
  PROVE  /\ present' = present /\ channel' = channel /\ budget' = budget
         /\ running' \subseteq Outputs
         /\ status' \in [Streams -> Status]
         /\ handle' \in [Streams -> 0..MaxGen]
         /\ gen' \in [Streams -> 0..MaxGen]
         /\ phase' \in [Streams -> [Gens -> Phases]]
         /\ aborted' = aborted
         /\ sub' \in [Streams -> [Gens -> 0..MaxGen]]
<1>1. o \in Streams /\ Parent[o] \in Inputs
  BY StreamControlAssumption DEF Streams
<1>2. /\ gen' \in [Streams -> 0..MaxGen]
      /\ phase' \in [Streams -> [Gens -> Phases]]
      /\ sub' \in [Streams -> [Gens -> 0..MaxGen]]
      /\ gen[o] + 1 \in 0..MaxGen
  <2> DEFINE ch == [s \in {o} |-> channel[Parent[o]]]
  <2>1. Spawn({o}, ch)
    BY DEF RunOutput
  <2>2. {o} \in SUBSET Streams /\ \A s \in {o} : ch[s] \in 0..MaxGen
    BY <1>1 DEF TypeOK
  <2> HIDE DEF ch
  <2>3. QED
    BY <2>1, <2>2, SpawnTyped
<1>3. /\ status' \in [Streams -> Status]
      /\ handle' \in [Streams -> 0..MaxGen]
  BY <1>1, <1>2, InitialTyped DEF RunOutput, TypeOK
<1>4. running' \subseteq Outputs
  BY DEF RunOutput, TypeOK
<1> QED
  BY <1>2, <1>3, <1>4 DEF RunOutput

LEMMA LookupFailsTyped ==
  ASSUME TypeOK, NEW o \in Outputs, LookupFails(o)
  PROVE  /\ UNCHANGED <<present, running, status, handle, channel, taskVars>>
         /\ budget' \in [Faults -> Nat]
<1>1. "lookup" \in Faults
  BY DEF Faults
<1> QED
  BY <1>1, SpendTyped DEF LookupFails

LEMMA HaltInputTyped ==
  ASSUME TypeOK, NEW i \in Inputs, HaltInput(i)
  PROVE  /\ present' = present /\ channel' = channel /\ gen' = gen
         /\ phase' = phase /\ sub' = sub /\ queue' = queue /\ row' = row
         /\ budget' = budget
         /\ running' \subseteq Outputs /\ stopped' \subseteq Outputs
         /\ status' \in [Streams -> Status]
         /\ handle' \in [Streams -> 0..MaxGen]
         /\ aborted' \in [Streams -> SUBSET Gens]
<1>1. {i} \cup ToRestart(i) \in SUBSET Streams
  BY DEF ToRestart, RunningOf, OutputsOf, Streams
<1>2. aborted' \in [Streams -> SUBSET Gens]
  BY <1>1, AbortTyped DEF HaltInput
<1>3. /\ status' \in [Streams -> Status]
      /\ handle' \in [Streams -> 0..MaxGen]
  BY ZeroTyped DEF TypeOK, HaltInput, Set
<1> QED
  BY <1>2, <1>3 DEF TypeOK, HaltInput, ToRestart, RunningOf, OutputsOf

LEMMA HaltOutputTyped ==
  ASSUME TypeOK, NEW o \in Outputs, HaltOutput(o)
  PROVE  TypeOK' <=> pc' \in [Clients -> Handlers]
<1>1. {o} \in SUBSET Streams
  BY DEF Streams
<1>2. aborted' \in [Streams -> SUBSET Gens]
  BY <1>1, AbortTyped DEF HaltOutput
<1>3. /\ status' \in [Streams -> Status]
      /\ handle' \in [Streams -> 0..MaxGen]
  BY ZeroTyped DEF TypeOK, HaltOutput
<1> QED
  BY <1>2, <1>3 DEF TypeOK, HaltOutput

\* What Respawn and Adopt do: the tasks of S are spawned, those of R shown.
LEMMA RestartTyped ==
  ASSUME TypeOK, NEW i \in Inputs, NEW failed, RestartOutputs(i, failed)
  PROVE  /\ running' \subseteq Outputs /\ stopped' \subseteq Outputs
         /\ budget' \in [Faults -> Nat]
<1>1. "lookup" \in Faults
  BY DEF Faults
<1>2. budget' \in [Faults -> Nat]
  BY <1>1, SpendTyped DEF RestartOutputs, TypeOK
<1> QED
  BY <1>2 DEF RestartOutputs, StoppedOf, OutputsOf, TypeOK

LEMMA FinalStatusTyped ==
  ASSUME TypeOK, NEW c \in Clients
  PROVE  FinalStatus(c) \in Status
  BY DEF TypeOK, FinalStatus, Handlers, Status

LEMMA StatusReadTyped ==
  ASSUME TypeOK, HandlersPlaced, NEW c \in Clients, ReadStatus(c)
  PROVE  pc' \in [Clients -> Handlers]
<1> DEFINE st == IF Found(pc[c].s) THEN status[pc[c].s]
                 ELSE IF pc[c].s \in Inputs THEN "Listening" ELSE "Connecting"
<1>1. pc[c].s \in Streams
  BY PlacedTyped DEF ReadStatus, At
<1>2. st \in Status
  BY <1>1 DEF TypeOK, Status
<1>0. pc[c] \in Handlers
  BY DEF TypeOK
<1>3. [pc[c] EXCEPT !.at = "write", !.st = st] \in Handlers
  BY <1>0, <1>2 DEF Handlers, Labels
<1> QED
  BY <1>3 DEF TypeOK, ReadStatus

LEMMA TypeStep == TypeOK /\ HandlersPlaced /\ [Next]_vars => TypeOK'
<1> SUFFICES ASSUME TypeOK, HandlersPlaced, [Next]_vars PROVE TypeOK'
  OBVIOUS
<1> USE StreamControlAssumption
<1>1. ASSUME NEW s \in Streams, NEW g \in Gens, TaskStep(s, g)
      PROVE  TypeOK'
  <2>1. PICK m \in Moves(s, g) :
            /\ Send(s, m.say)
            /\ phase' = [phase EXCEPT ![s][g] = m.next]
            /\ IF m.fault THEN Spend("error") ELSE UNCHANGED budget
    BY <1>1 DEF TaskStep
  <2>2. m.say \in Says /\ m.next \in Phases
    BY MovesTyped
  <2>3. queue' \in Seq(Messages)
    BY <2>1, <2>2, SendTyped
  <2>4. budget' \in [Faults -> Nat]
    BY <2>1, SpendTyped DEF Faults, TypeOK
  <2>5. phase' \in [Streams -> [Gens -> Phases]]
    BY <2>1, <2>2 DEF TypeOK
  <2> QED
    BY <1>1, <2>3, <2>4, <2>5 DEF TaskStep, memory, TypeOK
<1>2. ASSUME NEW s \in Streams, NEW g \in Gens, LateStep(s, g)
      PROVE  TypeOK'
  BY <1>2, MovesTyped, SendTyped, SpendTyped
     DEF LateStep, Faults, memory, Phases, TypeOK
<1>3. ASSUME NEW s \in Streams, NEW g \in Gens, AbortLands(s, g)
      PROVE  TypeOK'
  BY <1>3
     DEF AbortLands, memory, Phases, TypeOK
<1>4. ASSUME Process
      PROVE  TypeOK'
  <2>1. Head(queue) \in Messages /\ Tail(queue) \in Seq(Messages)
    BY <1>4, HeadTailProperties DEF Process, TypeOK
  <2>2. status' \in [Streams -> Status]
    BY <1>4, <2>1 DEF Process, Messages, TypeOK
  <2> QED
    BY <1>4, <2>1, <2>2 DEF Process, taskVars, TypeOK
<1>5. ASSUME NEW c \in Clients, NEW i \in Inputs, CreateInput(c, i)
      PROVE  TypeOK'
  BY <1>5, BeginTyped
     DEF CreateInput, Labels, Ops, memory, taskVars, RowStates, Status,
         Streams, TypeOK
<1>6. ASSUME NEW c \in Clients, NEW i \in Inputs, DeleteInput(c, i)
      PROVE  TypeOK'
  <2>1. {i} \cup RunningOf(i) \in SUBSET Streams
    BY DEF RunningOf, OutputsOf, Streams
  <2>2. aborted' \in [Streams -> SUBSET Gens]
    BY <1>6, <2>1, AbortTyped DEF DeleteInput
  <2>3. row' \in [Streams -> RowStates]
    BY <1>6, DeleteRowsTyped DEF DeleteInput
  <2>4. /\ status' \in [Streams -> Status]
        /\ handle' \in [Streams -> 0..MaxGen]
        /\ channel' \in [Inputs -> 0..MaxGen]
    BY <1>6 DEF DeleteInput, Set, Status, TypeOK
  <2> QED
    BY <1>6, <2>2, <2>3, <2>4 DEF DeleteInput, TypeOK
<1>7. ASSUME NEW c \in Clients, NEW i \in Inputs, StartInput(c, i)
      PROVE  TypeOK'
  BY <1>7, BeginTyped
     DEF StartInput, Labels, Ops, memory, taskVars, Streams, TypeOK
<1>8. ASSUME NEW c \in Clients, NEW i \in Inputs, StopInput(c, i)
      PROVE  TypeOK'
  <2>1. pc' \in [Clients -> Handlers]
    BY <1>8, BeginTyped DEF StopInput, Labels, Ops, Streams
  <2> QED
    BY <1>8, <2>1, HaltInputTyped DEF StopInput, TypeOK
<1>9. ASSUME NEW c \in Clients, NEW i \in Inputs, UpdateInput(c, i)
      PROVE  TypeOK'
  BY <1>9, BeginTyped
     DEF UpdateInput, Labels, Ops, memory, taskVars, Streams, TypeOK
<1>10. ASSUME NEW c \in Clients, NEW o \in Outputs, CreateOutput(c, o)
       PROVE  TypeOK'
  <2>1. row' \in [Streams -> RowStates]
    BY <1>10 DEF CreateOutput, RowStates, Status, TypeOK
  <2>2. CASE RunOutput(o)
    BY <1>10, <2>1, <2>2, RunOutputTyped DEF CreateOutput, TypeOK
  <2>3. CASE LookupFails(o)
    BY <1>10, <2>1, <2>3, LookupFailsTyped DEF CreateOutput, taskVars, TypeOK
  <2> QED
    BY <1>10, <2>2, <2>3 DEF CreateOutput
<1>11. ASSUME NEW c \in Clients, NEW o \in Outputs, DeleteOutput(c, o)
       PROVE  TypeOK'
  <2>1. row' \in [Streams -> RowStates]
    BY <1>11, DeleteRowsTyped DEF DeleteOutput
  <2>2. {o} \in SUBSET Streams
    BY DEF Streams
  <2>3. aborted' \in [Streams -> SUBSET Gens]
    BY <1>11, <2>2, AbortTyped DEF DeleteOutput, TypeOK
  <2>4. running' \subseteq Outputs /\ stopped' \subseteq Outputs
    BY <1>11 DEF DeleteOutput, TypeOK
  <2>5. /\ status' \in [Streams -> Status]
        /\ handle' \in [Streams -> 0..MaxGen]
    <3>1. CASE /\ handle' = [handle EXCEPT ![o] = 0]
               /\ status' = [status EXCEPT ![o] = "Stopped"]
      BY <2>2, <3>1, ZeroTyped DEF TypeOK
    <3>2. CASE UNCHANGED <<handle, status>>
      BY <3>2 DEF TypeOK
    <3> QED
      BY <1>11, <3>1, <3>2 DEF DeleteOutput
  <2> QED
    BY <1>11, <2>1, <2>3, <2>4, <2>5 DEF DeleteOutput, TypeOK
<1>12. ASSUME NEW c \in Clients, NEW o \in Outputs, StartOutput(c, o)
       PROVE  TypeOK'
  BY <1>12, BeginTyped
     DEF StartOutput, Labels, Ops, memory, taskVars, Streams, TypeOK
<1>13. ASSUME NEW c \in Clients, NEW o \in Outputs, StopOutput(c, o)
       PROVE  TypeOK'
  BY <1>13, BeginTyped
     DEF StopOutput, Labels, Ops, memory, taskVars, Streams, TypeOK
<1>14. ASSUME NEW c \in Clients, NEW o \in Outputs, UpdateOutput(c, o)
       PROVE  TypeOK'
  BY <1>14, BeginTyped
     DEF UpdateOutput, Labels, Ops, memory, taskVars, Streams, TypeOK
<1>15. ASSUME NEW c \in Clients, SpawnInput(c)
       PROVE  TypeOK'
  <2> DEFINE i  == pc[c].s
             ch == [s \in {i} |-> IF Reads(i) THEN channel[Source[i]] ELSE 0]
  <2>1. i \in Inputs /\ {i} \in SUBSET Streams
    BY <1>15, PlacedTyped DEF SpawnInput, Streams
  <2>2. CASE Kind[i] = "spts" /\ Source[i] \notin present
    BY <1>15, <2>2, GotoTyped DEF SpawnInput, Labels, memory, taskVars, TypeOK
  <2>3. CASE ~(Kind[i] = "spts" /\ Source[i] \notin present)
    <3>1. \A s \in {i} : ch[s] \in 0..MaxGen
      BY <2>1 DEF Reads, TypeOK
    <3>2. Spawn({i}, ch)
      BY <1>15, <2>3 DEF SpawnInput
    <3> HIDE DEF ch
    <3>3. /\ gen' \in [Streams -> 0..MaxGen]
          /\ phase' \in [Streams -> [Gens -> Phases]]
          /\ sub' \in [Streams -> [Gens -> 0..MaxGen]]
          /\ gen[i] + 1 \in 0..MaxGen
      BY <2>1, <3>1, <3>2, SpawnTyped
    <3>5. pc' \in [Clients -> Handlers]
      BY <1>15, <2>3, <3>3, CarryTyped DEF SpawnInput, Labels
    <3> QED
      BY <1>15, <2>3, <3>3, <3>5 DEF SpawnInput, memory, TypeOK
  <2> QED
    BY <2>2, <2>3
<1>16. ASSUME NEW c \in Clients, InsertInput(c)
       PROVE  TypeOK'
  BY SMTT(30), <1>16, ReturnTyped, InitialTyped, PlacedTyped
     DEF InsertInput, At, taskVars, Status, Streams, Handlers, TypeOK
<1>17. ASSUME NEW c \in Clients, InsertFailedInput(c)
       PROVE  TypeOK'
  BY SMTT(30), <1>17, ReturnTyped, PlacedTyped
     DEF InsertFailedInput, At, taskVars, Status, Streams, RowStates, TypeOK
<1>18. ASSUME NEW c \in Clients, RestartInput(c)
       PROVE  TypeOK'
  BY <1>18, GotoTyped, ReturnTyped
     DEF RestartInput, Labels, memory, taskVars, TypeOK
<1>19. ASSUME NEW c \in Clients, Respawn(c)
       PROVE  TypeOK'
  <2> DEFINE i == pc[c].s
  <2>1. i \in Inputs
    BY <1>19, PlacedTyped DEF Respawn
  <2>2. CASE i \notin present
    BY <1>19, <2>2, ReturnTyped DEF Respawn, memory, taskVars, TypeOK
  <2>3. CASE i \in present
    <3>1. PICK failed \in SUBSET StoppedOf(i) :
            LET S == {i} \cup (StoppedOf(i) \ failed) IN
            /\ RestartOutputs(i, failed)
            /\ Spawn(S, [s \in S |-> IF s = i THEN 0 ELSE gen[i] + 1])
            /\ ShowSpawned(S)
            /\ handle'  = [s \in Streams |-> IF s \in S THEN gen[s] + 1
                                                        ELSE handle[s]]
            /\ channel' = [channel EXCEPT ![i] = gen[i] + 1]
      BY <1>19, <2>3 DEF Respawn
    <3> DEFINE S  == {i} \cup (StoppedOf(i) \ failed)
               ch == [s \in S |-> IF s = i THEN 0 ELSE gen[i] + 1]
    <3>2. S \in SUBSET Streams
      BY <2>1 DEF StoppedOf, OutputsOf, Streams
    <3>3. Spawn(S, ch) /\ ShowSpawned(S)
      BY <3>1
    <3>4. \A s \in S : ch[s] \in 0..MaxGen
      BY <2>1, <3>3 DEF Spawn, Streams, TypeOK
    <3> HIDE DEF S, ch
    <3>5. /\ gen' \in [Streams -> 0..MaxGen]
          /\ phase' \in [Streams -> [Gens -> Phases]]
          /\ sub' \in [Streams -> [Gens -> 0..MaxGen]]
          /\ \A s \in S : gen[s] + 1 \in 0..MaxGen
      BY <3>2, <3>3, <3>4, SpawnTyped
    <3>6. status' \in [Streams -> Status]
      BY <3>3, InitialTyped DEF ShowSpawned, TypeOK
    <3>7. /\ handle' \in [Streams -> 0..MaxGen]
          /\ channel' \in [Inputs -> 0..MaxGen]
      BY <3>1, <3>5 DEF S, TypeOK
    <3>8. /\ running' \subseteq Outputs /\ stopped' \subseteq Outputs
          /\ budget' \in [Faults -> Nat]
      BY <2>1, <3>1, RestartTyped
    <3>9. pc' \in [Clients -> Handlers]
      BY <1>19, <2>3, GotoTyped DEF Respawn, Labels
    <3> QED
      BY <1>19, <2>3, <3>5, <3>6, <3>7, <3>8, <3>9 DEF Respawn, TypeOK
  <2> QED
    BY <2>2, <2>3
<1>20. ASSUME NEW c \in Clients, Attach(c)
       PROVE  TypeOK'
  <2> DEFINE i  == pc[c].s
             ch == [s \in {i} |-> channel[Source[i]]]
             ok == Source[i] \in present
  <2>1. i \in Inputs /\ {i} \in SUBSET Streams
    BY <1>20, PlacedTyped DEF Attach, Streams
  <2>2. CASE ~ok
    BY <1>20, <2>2, ReturnTyped DEF Attach, memory, taskVars, TypeOK
  <2>3. CASE ok
    <3>1. \A s \in {i} : ch[s] \in 0..MaxGen
      BY <2>3 DEF TypeOK
    <3>2. Spawn({i}, ch)
      BY <1>20, <2>3 DEF Attach
    <3> HIDE DEF ch
    <3>3. /\ gen' \in [Streams -> 0..MaxGen]
          /\ phase' \in [Streams -> [Gens -> Phases]]
          /\ sub' \in [Streams -> [Gens -> 0..MaxGen]]
          /\ gen[i] + 1 \in 0..MaxGen
      BY <2>1, <3>1, <3>2, SpawnTyped
    <3>5. pc' \in [Clients -> Handlers]
      BY <1>20, <2>3, <3>3, CarryTyped DEF Attach, Labels
    <3> QED
      BY <1>20, <2>3, <3>3, <3>5 DEF Attach, memory, TypeOK
  <2> QED
    BY <2>2, <2>3
<1>21. ASSUME NEW c \in Clients, Adopt(c)
       PROVE  TypeOK'
  <2> DEFINE i == pc[c].s
             g == pc[c].g
  <2>1. i \in Inputs /\ g \in 0..MaxGen
    BY <1>21, PlacedTyped DEF Adopt, Handlers, TypeOK
  <2>2. CASE i \notin present
    BY <1>21, <2>2, ReturnTyped DEF Adopt, memory, taskVars, TypeOK
  <2>3. CASE i \in present
    <3>1. PICK failed \in SUBSET StoppedOf(i) :
            LET S == StoppedOf(i) \ failed IN
            /\ RestartOutputs(i, failed)
            /\ Spawn(S, [s \in S |-> g])
            /\ ShowSpawned({i} \cup S)
            /\ handle' = [s \in Streams |-> IF s = i THEN g
                            ELSE IF s \in S THEN gen[s] + 1 ELSE handle[s]]
            /\ channel' = [channel EXCEPT ![i] = g]
      BY <1>21, <2>3 DEF Adopt
    <3> DEFINE S  == StoppedOf(i) \ failed
               ch == [s \in S |-> g]
    <3>2. S \in SUBSET Streams
      BY DEF StoppedOf, OutputsOf, Streams
    <3>3. Spawn(S, ch) /\ ShowSpawned({i} \cup S)
      BY <3>1
    <3>4. \A s \in S : ch[s] \in 0..MaxGen
      BY <2>1
    <3> HIDE DEF S, ch
    <3>5. /\ gen' \in [Streams -> 0..MaxGen]
          /\ phase' \in [Streams -> [Gens -> Phases]]
          /\ sub' \in [Streams -> [Gens -> 0..MaxGen]]
          /\ \A s \in S : gen[s] + 1 \in 0..MaxGen
      BY <3>2, <3>3, <3>4, SpawnTyped
    <3>6. status' \in [Streams -> Status]
      BY <3>3, InitialTyped DEF ShowSpawned, TypeOK
    <3>7. /\ handle' \in [Streams -> 0..MaxGen]
          /\ channel' \in [Inputs -> 0..MaxGen]
      BY <2>1, <3>1, <3>5 DEF S, TypeOK
    <3>8. /\ running' \subseteq Outputs /\ stopped' \subseteq Outputs
          /\ budget' \in [Faults -> Nat]
      BY <2>1, <3>1, RestartTyped
    <3>9. pc' \in [Clients -> Handlers]
      BY <1>21, <2>3, GotoTyped DEF Adopt, Labels
    <3> QED
      BY <1>21, <2>3, <3>5, <3>6, <3>7, <3>8, <3>9 DEF Adopt, TypeOK
  <2> QED
    BY <2>2, <2>3
<1>22. ASSUME NEW c \in Clients, ProbeInput(c)
       PROVE  TypeOK'
  BY <1>22, GotoTyped, ReturnTyped
     DEF ProbeInput, Labels, memory, taskVars, TypeOK
<1>23. ASSUME NEW c \in Clients, HaltForUpdate(c)
       PROVE  TypeOK'
  <2>1. pc[c].s \in Inputs
    BY <1>23 DEF HaltForUpdate
  <2>2. pc' \in [Clients -> Handlers]
    BY <1>23, GotoTyped, ReturnTyped DEF HaltForUpdate, Labels
  <2>3. CASE MayStop(pc[c].s)
    BY <1>23, <2>1, <2>2, <2>3, HaltInputTyped DEF HaltForUpdate, TypeOK
  <2>4. CASE ~MayStop(pc[c].s)
    BY <1>23, <2>2, <2>4 DEF HaltForUpdate, memory, taskVars, TypeOK
  <2> QED
    BY <2>3, <2>4
<1>24. ASSUME NEW c \in Clients, BeginOutput(c)
       PROVE  TypeOK'
  <2> DEFINE o == pc[c].s
  <2>1. o \in Outputs
    BY <1>24, PlacedTyped DEF BeginOutput
  <2>2. pc' \in [Clients -> Handlers]
    BY <1>24, GotoTyped, ReturnTyped DEF BeginOutput, Labels
  <2>3. CASE stopped' = stopped \ {o} /\ RunOutput(o)
    BY <1>24, <2>1, <2>2, <2>3, RunOutputTyped DEF BeginOutput, TypeOK
  <2>4. CASE stopped' = stopped \ {o} /\ LookupFails(o)
    BY <1>24, <2>1, <2>2, <2>4, LookupFailsTyped
       DEF BeginOutput, taskVars, TypeOK
  <2>5. CASE UNCHANGED <<memory, taskVars, budget>>
    BY <1>24, <2>2, <2>5 DEF BeginOutput, memory, taskVars, TypeOK
  <2> QED
    BY <1>24, <2>3, <2>4, <2>5 DEF BeginOutput
<1>25. ASSUME NEW c \in Clients, EndOutput(c)
       PROVE  TypeOK'
  <2>1. pc[c].s \in Outputs
    BY <1>25, PlacedTyped DEF EndOutput
  <2>2. pc' \in [Clients -> Handlers]
    BY <1>25, GotoTyped, ReturnTyped DEF EndOutput, Labels
  <2>3. CASE HaltOutput(pc[c].s)
    BY <2>1, <2>2, <2>3, HaltOutputTyped
  <2>4. CASE UNCHANGED <<memory, taskVars, queue, row, budget>>
    BY <2>2, <2>4 DEF memory, taskVars, TypeOK
  <2> QED
    BY <1>25, <2>3, <2>4 DEF EndOutput
<1>26. ASSUME NEW c \in Clients, ProbeOutput(c)
       PROVE  TypeOK'
  BY <1>26, GotoTyped, ReturnTyped
     DEF ProbeOutput, Labels, memory, taskVars, TypeOK
<1>27. ASSUME NEW c \in Clients, ParkOutput(c)
       PROVE  TypeOK'
  BY <1>27, GotoTyped, PlacedTyped
     DEF ParkOutput, At, Labels, taskVars, TypeOK
<1>28. ASSUME NEW c \in Clients, ReadStatus(c)
       PROVE  TypeOK'
  BY <1>28, StatusReadTyped
     DEF ReadStatus, memory, taskVars, TypeOK
<1>29. ASSUME NEW c \in Clients, WriteRow(c)
       PROVE  TypeOK'
  BY <1>29, ReturnTyped, PlacedTyped, FinalStatusTyped
     DEF WriteRow, At, RowStates, memory, taskVars, TypeOK
<1>30. ASSUME Restart
       PROVE  TypeOK'
  <2>1. budget' \in [Faults -> Nat]
    BY <1>30, SpendTyped DEF Restart, Faults
  <2>2. <<>> \in Seq(Messages)
    BY EmptySeq
  <2>3. row' \in [Streams -> RowStates]
    BY <1>30 DEF Restart, CaughtDeleting, DeleteRows, RowStates, TypeOK
  <2> QED
    BY <1>30, <2>1, <2>2, <2>3, LoadTyped, IdleTyped DEF Restart, TypeOK
<1>31. ASSUME NEW c \in Clients, ReachInput(c) \/ CheckSource(c)
       PROVE  TypeOK'
  BY <1>31, GotoTyped, ReturnTyped
     DEF ReachInput, CheckSource, Labels, memory, taskVars, TypeOK
<1>32. CASE UNCHANGED vars
  BY <1>32 DEF vars, memory, taskVars, TypeOK
<1> QED
  BY <1>1, <1>2, <1>3, <1>4, <1>5, <1>6, <1>7, <1>8, <1>9, <1>10, <1>11,
     <1>12, <1>13, <1>14, <1>15, <1>16,
     <1>17, <1>18, <1>19, <1>20, <1>21, <1>22, <1>23, <1>24, <1>25, <1>26,
     <1>27, <1>28, <1>29, <1>30, <1>31, <1>32
     DEF Next, TaskAction, Request, Continue
=============================================================================
