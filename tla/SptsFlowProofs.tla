--------------------------- MODULE SptsFlowProofs ---------------------------
(***************************************************************************)
(* The UDP receiver and the SPTS task, for every multiplex, every capacity *)
(* of the channel and every timeout: both implement what StreamControl     *)
(* assumes of their tasks, all variables keep their types, and the filter  *)
(* follows the tables it is shown.                                         *)
(*                                                                         *)
(* For the receiver it is enough that it is not connected before it is     *)
(* bound, and that the idle branch is armed only within select! and while  *)
(* connected.  What the filter knows depends on what is on the way to it:  *)
(* which tables the packets between the socket and the filter carry, and   *)
(* that they carry them in the order in which they were on air.            *)
(***************************************************************************)
EXTENDS SptsFlow, TLAPS

ReceiverInv ==
  /\ pos = "bind" => ~connected
  /\ armed => connected /\ pos = "wait"

LEMMA ReceiverInit == Init => ReceiverInv
BY DEF Init, ReceiverInv

LEMMA ReceiverStep == ReceiverInv /\ [Next]_vars => ReceiverInv'
<1> SUFFICES ASSUME ReceiverInv, [Next]_vars PROVE ReceiverInv'
  OBVIOUS
<1> USE DEF ReceiverInv
<1>1. CASE Mux
  BY <1>1 DEF Mux, ChangePat, ChangePmt, udpVars
<1>2. CASE Bind
  BY <1>2 DEF Bind
<1>3. CASE EnterSelect
  BY <1>3 DEF EnterSelect
<1>4. CASE ReceiveError
  BY <1>4 DEF ReceiveError, LeaveSelect
<1>5. CASE GoIdle
  BY <1>5 DEF GoIdle, LeaveSelect
<1>6. CASE DropReceiver
  BY <1>6 DEF DropReceiver, LeaveSelect
<1>7. CASE \E d \in Datagrams : Receive(d)
  BY <1>7 DEF Receive, LeaveSelect
<1>8. CASE Tick
  BY <1>8 DEF Tick
<1>9. CASE ReleaseChannel
  BY <1>9 DEF ReleaseChannel, udpVars
<1>10. CASE SptsTask
  BY <1>10 DEF SptsTask, FirstPoll, Lag, Take, FilterPacket, Broadcast,
               SourceClosed, DropFilter, udpVars
<1>11. CASE UNCHANGED vars
  BY <1>11 DEF vars, udpVars
<1> QED
  BY <1>1, <1>2, <1>3, <1>4, <1>5, <1>6, <1>7, <1>8, <1>9, <1>10, <1>11
     DEF Next, Receiver

-----------------------------------------------------------------------------
(* The receiver *)

LEMMA UdpInit == Init => UdpLife!Init
BY DEF Init, UdpLife!Init, UdpPhase, UdpLife!InputKinds

\* What TaskLife allows a UDP receiver in each phase.
LEMMA MovesOfUdp ==
  /\ UdpPhase = "start" => {Move("Listening", "waiting"),
                            Fault("Error", "done")} \subseteq UdpLife!LifeMoves
  /\ UdpPhase = "waiting" => {Move("Connected", "flowing"),
                              Fault("nothing", "done")} \subseteq UdpLife!LifeMoves
  /\ UdpPhase = "flowing" => {Move("Listening", "waiting"),
                              Fault("nothing", "done")} \subseteq UdpLife!LifeMoves
BY DEF UdpLife!LifeMoves, UdpLife!InputMoves, UdpLife!UdpInputMoves,
       UdpLife!Move, UdpLife!Fault, Move, Fault

LEMMA MoveIsUdpStep ==
  ASSUME NEW m \in UdpLife!LifeMoves,
         UdpPhase' = m.next,
         said' = IF m.say = "nothing" THEN said ELSE m.say
  PROVE  UdpLife!MakeMove
BY DEF UdpLife!MakeMove

UdpLifeNext == UdpLife!MakeMove \/ UdpLife!Close \/ UdpLife!Drop

LEMMA UdpStep == ReceiverInv /\ [Next]_vars => [UdpLifeNext]_UdpLife!lifeVars
<1> SUFFICES ASSUME ReceiverInv, [Next]_vars
             PROVE  [UdpLifeNext]_UdpLife!lifeVars
  OBVIOUS
<1> USE DEF UdpLifeNext
<1>a. ASSUME UNCHANGED udpVars PROVE UNCHANGED UdpLife!lifeVars
  BY <1>a DEF udpVars, UdpPhase, UdpLife!lifeVars
<1>1. CASE Mux
  BY <1>1, <1>a DEF Mux, ChangePat, ChangePmt
<1>2. CASE Bind
  <2>1. UdpPhase = "start"
    BY <1>2 DEF Bind, UdpPhase
  <2>2. CASE pos' = "loop" /\ said' = "Listening"
    <3> DEFINE m == Move("Listening", "waiting")
    <3>1. m \in UdpLife!LifeMoves
      BY <2>1, MovesOfUdp
    <3>2. m.say = "Listening" /\ m.next = "waiting"
      BY DEF Move
    <3> QED BY <1>2, <2>2, <3>1, <3>2, MoveIsUdpStep DEF Bind, UdpPhase, ReceiverInv
  <2>3. CASE pos' = "gone" /\ said' = "Error"
    <3> DEFINE m == Fault("Error", "done")
    <3>1. m \in UdpLife!LifeMoves
      BY <2>1, MovesOfUdp
    <3>2. m.say = "Error" /\ m.next = "done"
      BY DEF Fault
    <3> QED BY <1>2, <2>3, <3>1, <3>2, MoveIsUdpStep DEF Bind, UdpPhase, ReceiverInv
  <2> QED BY <1>2, <2>2, <2>3 DEF Bind
<1>3. CASE EnterSelect
  BY <1>3 DEF EnterSelect, UdpPhase, UdpLife!lifeVars
<1>4. CASE ReceiveError
  <2> DEFINE m == Fault("nothing", "done")
  <2>1. m \in UdpLife!LifeMoves
    BY <1>4, MovesOfUdp DEF ReceiveError, UdpPhase
  <2>2. m.say = "nothing" /\ m.next = "done"
    BY DEF Fault
  <2> QED BY <1>4, <2>1, <2>2, MoveIsUdpStep DEF ReceiveError, UdpPhase
<1>5. CASE GoIdle
  <2> DEFINE m == Move("Listening", "waiting")
  <2>1. m \in UdpLife!LifeMoves
    BY <1>5, MovesOfUdp DEF GoIdle, UdpPhase, ReceiverInv
  <2>2. m.say = "Listening" /\ m.next = "waiting"
    BY DEF Move
  <2> QED BY <1>5, <2>1, <2>2, MoveIsUdpStep DEF GoIdle, UdpPhase
<1>6. CASE DropReceiver
  BY <1>6 DEF DropReceiver, UdpPhase, UdpLife!Drop, UdpLife!LivePhases
<1>7. ASSUME NEW d \in Datagrams, Receive(d) PROVE [UdpLifeNext]_UdpLife!lifeVars
  <2>1. CASE connected
    BY <1>7, <2>1 DEF Receive, UdpPhase, UdpLife!lifeVars
  <2>2. CASE ~connected
    <3> DEFINE m == Move("Connected", "flowing")
    <3>1. m \in UdpLife!LifeMoves
      BY <1>7, <2>2, MovesOfUdp DEF Receive, UdpPhase
    <3>2. m.say = "Connected" /\ m.next = "flowing"
      BY DEF Move
    <3> QED BY <1>7, <2>2, <3>1, <3>2, MoveIsUdpStep DEF Receive, UdpPhase
  <2> QED BY <2>1, <2>2
<1>8. CASE Tick
  BY <1>8 DEF Tick, UdpPhase, UdpLife!lifeVars
<1>9. CASE ReleaseChannel
  BY <1>9, <1>a DEF ReleaseChannel
<1>10. CASE SptsTask
  BY <1>10, <1>a DEF SptsTask, FirstPoll, Lag, Take, FilterPacket, Broadcast,
                     SourceClosed, DropFilter, vars
<1>11. CASE UNCHANGED vars
  BY <1>11, <1>a DEF vars
<1> QED
  BY <1>1, <1>2, <1>3, <1>4, <1>5, <1>6, <1>7, <1>8, <1>9, <1>10, <1>11
     DEF Next, Receiver

\* The receive loop, its idle branch included, makes only the moves and sends
\* only the statuses that StreamTask lists for a UDP input.
THEOREM ReceiverImplementsLife == Spec => UdpImplementsLife
<1>1. Spec => []ReceiverInv
  BY ReceiverInit, ReceiverStep, PTL DEF Spec
<1> QED
  BY <1>1, UdpInit, UdpStep, PTL
     DEF Spec, UdpImplementsLife, UdpLife!Spec, UdpLifeNext

-----------------------------------------------------------------------------
(* The SPTS task *)

PassingWhenPolled == fpos = "start" => ~passing

LEMMA SptsInit == Init => SptsLife!Init /\ PassingWhenPolled
BY DEF Init, SptsLife!Init, SptsPhase, SptsLife!InputKinds, Closed,
       PassingWhenPolled

LEMMA PassingStep == PassingWhenPolled /\ [Next]_vars => PassingWhenPolled'
<1> SUFFICES ASSUME PassingWhenPolled, [Next]_vars PROVE PassingWhenPolled'
  OBVIOUS
<1> USE DEF PassingWhenPolled
<1>1. CASE SptsTask
  BY <1>1 DEF SptsTask, FirstPoll, Lag, Take, FilterPacket, Broadcast,
              SourceClosed, DropFilter, sptsVars
<1>2. CASE ~SptsTask
  BY <1>2 DEF Next, Mux, ChangePat, ChangePmt, Receiver, Bind, EnterSelect,
              ReceiveError, GoIdle, DropReceiver, Receive, Tick,
              ReleaseChannel, vars, sptsVars
<1> QED BY <1>1, <1>2

\* What TaskLife allows an SPTS task in each phase.
LEMMA MovesOfSpts ==
  /\ SptsPhase = "start" => Move("Listening", "waiting") \in SptsLife!LifeMoves
  /\ SptsPhase = "waiting" => Move("Connected", "flowing") \in SptsLife!LifeMoves
  /\ SptsPhase \in {"waiting", "flowing"} /\ Closed =>
       Move("Stopped", "done") \in SptsLife!LifeMoves
BY DEF SptsLife!LifeMoves, SptsLife!InputMoves, SptsLife!SptsMoves,
       SptsLife!Move, Move

LEMMA MoveIsSptsStep ==
  ASSUME NEW m \in SptsLife!LifeMoves,
         SptsPhase' = m.next,
         fsaid' = IF m.say = "nothing" THEN fsaid ELSE m.say,
         Closed' = Closed
  PROVE  SptsLife!MakeMove
BY DEF SptsLife!MakeMove

SptsLifeNext == SptsLife!MakeMove \/ SptsLife!Close \/ SptsLife!Drop

\* The channel, once it is closed, stays so.
LEMMA ClosedStays == [Next]_vars => (Closed' = Closed \/ (~Closed /\ Closed'))
<1> SUFFICES ASSUME [Next]_vars PROVE Closed => Closed'
  BY DEF Closed
<1> USE DEF Closed
<1>1. CASE SptsTask
  BY <1>1 DEF SptsTask, FirstPoll, Lag, Take, FilterPacket, Broadcast,
              SourceClosed, DropFilter, udpVars, vars
<1>2. CASE ~SptsTask
  BY <1>2 DEF Next, Mux, ChangePat, ChangePmt, Receiver, Bind, EnterSelect,
              ReceiveError, GoIdle, DropReceiver, Receive, Tick,
              ReleaseChannel, vars, udpVars
<1> QED BY <1>1, <1>2

LEMMA SptsStep == PassingWhenPolled /\ [Next]_vars => [SptsLifeNext]_SptsLife!lifeVars
<1> SUFFICES ASSUME PassingWhenPolled, [Next]_vars
             PROVE  [SptsLifeNext]_SptsLife!lifeVars
  OBVIOUS
<1> USE DEF SptsLifeNext
<1>1. CASE ~SptsTask
  <2>1. UNCHANGED sptsVars
    BY <1>1 DEF Next, Mux, ChangePat, ChangePmt, Receiver, Bind, EnterSelect,
                ReceiveError, GoIdle, DropReceiver, Receive, Tick,
                ReleaseChannel, vars
  <2>2. UNCHANGED <<SptsPhase, fsaid>>
    BY <2>1 DEF sptsVars, SptsPhase
  <2> QED BY <2>2, ClosedStays DEF SptsLife!Close, SptsLife!lifeVars
<1>2. CASE SptsTask
  <2>0. Closed' = Closed
    BY <1>2 DEF SptsTask, FirstPoll, Lag, Take, FilterPacket, Broadcast,
                SourceClosed, DropFilter, udpVars, Closed
  <2>1. CASE FirstPoll
    <3> DEFINE m == Move("Listening", "waiting")
    <3>1. m \in SptsLife!LifeMoves
      BY <2>1, MovesOfSpts DEF FirstPoll, SptsPhase
    <3>2. m.say = "Listening" /\ m.next = "waiting"
      BY DEF Move
    <3> QED BY <2>0, <2>1, <3>1, <3>2, MoveIsSptsStep
               DEF FirstPoll, SptsPhase, PassingWhenPolled
  <2>2. CASE Lag \/ Take \/ FilterPacket
    BY <2>0, <2>2 DEF Lag, Take, FilterPacket, sptsVars, SptsPhase,
                      SptsLife!lifeVars
  <2>3. CASE Broadcast
    <3>1. CASE ~passing /\ some
      <4> DEFINE m == Move("Connected", "flowing")
      <4>1. m \in SptsLife!LifeMoves
        BY <2>3, <3>1, MovesOfSpts DEF Broadcast, SptsPhase
      <4>2. m.say = "Connected" /\ m.next = "flowing"
        BY DEF Move
      <4> QED BY <2>0, <2>3, <3>1, <4>1, <4>2, MoveIsSptsStep
                 DEF Broadcast, SptsPhase
    <3>2. CASE ~(~passing /\ some)
      BY <2>0, <2>3, <3>2 DEF Broadcast, SptsPhase, SptsLife!lifeVars
    <3> QED BY <3>1, <3>2
  <2>4. CASE SourceClosed
    <3> DEFINE m == Move("Stopped", "done")
    <3>1. m \in SptsLife!LifeMoves
      BY <2>4, MovesOfSpts DEF SourceClosed, SptsPhase
    <3>2. m.say = "Stopped" /\ m.next = "done"
      BY DEF Move
    <3> QED BY <2>0, <2>4, <3>1, <3>2, MoveIsSptsStep DEF SourceClosed, SptsPhase
  <2>5. CASE DropFilter
    BY <2>0, <2>5 DEF DropFilter, SptsPhase, SptsLife!Drop, SptsLife!LivePhases
  <2> QED BY <1>2, <2>1, <2>2, <2>3, <2>4, <2>5 DEF SptsTask
<1> QED BY <1>1, <1>2

\* From its first poll to the end of its source, with packets lost and tables
\* changing, the filter task makes only the moves and sends only the statuses
\* that StreamTask lists for an SPTS input.
THEOREM FilterImplementsLife == Spec => SptsImplementsLife
<1>1. Spec => []PassingWhenPolled
  BY SptsInit, PassingStep, PTL DEF Spec
<1> QED
  BY <1>1, SptsInit, SptsStep, PTL
     DEF Spec, SptsImplementsLife, SptsLife!Spec, SptsLifeNext

-----------------------------------------------------------------------------
(* Types *)

PatType == \A n \in 1..Len(Pats) : \A p \in Programs :
             Pats[n][p] = {} \/ \E q \in Pids : Pats[n][p] = {q}
PmtType == \A p \in Programs : \A n \in 1..Len(Pmts[p]) :
             Pmts[p][n] \in SUBSET Pids

LEMMA TableTypes ==
  /\ Target \in Programs /\ Len(Pats) \in Nat
  /\ \A p \in Programs : Len(Pmts[p]) \in Nat
  /\ PatType /\ PmtType
<1>1. Target \in Programs /\ Len(Pats) \in Nat
  BY ProgramFilterAssumption
<1>2. ASSUME NEW n \in 1..Len(Pats), NEW p \in Programs
      PROVE  Pats[n][p] = {} \/ \E q \in Pids : Pats[n][p] = {q}
  <2> DEFINE Edition == [Programs -> {{}} \cup {{q} : q \in Pids}]
  <2>1. Pats \in Seq(Edition)
    BY ProgramFilterAssumption
  <2> HIDE DEF Edition
  <2>2. Pats[n] \in Edition
    BY <2>1
  <2> QED BY <2>2 DEF Edition
<1>3. ASSUME NEW p \in Programs
      PROVE  Pmts[p] \in Seq(SUBSET Pids) /\ Len(Pmts[p]) \in Nat
  BY ProgramFilterAssumption
<1>4. ASSUME NEW p \in Programs
      PROVE  \A n \in 1..Len(Pmts[p]) : Pmts[p][n] \in SUBSET Pids
  BY <1>3
<1> QED BY <1>1, <1>2, <1>3, <1>4 DEF PatType, PmtType

\* What a filter keeps about the tables.
Filters == [pmt : SUBSET Pids, pids : SUBSET Pids,
            patV : SUBSET (0..Versions-1), pmtV : SUBSET (0..Versions-1)]

LEMMA VersionType == ASSUME NEW n \in Nat PROVE Version(n) \in 0..Versions-1
BY ProgramFilterAssumption DEF Version

\* A packet with a table carries an edition that exists.
LEMMA PacketType ==
  ASSUME NEW k \in Packets
  PROVE  /\ k.table \in {"PAT", "PMT", "none"} /\ k.n \in Nat
         /\ k.table = "PAT" => k.n \in 1..Len(Pats) /\ k.pid = PatPid
         /\ k.table = "PMT" => k.prog \in Programs /\ k.n \in 1..Len(Pmts[k.prog])
<1>1. CASE k \in {Plain(q) : q \in Loose}
  BY <1>1 DEF Plain
<1>2. CASE k \in {PatPacket(n) : n \in 1..Len(Pats)}
  BY <1>2, TableTypes DEF PatPacket
<1>3. ASSUME NEW p \in Programs, NEW q \in Pids, NEW n \in 1..Len(Pmts[p]),
             k = PmtPacket(q, p, n)
      PROVE  k.table = "PMT" /\ k.n \in 1..Len(Pmts[k.prog]) /\ k.prog = p /\ k.n \in Nat
  BY <1>3, TableTypes DEF PmtPacket
<1> QED BY <1>1, <1>2, <1>3 DEF Packets

LEMMA LearnType ==
  ASSUME NEW f \in Filters, NEW k \in Packets PROVE Learn(f, k) \in Filters
<1>1. {Version(k.n)} \in SUBSET (0..Versions-1)
  BY PacketType, VersionType
<1>2. ProcessPat(f, k) \in Filters
  <2>1. CASE k.table = "PAT"
    <3>1. Pats[k.n][Target] \in SUBSET Pids
      BY <2>1, PacketType, TableTypes DEF PatType
    <3> QED BY <1>1, <3>1 DEF ProcessPat, Filters
  <2> QED BY <2>1 DEF ProcessPat
<1>3. ProcessPmt(f, k) \in Filters
  <2>1. CASE k.table = "PMT"
    <3>1. Pmts[k.prog][k.n] \in SUBSET Pids
      BY <2>1, PacketType, TableTypes DEF PmtType
    <3> QED BY <1>1, <3>1 DEF ProcessPmt, Filters
  <2> QED BY <2>1 DEF ProcessPmt
<1> QED BY <1>2, <1>3 DEF Learn

OnAirEditions ==
  patEd \in 1..Len(Pats) /\ \A p \in Programs : pmtEd[p] \in 1..Len(Pmts[p])

LEMMA PmtOnAir ==
  ASSUME OnAirEditions, NEW p \in Programs, NEW k \in PmtNow(p)
  PROVE  k \in Packets /\ k.pid \in Pats[patEd][p] /\ k.table = "PMT" /\ k.prog = p
<1>1. PICK q \in Pats[patEd][p] : k = PmtPacket(q, p, pmtEd[p])
  BY DEF PmtNow
<1>2. q \in Pids
  BY TableTypes DEF PatType, OnAirEditions
<1>3. k \in {PmtPacket(r, p, n) : r \in Pids, n \in 1..Len(Pmts[p])}
  BY <1>1, <1>2 DEF OnAirEditions
<1> QED BY <1>1, <1>3 DEF Packets, PmtPacket

LEMMA OnAirType == OnAirEditions => OnAir \subseteq Packets
<1> SUFFICES ASSUME OnAirEditions, NEW k \in OnAir PROVE k \in Packets
  OBVIOUS
<1>1. CASE k = PatNow
  BY <1>1 DEF PatNow, Packets, OnAirEditions
<1>2. ASSUME NEW p \in Programs, k \in PmtNow(p) PROVE k \in Packets
  BY <1>2, PmtOnAir
<1>3. CASE k \in {Plain(q) : q \in Loose}
  BY <1>3 DEF Packets
<1>4. k = PatNow \/ (\E p \in Programs : k \in PmtNow(p))
        \/ k \in {Plain(q) : q \in Loose}
  BY DEF OnAir
<1> QED BY <1>1, <1>2, <1>3, <1>4

LEMMA DatagramType ==
  ASSUME OnAirEditions, NEW d \in Datagrams
  PROVE  d \in Seq(Packets) /\ \A i \in 1..Len(d) : d[i] \in OnAir
<1>1. PICK m \in 1..MaxBatch : d \in [1..m -> OnAir]
  BY DEF Datagrams
<1>2. d \in Seq(OnAir)
  BY <1>1, SptsFlowAssumption
<1> QED BY <1>2, OnAirType

\* The parts of the type invariant; what is counted or a sequence apart from
\* what is a flag.
UdpTypeOK ==
  /\ pos \in {"bind", "loop", "wait", "gone"} /\ connected \in BOOLEAN
  /\ armed \in BOOLEAN /\ said \in Says /\ held \in BOOLEAN
ClockTypeOK == idle \in 0..Timeout /\ nap \in 0..Timeout
RingTypeOK  == ring \in Seq(Seq(Packets)) /\ Len(ring) =< Capacity
SptsTypeOK ==
  /\ fsaid \in Says /\ fpos \in {"start", "recv", "work", "gone"}
  /\ fill \in BOOLEAN /\ some \in BOOLEAN /\ passing \in BOOLEAN
  /\ lagged \in BOOLEAN
WorkTypeOK ==
  /\ filter \in Filters /\ todo \in Seq(Packets)
  /\ seenPat \in 0..Len(Pats) /\ seenPmt \in 0..Len(Pmts[Target])

LEMMA TypeParts ==
  TypeOK <=> /\ OnAirEditions /\ UdpTypeOK /\ ClockTypeOK /\ RingTypeOK
             /\ SptsTypeOK /\ WorkTypeOK
BY DEF TypeOK, OnAirEditions, UdpTypeOK, ClockTypeOK, RingTypeOK, SptsTypeOK,
       WorkTypeOK, Filters, Editions

LEMMA SaysType == {"nothing", "Listening", "Connected", "Error", "Stopped"} \subseteq Says
BY DEF Says, Status

LEMMA TypeInit == Init => TypeOK
<1> SUFFICES ASSUME Init PROVE TypeOK
  OBVIOUS
<1>1. OnAirEditions
  BY ProgramFilterAssumption, SptsFlowAssumption DEF Init, OnAirEditions
<1>2. UdpTypeOK /\ SptsTypeOK
  BY SaysType, Zenon DEF Init, UdpTypeOK, SptsTypeOK
<1>3. ClockTypeOK
  BY SptsFlowAssumption DEF Init, ClockTypeOK
<1>4. RingTypeOK
  BY SptsFlowAssumption DEF Init, RingTypeOK
<1>5. WorkTypeOK
  <2>1. filter \in Filters
    BY DEF Init, NewFilter, Filters
  <2> QED BY <2>1, TableTypes DEF Init, WorkTypeOK
<1> QED BY <1>1, <1>2, <1>3, <1>4, <1>5, TypeParts

LEMMA EditionsStep == OnAirEditions /\ [Next]_vars => OnAirEditions'
<1> SUFFICES ASSUME OnAirEditions, [Next]_vars PROVE OnAirEditions'
  OBVIOUS
<1> USE DEF OnAirEditions
<1>1. CASE ChangePat
  BY <1>1, TableTypes DEF ChangePat
<1>2. ASSUME NEW p \in Programs, ChangePmt(p) PROVE OnAirEditions'
  BY <1>2, TableTypes DEF ChangePmt
<1>3. CASE UNCHANGED muxVars
  BY <1>3 DEF muxVars
<1> QED
  BY <1>1, <1>2, <1>3
     DEF Next, Mux, Receiver, Bind, EnterSelect, ReceiveError, GoIdle,
         DropReceiver, Receive, Tick, ReleaseChannel, SptsTask, FirstPoll,
         Lag, Take, FilterPacket, Broadcast, SourceClosed, DropFilter, vars

\* What a step of each kind leaves alone.
LEMMA Untouched ==
  ASSUME [Next]_vars
  PROVE  /\ Receiver \/ Tick \/ ReleaseChannel \/ UNCHANGED <<udpVars, held>>
         /\ (\E d \in Datagrams : Receive(d)) \/ Lag \/ Take \/ UNCHANGED chanVars
         /\ SptsTask \/ UNCHANGED sptsVars
<1>1. Receiver \/ Tick \/ ReleaseChannel \/ UNCHANGED <<udpVars, held>>
  BY DEF Next, Mux, ChangePat, ChangePmt, SptsTask, FirstPoll, Lag, Take,
         FilterPacket, Broadcast, SourceClosed, DropFilter, vars
<1>2. (\E d \in Datagrams : Receive(d)) \/ Lag \/ Take \/ UNCHANGED chanVars
  BY DEF Next, Mux, ChangePat, ChangePmt, Receiver, Bind, EnterSelect,
         ReceiveError, GoIdle, DropReceiver, Tick, ReleaseChannel, SptsTask,
         FirstPoll, FilterPacket, Broadcast, SourceClosed, DropFilter, vars
<1>3. SptsTask \/ UNCHANGED sptsVars
  BY DEF Next, Mux, ChangePat, ChangePmt, Receiver, Bind, EnterSelect,
         ReceiveError, GoIdle, DropReceiver, Receive, Tick, ReleaseChannel, vars
<1> QED BY <1>1, <1>2, <1>3

LEMMA UdpTypeStep ==
  UdpTypeOK /\ ClockTypeOK /\ [Next]_vars => UdpTypeOK' /\ ClockTypeOK'
<1> SUFFICES ASSUME UdpTypeOK, ClockTypeOK, [Next]_vars
             PROVE  UdpTypeOK' /\ ClockTypeOK'
  OBVIOUS
<1>1. CASE Receiver \/ Tick \/ ReleaseChannel
  <2>1. ClockTypeOK'
    BY <1>1, SptsFlowAssumption
       DEF Receiver, Bind, EnterSelect, ReceiveError, GoIdle, DropReceiver,
           Receive, LeaveSelect, Tick, ReleaseChannel, udpVars, ClockTypeOK
  <2>2. armed' \in BOOLEAN
    BY <1>1, Zenon
       DEF Receiver, Bind, EnterSelect, ReceiveError, GoIdle, DropReceiver,
           Receive, LeaveSelect, Tick, ReleaseChannel, udpVars, UdpTypeOK
  <2>3. connected' \in BOOLEAN /\ held' \in BOOLEAN
    BY <1>1, Zenon
       DEF Receiver, Bind, EnterSelect, ReceiveError, GoIdle, DropReceiver,
           Receive, Tick, ReleaseChannel, udpVars, UdpTypeOK
  <2>4. pos' \in {"bind", "loop", "wait", "gone"} /\ said' \in Says
    BY <1>1, SaysType
       DEF Receiver, Bind, EnterSelect, ReceiveError, GoIdle, DropReceiver,
           Receive, Tick, ReleaseChannel, udpVars, UdpTypeOK
  <2> QED BY <2>1, <2>2, <2>3, <2>4 DEF UdpTypeOK
<1>2. CASE UNCHANGED <<udpVars, held>>
  BY <1>2 DEF udpVars, UdpTypeOK, ClockTypeOK
<1> QED BY <1>1, <1>2, Untouched

LEMMA RingTypeStep == OnAirEditions /\ RingTypeOK /\ [Next]_vars => RingTypeOK'
<1> SUFFICES ASSUME OnAirEditions, RingTypeOK, [Next]_vars PROVE RingTypeOK'
  OBVIOUS
<1> USE DEF RingTypeOK
<1>1. ASSUME NEW d \in Datagrams, Receive(d) PROVE RingTypeOK'
  <2>1. d \in Seq(Packets)
    BY DatagramType
  <2>2. CASE ring' = ring
    BY <2>2
  <2>3. CASE Len(ring) = Capacity /\ ring' = Append(Tail(ring), d)
    BY <2>1, <2>3, SptsFlowAssumption
  <2>4. CASE Len(ring) # Capacity /\ ring' = Append(ring, d)
    BY <2>1, <2>4, SptsFlowAssumption
  <2> QED BY <1>1, <2>2, <2>3, <2>4 DEF Receive, Publish, chanVars
<1>2. CASE Lag
  BY <1>2 DEF Lag
<1>3. CASE Take
  BY <1>3, SptsFlowAssumption DEF Take
<1>4. CASE UNCHANGED chanVars
  BY <1>4 DEF chanVars
<1> QED BY <1>1, <1>2, <1>3, <1>4, Untouched

LEMMA SptsTypeStep == SptsTypeOK /\ [Next]_vars => SptsTypeOK'
<1> SUFFICES ASSUME SptsTypeOK, [Next]_vars PROVE SptsTypeOK'
  OBVIOUS
<1>1. fpos' \in {"start", "recv", "work", "gone"} /\ fsaid' \in Says
  BY Untouched, SaysType
     DEF SptsTypeOK, SptsTask, FirstPoll, Lag, Take, FilterPacket, Broadcast,
         SourceClosed, DropFilter, sptsVars
<1>2. fill' \in BOOLEAN /\ passing' \in BOOLEAN /\ some' \in BOOLEAN
  BY Untouched, Zenon
     DEF SptsTypeOK, SptsTask, FirstPoll, Lag, Take, FilterPacket, Broadcast,
         SourceClosed, DropFilter, sptsVars
<1>3. lagged' \in BOOLEAN
  BY Untouched, Zenon DEF SptsTypeOK, Receive, Publish, Lag, Take, chanVars
<1> QED BY <1>1, <1>2, <1>3 DEF SptsTypeOK

LEMMA WorkTypeStep == RingTypeOK /\ WorkTypeOK /\ [Next]_vars => WorkTypeOK'
<1> SUFFICES ASSUME RingTypeOK, WorkTypeOK, [Next]_vars PROVE WorkTypeOK'
  OBVIOUS
<1> USE DEF WorkTypeOK
<1>1. CASE Take
  BY <1>1 DEF Take, RingTypeOK
<1>2. CASE FilterPacket
  <2> DEFINE k == Head(todo)
  <2>1. k \in Packets /\ todo' \in Seq(Packets)
    BY <1>2 DEF FilterPacket
  <2>2. filter' \in Filters
    BY <1>2, <2>1, LearnType DEF FilterPacket
  <2>3. seenPat' \in 0..Len(Pats) /\ seenPmt' \in 0..Len(Pmts[Target])
    BY <1>2, <2>1, PacketType, TableTypes DEF FilterPacket, OnTargetPmt
  <2> QED BY <2>1, <2>2, <2>3
<1>3. CASE UNCHANGED <<filter, todo, seenPat, seenPmt>>
  BY <1>3
<1> QED
  BY <1>1, <1>2, <1>3, Untouched
     DEF SptsTask, FirstPoll, Lag, Broadcast, SourceClosed, DropFilter, sptsVars

LEMMA TypeStep == TypeOK /\ [Next]_vars => TypeOK'
<1> SUFFICES ASSUME TypeOK, [Next]_vars PROVE TypeOK'
  OBVIOUS
<1>1. /\ OnAirEditions' /\ UdpTypeOK' /\ ClockTypeOK' /\ RingTypeOK'
      /\ SptsTypeOK' /\ WorkTypeOK'
  BY TypeParts, EditionsStep, UdpTypeStep, RingTypeStep, SptsTypeStep,
     WorkTypeStep
<1> QED BY <1>1, TypeParts, PTL

\* Every reachable state has the types of the invariant: an edition filtered
\* was on air, the channel never holds more than its capacity.
THEOREM FlowTypeCorrect == Spec => []TypeOK
BY TypeInit, TypeStep, PTL DEF Spec

-----------------------------------------------------------------------------
(* The filter follows the tables *)

\* No two editions of a table that the filter compares have the same version.
FewEditions == Len(Pats) =< Versions /\ Len(Pmts[Target]) =< Versions

\* A table on its way to the filter was on air: a PAT not before the last one
\* filtered, and a PMT on a PID that some PAT has given it.
Due(k, seen, now) ==
  /\ k.table = "PAT" => k.n \in seen..now
  /\ k.table = "PMT" => \E m \in 1..now : k.pid \in Pats[m][k.prog]
AllDue(d, seen, now) == \A i \in 1..Len(d) : Due(d[i], seen, now)

\* The PATs of datagram e are not older than those of datagram d.
InOrder(d, e) ==
  \A i \in 1..Len(d), j \in 1..Len(e) :
    d[i].table = "PAT" /\ e[j].table = "PAT" => d[i].n =< e[j].n

OnTheWay ==
  /\ seenPat =< patEd
  /\ AllDue(todo, seenPat, patEd)
  /\ \A r \in 1..Len(ring) : AllDue(ring[r], seenPat, patEd)
  /\ InOrder(todo, todo) /\ \A r \in 1..Len(ring) : InOrder(todo, ring[r])
  /\ \A r \in 1..Len(ring) : \A t \in r..Len(ring) : InOrder(ring[r], ring[t])

\* The versions that the filter remembers are those of the tables shown to it.
Knows ==
  /\ filter.pmt = ShownPmtPid /\ filter.pids = ShownPids
  /\ filter.patV = IF seenPat = 0 THEN {} ELSE {Version(seenPat)}
  /\ filter.pmtV = IF seenPmt = 0 THEN {} ELSE {Version(seenPmt)}

FollowInv == TypeOK /\ OnTheWay /\ (Steady(patEd) => Knows)

LEMMA Residues ==
  ASSUME NEW V \in Nat \ {0}, NEW m \in Nat, NEW n \in Nat,
         1 =< m, m =< V, 1 =< n, n =< V, m % V = n % V
  PROVE  m = n
OBVIOUS

LEMMA VersionTells ==
  ASSUME FewEditions
  PROVE  /\ \A m, n \in 1..Len(Pats) : Version(m) = Version(n) => m = n
         /\ \A m, n \in 1..Len(Pmts[Target]) : Version(m) = Version(n) => m = n
<1>1. ASSUME NEW m \in 1..Versions, NEW n \in 1..Versions, Version(m) = Version(n)
      PROVE  m = n
  <2>1. m % Versions = n % Versions
    BY <1>1 DEF Version
  <2>2. Versions \in Nat \ {0} /\ m \in Nat /\ n \in Nat
    BY ProgramFilterAssumption
  <2> QED BY <2>1, <2>2, Residues
<1>2. \A m \in 1..Len(Pats) : m \in 1..Versions
  BY TableTypes, ProgramFilterAssumption DEF FewEditions
<1>3. \A m \in 1..Len(Pmts[Target]) : m \in 1..Versions
  BY TableTypes, ProgramFilterAssumption DEF FewEditions
<1> QED BY <1>1, <1>2, <1>3

\* Steadiness up to an edition is steadiness up to every earlier one.
LEMMA SteadyEarlier ==
  ASSUME NEW m \in Nat, NEW n \in Nat, m =< n, Steady(n)
  PROVE  Steady(m)
BY DEF Steady

\* The PAT that is filtered next keeps the program where it was.
LEMMA SteadyPid ==
  ASSUME NEW m \in 1..Len(Pats), NEW n \in 1..Len(Pats), m =< n, Steady(n),
         Pats[m][Target] # {}
  PROVE  Pats[n][Target] = Pats[m][Target]
<1>1. Pats[m][Target] \subseteq Pats[n][Target]
  BY TableTypes DEF Steady
<1>2. PICK q \in Pids : Pats[n][Target] = {q}
  BY <1>1, TableTypes DEF PatType
<1> QED BY <1>1, <1>2

\* A PMT on the PID of the program is the PMT of the program.
LEMMA SteadyProg ==
  ASSUME NEW n \in 1..Len(Pats), Steady(n), NEW m \in 1..n, NEW e \in 1..n,
         NEW p \in Programs, NEW q \in Pats[e][Target], q \in Pats[m][p]
  PROVE  p = Target
BY DEF Steady

LEMMA PidsApart ==
  ASSUME NEW n \in 1..Len(Pats), NEW p \in Programs
  PROVE  PatPid \notin Pats[n][p]
BY ProgramFilterAssumption

LEMMA FollowInit == Init => FollowInv
<1> SUFFICES ASSUME Init PROVE FollowInv
  OBVIOUS
<1>1. todo = <<>> /\ ring = <<>> /\ Len(todo) = 0 /\ Len(ring) = 0
  BY DEF Init
<1>2. OnTheWay
  BY <1>1 DEF Init, OnTheWay, AllDue, InOrder
<1>3. Knows
  BY DEF Init, Knows, NewFilter, ShownPmtPid, ShownPids
<1> QED BY <1>2, <1>3, TypeInit DEF FollowInv

\* A packet stays due while the PAT changes.
LEMMA DueLater ==
  ASSUME NEW k \in Packets, NEW m \in Nat, NEW n \in Nat, NEW l \in Nat, n =< l,
         Due(k, m, n)
  PROVE  Due(k, m, l)
BY PacketType DEF Due

\* A packet on air is due, and no PAT on its way is newer.
LEMMA OnAirDue ==
  ASSUME OnAirEditions, seenPat \in 0..patEd, NEW k \in OnAir
  PROVE  Due(k, seenPat, patEd) /\ (k.table = "PAT" => k.n = patEd)
<1>1. CASE k = PatNow
  BY <1>1 DEF PatNow, PatPacket, Due, OnAirEditions
<1>2. ASSUME NEW p \in Programs, k \in PmtNow(p) PROVE Due(k, seenPat, patEd) /\ k.table # "PAT"
  BY <1>2, PmtOnAir DEF Due, OnAirEditions
<1>3. CASE k \in {Plain(q) : q \in Loose}
  BY <1>3 DEF Plain, Due
<1>4. k = PatNow \/ (\E p \in Programs : k \in PmtNow(p))
        \/ k \in {Plain(q) : q \in Loose}
  BY DEF OnAir
<1> QED BY <1>1, <1>2, <1>3, <1>4 DEF PatNow, PatPacket

\* The new ring is the end of the old one and the datagram.
LEMMA PublishedRing ==
  ASSUME TypeOK, NEW d \in Seq(Packets), Publish(d)
  PROVE  \/ ring' = ring
         \/ /\ ring' \in Seq(Seq(Packets)) /\ Len(ring') \in Nat \ {0}
            /\ ring'[Len(ring')] = d
            /\ \E s \in {0, 1} : \A r \in 1..Len(ring')-1 :
                 r + s \in 1..Len(ring) /\ ring'[r] = ring[r + s]
<1>1. CASE ring' = ring
  BY <1>1
<1>2. CASE Len(ring) = Capacity /\ ring' = Append(Tail(ring), d)
  <2>1. ring \in Seq(Seq(Packets)) /\ Len(ring) \in Nat \ {0}
    BY <1>2, SptsFlowAssumption DEF TypeOK
  <2>2. Len(ring') = Len(ring) /\ ring' \in Seq(Seq(Packets)) /\ ring'[Len(ring')] = d
    BY <1>2, <2>1
  <2>3. \A r \in 1..Len(ring')-1 :
          r + 1 \in 1..Len(ring) /\ ring'[r] = ring[r + 1]
    BY <1>2, <2>1, <2>2
  <2> QED BY <2>1, <2>2, <2>3
<1>3. CASE ring' = Append(ring, d)
  <2>1. ring \in Seq(Seq(Packets)) /\ Len(ring) \in Nat
    BY DEF TypeOK
  <2>2. Len(ring') = Len(ring) + 1 /\ ring' \in Seq(Seq(Packets))
          /\ ring'[Len(ring')] = d
    BY <1>3, <2>1
  <2>3. \A r \in 1..Len(ring')-1 :
          r + 0 \in 1..Len(ring) /\ ring'[r] = ring[r + 0]
    BY <1>3, <2>1, <2>2
  <2> QED BY <2>1, <2>2, <2>3
<1> QED BY <1>1, <1>2, <1>3 DEF Publish, chanVars

LEMMA WayOfReceive ==
  ASSUME TypeOK, OnTheWay, NEW d \in Datagrams, Receive(d)
  PROVE  OnTheWay'
<1>1. OnAirEditions /\ d \in Seq(Packets) /\ \A i \in 1..Len(d) : d[i] \in OnAir
  BY DatagramType DEF TypeOK, OnAirEditions
<1>2. UNCHANGED <<patEd, seenPat, todo>>
  BY DEF Receive, muxVars, sptsVars
<1>3. seenPat \in 0..patEd /\ patEd \in Nat
  BY DEF OnTheWay, TypeOK
<1>4. \A i \in 1..Len(d) : Due(d[i], seenPat, patEd) /\ (d[i].table = "PAT" => d[i].n = patEd)
  BY <1>1, <1>3, OnAirDue
<1>5. AllDue(d, seenPat, patEd) /\ InOrder(d, d)
  BY <1>3, <1>4 DEF AllDue, InOrder
<1>6. ASSUME NEW e, AllDue(e, seenPat, patEd) PROVE InOrder(e, d)
  BY <1>3, <1>4, <1>6 DEF AllDue, InOrder, Due
<1>8. CASE ring' = ring
  BY <1>2, <1>8 DEF OnTheWay
<1>9. ASSUME ring' \in Seq(Seq(Packets)), Len(ring') \in Nat \ {0},
             ring'[Len(ring')] = d,
             NEW s \in {0, 1}, \A r \in 1..Len(ring')-1 :
                 r + s \in 1..Len(ring) /\ ring'[r] = ring[r + s]
      PROVE  OnTheWay'
  <2>0. Len(ring) \in Nat
    BY DEF TypeOK
  <2>1. ASSUME NEW r \in 1..Len(ring')
        PROVE  AllDue(ring'[r], seenPat, patEd) /\ InOrder(todo, ring'[r])
    <3>1. CASE r = Len(ring')
      BY <1>5, <1>6, <1>9, <3>1 DEF OnTheWay
    <3>2. CASE r \in 1..Len(ring')-1
      BY <1>9, <3>2 DEF OnTheWay
    <3> QED BY <1>9, <3>1, <3>2
  <2>2. ASSUME NEW r \in 1..Len(ring'), NEW t \in r..Len(ring')
        PROVE  InOrder(ring'[r], ring'[t])
    <3>1. CASE t = Len(ring')
      BY <1>6, <1>9, <2>1, <3>1
    <3>2. CASE t \in 1..Len(ring')-1
      <4>0. r \in 1..Len(ring')-1
        BY <1>9, <3>2
      <4>1. r + s \in 1..Len(ring) /\ ring'[r] = ring[r + s]
        BY <1>9, <4>0
      <4>2. t + s \in 1..Len(ring) /\ ring'[t] = ring[t + s]
        BY <1>9, <3>2
      <4>3. t + s \in (r + s)..Len(ring)
        BY <4>1, <4>2, <2>0
      <4> QED BY <4>1, <4>2, <4>3 DEF OnTheWay
    <3>3. t \in 1..Len(ring')
      BY <1>9
    <3> QED BY <1>9, <3>1, <3>2, <3>3
  <2> QED BY <1>2, <2>1, <2>2 DEF OnTheWay
<1> QED BY <1>1, <1>8, <1>9, PublishedRing DEF Receive

LEMMA WayOfTake == ASSUME TypeOK, OnTheWay, Take PROVE OnTheWay'
<1>1. ring \in Seq(Seq(Packets)) /\ Len(ring) \in Nat \ {0} /\ todo' = ring[1]
  BY DEF TypeOK, Take
<1>2. Len(ring') = Len(ring) - 1
        /\ \A r \in 1..Len(ring') : r + 1 \in 1..Len(ring) /\ ring'[r] = ring[r + 1]
  BY <1>1 DEF Take
<1>4. AllDue(todo', seenPat, patEd) /\ InOrder(todo', todo')
  BY <1>1 DEF OnTheWay
<1>5. ASSUME NEW r \in 1..Len(ring')
      PROVE  AllDue(ring'[r], seenPat, patEd) /\ InOrder(todo', ring'[r])
  <2>1. 1 \in 1..Len(ring) /\ r + 1 \in 1..Len(ring)
    BY <1>1, <1>2
  <2> QED BY <1>1, <1>2, <2>1 DEF OnTheWay
<1>6. ASSUME NEW r \in 1..Len(ring'), NEW t \in r..Len(ring')
      PROVE  InOrder(ring'[r], ring'[t])
  <2>1. r + 1 \in 1..Len(ring) /\ t + 1 \in (r + 1)..Len(ring) /\ t \in 1..Len(ring')
    BY <1>1, <1>2
  <2> QED BY <1>2, <2>1 DEF OnTheWay
<1>7. UNCHANGED <<patEd, seenPat>>
  BY DEF Take, muxVars
<1> QED BY <1>4, <1>5, <1>6, <1>7 DEF OnTheWay

LEMMA WayOfFilter == ASSUME TypeOK, OnTheWay, FilterPacket PROVE OnTheWay'
<1> DEFINE k == todo[1]
<1>1. todo \in Seq(Packets) /\ Len(todo) \in Nat \ {0} /\ k = Head(todo)
        /\ k \in Packets
  BY DEF TypeOK, FilterPacket
<1>2. Len(todo') = Len(todo) - 1
        /\ \A i \in 1..Len(todo') : i + 1 \in 1..Len(todo) /\ todo'[i] = todo[i + 1]
  BY <1>1 DEF FilterPacket
<1>3. UNCHANGED <<patEd, ring>> /\ patEd \in Nat /\ seenPat \in Nat
  BY DEF FilterPacket, muxVars, chanVars, TypeOK
<1>4. seenPat' = IF k.table = "PAT" THEN k.n ELSE seenPat
  BY <1>1 DEF FilterPacket
<1>5. Due(k, seenPat, patEd)
  BY <1>1 DEF OnTheWay, AllDue
<1>6. seenPat' =< patEd' /\ seenPat' \in Nat
  BY <1>1, <1>3, <1>4, <1>5, PacketType DEF Due, OnTheWay
<1>7. ASSUME NEW j \in Packets, Due(j, seenPat, patEd),
             k.table = "PAT" /\ j.table = "PAT" => k.n =< j.n
      PROVE  Due(j, seenPat', patEd')
  <2>1. j.n \in Nat /\ k.n \in Nat
    BY <1>1, PacketType
  <2> QED BY <1>3, <1>4, <1>7, <2>1 DEF Due
<1>8. AllDue(todo', seenPat', patEd')
  <2> SUFFICES ASSUME NEW i \in 1..Len(todo') PROVE Due(todo'[i], seenPat', patEd')
    BY DEF AllDue
  <2>1. i + 1 \in 1..Len(todo) /\ 1 \in 1..Len(todo) /\ todo'[i] = todo[i + 1]
    BY <1>1, <1>2
  <2>2. Due(todo[i + 1], seenPat, patEd) /\ todo[i + 1] \in Packets
    BY <1>1, <2>1 DEF OnTheWay, AllDue
  <2>3. k.table = "PAT" /\ todo[i + 1].table = "PAT" => k.n =< todo[i + 1].n
    BY <2>1 DEF OnTheWay, InOrder
  <2> QED BY <1>7, <2>1, <2>2, <2>3
<1>9. ASSUME NEW r \in 1..Len(ring) PROVE AllDue(ring[r], seenPat', patEd')
  <2> SUFFICES ASSUME NEW i \in 1..Len(ring[r])
                  PROVE  Due(ring[r][i], seenPat', patEd')
    BY DEF AllDue
  <2>1. ring[r] \in Seq(Packets) /\ 1 \in 1..Len(todo)
    BY <1>1 DEF TypeOK
  <2>2. Due(ring[r][i], seenPat, patEd) /\ ring[r][i] \in Packets
    BY <2>1 DEF OnTheWay, AllDue
  <2>3. k.table = "PAT" /\ ring[r][i].table = "PAT" => k.n =< ring[r][i].n
    BY <2>1 DEF OnTheWay, InOrder
  <2> QED BY <1>7, <2>2, <2>3
<1>10. InOrder(todo', todo')
  BY <1>2 DEF OnTheWay, InOrder
<1>11. ASSUME NEW r \in 1..Len(ring) PROVE InOrder(todo', ring[r])
  <2>1. InOrder(todo, ring[r])
    BY DEF OnTheWay
  <2> QED BY <1>2, <2>1 DEF InOrder
<1> QED BY <1>3, <1>6, <1>8, <1>9, <1>10, <1>11 DEF OnTheWay

LEMMA WayStep == TypeOK /\ OnTheWay /\ [Next]_vars => OnTheWay'
<1> SUFFICES ASSUME TypeOK, OnTheWay, [Next]_vars PROVE OnTheWay'
  OBVIOUS
<1>1. CASE ChangePat
  <2>1. UNCHANGED <<todo, ring, seenPat>> /\ patEd' = patEd + 1
    BY <1>1 DEF ChangePat, chanVars, sptsVars
  <2>2. patEd \in Nat /\ seenPat \in Nat /\ todo \in Seq(Packets)
          /\ ring \in Seq(Seq(Packets))
    BY DEF TypeOK
  <2>3. ASSUME NEW d \in Seq(Packets), AllDue(d, seenPat, patEd)
        PROVE  AllDue(d, seenPat, patEd + 1)
    BY <2>2, <2>3, DueLater DEF AllDue
  <2>4. \A r \in 1..Len(ring) : ring[r] \in Seq(Packets)
    BY <2>2
  <2> QED BY <2>1, <2>2, <2>3, <2>4 DEF OnTheWay
<1>2. ASSUME NEW d \in Datagrams, Receive(d) PROVE OnTheWay'
  BY <1>2, WayOfReceive
<1>3. CASE Take
  BY <1>3, WayOfTake
<1>4. CASE FilterPacket
  BY <1>4, WayOfFilter
<1>5. CASE UNCHANGED <<patEd, todo, ring, seenPat>>
  BY <1>5 DEF OnTheWay
<1> QED
  BY <1>1, <1>2, <1>3, <1>4, <1>5
     DEF Next, Mux, ChangePmt, Receiver, Bind, EnterSelect, ReceiveError,
         GoIdle, DropReceiver, Tick, ReleaseChannel, SptsTask, FirstPoll, Lag,
         Broadcast, SourceClosed, DropFilter, vars, muxVars, chanVars, sptsVars

\* A PAT with the version of the last one is the last one; any other gives the
\* program the PID it has, if it has one.
LEMMA KnowsAfterPat ==
  ASSUME FewEditions, TypeOK, OnTheWay, Steady(patEd), Knows, FilterPacket,
         Head(todo).table = "PAT"
  PROVE  Knows'
<1> DEFINE k == Head(todo)
<1>1. k \in Packets /\ Due(k, seenPat, patEd)
  BY DEF TypeOK, OnTheWay, AllDue, FilterPacket
<1>2. k.n \in 1..Len(Pats) /\ k.pid = PatPid /\ k.n \in seenPat..patEd
  BY <1>1, PacketType DEF Due
<1>3. filter' = ProcessPat(filter, k) /\ seenPat' = k.n /\ seenPmt' = seenPmt
  BY <1>2 DEF FilterPacket, Learn, OnTargetPmt
<1>4. patEd \in 1..Len(Pats) /\ seenPat \in 0..Len(Pats) /\ filter \in Filters
        /\ Len(Pats) \in Nat
  BY TableTypes DEF TypeOK, Filters
<1>5. k.n # 0 /\ ShownPmtPid' = Pats[k.n][Target] /\ ShownPids' = ShownPids
  BY <1>2, <1>3 DEF ShownPmtPid, ShownPids
<1>6. CASE filter.patV = {Version(k.n)}
  <2>1. seenPat # 0 /\ Version(seenPat) = Version(k.n)
    BY <1>6 DEF Knows
  <2>2. seenPat = k.n
    BY <1>2, <1>4, <2>1, VersionTells
  <2> QED BY <1>3, <1>5, <1>6, <2>2 DEF ProcessPat, Knows, ShownPmtPid
<1>7. CASE filter.patV # {Version(k.n)}
  <2>1. /\ filter'.patV = {Version(k.n)} /\ filter'.pmtV = filter.pmtV
        /\ filter'.pids = filter.pids
        /\ filter'.pmt = IF filter.pmt = {} THEN Pats[k.n][Target] ELSE filter.pmt
    BY <1>2, <1>3, <1>4, <1>7 DEF ProcessPat, Filters
  <2>2. CASE filter.pmt = {}
    BY <1>3, <1>5, <2>1, <2>2 DEF Knows
  <2>3. CASE filter.pmt # {}
    <3>1. seenPat \in 1..Len(Pats) /\ filter.pmt = Pats[seenPat][Target]
      BY <1>4, <2>3 DEF Knows, ShownPmtPid
    <3>2. Steady(k.n)
      BY <1>2, <1>4, SteadyEarlier
    <3>3. Pats[k.n][Target] = filter.pmt
      BY <1>2, <2>3, <3>1, <3>2, SteadyPid
    <3> QED BY <1>3, <1>5, <2>1, <2>3, <3>3 DEF Knows
  <2> QED BY <2>2, <2>3
<1> QED BY <1>6, <1>7

\* A PMT on the PID of the program is the program's; with the version of the
\* last one it is the last one.  On another PID it is not looked at.
LEMMA KnowsAfterPmt ==
  ASSUME FewEditions, TypeOK, OnTheWay, Steady(patEd), Knows, FilterPacket,
         Head(todo).table = "PMT"
  PROVE  Knows'
<1> DEFINE k == Head(todo)
<1>1. k \in Packets /\ Due(k, seenPat, patEd)
  BY DEF TypeOK, OnTheWay, AllDue, FilterPacket
<1>2. k.prog \in Programs /\ k.n \in 1..Len(Pmts[k.prog])
  BY <1>1, PacketType
<1>3. PICK m \in 1..patEd : k.pid \in Pats[m][k.prog]
  BY <1>1 DEF Due
<1>4. patEd \in 1..Len(Pats) /\ seenPat \in 0..patEd /\ filter \in Filters
        /\ seenPmt \in 0..Len(Pmts[Target]) /\ Len(Pats) \in Nat
  BY TableTypes DEF TypeOK, OnTheWay, Filters, Editions
<1>5. k.pid # PatPid
  <2>1. m \in 1..Len(Pats)
    BY <1>4
  <2> QED BY <1>2, <1>3, <2>1, PidsApart
<1>6. seenPat' = seenPat /\ ShownPmtPid' = ShownPmtPid
  BY DEF FilterPacket, ShownPmtPid
<1>7. CASE k.pid \in filter.pmt
  <2>1. seenPat \in 1..patEd /\ k.pid \in Pats[seenPat][Target]
    BY <1>4, <1>7 DEF Knows, ShownPmtPid
  <2>2. k.prog = Target
    BY <1>2, <1>3, <1>4, <2>1, SteadyProg
  <2>3. seenPmt' = k.n /\ filter' = ProcessPmt(filter, k)
    BY <1>5, <1>7, <2>1, <2>2 DEF FilterPacket, OnTargetPmt, Learn
  <2>4. k.n # 0 /\ ShownPids' = Pmts[Target][k.n] /\ k.n \in 1..Len(Pmts[Target])
    BY <1>2, <2>2, <2>3 DEF ShownPids
  <2>5. CASE filter.pmtV = {Version(k.n)}
    <3>1. seenPmt # 0 /\ Version(seenPmt) = Version(k.n)
      BY <2>5 DEF Knows
    <3>2. seenPmt = k.n
      BY <1>4, <2>4, <3>1, VersionTells
    <3> QED BY <1>6, <2>3, <2>4, <2>5, <3>2 DEF ProcessPmt, Knows, ShownPids
  <2>6. CASE filter.pmtV # {Version(k.n)}
    <3>1. /\ filter'.pmtV = {Version(k.n)} /\ filter'.patV = filter.patV
          /\ filter'.pids = Pmts[Target][k.n] /\ filter'.pmt = filter.pmt
      BY <1>4, <2>2, <2>3, <2>6 DEF ProcessPmt, Filters
    <3> QED BY <1>6, <2>3, <2>4, <3>1 DEF Knows
  <2> QED BY <2>5, <2>6
<1>8. CASE k.pid \notin filter.pmt
  <2>1. filter' = filter
    BY <1>5, <1>8 DEF FilterPacket, Learn
  <2>2. seenPmt' = seenPmt
    BY <1>8 DEF FilterPacket, OnTargetPmt, Knows, ShownPmtPid
  <2> QED BY <1>6, <2>1, <2>2 DEF Knows, ShownPids
<1> QED BY <1>7, <1>8

LEMMA KnowsAfterPacket ==
  ASSUME FewEditions, TypeOK, OnTheWay, Steady(patEd), Knows, FilterPacket
  PROVE  Knows'
<1> DEFINE k == Head(todo)
<1>1. k \in Packets
  BY DEF TypeOK, FilterPacket
<1>2. CASE k.table = "none"
  <2>1. filter' = filter /\ seenPat' = seenPat /\ seenPmt' = seenPmt
    BY <1>2 DEF FilterPacket, Learn, ProcessPat, ProcessPmt, OnTargetPmt
  <2> QED BY <2>1 DEF Knows, ShownPmtPid, ShownPids
<1> QED BY <1>1, <1>2, PacketType, KnowsAfterPat, KnowsAfterPmt

LEMMA FollowStep ==
  ASSUME FewEditions, FollowInv, [Next]_vars PROVE FollowInv'
<1> USE DEF FollowInv
<1>1. TypeOK' /\ OnTheWay'
  BY TypeStep, WayStep
<1>2. patEd \in Nat /\ patEd' \in Nat
  BY <1>1 DEF TypeOK
<1>3. patEd =< patEd'
  BY <1>2 DEF Next, Mux, ChangePat, ChangePmt, Receiver, Bind, EnterSelect,
              ReceiveError, GoIdle, DropReceiver, Receive, Tick,
              ReleaseChannel, SptsTask, FirstPoll, Lag, Take, FilterPacket,
              Broadcast, SourceClosed, DropFilter, vars, muxVars
<1>4. ASSUME Steady(patEd') PROVE Knows'
  <2>1. Steady(patEd)
    BY <1>2, <1>3, <1>4, SteadyEarlier
  <2>2. CASE FilterPacket
    BY <2>1, <2>2, KnowsAfterPacket
  <2>3. CASE UNCHANGED <<filter, seenPat, seenPmt>>
    BY <2>1, <2>3 DEF Knows, ShownPmtPid, ShownPids
  <2> QED
    BY <2>2, <2>3, Untouched
       DEF SptsTask, FirstPoll, Lag, Take, Broadcast, SourceClosed,
           DropFilter, sptsVars
<1> QED BY <1>1, <1>4

\* For every multiplex whose tables have, each, no more editions than there are
\* versions, whatever datagrams are lost and however its tables change: while
\* the program keeps its PMT PID, the filter passes exactly what the last PAT
\* and PMT it was shown say.
THEOREM FilterFollowsTables == FewEditions => (Spec => []FollowsTables)
<1> SUFFICES ASSUME FewEditions PROVE Spec => []FollowsTables
  OBVIOUS
<1>1. FollowInv /\ [Next]_vars => FollowInv'
  BY FollowStep
<1>2. FollowInv => FollowsTables
  BY DEF FollowInv, Knows, FollowsTables
<1> QED BY FollowInit, <1>1, <1>2, PTL DEF Spec
=============================================================================
