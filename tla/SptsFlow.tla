------------------------------ MODULE SptsFlow ------------------------------
(***************************************************************************)
(* The way of a multiplex to an SPTS input: the receive loop of a UDP      *)
(* input, the broadcast channel it publishes on, and the task of an SPTS   *)
(* input that reads the channel and filters one program.                   *)
(*                                                                         *)
(* The multiplex is the environment: it repeats its tables and may change  *)
(* them.  Datagrams get lost before the socket, since not every packet on  *)
(* air is received, and in the channel, which overwrites the oldest when   *)
(* it is full and tells the reader so.                                     *)
(*                                                                         *)
(*   bind, loop, wait, gone    the receiver: opening its socket, at the    *)
(*                             top of its loop, in select!, returned       *)
(*   start, recv, work, gone   the filter task: not yet polled, in         *)
(*                             select!, in filter_packets, returned        *)
(***************************************************************************)
EXTENDS ProgramFilter, StreamTask

CONSTANTS
  Loose,     \* PIDs of the packets in which no table starts
  MaxBatch,  \* bound: packets in a datagram
  Capacity,  \* BROADCAST_CAPACITY: datagrams the channel holds
  Timeout    \* IDLE_TIMEOUT, in ticks

ASSUME SptsFlowAssumption ==
  /\ Loose \subseteq Pids
  /\ Pats # <<>> /\ \A p \in Programs : Pmts[p] # <<>>
  /\ MaxBatch \in Nat \ {0} /\ Capacity \in Nat \ {0} /\ Timeout \in Nat \ {0}

VARIABLES
  patEd,      \* edition of the PAT that is on air
  pmtEd,      \* editions of the PMTs that are on air
  pos,        \* where the receiver is
  connected,  \* is_connected of the receiver
  idle,       \* ticks since last_packet_time, up to Timeout
  nap,        \* in select!: ticks since it was entered, up to Timeout
  armed,      \* in select!: its idle branch was enabled when it was entered
  said,       \* the status the receiver sent last
  held,       \* the entry of the input holds a sender of the channel
  ring,       \* datagrams in the channel that the filter task has not read
  lagged,     \* some were overwritten and the reader has not been told
  fpos,       \* where the filter task is
  filter,     \* its ProgramFilter
  fill,       \* fill_with_nulls
  todo,       \* packets of the datagram in work, still to be filtered
  some,       \* output_buffer is not empty
  passing,    \* is_connected of the filter task
  fsaid,      \* the status the filter task sent last
  seenPat,    \* history: edition of the last PAT filtered, 0 if none
  seenPmt     \* history: edition of the last PMT of the program filtered on
              \* the PID the last PAT gave it, 0 if none

muxVars  == <<patEd, pmtEd>>
udpVars  == <<pos, connected, idle, nap, armed, said>>
chanVars == <<ring, lagged>>
sptsVars == <<fpos, filter, fill, todo, some, passing, fsaid, seenPat, seenPmt>>
vars == <<muxVars, udpVars, held, chanVars, sptsVars>>

Init ==
  /\ patEd = 1 /\ pmtEd = [p \in Programs |-> 1]
  /\ pos = "bind" /\ connected = FALSE /\ idle = 0 /\ nap = 0
  /\ armed = FALSE /\ said = "nothing"
  /\ held = TRUE /\ ring = <<>> /\ lagged = FALSE
  /\ fpos = "start" /\ filter = NewFilter /\ fill \in BOOLEAN
  /\ todo = <<>> /\ some = FALSE /\ passing = FALSE /\ fsaid = "nothing"
  /\ seenPat = 0 /\ seenPmt = 0

-----------------------------------------------------------------------------
(* The multiplex *)

PatNow    == PatPacket(patEd)
PmtNow(p) == {PmtPacket(q, p, pmtEd[p]) : q \in Pats[patEd][p]}
OnAir     == {PatNow} \cup {Plain(q) : q \in Loose}
               \cup UNION {PmtNow(p) : p \in Programs}
Datagrams == UNION {[1..m -> OnAir] : m \in 1..MaxBatch}

ChangePat ==
  /\ patEd < Len(Pats) /\ patEd' = patEd + 1
  /\ UNCHANGED <<pmtEd, udpVars, held, chanVars, sptsVars>>

ChangePmt(p) ==
  /\ pmtEd[p] < Len(Pmts[p]) /\ pmtEd' = [pmtEd EXCEPT ![p] = @ + 1]
  /\ UNCHANGED <<patEd, udpVars, held, chanVars, sptsVars>>

-----------------------------------------------------------------------------
(* The UDP receiver *)

Bind ==
  /\ pos = "bind"
  /\ \/ pos' = "loop" /\ said' = "Listening"
     \/ pos' = "gone" /\ said' = "Error"
  /\ UNCHANGED <<muxVars, connected, idle, nap, armed, held, chanVars, sptsVars>>

\* The precondition of the idle branch is evaluated when select! is entered.
EnterSelect ==
  /\ pos = "loop" /\ pos' = "wait"
  /\ armed' = (connected /\ idle >= Timeout)
  /\ UNCHANGED <<muxVars, connected, idle, nap, said, held, chanVars, sptsVars>>

\* The channel keeps the newest Capacity datagrams for a reader that is there.
QueueAll(d) == ring' = Append(ring, d) /\ UNCHANGED lagged
Publish(d) ==
  IF fpos = "gone" THEN UNCHANGED chanVars
  ELSE /\ ring' = Append(IF Len(ring) = Capacity THEN Tail(ring) ELSE ring, d)
       /\ lagged' = (lagged \/ Len(ring) = Capacity)

LeaveSelect == armed' = FALSE /\ nap' = 0

Receive(d) ==
  /\ pos = "wait" /\ pos' = "loop"
  /\ Publish(d)
  /\ idle' = 0
  /\ connected' = TRUE
  /\ said' = IF connected THEN said ELSE "Connected"
  /\ LeaveSelect
  /\ UNCHANGED <<muxVars, held, sptsVars>>

ReceiveError ==
  /\ pos = "wait" /\ pos' = "gone"
  /\ LeaveSelect
  /\ UNCHANGED <<muxVars, connected, idle, said, held, chanVars, sptsVars>>

SayIdle ==
  /\ pos = "wait" /\ armed /\ nap = Timeout
  /\ pos' = "loop" /\ said' = "Listening"
  /\ LeaveSelect
  /\ UNCHANGED <<muxVars, connected, idle, held, chanVars, sptsVars>>
GoIdle ==
  /\ pos = "wait" /\ armed /\ nap = Timeout
  /\ pos' = "loop" /\ connected' = FALSE /\ said' = "Listening"
  /\ LeaveSelect
  /\ UNCHANGED <<muxVars, idle, held, chanVars, sptsVars>>

\* Time passes, also while the task is suspended between two of its lines.
Tick ==
  /\ pos \in {"loop", "wait"} /\ connected
  /\ idle' = IF idle < Timeout THEN idle + 1 ELSE idle
  /\ nap'  = IF pos = "wait" /\ nap < Timeout THEN nap + 1 ELSE nap
  /\ UNCHANGED <<muxVars, pos, connected, armed, said, held, chanVars, sptsVars>>

\* The receiver is cancelled or aborted.
DropReceiver ==
  /\ pos # "gone" /\ pos' = "gone"
  /\ LeaveSelect
  /\ UNCHANGED <<muxVars, connected, idle, said, held, chanVars, sptsVars>>

\* The input is deleted, or started again with a channel of its own.
ReleaseChannel ==
  /\ held /\ held' = FALSE
  /\ UNCHANGED <<muxVars, udpVars, chanVars, sptsVars>>

Closed == ~held /\ pos = "gone"

-----------------------------------------------------------------------------
(* The SPTS task *)

FirstPoll ==
  /\ fpos = "start" /\ fpos' = "recv" /\ fsaid' = "Listening"
  /\ UNCHANGED <<muxVars, udpVars, held, chanVars, filter, fill, todo, some,
                 passing, seenPat, seenPmt>>

\* recv returns Lagged once and goes on with the oldest datagram left.
Lag ==
  /\ fpos = "recv" /\ lagged /\ lagged' = FALSE
  /\ UNCHANGED <<muxVars, udpVars, held, ring, sptsVars>>

Take ==
  /\ fpos = "recv" /\ ~lagged /\ ring # <<>>
  /\ fpos' = "work" /\ todo' = Head(ring) /\ ring' = Tail(ring)
  /\ UNCHANGED <<muxVars, udpVars, held, lagged, filter, fill, some, passing,
                 fsaid, seenPat, seenPmt>>

\* A packet goes through the filter.
OnTargetPmt(k) ==
  /\ k.table = "PMT" /\ k.prog = Target
  /\ seenPat # 0 /\ k.pid \in Pats[seenPat][Target]
FilterPacket ==
  /\ fpos = "work" /\ todo # <<>>
  /\ LET k == Head(todo) IN
       /\ filter' = Learn(filter, k)
       /\ some' = (some \/ Emits(filter, k, fill))
       /\ seenPat' = IF k.table = "PAT" THEN k.n ELSE seenPat
       /\ seenPmt' = IF OnTargetPmt(k) THEN k.n ELSE seenPmt
  /\ todo' = Tail(todo)
  /\ UNCHANGED <<muxVars, udpVars, held, chanVars, fpos, fill, passing, fsaid>>

\* What came through is published on the channel of the SPTS input.
PassAnyway ==
  /\ fpos = "work" /\ todo = <<>> /\ fpos' = "recv"
  /\ passing' = TRUE
  /\ fsaid' = IF some /\ ~passing THEN "Connected" ELSE fsaid
  /\ some' = FALSE
  /\ UNCHANGED <<muxVars, udpVars, held, chanVars, filter, fill, todo, seenPat,
                 seenPmt>>
Broadcast ==
  /\ fpos = "work" /\ todo = <<>> /\ fpos' = "recv"
  /\ passing' = (passing \/ some)
  /\ fsaid' = IF some /\ ~passing THEN "Connected" ELSE fsaid
  /\ some' = FALSE
  /\ UNCHANGED <<muxVars, udpVars, held, chanVars, filter, fill, todo, seenPat,
                 seenPmt>>

GoOnWhenClosed ==
  fpos = "recv" /\ ~lagged /\ ring = <<>> /\ Closed /\ UNCHANGED vars
SourceClosed ==
  /\ fpos = "recv" /\ ~lagged /\ ring = <<>> /\ Closed
  /\ fpos' = "gone" /\ fsaid' = "Stopped"
  /\ UNCHANGED <<muxVars, udpVars, held, chanVars, filter, fill, todo, some,
                 passing, seenPat, seenPmt>>

\* The filter task is cancelled or aborted, where it awaits something.
DropFilter ==
  /\ fpos \in {"start", "recv"} /\ fpos' = "gone"
  /\ UNCHANGED <<muxVars, udpVars, held, chanVars, filter, fill, todo, some,
                 passing, fsaid, seenPat, seenPmt>>

-----------------------------------------------------------------------------
Mux      == ChangePat \/ \E p \in Programs : ChangePmt(p)
Receiver == \/ Bind \/ EnterSelect \/ ReceiveError \/ GoIdle \/ DropReceiver
            \/ \E d \in Datagrams : Receive(d)
SptsTask == \/ FirstPoll \/ Lag \/ Take \/ FilterPacket \/ Broadcast
            \/ SourceClosed \/ DropFilter

Next == Mux \/ Receiver \/ Tick \/ ReleaseChannel \/ SptsTask

Spec == Init /\ [][Next]_vars

\* The runtime polls a task that has something to do, and time passes.  Nothing
\* is assumed of the multiplex, the network, or of what drops a task.
ReceiverRuns == EnterSelect \/ GoIdle
FilterRuns   == FirstPoll \/ Lag \/ Take \/ FilterPacket \/ Broadcast \/ SourceClosed
FairSpec == /\ Spec /\ WF_vars(Tick)
            /\ WF_vars(ReceiverRuns) /\ WF_vars(FilterRuns)

-----------------------------------------------------------------------------
(* Properties *)

Editions(p) == 0..Len(Pmts[p])
Packets ==
  {Plain(q) : q \in Loose} \cup {PatPacket(n) : n \in 1..Len(Pats)}
    \cup UNION {{PmtPacket(q, p, n) : q \in Pids, n \in 1..Len(Pmts[p])} :
                 p \in Programs}

\* The type invariant.
TypeOK ==
  /\ patEd \in 1..Len(Pats) /\ \A p \in Programs : pmtEd[p] \in 1..Len(Pmts[p])
  /\ pos \in {"bind", "loop", "wait", "gone"} /\ connected \in BOOLEAN
  /\ idle \in 0..Timeout /\ nap \in 0..Timeout /\ armed \in BOOLEAN
  /\ said \in Says /\ fsaid \in Says
  /\ held \in BOOLEAN /\ lagged \in BOOLEAN
  /\ ring \in Seq(Seq(Packets)) /\ Len(ring) =< Capacity
  /\ fpos \in {"start", "recv", "work", "gone"}
  /\ filter \in [pmt : SUBSET Pids, pids : SUBSET Pids,
                 patV : SUBSET (0..Versions-1), pmtV : SUBSET (0..Versions-1)]
  /\ fill \in BOOLEAN /\ todo \in Seq(Packets)
  /\ some \in BOOLEAN /\ passing \in BOOLEAN
  /\ seenPat \in 0..Len(Pats) /\ seenPmt \in Editions(Target)

\* Up to edition n, no PAT takes the PMT PID away from the program again, and
\* none has given it to another program.
Steady(n) ==
  \A m \in 1..n, k \in 1..n :
    /\ m =< k => Pats[m][Target] \subseteq Pats[k][Target]
    /\ \A p \in Programs \ {Target} :
         Pats[m][Target] \cap Pats[k][p] = {}

\* What the filter should let through for the tables it was shown.
ShownPmtPid == IF seenPat = 0 THEN {} ELSE Pats[seenPat][Target]
ShownPids   == IF seenPmt = 0 THEN {} ELSE Pmts[Target][seenPmt]

\* While the multiplex does not move the program, the filter knows exactly what
\* the last tables it was shown say, as if it read every one of them, whatever
\* is lost on the way: comparing versions and keeping the first PMT PID make
\* no difference.
FollowsTables ==
  Steady(patEd) => filter.pmt = ShownPmtPid /\ filter.pids = ShownPids

\* If the current PAT and PMT get through again and again, the filter settles
\* on the program as it is now on air, whatever was lost before.
Filtering(k) == fpos = "work" /\ todo # <<>> /\ Head(todo) = k /\ FilterPacket
CatchesUp ==
  /\ <>[](Steady(patEd) /\ Pats[patEd][Target] # {})
  /\ []<><<Filtering(PatNow)>>_vars
  /\ []<><<\E k \in PmtNow(Target) : Filtering(k)>>_vars
  => <>[](filter.pids = Pmts[Target][pmtEd[Target]])

\* An SPTS task whose source is gone, and whose channel nobody holds, ends.
OrphanEnds == Closed ~> fpos = "gone"

\* A receiver on which nothing arrives for the whole of IDLE_TIMEOUT stops
\* showing Connected.
SilenceIsNoticed ==
  (connected /\ idle = Timeout) ~> (~connected \/ pos = "gone" \/ idle < Timeout)

\* Receiver and filter task as StreamControl sees them.
UdpPhase == IF pos = "bind" THEN "start" ELSE IF pos = "gone" THEN "done"
            ELSE IF connected THEN "flowing" ELSE "waiting"
SptsPhase == IF fpos = "start" THEN "start" ELSE IF fpos = "gone" THEN "done"
             ELSE IF passing THEN "flowing" ELSE "waiting"
UdpLife  == INSTANCE TaskLife WITH sender <- FALSE, kind <- "udp",
              closed <- FALSE, phase <- UdpPhase
SptsLife == INSTANCE TaskLife WITH sender <- FALSE, kind <- "spts",
              closed <- Closed, phase <- SptsPhase, said <- fsaid

\* Neither makes a move or sends a status that StreamControl does not expect
\* of a task of its kind.
UdpImplementsLife  == UdpLife!Spec
SptsImplementsLife == SptsLife!Spec
=============================================================================
