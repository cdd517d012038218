----------------------------- MODULE StreamTask -----------------------------
(***************************************************************************)
(* The vocabulary shared by every module of the gateway: the statuses of a *)
(* stream and what a worker task of each kind may notify about itself.     *)
(*                                                                         *)
(* A worker task is a tokio task that moves packets for one input or one   *)
(* output.  It reports its progress by sending StateChange messages; what  *)
(* the rest of the gateway knows of it is only that sequence of messages,  *)
(* so a task is abstracted to four phases and to the moves between them.   *)
(*                                                                         *)
(*   start    about to open its socket (or, for SRT, to reopen it)         *)
(*   waiting  bound, accepting or connecting; no packet has passed yet     *)
(*   flowing  packets pass                                                 *)
(*   done     the future has returned or has been dropped                  *)
(*                                                                         *)
(* SrtLoop gives the SRT loop in detail, SptsFlow the UDP receiver and the *)
(* SPTS filter; they implement these moves.                                *)
(***************************************************************************)

\* models.rs, enum StreamStatus.
Status == {"Stopped", "Listening", "Connecting", "Connected",
           "Reconnecting", "Error"}

\* models.rs, StreamStatus::is_active and StreamStatus::is_connected.
IsActive(st)    == st \in {"Listening", "Connecting", "Connected",
                           "Reconnecting"}
IsConnected(st) == st = "Connected"

InputKinds  == {"udp", "listener", "caller", "spts"}
OutputKinds == {"udp", "listener", "caller"}

LivePhases == {"start", "waiting", "flowing"}
Phases     == {"unborn", "done"} \cup LivePhases

\* A move: the status the task sends ("nothing" when it sends none), the
\* phase it is in afterwards, and whether the move is a failure, so that a
\* model can bound how many failures happen.
Says == Status \cup {"nothing"}
Move(say, next)  == [say |-> say, next |-> next, fault |-> FALSE]
Fault(say, next) == [say |-> say, next |-> next, fault |-> TRUE]

\* What an SRT task says when it calls get_socket: a listener is Listening, a
\* caller is Connecting.
Announce(kind) == IF kind = "caller" THEN "Connecting" ELSE "Listening"

\* The status an input shows as soon as its task is spawned.
InputStatus(kind)  == Announce(kind)
\* The same for an output; a UDP sender counts as connected from the start.
OutputStatus(kind) == IF kind = "udp" THEN "Connected" ELSE Announce(kind)

\* The SRT loop of Forwarder::spawn_with_stats and of spawn_srt_output: a
\* failed get_socket leads to another attempt, or to Error when the retries
\* are used up; a broken connection always leads to another attempt.
SrtMoves(kind, phase) ==
  CASE phase = "start"   -> {Move(Announce(kind), "waiting")}
    [] phase = "waiting" -> {Move("Connected", "flowing"),
                             Move("Reconnecting", "start"),
                             Fault("Error", "done")}
    [] phase = "flowing" -> {Move("Reconnecting", "start")}
    [] OTHER             -> {}

\* The UDP receive loop: bind, first packet, back to Listening when nothing
\* arrives for a while, and a receive error that ends the task without a word.
SilentUdpInputMoves(phase) ==
  CASE phase = "start"   -> {Move("Listening", "waiting")}
    [] phase = "waiting" -> {Move("nothing", "flowing")}
    [] OTHER             -> {}
UdpInputMoves(phase) ==
  CASE phase = "start"   -> {Move("Listening", "waiting"),
                             Fault("Error", "done")}
    [] phase = "waiting" -> {Move("Connected", "flowing"),
                             Fault("nothing", "done")}
    [] phase = "flowing" -> {Move("Listening", "waiting"),
                             Fault("nothing", "done")}
    [] OTHER             -> {}

\* The SPTS filter: it reads the channel of its source input, first what is
\* still buffered there, and it is the only task that reports the end of its
\* source.
SptsMoves(phase, closed) ==
  LET end == IF closed THEN {Move("Stopped", "done")} ELSE {} IN
  CASE phase = "start"   -> {Move("Listening", "waiting")}
    [] phase = "waiting" -> {Move("Connected", "flowing")} \cup end
    [] phase = "flowing" -> end
    [] OTHER             -> {}

\* The UDP sender: no message at all, neither when its socket cannot be made
\* nor when the channel it reads is closed.
UdpOutputMoves(phase, closed) ==
  CASE phase = "start"   -> {Move("nothing", "flowing"),
                             Fault("nothing", "done")}
    [] phase = "flowing" -> IF closed THEN {Move("nothing", "done")} ELSE {}
    [] OTHER             -> {}

InputMoves(kind, phase, closed) ==
  CASE kind = "udp"  -> UdpInputMoves(phase)
    [] kind = "spts" -> SptsMoves(phase, closed)
    [] OTHER         -> SrtMoves(kind, phase)

\* An SRT sender looks at its channel only while it is connected.
OutputMoves(kind, phase, closed) ==
  IF kind = "udp" THEN UdpOutputMoves(phase, closed)
  ELSE SrtMoves(kind, phase)
         \cup (IF closed /\ phase = "flowing" THEN {Move("nothing", "done")}
               ELSE {})
=============================================================================
