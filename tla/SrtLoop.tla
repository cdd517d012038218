------------------------------- MODULE SrtLoop ------------------------------
(***************************************************************************)
(* The connection loop of an SRT task: get_socket, the loop that moves     *)
(* packets over the socket, and the reconnection with its limit of         *)
(* attempts.  Inputs run it in Forwarder::spawn_with_stats, outputs in     *)
(* spawn_srt_output; the two differ in what ends a connection.             *)
(*                                                                         *)
(*   ask      at the top of the loop, before get_socket says anything      *)
(*   open     in get_socket, waiting for accept or connect                 *)
(*   linked   in the loop that reads or writes packets                     *)
(*   pause    asleep before the next attempt                               *)
(*   gone     the task has returned                                        *)
(*                                                                         *)
(* Of packets only their number matters: what a sender still has to read   *)
(* in the ring of its broadcast channel, which overwrites the oldest when  *)
(* it is full.                                                             *)
(***************************************************************************)
EXTENDS Naturals, StreamTask

CONSTANTS
  MaxRetries,  \* MAX_RETRIES: failures in a row after which the task ends
  Capacity     \* BROADCAST_CAPACITY: packets the ring of a channel holds

ASSUME SrtLoopAssumption ==
  MaxRetries \in Nat \ {0} /\ Capacity \in Nat \ {0}

VARIABLES
  sender,    \* whether the task sends, for an output, or receives
  kind,      \* listener or caller
  pos,       \* where the task is
  failures,  \* consecutive_failures
  closed,    \* the channel a sender reads has no publisher any more
  backlog,   \* packets in that channel the sender has not read yet
  said,      \* the status sent last
  asked      \* history: attempts announced since the last Connected, counted
             \* up to MaxRetries + 1

taskVars == <<pos, failures, said, asked>>
vars == <<sender, kind, pos, failures, closed, backlog, said, asked>>

Init ==
  /\ sender \in BOOLEAN /\ kind \in {"listener", "caller"}
  /\ pos = "ask" /\ failures = 0
  /\ closed = FALSE /\ backlog = 0
  /\ said = "nothing" /\ asked = 0

\* get_socket says what it waits for before it waits.
Ask ==
  /\ pos = "ask"
  /\ pos' = "open" /\ said' = Announce(kind)
  /\ asked' = IF asked > MaxRetries THEN asked ELSE asked + 1
  /\ UNCHANGED <<sender, kind, failures, closed, backlog>>

\* accept or connect succeeds; get_socket says so and the counter is reset.
KeepsCounting(n) == n
OnConnect(n)     == 0
LinkUp ==
  /\ pos = "open"
  /\ pos' = "linked" /\ said' = "Connected"
  /\ failures' = OnConnect(failures) /\ asked' = 0
  /\ UNCHANGED <<sender, kind, closed, backlog>>

\* listen, accept or connect fails.
NeverCounts(n) == n
OnFailure(n)   == n + 1
GivesUpLate(n) == n > MaxRetries
GivesUp(n)     == n >= MaxRetries
Fail ==
  /\ pos = "open"
  /\ failures' = OnFailure(failures)
  /\ IF GivesUp(failures')
     THEN pos' = "gone" /\ said' = "Error"
     ELSE pos' = "pause" /\ said' = "Reconnecting"
  /\ UNCHANGED <<sender, kind, closed, backlog, asked>>

\* The connection breaks: a read ends or fails, a write fails and its packet
\* is lost.
Break ==
  /\ pos = "linked"
  /\ sender => backlog > 0
  /\ backlog' = IF sender THEN backlog - 1 ELSE backlog
  /\ pos' = "pause" /\ said' = "Reconnecting"
  /\ UNCHANGED <<sender, kind, failures, closed, asked>>

\* A sender writes a packet.
Forward ==
  /\ pos = "linked" /\ sender /\ backlog > 0
  /\ backlog' = backlog - 1
  /\ UNCHANGED <<sender, kind, closed, taskVars>>

IgnoreClosed == UNCHANGED vars
\* A sender that has read all there was finds its channel closed, and returns
\* without a word.
SeeClosed ==
  /\ pos = "linked" /\ sender /\ closed /\ backlog = 0
  /\ pos' = "gone"
  /\ UNCHANGED <<sender, kind, closed, backlog, failures, said, asked>>

WakesInOpen ==
  /\ pos = "pause" /\ pos' = "open"
  /\ UNCHANGED <<sender, kind, closed, backlog, failures, said, asked>>
Wake ==
  /\ pos = "pause" /\ pos' = "ask"
  /\ UNCHANGED <<sender, kind, closed, backlog, failures, said, asked>>

\* The task is cancelled by the global token or aborted.
Drop ==
  /\ pos # "gone" /\ pos' = "gone"
  /\ UNCHANGED <<sender, kind, closed, backlog, failures, said, asked>>

\* The input publishes a packet, or its last publisher goes.
Publish ==
  /\ sender /\ ~closed /\ backlog < Capacity
  /\ backlog' = backlog + 1
  /\ UNCHANGED <<sender, kind, closed, taskVars>>

Close ==
  /\ sender /\ ~closed /\ closed' = TRUE
  /\ UNCHANGED <<sender, kind, backlog, taskVars>>

Next == \/ Ask \/ LinkUp \/ Fail \/ Break \/ Forward \/ SeeClosed \/ Wake
        \/ Drop \/ Publish \/ Close

Spec == Init /\ [][Next]_vars

\* A timer fires, a task that is ready is polled, and a caller gets an answer or
\* runs into SRT's connect timeout.  A listener may wait for a peer for ever.
FairSpec == /\ Spec
            /\ WF_vars(Ask) /\ WF_vars(Wake)
            /\ WF_vars(kind = "caller" /\ (LinkUp \/ Fail))
            /\ WF_vars(SeeClosed) /\ WF_vars(closed /\ Forward)

-----------------------------------------------------------------------------
(* Properties *)

\* The type invariant.
TypeOK ==
  /\ sender \in BOOLEAN /\ kind \in {"listener", "caller"}
  /\ pos \in {"ask", "open", "linked", "pause", "gone"}
  /\ failures \in 0..MaxRetries
  /\ closed \in BOOLEAN /\ backlog \in 0..Capacity
  /\ said \in Says
  /\ asked \in 0..(MaxRetries + 1)

\* Whoever sees Error has seen exactly MAX_RETRIES attempts announced since the
\* task started or was last connected, so a task that reaches its peer now and
\* then never gives up, and no attempt goes unannounced.
ErrorIsEarned == said = "Error" => asked = MaxRetries

\* A caller whose peer stays away gives up: it does not go on for ever without
\* being connected.
CallerGivesUp ==
  kind = "caller" /\ <>[](pos # "linked") => <>(pos = "gone")

\* A calling sender whose input has stopped publishing ends, however often its
\* connection breaks on the way.
ClosedSenderEnds == sender /\ kind = "caller" /\ closed ~> pos = "gone"

\* The loop as StreamControl sees it.
LifePhase == IF pos \in {"ask", "pause"} THEN "start"
             ELSE IF pos = "open" THEN "waiting"
             ELSE IF pos = "linked" THEN "flowing" ELSE "done"
Life == INSTANCE TaskLife WITH phase <- LifePhase

\* The loop makes no move and sends no status that StreamControl does not
\* expect of an SRT task.
ImplementsLife == Life!Spec
=============================================================================
