---------------------------- MODULE StreamControl ---------------------------
(***************************************************************************)
(* The control plane of the gateway: the map ACTIVE_STREAMS of inputs and  *)
(* their outputs, the worker tasks it owns, the queue of state changes and *)
(* the processor that applies them, the rows of the database, the HTTP     *)
(* handlers that create, delete, start, stop and update streams, and the   *)
(* start of the process, which rebuilds the map from the rows.             *)
(*                                                                         *)
(* ACTIVE_STREAMS is behind one RwLock, so each section of a handler that  *)
(* holds the lock is one action; a handler that takes the lock several     *)
(* times, or that writes the database without it, is as many actions, and  *)
(* remembers in pc[c] where it is and what it has read.                    *)
(*                                                                         *)
(* Left out: packets, ports and the contents of configurations, analyses,  *)
(* metrics, and failing database statements.                               *)
(***************************************************************************)
EXTENDS Naturals, Sequences, FiniteSets, StreamTask

CONSTANTS
  Inputs,     \* ids of inputs, as the database hands them out
  Outputs,    \* ids of outputs
  Parent,     \* the input each output belongs to
  Kind,       \* the kind of each stream
  Source,     \* the input each SPTS input filters
  HostNamed,  \* UDP outputs whose destination is a host name, not an address
  Preloaded,  \* streams that have a row when the process is first started
  Clients,    \* HTTP requests that may be served at the same time
  MaxGen,     \* bound: tasks spawned for one stream between two restarts
  MaxQueue,   \* bound: state changes waiting for the processor
  Budget      \* bound: how often each kind of fault may happen

Streams == Inputs \cup Outputs
Faults  == {"error",   \* a task fails for good
            "lookup",  \* a host name does not resolve
            "late",    \* an aborted task finishes the poll it is in
            "crash"}   \* the process ends and is started again

ASSUME StreamControlAssumption ==
  /\ Inputs \cap Outputs = {}
  /\ Parent \in [Outputs -> Inputs]
  /\ \A i \in Inputs : Kind[i] \in InputKinds
  /\ \A o \in Outputs : Kind[o] \in OutputKinds
  /\ Source \in [{i \in Inputs : Kind[i] = "spts"} -> Inputs]
  /\ HostNamed \subseteq {o \in Outputs : Kind[o] = "udp"}
  /\ Preloaded \subseteq Streams
  /\ \A o \in Preloaded \cap Outputs : Parent[o] \in Preloaded
  /\ MaxGen \in Nat \ {0} /\ MaxQueue \in Nat
  /\ Budget \in [Faults -> Nat]

VARIABLES
  present,  \* inputs that are keys of ACTIVE_STREAMS
  running,  \* outputs that are keys of their input's output_tasks
  stopped,  \* outputs that are keys of their input's stopped_outputs
  status,   \* status[s] of an entry; "Stopped" when there is no entry
  handle,   \* the task an entry can abort, by generation; 0 is None
  channel,  \* packet_tx of an input: the generation of the task that was
            \* spawned with it; 0 is a channel made without a task
  gen,      \* tasks spawned for a stream since the process started
  phase,    \* phase[s][g] of task g of stream s
  aborted,  \* tasks of s that have been told to abort
  sub,      \* the channel (of Parent[s] or Source[s]) that task g reads
  queue,    \* state changes sent and not yet processed
  row,      \* the status column of a stream's row, or "none", "deleted"
  pc,       \* where each client's handler is
  budget    \* faults that may still happen

memory   == <<present, running, stopped, status, handle, channel>>
taskVars == <<gen, phase, aborted, sub>>
vars     == <<memory, taskVars, queue, row, pc, budget>>

Gens     == 1..MaxGen
NoStream == "no stream"
Idle     == [at |-> "idle", op |-> "none", s |-> NoStream, g |-> 0,
             st |-> "Stopped"]
Labels   == {"idle", "spawn", "insert", "refuse", "probe", "halt", "check",
             "respawn", "source", "attach", "adopt", "park", "begin", "end",
             "read", "write"}
Ops      == {"none", "create", "start", "stop", "update"}
RowStates == Status \cup {"none", "deleted"}
Messages == [s : Streams, st : Status]
Handlers == [at : Labels, op : Ops, s : Streams \cup {NoStream},
             g : 0..MaxGen, st : Status]

OutputsOf(i)     == {o \in Outputs : Parent[o] = i}
RunningOf(i)     == running \cap OutputsOf(i)
StoppedOf(i)     == stopped \cap OutputsOf(i)
HasRow(s)        == row[s] \notin {"none", "deleted"}
LegacyStatus(s)  == "running"
InitialStatus(s) == IF s \in Inputs THEN InputStatus(Kind[s])
                                    ELSE OutputStatus(Kind[s])

\* f with the value x at every s of S.
Set(f, S, x) == [s \in DOMAIN f |-> IF s \in S THEN x ELSE f[s]]

Spend(f) == budget[f] > 0 /\ budget' = [budget EXCEPT ![f] = @ - 1]

\* The entries of S show the status of a task that was just spawned.
ShowSpawned(S) ==
  status' = [s \in Streams |-> IF s \in S THEN InitialStatus(s) ELSE status[s]]

\* delete_input_from_db and delete_output_from_db.
DeleteOutputRows(S) ==
  row' = [s \in Streams |-> IF s \in S \cap Outputs /\ HasRow(s)
                            THEN "deleted" ELSE row[s]]
DeleteInputRows(S) ==
  row' = [s \in Streams |-> IF s \in S \cap Inputs /\ HasRow(s)
                            THEN "deleted" ELSE row[s]]
DeleteRows(S) ==
  row' = [s \in Streams |-> IF s \in S /\ HasRow(s) THEN "deleted" ELSE row[s]]

-----------------------------------------------------------------------------
(* Tasks *)

\* Spawn one task for each stream of S; the task of s reads channel c[s].
Spawn(S, c) ==
  /\ \A s \in S : gen[s] < MaxGen
  /\ gen'   = [s \in Streams |-> IF s \in S THEN gen[s] + 1 ELSE gen[s]]
  /\ phase' = [s \in Streams |-> IF s \in S
                  THEN [phase[s] EXCEPT ![gen[s] + 1] = "start"] ELSE phase[s]]
  /\ sub'   = [s \in Streams |-> IF s \in S
                  THEN [sub[s] EXCEPT ![gen[s] + 1] = c[s]] ELSE sub[s]]

\* Abort the tasks that the entries of S hold.
AbortNothing(S) == UNCHANGED aborted
Abort(S) ==
  aborted' = [s \in Streams |-> IF s \in S
                THEN aborted[s] \cup ({handle[s]} \ {0}) ELSE aborted[s]]

\* The input whose packets a task of s reads, for a sender and an SPTS filter.
Upstream(s) == IF s \in Outputs THEN Parent[s] ELSE Source[s]
Reads(s)    == s \in Outputs \/ Kind[s] = "spts"

\* Every sender of the broadcast channel that task g of s reads is gone: the
\* entry of its input holds another channel, and the task that publishes on
\* this one has ended.
Closed(s, g) ==
  LET i == Upstream(s)
      c == sub[s][g]
  IN  /\ ~(i \in present /\ channel[i] = c)
      /\ c # 0 => phase[i][c] = "done"

Moves(s, g) ==
  LET closed == Reads(s) /\ Closed(s, g)
  IN  IF s \in Inputs THEN InputMoves(Kind[s], phase[s][g], closed)
                      ELSE OutputMoves(Kind[s], phase[s][g], closed)

Send(s, say) ==
  IF say = "nothing" THEN UNCHANGED queue
  ELSE /\ Len(queue) < MaxQueue
       /\ queue' = Append(queue, [s |-> s, st |-> say])

\* A task makes a move of its kind.
TaskStep(s, g) ==
  /\ g \notin aborted[s]
  /\ \E m \in Moves(s, g) :
       /\ Send(s, m.say)
       /\ phase' = [phase EXCEPT ![s][g] = m.next]
       /\ IF m.fault THEN Spend("error") ELSE UNCHANGED budget
  /\ UNCHANGED <<memory, gen, aborted, sub, row, pc>>

\* Aborting is asynchronous: a task that is being polled on another thread
\* completes the poll, and what it sends then is sent.
LateStep(s, g) ==
  /\ g \in aborted[s]
  /\ \E m \in Moves(s, g) : Send(s, m.say)
  /\ phase' = [phase EXCEPT ![s][g] = "done"]
  /\ Spend("late")
  /\ UNCHANGED <<memory, gen, aborted, sub, row, pc>>

\* The runtime drops the future of an aborted task.
AbortLands(s, g) ==
  /\ g \in aborted[s] /\ phase[s][g] \in LivePhases
  /\ phase' = [phase EXCEPT ![s][g] = "done"]
  /\ UNCHANGED <<memory, gen, aborted, sub, queue, row, pc, budget>>

-----------------------------------------------------------------------------
(* The state change processor *)

\* Whether the processor finds the entry a message is about.
Found(s) == IF s \in Inputs THEN s \in present
            ELSE Parent[s] \in present /\ s \in running

\* Messages are applied in the order they were sent, to whatever entry has
\* the id now; one about an id that has no entry is dropped.
Process ==
  /\ queue # <<>>
  /\ LET m == Head(queue) IN
       status' = IF Found(m.s) THEN [status EXCEPT ![m.s] = m.st] ELSE status
  /\ queue' = Tail(queue)
  /\ UNCHANGED <<present, running, stopped, handle, channel, taskVars, row,
                 pc, budget>>

-----------------------------------------------------------------------------
(* Handlers of inputs *)

Goto(c, label) == pc' = [pc EXCEPT ![c].at = label]
Return(c)      == pc' = [pc EXCEPT ![c] = Idle]
Carry(c, label, g) ==
  pc' = [pc EXCEPT ![c] = [pc[c] EXCEPT !.at = label, !.g = g]]
At(c, label)   == pc[c].at = label
Begin(c, label, op, s) ==
  pc' = [pc EXCEPT ![c] = [Idle EXCEPT !.at = label, !.op = op, !.s = s]]

\* create_input saves the row first, which gives the input its id.
CreateInput(c, i) ==
  /\ At(c, "idle") /\ row[i] = "none"
  /\ row' = [row EXCEPT ![i] = "Listening"]
  /\ Begin(c, "spawn", "create", i)
  /\ UNCHANGED <<memory, taskVars, queue, budget>>

\* spawn_input starts the task before the input is in ACTIVE_STREAMS.  Only an
\* SPTS input can fail here, when its source has no entry.
SpawnInput(c) ==
  LET i == pc[c].s IN
  /\ At(c, "spawn")
  /\ IF Kind[i] = "spts" /\ Source[i] \notin present
     THEN Goto(c, "refuse") /\ UNCHANGED taskVars
     ELSE /\ Spawn({i}, [s \in {i} |-> IF Reads(i) THEN channel[Source[i]]
                                                   ELSE 0])
          /\ Carry(c, "insert", gen[i] + 1)
          /\ UNCHANGED aborted
  /\ UNCHANGED <<memory, queue, row, budget>>

InsertInput(c) ==
  LET i == pc[c].s IN
  /\ At(c, "insert")
  /\ present' = present \cup {i}
  /\ status'  = [status EXCEPT ![i] = InitialStatus(i)]
  /\ handle'  = [handle EXCEPT ![i] = pc[c].g]
  /\ channel' = [channel EXCEPT ![i] = pc[c].g]
  /\ Return(c)
  /\ UNCHANGED <<running, stopped, taskVars, queue, row, budget>>

\* The input that could not be spawned is kept, in Error, so that it can be
\* deleted; the lock is held until the row says so too.
InsertFailedInput(c) ==
  LET i == pc[c].s IN
  /\ At(c, "refuse")
  /\ present' = present \cup {i}
  /\ status'  = [status EXCEPT ![i] = "Error"]
  /\ row'     = [row EXCEPT ![i] = "Error"]
  /\ Return(c)
  /\ UNCHANGED <<running, stopped, handle, channel, taskVars, queue, budget>>

\* delete_input holds the lock from the removal of the entry to the deletion
\* of the rows.  The entries of the outputs go with the input.
DeleteInput(c, i) ==
  /\ At(c, "idle") /\ i \in present
  /\ Abort({i} \cup RunningOf(i))
  /\ present' = present \ {i}
  /\ running' = running \ OutputsOf(i)
  /\ stopped' = stopped \ OutputsOf(i)
  /\ status'  = Set(status, {i} \cup OutputsOf(i), "Stopped")
  /\ handle'  = Set(handle, {i} \cup OutputsOf(i), 0)
  /\ channel' = [channel EXCEPT ![i] = 0]
  /\ DeleteRows({i} \cup OutputsOf(i))
  /\ UNCHANGED <<gen, phase, sub, queue, pc, budget>>

\* start_input, first section: the check that the input is not active.
MayAlwaysStart(i) == i \in present
MayStart(i) == i \in present /\ ~IsActive(status[i])

StartInput(c, i) ==
  /\ At(c, "idle") /\ MayStart(i)
  /\ Begin(c, "respawn", "start", i)
  /\ UNCHANGED <<memory, taskVars, queue, row, budget>>

RestartInput(c) ==
  /\ At(c, "check") /\ pc[c].s \in Inputs
  /\ IF MayStart(pc[c].s) THEN Goto(c, "respawn") ELSE Return(c)
  /\ UNCHANGED <<memory, taskVars, queue, row, budget>>

\* The outputs of i that are in stopped_outputs are all started again on the
\* new channel, except those whose host name does not resolve, which are then
\* in neither map.
RestartOutputsTwice(i, failed) ==
  /\ failed = {}
  /\ running' = running \cup StoppedOf(i)
  /\ UNCHANGED <<stopped, budget>>
RestartOutputs(i, failed) ==
  /\ failed \subseteq StoppedOf(i) \cap HostNamed
  /\ running' = running \cup (StoppedOf(i) \ failed)
  /\ stopped' = stopped \ StoppedOf(i)
  /\ IF failed = {} THEN UNCHANGED budget ELSE Spend("lookup")

\* start_input, second section, for UDP and SRT inputs: the lock was released
\* after the check and nothing is checked again but that the entry exists.
Respawn(c) ==
  LET i == pc[c].s IN
  /\ At(c, "respawn") /\ Kind[i] # "spts"
  /\ \/ /\ i \notin present
        /\ Return(c)
        /\ UNCHANGED <<memory, taskVars, budget>>
     \/ /\ i \in present
        /\ \E failed \in SUBSET StoppedOf(i) :
             LET S == {i} \cup (StoppedOf(i) \ failed) IN
             /\ RestartOutputs(i, failed)
             /\ Spawn(S, [s \in S |-> IF s = i THEN 0 ELSE gen[i] + 1])
             /\ ShowSpawned(S)
             /\ handle'  = [s \in Streams |-> IF s \in S THEN gen[s] + 1
                                                          ELSE handle[s]]
             /\ channel' = [channel EXCEPT ![i] = gen[i] + 1]
        /\ Goto(c, IF pc[c].op = "update" THEN "write" ELSE "read")
        /\ UNCHANGED <<present, aborted>>
  /\ UNCHANGED <<queue, row>>

\* For an SPTS input the write lock is given up again; under a read lock the
\* source is found active ...
ReachInput(c) ==
  LET i == pc[c].s IN
  /\ At(c, "respawn") /\ Kind[i] = "spts"
  /\ IF i \in present THEN Goto(c, "source") ELSE Return(c)
  /\ UNCHANGED <<memory, taskVars, queue, row, budget>>

CheckSource(c) ==
  LET parent == Source[pc[c].s] IN
  /\ At(c, "source")
  /\ IF parent \in present /\ IsActive(status[parent])
     THEN Goto(c, "attach") ELSE Return(c)
  /\ UNCHANGED <<memory, taskVars, queue, row, budget>>

\* ... under a second one the filter is spawned on the channel that the source
\* has by then, whatever became of it and of the input since ...
Attach(c) ==
  LET i == pc[c].s IN
  /\ At(c, "attach")
  /\ IF Source[i] \in present
     THEN /\ Spawn({i}, [s \in {i} |-> channel[Source[i]]])
          /\ Carry(c, "adopt", gen[i] + 1)
          /\ UNCHANGED aborted
     ELSE Return(c) /\ UNCHANGED taskVars
  /\ UNCHANGED <<memory, queue, row, budget>>

\* ... and the write lock is taken again to store the new task in the entry.
Adopt(c) ==
  LET i == pc[c].s
      g == pc[c].g
  IN
  /\ At(c, "adopt")
  /\ \/ /\ i \notin present
        /\ Return(c)
        /\ UNCHANGED <<memory, taskVars, budget>>
     \/ /\ i \in present
        /\ \E failed \in SUBSET StoppedOf(i) :
             LET S == StoppedOf(i) \ failed IN
             /\ RestartOutputs(i, failed)
             /\ Spawn(S, [s \in S |-> g])
             /\ ShowSpawned({i} \cup S)
             /\ handle' = [s \in Streams |-> IF s = i THEN g
                             ELSE IF s \in S THEN gen[s] + 1 ELSE handle[s]]
             /\ channel' = [channel EXCEPT ![i] = g]
        /\ Goto(c, IF pc[c].op = "update" THEN "write" ELSE "read")
        /\ UNCHANGED <<present, aborted>>
  /\ UNCHANGED <<queue, row>>

\* stop_input, one section.  Entries of outputs that are not active are
\* dropped from output_tasks without being aborted or kept for a restart.
MayStop(i) == i \in present /\ status[i] # "Stopped"

NoneToRestart(i) == {}
ToRestart(i) == {o \in RunningOf(i) : IsActive(status[o])}
HaltAndClose(i) ==
  /\ Abort({i} \cup ToRestart(i))
  /\ running' = running \ RunningOf(i)
  /\ stopped' = stopped \cup ToRestart(i)
  /\ status'  = Set(status, {i} \cup RunningOf(i), "Stopped")
  /\ handle'  = Set(handle, {i} \cup RunningOf(i), 0)
  /\ channel' = [channel EXCEPT ![i] = 0]
  /\ UNCHANGED <<present, gen, phase, sub, queue, row, budget>>
HaltInput(i) ==
  /\ Abort({i} \cup ToRestart(i))
  /\ running' = running \ RunningOf(i)
  /\ stopped' = stopped \cup ToRestart(i)
  /\ status'  = Set(status, {i} \cup RunningOf(i), "Stopped")
  /\ handle'  = Set(handle, {i} \cup RunningOf(i), 0)
  /\ UNCHANGED <<present, channel, gen, phase, sub, queue, row, budget>>

StopInput(c, i) ==
  /\ At(c, "idle") /\ MayStop(i)
  /\ HaltInput(i)
  /\ Begin(c, "write", "stop", i)

\* update_input writes the row, then looks whether the input is active, stops
\* it if so, and starts it in any case, each in a section of its own.
UpdateInput(c, i) ==
  /\ At(c, "idle") /\ HasRow(i)
  /\ Begin(c, "probe", "update", i)
  /\ UNCHANGED <<memory, taskVars, queue, row, budget>>

ProbeInput(c) ==
  LET i == pc[c].s IN
  /\ At(c, "probe") /\ i \in Inputs
  /\ Goto(c, IF i \in present /\ IsActive(status[i]) THEN "halt" ELSE "check")
  /\ UNCHANGED <<memory, taskVars, queue, row, budget>>

HaltForUpdate(c) ==
  LET i == pc[c].s IN
  /\ At(c, "halt") /\ i \in Inputs
  /\ IF MayStop(i) THEN HaltInput(i) /\ Goto(c, "check")
     ELSE Return(c) /\ UNCHANGED <<memory, taskVars, queue, row, budget>>

-----------------------------------------------------------------------------
(* Handlers of outputs *)

\* start_output_internal, and the same calls in create_output: the sender is
\* spawned on the channel the input holds and replaces any entry of its id.
RunOutput(o) ==
  /\ Spawn({o}, [s \in {o} |-> channel[Parent[o]]])
  /\ running' = running \cup {o}
  /\ status'  = [status EXCEPT ![o] = InitialStatus(o)]
  /\ handle'  = [handle EXCEPT ![o] = gen[o] + 1]
  /\ UNCHANGED <<present, channel, aborted, budget>>

\* A host name that does not resolve.
LookupFails(o) ==
  /\ o \in HostNamed /\ Spend("lookup")
  /\ UNCHANGED <<present, running, status, handle, channel, taskVars>>

\* create_output holds the lock throughout; when the sender cannot be created
\* the row it has already saved stays.
CreateOutput(c, o) ==
  /\ At(c, "idle") /\ row[o] = "none" /\ Parent[o] \in present
  /\ row' = [row EXCEPT ![o] = "Connecting"]
  /\ RunOutput(o) \/ LookupFails(o)
  /\ UNCHANGED <<stopped, queue, pc>>

ParkDeletedOutput(c, o) ==
  /\ At(c, "idle") /\ Parent[o] \in present /\ o \in running
  /\ Abort({o})
  /\ running' = running \ {o} /\ stopped' = stopped \cup {o}
  /\ handle' = [handle EXCEPT ![o] = 0]
  /\ status' = [status EXCEPT ![o] = "Stopped"]
  /\ DeleteRows({o})
  /\ UNCHANGED <<present, channel, gen, phase, sub, queue, pc, budget>>
DeleteOutput(c, o) ==
  /\ At(c, "idle") /\ Parent[o] \in present
  /\ \/ /\ o \in running
        /\ Abort({o})
        /\ running' = running \ {o}
        /\ handle'  = [handle EXCEPT ![o] = 0]
        /\ status'  = [status EXCEPT ![o] = "Stopped"]
        /\ UNCHANGED stopped
     \/ /\ o \in stopped \ running
        /\ stopped' = stopped \ {o}
        /\ UNCHANGED <<aborted, running, handle, status>>
  /\ DeleteRows({o})
  /\ UNCHANGED <<present, channel, gen, phase, sub, queue, pc, budget>>

\* The start and stop endpoints first find the input in the output's row.
StartOutput(c, o) ==
  /\ At(c, "idle") /\ HasRow(o)
  /\ Begin(c, "begin", "start", o)
  /\ UNCHANGED <<memory, taskVars, queue, row, budget>>

\* start_output: the configuration leaves stopped_outputs before the sender is
\* created, and does not come back when that fails.
BeginOutput(c) ==
  LET o == pc[c].s IN
  /\ At(c, "begin")
  /\ \/ /\ Parent[o] \in present /\ status[Parent[o]] # "Stopped"
        /\ o \in stopped
        /\ stopped' = stopped \ {o}
        /\ \/ /\ RunOutput(o)
              /\ Goto(c, IF pc[c].op = "update" THEN "write" ELSE "read")
           \/ LookupFails(o) /\ Return(c)
     \/ /\ \/ Parent[o] \notin present
           \/ status[Parent[o]] = "Stopped"
           \/ o \notin stopped
        /\ Return(c)
        /\ UNCHANGED <<memory, taskVars, budget>>
  /\ UNCHANGED <<queue, row>>

StopOutput(c, o) ==
  /\ At(c, "idle") /\ HasRow(o)
  /\ Begin(c, "end", "stop", o)
  /\ UNCHANGED <<memory, taskVars, queue, row, budget>>

\* stop_output.
HaltOutput(o) ==
  /\ Abort({o})
  /\ running' = running \ {o}
  /\ stopped' = stopped \cup {o}
  /\ status'  = [status EXCEPT ![o] = "Stopped"]
  /\ handle'  = [handle EXCEPT ![o] = 0]
  /\ UNCHANGED <<present, channel, gen, phase, sub, queue, row, budget>>

EndOutput(c) ==
  LET o == pc[c].s IN
  /\ At(c, "end")
  /\ IF Parent[o] \in present /\ o \in running
     THEN HaltOutput(o) /\ Goto(c, IF pc[c].op = "update" THEN "park"
                                                          ELSE "write")
     ELSE Return(c) /\ UNCHANGED <<memory, taskVars, queue, row, budget>>

\* update_output: the row, then whether the output runs, then stop_output.
UpdateOutput(c, o) ==
  /\ At(c, "idle") /\ HasRow(o)
  /\ Begin(c, "probe", "update", o)
  /\ UNCHANGED <<memory, taskVars, queue, row, budget>>

ProbeOutput(c) ==
  LET o == pc[c].s IN
  /\ At(c, "probe") /\ o \in Outputs
  /\ IF Parent[o] \notin present THEN Return(c)
     ELSE Goto(c, IF o \in running THEN "end" ELSE "park")
  /\ UNCHANGED <<memory, taskVars, queue, row, budget>>

\* The merged configuration is put in stopped_outputs whatever else is true of
\* the output by now, and start_output follows.
ParkOutput(c) ==
  LET o == pc[c].s IN
  /\ At(c, "park")
  /\ stopped' = IF Parent[o] \in present THEN stopped \cup {o} ELSE stopped
  /\ Goto(c, "begin")
  /\ UNCHANGED <<present, running, status, handle, channel, taskVars, queue,
                 row, budget>>

-----------------------------------------------------------------------------
(* The ends of the start, stop and update handlers *)

\* The start endpoints read the status once more, with a default for a stream
\* that has gone, to store it in the row.
ReadStatus(c) ==
  LET s == pc[c].s IN
  /\ At(c, "read")
  /\ pc' = [pc EXCEPT ![c].at = "write",
                      ![c].st = IF Found(s) THEN status[s]
                                ELSE IF s \in Inputs THEN "Listening"
                                ELSE "Connecting"]
  /\ UNCHANGED <<memory, taskVars, queue, row, budget>>

\* The row is written after the lock has been released.
FinalStatusOfStop(c) == IF pc[c].op = "stop" THEN "Stopped" ELSE row[pc[c].s]
FinalStatus(c) ==
  CASE pc[c].op = "stop"   -> "Stopped"
    [] pc[c].op = "update" -> IF pc[c].s \in Inputs THEN "Listening"
                                                    ELSE "Connecting"
    [] OTHER               -> pc[c].st

InsertRow(c) ==
  LET s == pc[c].s IN
  /\ At(c, "write")
  /\ row' = [row EXCEPT ![s] = FinalStatus(c)]
  /\ Return(c)
  /\ UNCHANGED <<memory, taskVars, queue, budget>>
WriteRow(c) ==
  LET s == pc[c].s IN
  /\ At(c, "write")
  /\ row' = IF HasRow(s) THEN [row EXCEPT ![s] = FinalStatus(c)] ELSE row
  /\ Return(c)
  /\ UNCHANGED <<memory, taskVars, queue, budget>>

-----------------------------------------------------------------------------
(* The start of the process *)

\* What load_from_db makes of the rows r.  Base inputs are loaded before SPTS
\* inputs, so an SPTS input whose source is missing, or is itself an SPTS
\* input, comes back stopped.
Rowed(r)   == {s \in Streams : r[s] \notin {"none", "deleted"}}
Resumed(r) ==
  {i \in Inputs \cap Rowed(r) :
     /\ r[i] # "Stopped"
     /\ Kind[i] = "spts" =>
          Source[i] \in Rowed(r) /\ Kind[Source[i]] # "spts"}

\* Outputs are restored by their own rows, whether or not their input runs; a
\* UDP output is only restored when its destination is an address.
Loaded(r)  == {o \in Outputs \cap Rowed(r) : Parent[o] \in Rowed(r)}
Parked(r)  == {o \in Loaded(r) : r[o] = "Stopped"}
Sending(r) == Loaded(r) \ (Parked(r) \cup HostNamed)

\* The state right after load_from_db.  The processor and the HTTP server are
\* started after it, so all that has happened is that tasks were spawned.
Live(r)         == Resumed(r) \cup Sending(r)
LoadedStatus(r) == [s \in Streams |-> IF s \in Live(r) THEN InitialStatus(s)
                                      ELSE "Stopped"]
FirstGen(r)     == [s \in Streams |-> IF s \in Live(r) THEN 1 ELSE 0]
LoadedChannel(r) == [i \in Inputs |-> FirstGen(r)[i]]
LoadedPhase(r)  == [s \in Streams |-> [g \in Gens |->
                      IF g = 1 /\ s \in Live(r) THEN "start" ELSE "unborn"]]
LoadedSub(r)    == [s \in Streams |-> [g \in Gens |->
                      IF g = 1 /\ s \in Live(r) /\ Reads(s)
                      THEN FirstGen(r)[Upstream(s)] ELSE 0]]

\* Rows a database may hold when the process is first started.
InitialRows ==
  {r \in [Streams -> RowStates] :
     /\ \A s \in Streams :
          r[s] \in IF s \in Preloaded
                   THEN {"Stopped",
                         IF s \in Inputs THEN "Listening" ELSE "Connecting"}
                   ELSE {"none"}}

Init ==
  /\ row \in InitialRows
  /\ present = Inputs \cap Rowed(row)
  /\ running = Sending(row) /\ stopped = Parked(row)
  /\ status = LoadedStatus(row)
  /\ handle = FirstGen(row) /\ channel = LoadedChannel(row)
  /\ gen = FirstGen(row) /\ phase = LoadedPhase(row)
  /\ aborted = [s \in Streams |-> {}] /\ sub = LoadedSub(row)
  /\ queue = <<>>
  /\ pc = [c \in Clients |-> Idle]
  /\ budget = Budget

\* The process ends, killed or shut down, and is started again: the rows are
\* all that is left.  Shutting down writes nothing either.  delete_input deletes
\* the rows of the outputs and then that of the input, in two statements, and
\* may be caught in between.
CaughtDeleting ==
  \E c \in Clients, i \in present : At(c, "idle") /\ DeleteRows(OutputsOf(i))

Restart ==
  /\ Spend("crash")
  /\ UNCHANGED row \/ CaughtDeleting
  /\ present' = Inputs \cap Rowed(row')
  /\ running' = Sending(row') /\ stopped' = Parked(row')
  /\ status' = LoadedStatus(row')
  /\ handle' = FirstGen(row') /\ channel' = LoadedChannel(row')
  /\ gen' = FirstGen(row') /\ phase' = LoadedPhase(row')
  /\ aborted' = [s \in Streams |-> {}] /\ sub' = LoadedSub(row')
  /\ queue' = <<>>
  /\ pc' = [c \in Clients |-> Idle]

-----------------------------------------------------------------------------
TaskAction ==
  \E s \in Streams, g \in Gens :
    TaskStep(s, g) \/ LateStep(s, g) \/ AbortLands(s, g)

\* A request arrives.
Request(c) ==
  \/ \E i \in Inputs : \/ CreateInput(c, i) \/ DeleteInput(c, i)
                       \/ StartInput(c, i)  \/ StopInput(c, i)
                       \/ UpdateInput(c, i)
  \/ \E o \in Outputs : \/ CreateOutput(c, o) \/ DeleteOutput(c, o)
                        \/ StartOutput(c, o)  \/ StopOutput(c, o)
                        \/ UpdateOutput(c, o)

\* A handler that is under way goes on.
Continue(c) ==
  \/ SpawnInput(c) \/ InsertInput(c) \/ InsertFailedInput(c)
  \/ RestartInput(c) \/ Respawn(c) \/ ReachInput(c) \/ CheckSource(c)
  \/ Attach(c) \/ Adopt(c)
  \/ ProbeInput(c) \/ HaltForUpdate(c)
  \/ BeginOutput(c) \/ EndOutput(c) \/ ProbeOutput(c) \/ ParkOutput(c)
  \/ ReadStatus(c) \/ WriteRow(c)

Next ==
  \/ TaskAction
  \/ Process
  \/ \E c \in Clients : Request(c) \/ Continue(c)
  \/ Restart

Spec == Init /\ [][Next]_vars

\* Fairness.  The tokio runtime polls every task that is ready, so the
\* processor, an aborted future and a receiver whose channel has been closed
\* all get their turn, and a handler under way runs to its end.  Nothing is
\* assumed of requests, of peers and packets, or of faults.
Notices(s, g) == Reads(s) /\ Closed(s, g) /\ phase[s][g] = "flowing"
Fairness ==
  /\ WF_vars(Process)
  /\ \A s \in Streams, g \in Gens :
       /\ WF_vars(AbortLands(s, g))
       /\ WF_vars(Notices(s, g) /\ TaskStep(s, g))
  /\ \A c \in Clients : WF_vars(Continue(c))
FairSpec == Spec /\ Fairness

-----------------------------------------------------------------------------
(* Properties *)

Base(i)    == i \in Inputs /\ Kind[i] # "spts"
AllIdle    == \A c \in Clients : pc[c].at = "idle"
Creating(i) == \E c \in Clients :
                 pc[c].s = i /\ pc[c].at \in {"spawn", "insert", "refuse"}
LiveTasks(s) == {g \in Gens \ aborted[s] : phase[s][g] \in LivePhases}

\* The type invariant.
TypeOK ==
  /\ present \subseteq Inputs
  /\ running \subseteq Outputs /\ stopped \subseteq Outputs
  /\ status \in [Streams -> Status]
  /\ handle \in [Streams -> 0..MaxGen] /\ channel \in [Inputs -> 0..MaxGen]
  /\ gen \in [Streams -> 0..MaxGen]
  /\ phase \in [Streams -> [Gens -> Phases]]
  /\ aborted \in [Streams -> SUBSET Gens]
  /\ sub \in [Streams -> [Gens -> 0..MaxGen]]
  /\ queue \in Seq(Messages)
  /\ row \in [Streams -> RowStates]
  /\ pc \in [Clients -> Handlers]
  /\ budget \in [Faults -> Nat]

Tracked(s) == Base(s) \/ (s \in Outputs /\ Kind[s] = "udp")
Accounted(s) ==
  \/ gen[s] = 0
  \/ gen[s] \in aborted[s]
  \/ handle[s] = gen[s] /\ Found(s)
  \/ \E c \in Clients :
       pc[c].at = "insert" /\ pc[c].s = s /\ pc[c].g = gen[s]

\* The newest task of a UDP or SRT input, and of a UDP output, can always be
\* reached: it has been told to abort, or the entry of its stream holds its
\* handle, or the create_input that spawned it is about to store it.  However
\* requests, notifications and restarts interleave, what runs unreachable is
\* never the task that was started last, and a deleted stream leaves no
\* reachable task behind.
LatestTaskAccounted == \A s \in Streams : Tracked(s) => Accounted(s)

\* An input has a row exactly when it can be managed through the API or is
\* being created: no interleaving of requests and restarts leaves a row that
\* cannot be deleted, or an entry that a restart would forget.
InputRowsMatchEntries ==
  \A i \in Inputs : HasRow(i) <=> i \in present \/ Creating(i)

\* A stream never has two tasks at work, both publishing or both sending.
OneLiveTask == \A s \in Streams : Cardinality(LiveTasks(s)) <= 1

\* Every task at work can be reached, not just the newest: the entry of its
\* stream can abort it, or the create_input that spawned it is about to store
\* it.  Hence what has been stopped or deleted does nothing any more.
Reachable(s, g) ==
  \/ handle[s] = g /\ Found(s)
  \/ \E c \in Clients : At(c, "insert") /\ pc[c].s = s /\ pc[c].g = g
EveryTaskReachable ==
  \A s \in Streams : \A g \in LiveTasks(s) : Reachable(s, g)

\* An output is either running or stopped, not both: otherwise it would be
\* started a second time by the next start of its input.
OutputInOneMap == running \cap stopped = {}

\* What the map knows of outputs the database knows too.
OutputEntriesHaveRows == running \cup stopped \subseteq Rowed(row)

\* And the other way round: an output that has a row can be started, stopped
\* and deleted.
OutputRowsHaveEntries == Outputs \cap Rowed(row) \subseteq running \cup stopped

\* A restart loses no output: load_from_db finds the input of every one.
RestoreFindsInputs == Outputs \cap Rowed(row) = Loaded(row)

\* When no request is under way, a base input whose row says "stopped", and
\* that would hence stay stopped over a restart, has no task.
StoppedRowHasNoTask ==
  AllIdle => \A i \in present : Base(i) /\ row[i] = "Stopped" => handle[i] = 0

\* A UDP output that shows Connected has a sender that reads the channel its
\* input publishes on.
ConnectedMeansFed ==
  \A o \in running :
    Kind[o] = "udp" /\ status[o] = "Connected" =>
      sub[o][handle[o]] = channel[Parent[o]]

\* What TaskLife assumes of StreamControl: a task that reads a channel finds it
\* open when it is spawned, and when the channel has closed it stays closed until
\* the process is started again, however many tasks its input has had since.
ChannelsCloseOnce ==
  [][\A s \in Streams, g \in Gens :
       Reads(s) /\ phase'[s][g] \in LivePhases =>
         IF Restart \/ phase[s][g] = "unborn" THEN ~Closed(s, g)'
         ELSE Closed(s, g) => Closed(s, g)']_vars

\* Deleting an input ends its task and every sender of its outputs.
DeletedInputGoesQuiet ==
  \A i \in Inputs : row[i] = "deleted" ~>
    \A s \in {i} \cup OutputsOf(i), g \in Gens :
      phase[s][g] \in {"unborn", "done"}

\* What a task reached is shown: an input whose task receives packets comes to
\* be shown Connected, unless it stops receiving or is stopped.  Inputs that
\* were in the database when the process started are meant; create_input spawns
\* the task before it stores the entry, and may lose the notification.
ConnectionIsShown ==
  \A i \in Inputs \cap Preloaded, g \in Gens :
    (Base(i) /\ i \in present /\ handle[i] = g /\ phase[i][g] = "flowing") ~>
      \/ status[i] = "Connected"
      \/ handle[i] # g \/ phase[i][g] # "flowing"

\* How the rows and the map amount to the life of a stream's id.
LifeOf(s) == CASE row[s] = "none"                -> "free"
               [] row[s] = "deleted"             -> "deleted"
               [] HasRow(s) /\ (s \in Outputs \/ s \in present) -> "managed"
               [] OTHER                          -> "creating"
StreamLives == [s \in Streams |-> LifeOf(s)]
Registered  == INSTANCE Registry WITH life <- StreamLives

\* However requests interleave and wherever the process dies, streams are
\* created, deleted with what belongs to them and never brought back, each in
\* one step: the row a handler writes late finds the stream it is about, or
\* nothing, and a restart takes up what the rows say.
ImplementsRegistry == Registered!Spec
=============================================================================
