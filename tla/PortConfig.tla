----------------------------- MODULE PortConfig -----------------------------
(***************************************************************************)
(* The port a stream is configured with: how a request's old and new       *)
(* fields are read, how a port is found when none is asked for, how an     *)
(* update is merged into the stored configuration, and what a restart      *)
(* makes of the stored rows.                                               *)
(*                                                                         *)
(* Of a configuration only the port fields are kept.  An Option is a set   *)
(* of at most one element.  Streams are of four kinds, after how their     *)
(* port fields are treated:                                                *)
(*                                                                         *)
(*   input     a UDP or SRT listener input, which binds its port           *)
(*   listener  an SRT listener output, which binds its port                *)
(*   sender    a UDP output, which sends to the port of its destination    *)
(*   caller    an SRT caller output, which connects to that port           *)
(*                                                                         *)
(* Which input an output belongs to and which host it goes to is left      *)
(* open; that input is there throughout.  Starting a sender may fail, as   *)
(* its host may not resolve.                                               *)
(***************************************************************************)
EXTENDS Naturals, FiniteSets

CONSTANTS
  Streams,    \* ids of streams
  Clients,    \* requests that may be under way at a time
  Ports,      \* u16
  AutoPorts,  \* CONFIG.port_range()
  Asks,       \* configurations a client may ask for
  Patches,    \* ports an update may name, as Options
  Fallback,   \* the port of an output that names none
  NoOne,      \* not a client
  MaxPatches  \* bound: updates

Kinds     == {"input", "listener", "sender", "caller"}
Option(S) == {{}} \cup {{x} : x \in S}
Configs   == [bind : Option(Ports), legacy : Option(Ports), auto : Option(BOOLEAN)]

ASSUME PortConfigAssumption ==
  /\ Ports \subseteq Nat /\ 0 \in Ports
  /\ AutoPorts \subseteq Ports \ {0}
  /\ Asks \subseteq Configs
  /\ Patches \subseteq Option(Ports)
  /\ Fallback \in Ports \ {0}
  /\ NoOne \notin Clients
  /\ MaxPatches \in Nat

Or(a, b)  == IF a = {} THEN b ELSE a
Get(a, d) == CHOOSE x \in Or(a, {d}) : TRUE

-----------------------------------------------------------------------------
(* Configurations.  The new field bind stands for bind_port, of senders and  *)
(* callers for remote_port; legacy stands for listen_port, of senders and    *)
(* callers for the port in destination_addr or target_addr, 0 included.      *)

AutoInput(c) == c.bind = {0} \/ (c.bind = {} /\ c.legacy \in {{}, {0}})

AutoOutput(remote, bind, addr) ==
  {0} \in {remote, bind, addr} \/ (remote = {} /\ bind = {})

IsAutomatic(k, c) ==
  /\ k # "caller"
  /\ \/ c.auto = {TRUE}
     \/ /\ c.auto = {}
        /\ \/ k = "input"    /\ AutoInput(c)
           \/ k = "sender"   /\ AutoOutput(c.bind, {}, c.legacy)
           \/ k = "listener" /\ (AutoOutput({}, c.bind, {}) \/ AutoInput(c))

\* The configuration create_input and create_output store instead.
Assign(k, c, p) ==
  [bind |-> {p}, legacy |-> IF k = "sender" THEN c.legacy ELSE {p}, auto |-> {}]

\* get_bind_port and get_remote_port.
Port(k, c) ==
  IF k \in {"input", "listener"} THEN Or(c.legacy, c.bind)
  ELSE IF c.bind # {} THEN c.bind \ {0} ELSE c.legacy

\* The port a stream with configuration c works on.
Default(k)      == IF k = "input" THEN 0 ELSE Fallback
Effective(k, c) == Get(Port(k, c), Default(k))

\* merge_input_config and merge_output_config.
AddPort(c, new)    == [bind |-> new \cup c.bind, legacy |-> {}, auto |-> {}]
ForgetPort(c, new) == [bind |-> new, legacy |-> {}, auto |-> {}]
Merge(c, new) == [bind |-> Or(new, c.bind), legacy |-> {}, auto |-> {}]

\* The columns of a row: the configuration, the port in destination, and
\* listen_port.
CreateRowNewField(k, c) ==
  [cfg  |-> c, dest |-> Effective(k, c),
   col  |-> IF k = "listener" THEN c.bind ELSE {}]
CreateRow(k, c) ==
  [cfg  |-> c, dest |-> Effective(k, c),
   col  |-> IF k = "listener" THEN {Effective(k, c)} ELSE {}]
OldColumn(k, c, old) ==
  [cfg |-> c, dest |-> Get(Port(k, c), Default(k)), col |-> old.col]
UpdateRow(k, c, old) ==
  [cfg  |-> c,
   dest |-> Get(Port(k, c), IF k = "sender" THEN Fallback ELSE 0),
   col  |-> IF k = "listener" THEN Port(k, c) ELSE {}]

\* The port load_from_db gives the stream of a row.  It has none for an active
\* listener whose listen_port is NULL, and then fails as a whole.
LoadPort(k, r, stopped) ==
  CASE k = "input"                 -> {Effective(k, r.cfg)}
    [] k = "sender"                -> {r.dest}
    [] k = "caller" /\ ~stopped    -> {r.dest}
    [] k = "listener" /\ ~stopped  -> r.col
    [] OTHER                       -> {Effective(k, r.cfg)}

-----------------------------------------------------------------------------
VARIABLES
  row,      \* the row of a stream, an Option
  kind,     \* the kind of a stream
  entry,    \* the port in the entry of a stream, an Option
  spent,    \* ids that have been given out
  stopped,  \* streams whose row says stopped
  pc,       \* the request of a client: where it is, its stream, its config
  lock,     \* the client that holds ACTIVE_STREAMS over several steps
  up,       \* the process has come up
  patches,  \* bound: updates so far
  auto,     \* history: streams whose port was found for them
  rivals,   \* history: pairs whose ports were searched for at the same time
  patched,  \* history: streams that were updated
  torn,     \* history: streams on which requests overlapped or were cut short
  behind,   \* history: streams whose entry the last update did not get to
  named     \* history: the port last asked for with the new field, or found

history == <<auto, rivals, patched, torn, behind, named>>
vars    == <<kind, row, entry, spent, stopped, pc, lock, up, patches, history>>

Idle == [at |-> "idle", s |-> NoOne, cfg |-> [bind |-> {}, legacy |-> {}, auto |-> {}]]

Init ==
  /\ kind = [s \in Streams |-> "input"]
  /\ row = [s \in Streams |-> {}] /\ entry = [s \in Streams |-> {}]
  /\ spent = {} /\ stopped = {}
  /\ pc = [c \in Clients |-> Idle] /\ lock = NoOne /\ up = TRUE /\ patches = 0
  /\ auto = {} /\ rivals = {} /\ patched = {} /\ torn = {} /\ behind = {}
  /\ named = [s \in Streams |-> {}]

Row(s)      == CHOOSE r \in row[s] : TRUE
Stored(S)   == {s \in S : row[s] # {}}
Inputs      == {s \in Streams : kind[s] = "input"}
Outputs     == Streams \ Inputs
Busy(s)     == \E c \in Clients : pc[c].s = s
At(c, at)   == up /\ pc[c].at = at
Goto(c, at) == pc' = [pc EXCEPT ![c].at = at]
Finish(c)   == pc' = [pc EXCEPT ![c] = Idle]
Release(c)  == lock' = IF lock = c THEN NoOne ELSE lock

-----------------------------------------------------------------------------
(* create_input and create_output.  create_output holds the write lock from  *)
(* its first step to its last, create_input takes it for the insertion.      *)

NewField(c) == IF c.legacy \subseteq c.bind THEN c.bind \ {0} ELSE {}

AfterSearch(k) == IF k = "input" THEN "save" ELSE "check"

Create(c, s, k, ask) ==
  /\ At(c, "idle") /\ s \notin spent /\ ~Busy(s)
  /\ kind' = [kind EXCEPT ![s] = k]
  /\ pc' = [pc EXCEPT ![c] =
              [at  |-> IF IsAutomatic(k, ask) THEN "search" ELSE AfterSearch(k),
               s |-> s, cfg |-> ask]]
  /\ IF k = "input" THEN UNCHANGED lock ELSE lock = NoOne /\ lock' = c
  /\ named' = [named EXCEPT ![s] = NewField(ask)]
  /\ auto' = auto \ {s}
  /\ UNCHANGED <<row, entry, spent, stopped, up, patches, rivals, patched, torn,
                 behind>>

\* The handler answers with an error.
Refuse(c) ==
  /\ Finish(c) /\ Release(c)
  /\ UNCHANGED <<kind, row, entry, spent, stopped, up, patches, history>>

\* find_available_port: a port in the range that no row mentions and that the
\* host has free; the destinations of senders and callers are not looked at.
OutputPorts == UNION {Row(o).col : o \in Stored(Outputs)}
UsedPorts   == OutputPorts
                 \cup UNION {Row(i).cfg.bind \cup Row(i).cfg.legacy : i \in Stored(Inputs)}
Search(c) ==
  /\ At(c, "search")
  /\ LET s == pc[c].s IN
       \E p \in AutoPorts \ UsedPorts :
         /\ pc' = [pc EXCEPT ![c] = [at  |-> AfterSearch(kind[s]), s |-> s,
                                     cfg |-> Assign(kind[s], @.cfg, p)]]
         /\ auto' = auto \cup {s} /\ named' = [named EXCEPT ![s] = {p}]
         /\ rivals' = rivals \cup {{s, pc[d].s} : d \in
              {d \in Clients : pc[d].at \in {"check", "save"} /\ pc[d].s \in auto}}
  /\ UNCHANGED <<kind, row, entry, spent, stopped, lock, up, patches, patched, torn,
                 behind>>
NothingFree(c) == At(c, "search") /\ Refuse(c)

\* check_output_exists and check_port_conflict.  An output with the same
\* destination is in the way only when it has the same input and host.
Exists(k, port) ==
  \E o \in Stored(Outputs) :
    Row(o).dest = port /\ (kind[o] = "listener" <=> k = "listener")
NeverTaken(k, port) == k = "sender" /\ port \in OutputPorts
PortConflict(k, port) == k = "listener" /\ port \in OutputPorts

Wanted(c) == Effective(kind[pc[c].s], pc[c].cfg)
Check(c) ==
  /\ At(c, "check") /\ ~PortConflict(kind[pc[c].s], Wanted(c))
  /\ Goto(c, "save")
  /\ UNCHANGED <<kind, row, entry, spent, stopped, lock, up, patches, history>>
Conflict(c) ==
  /\ At(c, "check")
  /\ Exists(kind[pc[c].s], Wanted(c)) \/ PortConflict(kind[pc[c].s], Wanted(c))
  /\ Refuse(c)

Save(c) ==
  /\ At(c, "save") /\ Goto(c, "insert")
  /\ LET s == pc[c].s IN
       /\ row' = [row EXCEPT ![s] = {CreateRow(kind[s], pc[c].cfg)}]
       /\ spent' = spent \cup {s}
  /\ UNCHANGED <<kind, entry, stopped, lock, up, patches, history>>

\* The entry that starting stream s with configuration c leaves: none when the
\* host a sender is to send to does not resolve.
Entries(s, c) ==
  {{Effective(kind[s], c)}} \cup (IF kind[s] = "sender" THEN {{}} ELSE {})

Insert(c) ==
  /\ At(c, "insert") /\ lock \in {c, NoOne} /\ Release(c)
  /\ Finish(c)
  /\ LET s == pc[c].s IN
       \E e \in Entries(s, pc[c].cfg) : entry' = [entry EXCEPT ![s] = e]
  /\ UNCHANGED <<kind, row, spent, stopped, up, patches, history>>

-----------------------------------------------------------------------------
(* update_input and update_output: read the row, store the merged            *)
(* configuration, put it in the entry.  Stopping and starting the stream on  *)
(* the way is StreamControl's business; the start ends in a status in the    *)
(* row unless it fails.                                                      *)

Patch(c, s, new) ==
  /\ At(c, "idle") /\ row[s] # {} /\ patches < MaxPatches
  /\ patches' = patches + 1
  /\ pc' = [pc EXCEPT ![c] = [at |-> "store", s |-> s, cfg |-> Merge(Row(s).cfg, new)]]
  /\ torn' = IF Busy(s) THEN torn \cup {s} ELSE torn
  /\ named' = IF new = {} THEN named ELSE [named EXCEPT ![s] = new \ {0}]
  /\ UNCHANGED <<kind, row, entry, spent, stopped, lock, up, auto, rivals, patched,
                 behind>>

Store(c) ==
  /\ At(c, "store") /\ Goto(c, "apply")
  /\ LET s == pc[c].s IN
       /\ row' = [row EXCEPT ![s] = {UpdateRow(kind[s], pc[c].cfg, r) : r \in @}]
       /\ patched' = patched \cup {s} /\ behind' = behind \ {s}
  /\ UNCHANGED <<kind, entry, spent, stopped, lock, up, patches, auto, rivals, torn, named>>

Apply(c) ==
  /\ At(c, "apply") /\ lock = NoOne
  /\ Finish(c)
  /\ LET s == pc[c].s IN
       \E e \in Entries(s, pc[c].cfg) :
         /\ entry' = IF s \in Inputs /\ entry[s] = {} THEN entry
                     ELSE [entry EXCEPT ![s] = e]
         /\ stopped' \in {stopped, IF e = {} THEN stopped ELSE stopped \ {s}}
  /\ UNCHANGED <<kind, row, spent, lock, up, patches, history>>

\* Another request stopped, started or deleted the stream between two sections of
\* the update: its own stop is refused and it answers with an error, or it goes on
\* to start what the other put back.
Overtaken(c) ==
  /\ At(c, "apply") /\ lock = NoOne
  /\ Finish(c)
  /\ behind' = behind \cup {pc[c].s}
  /\ UNCHANGED <<kind, row, entry, spent, stopped, lock, up, patches, auto, rivals,
                 patched, torn, named>>

-----------------------------------------------------------------------------
\* The start and stop endpoints, as far as the rows are concerned.
StartOrStop(s) ==
  /\ up /\ lock = NoOne /\ entry[s] # {} /\ row[s] # {}
  /\ stopped' \in {stopped \cup {s}, stopped \ {s}}
  /\ UNCHANGED <<kind, row, entry, spent, pc, lock, up, patches, history>>

\* An output loses its entry: a sender that is started when its host does not
\* resolve, an SRT output that shows an error when its input is stopped.
LoseOutput(s) ==
  /\ up /\ lock = NoOne /\ s \in Outputs /\ entry[s] # {}
  /\ entry' = [entry EXCEPT ![s] = {}]
  /\ UNCHANGED <<kind, row, spent, stopped, pc, lock, up, patches, history>>

\* delete_input and delete_output, under the write lock.
Delete(s) ==
  /\ up /\ lock = NoOne /\ entry[s] # {}
  /\ row' = [row EXCEPT ![s] = {}] /\ entry' = [entry EXCEPT ![s] = {}]
  /\ stopped' = stopped \ {s}
  /\ UNCHANGED <<kind, spent, pc, lock, up, patches, history>>

\* The process dies and is started again: load_from_db.  A sender that is not
\* stopped is left out when its destination is not an address or cannot be used.
Loads(s) == LoadPort(kind[s], Row(s), s \in stopped)
Restart ==
  /\ up' = \A s \in Stored(Streams) : Loads(s) # {}
  /\ \E out \in SUBSET {s \in Streams \ stopped : kind[s] = "sender"} :
       entry' = [s \in Streams |->
                   IF up' /\ s \in Stored(Streams) \ out THEN Loads(s) ELSE {}]
  /\ behind' = {}
  /\ pc' = [c \in Clients |-> Idle] /\ lock' = NoOne
  /\ torn' = torn \cup {pc[c].s : c \in {c \in Clients : pc[c].at = "store"}}
  /\ UNCHANGED <<kind, row, spent, stopped, patches, auto, rivals, patched, named>>

Request(c) ==
  \/ \E s \in Streams, k \in Kinds, ask \in Asks : Create(c, s, k, ask)
  \/ Search(c) \/ NothingFree(c) \/ Check(c) \/ Conflict(c) \/ Save(c) \/ Insert(c)
  \/ \E s \in Streams, new \in Patches : Patch(c, s, new)
  \/ Store(c) \/ Apply(c) \/ Overtaken(c)

Next == \/ \E c \in Clients : Request(c)
        \/ \E s \in Streams : StartOrStop(s) \/ LoseOutput(s) \/ Delete(s)
        \/ Restart

Spec == Init /\ [][Next]_vars

-----------------------------------------------------------------------------
(* Properties *)

Rows == [cfg : Configs, dest : Ports, col : Option(Ports)]

\* The type invariant.
TypeOK ==
  /\ kind \in [Streams -> Kinds]
  /\ row \in [Streams -> SUBSET Rows] /\ \A s \in Streams : \A q, r \in row[s] : q = r
  /\ entry \in [Streams -> Option(Ports)]
  /\ spent \subseteq Streams /\ stopped \subseteq Streams
  /\ pc \in [Clients -> [at : {"idle", "search", "check", "save", "insert",
                               "store", "apply"},
                         s : Streams \cup {NoOne}, cfg : Configs]]
  /\ lock \in Clients \cup {NoOne} /\ up \in BOOLEAN /\ patches \in 0..MaxPatches
  /\ auto \subseteq Streams /\ rivals \subseteq SUBSET Streams
  /\ patched \subseteq Streams /\ torn \subseteq Streams /\ behind \subseteq Streams
  /\ named \in [Streams -> Option(Ports)]

\* No two SRT listener outputs are created on one port, however many requests
\* create outputs at the same time; the process may die at any point.
ListenersDistinct ==
  \A l, m \in Stored(Outputs) \ patched :
    l # m /\ kind[l] = "listener" /\ kind[m] = "listener" =>
      Effective("listener", Row(l).cfg) # Effective("listener", Row(m).cfg)

\* Two streams that bind their ports and had them found by the server are on
\* different ones, unless the two were created at the same time.
Bound == {s \in Stored(Streams) : kind[s] \in {"input", "listener"}}
AutoPortsDistinct ==
  \A s, t \in (Bound \cap auto) \ patched :
    s # t /\ {s, t} \notin rivals => Port(kind[s], Row(s).cfg) # Port(kind[t], Row(t).cfg)

\* A stream keeps the port it was last given, with the new field of a request
\* or by the server, through updates that name none and through restarts.
Settled(s)    == s \notin torn /\ ~Busy(s)
NamedPortKept ==
  \A s \in Stored(Streams) :
    Settled(s) /\ named[s] # {} => Port(kind[s], Row(s).cfg) = named[s]

\* Where a stream has an entry and its stored configuration says a port, the entry
\* is on that port, also after a restart, which reads other columns of the row, and
\* after updates that fail.  Not so when the last update was overtaken by a stop or
\* a start of the stream, until the next update or restart.
EntryMatchesRow ==
  \A s \in Stored(Streams) \ behind :
    Settled(s) /\ entry[s] # {} /\ Port(kind[s], Row(s).cfg) # {} =>
      entry[s] = Port(kind[s], Row(s).cfg)

\* The process comes up again after a restart.
ComesUp == up

\* Where it does not, the reason is an SRT listener output whose update left it
\* without a port; nothing else that requests do keeps the rows from being loaded.
DownOnlyByUpdate ==
  ~up => \E l \in Stored(patched) :
           kind[l] = "listener" /\ Port(kind[l], Row(l).cfg) = {}
=============================================================================
