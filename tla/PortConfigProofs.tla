--------------------------- MODULE PortConfigProofs --------------------------
(***************************************************************************)
(* Ports, for any number of streams, of concurrent requests, of ports and  *)
(* of updates, with the process dying at any point: no two SRT listener    *)
(* outputs are created on one port, ports that the server found are        *)
(* distinct, a named port is kept, and entry and row agree, failing starts *)
(* and overtaken updates included.                                         *)
(*                                                                         *)
(* create_output holds the lock of ACTIVE_STREAMS from its search for a    *)
(* port to its insertion, so between its check and its save no other       *)
(* output is saved.  What the check looks at is the column listen_port,    *)
(* not the configuration; the invariant says that the two agree as long as *)
(* the output has not been updated.                                        *)
(***************************************************************************)
EXTENDS PortConfig, TLAPS

-----------------------------------------------------------------------------
(* What the operators on configurations return *)

LEMMA OptionType ==
  ASSUME NEW S, NEW a \in Option(S), NEW b \in Option(S)
  PROVE  Or(a, b) \in Option(S) /\ a \ {0} \in Option(S)
BY DEF Or, Option

LEMMA GetType ==
  ASSUME NEW S, NEW a \in Option(S), NEW d \in S
  PROVE  Get(a, d) \in S
<1>1. PICK x \in S : Or(a, {d}) = {x}
  BY DEF Or, Option
<1>2. \E y : y \in Or(a, {d})
  BY <1>1
<1>3. Get(a, d) \in Or(a, {d})
  BY <1>2 DEF Get
<1> QED BY <1>1, <1>3

LEMMA PortType ==
  ASSUME NEW k \in Kinds, NEW c \in Configs
  PROVE  Port(k, c) \in Option(Ports) /\ Effective(k, c) \in Ports
<1>1. c.bind \in Option(Ports) /\ c.legacy \in Option(Ports)
  BY DEF Configs
<1>2. Port(k, c) \in Option(Ports)
  BY <1>1, OptionType DEF Port
<1>3. Default(k) \in Ports
  BY PortConfigAssumption DEF Default
<1> QED BY <1>2, <1>3, GetType DEF Effective

LEMMA SingleOption == ASSUME NEW S, NEW x \in S PROVE {x} \in Option(S) /\ {} \in Option(S)
BY DEF Option

LEMMA AssignType ==
  ASSUME NEW k \in Kinds, NEW c \in Configs, NEW p \in Ports
  PROVE  Assign(k, c, p) \in Configs
<1>1. {p} \in Option(Ports) /\ c.legacy \in Option(Ports) /\ {} \in Option(BOOLEAN)
  BY DEF Configs, Option
<1> QED BY <1>1 DEF Assign, Configs

LEMMA MergeType ==
  ASSUME NEW c \in Configs, NEW new \in Option(Ports)
  PROVE  Merge(c, new) \in Configs
<1>1. Or(new, c.bind) \in Option(Ports) /\ {} \in Option(Ports) /\ {} \in Option(BOOLEAN)
  BY OptionType DEF Configs, Option
<1> QED BY <1>1 DEF Merge, Configs

LEMMA CreateRowType ==
  ASSUME NEW k \in Kinds, NEW c \in Configs
  PROVE  CreateRow(k, c) \in Rows
<1>1. Effective(k, c) \in Ports
  BY PortType
<1>2. {Effective(k, c)} \in Option(Ports) /\ {} \in Option(Ports)
  BY <1>1 DEF Option
<1> QED BY <1>1, <1>2 DEF CreateRow, Rows

LEMMA UpdateRowType ==
  ASSUME NEW k \in Kinds, NEW c \in Configs, NEW r
  PROVE  UpdateRow(k, c, r) \in Rows
<1>1. Port(k, c) \in Option(Ports) /\ {} \in Option(Ports)
  BY PortType DEF Option
<1>2. Get(Port(k, c), IF k = "sender" THEN Fallback ELSE 0) \in Ports
  BY <1>1, GetType, PortConfigAssumption
<1> QED BY <1>1, <1>2 DEF UpdateRow, Rows

LEMMA LoadPortType ==
  ASSUME NEW k \in Kinds, NEW r \in Rows
  PROVE  {{Effective(k, r.cfg)}, {r.dest}, r.col} \subseteq Option(Ports)
<1>1. r.cfg \in Configs /\ r.dest \in Ports /\ r.col \in Option(Ports)
  BY DEF Rows
<1> QED BY <1>1, PortType, SingleOption

-----------------------------------------------------------------------------
(* Types *)

Handlers == [at : {"idle", "search", "check", "save", "insert", "store", "apply"},
             s : Streams \cup {NoOne}, cfg : Configs]

RowTypeOK ==
  /\ kind \in [Streams -> Kinds]
  /\ row \in [Streams -> SUBSET Rows]
  /\ \A s \in Streams : \A q, r \in row[s] : q = r
  /\ entry \in [Streams -> Option(Ports)]
PcTypeOK ==
  /\ pc \in [Clients -> Handlers]
  /\ \A c \in Clients : pc[c].at # "idle" => pc[c].s \in Streams
LockTypeOK == lock \in Clients \cup {NoOne} /\ up \in BOOLEAN
SetTypeOK ==
  /\ spent \subseteq Streams /\ stopped \subseteq Streams
  /\ auto \subseteq Streams /\ rivals \subseteq SUBSET Streams
  /\ patched \subseteq Streams /\ torn \subseteq Streams /\ behind \subseteq Streams
NamedTypeOK == named \in [Streams -> Option(Ports)]
CountTypeOK == patches \in 0..MaxPatches

Types == /\ RowTypeOK /\ PcTypeOK /\ LockTypeOK /\ SetTypeOK /\ NamedTypeOK
         /\ CountTypeOK

LEMMA TypesGive == Types => TypeOK
BY DEF Types, TypeOK, RowTypeOK, PcTypeOK, LockTypeOK, SetTypeOK, NamedTypeOK,
       CountTypeOK, Handlers

LEMMA IdleType == Idle \in Handlers
BY DEF Idle, Handlers, Configs, Option

LEMMA TypesInit == Init => Types
<1> SUFFICES ASSUME Init PROVE Types
  OBVIOUS
<1>1. RowTypeOK /\ NamedTypeOK
  BY DEF Init, RowTypeOK, NamedTypeOK, Kinds, Option
<1>2. PcTypeOK
  BY IdleType DEF Init, PcTypeOK, Idle
<1>3. LockTypeOK
  BY DEF Init, LockTypeOK
<1>4. SetTypeOK
  BY DEF Init, SetTypeOK
<1>5. CountTypeOK
  BY PortConfigAssumption DEF Init, CountTypeOK
<1> QED BY <1>1, <1>2, <1>3, <1>4, <1>5 DEF Types

\* The row of a stored stream.
LEMMA StoredRow ==
  ASSUME RowTypeOK, NEW s \in Streams, row[s] # {}
  PROVE  Row(s) \in Rows /\ row[s] = {Row(s)}
<1>1. Row(s) \in row[s]
  BY DEF Row
<1> QED BY <1>1 DEF RowTypeOK

\* A request goes on in another state of its handler, or ends.
LEMMA PcMoves ==
  ASSUME PcTypeOK, NEW c \in Clients, NEW h \in Handlers,
         h.at # "idle" => h.s \in Streams, pc' = [pc EXCEPT ![c] = h]
  PROVE  PcTypeOK'
BY DEF PcTypeOK

LEMMA PcGoes ==
  ASSUME PcTypeOK, NEW c \in Clients, pc[c].at # "idle",
         NEW l \in {"check", "save", "insert", "store", "apply"}, Goto(c, l)
  PROVE  PcTypeOK'
<1> DEFINE h == [pc[c] EXCEPT !.at = l]
<1>1. h \in Handlers /\ h.s \in Streams
  BY DEF PcTypeOK, Handlers
<1>2. pc' = [pc EXCEPT ![c] = h]
  BY DEF Goto, PcTypeOK
<1> QED BY <1>1, <1>2, PcMoves

LEMMA PcEnds == ASSUME PcTypeOK, NEW c \in Clients, Finish(c) PROVE PcTypeOK'
<1>1. Idle.at = "idle"
  BY DEF Idle
<1> QED BY <1>1, IdleType, PcMoves DEF Finish

LEMMA LockGoes ==
  ASSUME LockTypeOK, NEW c \in Clients, Release(c), up' = up PROVE LockTypeOK'
BY DEF Release, LockTypeOK

\* What one step of a request's handler does to each group of variables.
LEMMA CreateTypes ==
  ASSUME Types, NEW c \in Clients, NEW s \in Streams, NEW k \in Kinds,
         NEW ask \in Asks, Create(c, s, k, ask)
  PROVE  Types'
<1> USE DEF Types
<1>0. ask \in Configs
  BY PortConfigAssumption
<1>1. RowTypeOK' /\ CountTypeOK'
  BY DEF Create, RowTypeOK, CountTypeOK
<1>2. PcTypeOK'
  <2> DEFINE h == [at |-> IF IsAutomatic(k, ask) THEN "search" ELSE AfterSearch(k),
                   s |-> s, cfg |-> ask]
  <2>1. h \in Handlers /\ h.s \in Streams
    BY <1>0 DEF Handlers, AfterSearch
  <2> HIDE DEF h
  <2>2. pc' = [pc EXCEPT ![c] = h]
    BY DEF Create, h
  <2> QED BY <2>1, <2>2, PcMoves
<1>3. LockTypeOK'
  BY DEF Create, LockTypeOK
<1>4. SetTypeOK'
  BY DEF Create, SetTypeOK
<1>5. NamedTypeOK'
  <2>1. NewField(ask) \in Option(Ports)
    BY <1>0, OptionType, SingleOption, PortConfigAssumption
       DEF NewField, Configs, Option
  <2> QED BY <2>1 DEF Create, NamedTypeOK
<1> QED BY <1>1, <1>2, <1>3, <1>4, <1>5

LEMMA RefuseTypes ==
  ASSUME Types, NEW c \in Clients, Refuse(c) PROVE Types'
<1> USE DEF Types
<1>1. PcTypeOK' /\ LockTypeOK'
  BY PcEnds, LockGoes DEF Refuse
<1> QED
  BY <1>1 DEF Refuse, history, RowTypeOK, SetTypeOK, NamedTypeOK, CountTypeOK

LEMMA SearchTypes ==
  ASSUME Types, NEW c \in Clients, Search(c) PROVE Types'
<1> USE DEF Types
<1> DEFINE s == pc[c].s
<1>0. s \in Streams /\ pc[c].cfg \in Configs /\ kind[s] \in Kinds
  BY DEF Search, At, PcTypeOK, Handlers, RowTypeOK
<1>1. PICK p \in AutoPorts \ UsedPorts :
         /\ pc' = [pc EXCEPT ![c] = [at  |-> AfterSearch(kind[s]), s |-> s,
                                     cfg |-> Assign(kind[s], @.cfg, p)]]
         /\ auto' = auto \cup {s} /\ named' = [named EXCEPT ![s] = {p}]
         /\ rivals' = rivals \cup {{s, pc[d].s} : d \in
              {d \in Clients : pc[d].at \in {"check", "save"} /\ pc[d].s \in auto}}
  BY DEF Search
<1>2. p \in Ports
  BY PortConfigAssumption
<1>3. PcTypeOK'
  <2> DEFINE h == [at |-> AfterSearch(kind[s]), s |-> s,
                   cfg |-> Assign(kind[s], pc[c].cfg, p)]
  <2>1. h \in Handlers /\ h.s \in Streams
    BY <1>0, <1>2, AssignType DEF Handlers, AfterSearch
  <2> HIDE DEF h
  <2>2. pc' = [pc EXCEPT ![c] = h]
    BY <1>1 DEF h, PcTypeOK
  <2> QED BY <2>1, <2>2, PcMoves
<1>4. SetTypeOK'
  <2>1. \A d \in Clients : pc[d].at \in {"check", "save"} => pc[d].s \in Streams
    BY DEF PcTypeOK
  <2>2. rivals' \subseteq SUBSET Streams
    BY <1>0, <1>1, <2>1 DEF SetTypeOK
  <2> QED BY <1>0, <1>1, <2>2 DEF Search, SetTypeOK
<1>5. NamedTypeOK'
  BY <1>0, <1>1, <1>2, SingleOption DEF NamedTypeOK
<1> QED
  BY <1>3, <1>4, <1>5 DEF Search, RowTypeOK, LockTypeOK, CountTypeOK

LEMMA CheckTypes ==
  ASSUME Types, NEW c \in Clients, Check(c) PROVE Types'
<1> USE DEF Types
<1>1. PcTypeOK'
  BY PcGoes DEF Check, At
<1> QED
  BY <1>1 DEF Check, history, RowTypeOK, LockTypeOK, SetTypeOK, NamedTypeOK,
              CountTypeOK

LEMMA SaveTypes ==
  ASSUME Types, NEW c \in Clients, Save(c) PROVE Types'
<1> USE DEF Types
<1> DEFINE s == pc[c].s
<1>0. s \in Streams /\ pc[c].cfg \in Configs /\ kind[s] \in Kinds
  BY DEF Save, At, PcTypeOK, Handlers, RowTypeOK
<1>1. PcTypeOK'
  BY PcGoes DEF Save, At
<1>2. RowTypeOK'
  <2>1. {CreateRow(kind[s], pc[c].cfg)} \in SUBSET Rows
    BY <1>0, CreateRowType
  <2> QED BY <1>0, <2>1 DEF Save, RowTypeOK
<1>3. SetTypeOK'
  BY <1>0 DEF Save, SetTypeOK, history
<1> QED
  BY <1>1, <1>2, <1>3 DEF Save, history, LockTypeOK, NamedTypeOK, CountTypeOK

LEMMA EntriesType ==
  ASSUME NEW s, kind[s] \in Kinds, NEW cfg \in Configs
  PROVE  Entries(s, cfg) \subseteq Option(Ports)
<1>1. {Effective(kind[s], cfg)} \in Option(Ports) /\ {} \in Option(Ports)
  BY PortType, SingleOption
<1> QED BY <1>1 DEF Entries

LEMMA InsertTypes ==
  ASSUME Types, NEW c \in Clients, Insert(c) PROVE Types'
<1> USE DEF Types
<1> DEFINE s == pc[c].s
<1>0. s \in Streams /\ pc[c].cfg \in Configs /\ kind[s] \in Kinds
  BY DEF Insert, At, PcTypeOK, Handlers, RowTypeOK
<1>1. PcTypeOK' /\ LockTypeOK'
  BY PcEnds, LockGoes DEF Insert
<1>2. RowTypeOK'
  <2>1. Entries(s, pc[c].cfg) \subseteq Option(Ports)
    BY <1>0, EntriesType
  <2>2. entry' \in [Streams -> Option(Ports)]
    BY <1>0, <2>1 DEF Insert, RowTypeOK
  <2> QED BY <2>2 DEF Insert, RowTypeOK
<1> QED
  BY <1>1, <1>2 DEF Insert, history, SetTypeOK, NamedTypeOK, CountTypeOK

LEMMA PatchTypes ==
  ASSUME Types, NEW c \in Clients, NEW s \in Streams, NEW new \in Patches,
         Patch(c, s, new)
  PROVE  Types'
<1> USE DEF Types
<1>0. new \in Option(Ports)
  BY PortConfigAssumption
<1>1. PcTypeOK'
  <2> DEFINE h == [at |-> "store", s |-> s, cfg |-> Merge(Row(s).cfg, new)]
  <2>1. Row(s).cfg \in Configs
    BY StoredRow DEF Patch, Rows
  <2>2. h \in Handlers /\ h.s \in Streams
    BY <1>0, <2>1, MergeType DEF Handlers
  <2> HIDE DEF h
  <2>3. pc' = [pc EXCEPT ![c] = h]
    BY DEF Patch, h
  <2> QED BY <2>2, <2>3, PcMoves
<1>2. NamedTypeOK'
  BY <1>0, OptionType DEF Patch, NamedTypeOK
<1>3. CountTypeOK'
  BY PortConfigAssumption DEF Patch, CountTypeOK
<1>4. SetTypeOK'
  BY DEF Patch, SetTypeOK
<1> QED BY <1>1, <1>2, <1>3, <1>4 DEF Patch, RowTypeOK, LockTypeOK

LEMMA StoreTypes ==
  ASSUME Types, NEW c \in Clients, Store(c) PROVE Types'
<1> USE DEF Types
<1> DEFINE s == pc[c].s
<1>0. s \in Streams /\ pc[c].cfg \in Configs /\ kind[s] \in Kinds
  BY DEF Store, At, PcTypeOK, Handlers, RowTypeOK
<1>1. PcTypeOK'
  BY PcGoes DEF Store, At
<1>2. RowTypeOK'
  <2> DEFINE new == {UpdateRow(kind[s], pc[c].cfg, r) : r \in row[s]}
  <2>1. new \in SUBSET Rows
    BY <1>0, UpdateRowType
  <2>2. \A q, r \in new : q = r
    BY <1>0 DEF RowTypeOK
  <2> HIDE DEF new
  <2>3. row' = [row EXCEPT ![s] = new]
    BY <1>0 DEF Store, RowTypeOK, new
  <2> QED BY <1>0, <2>1, <2>2, <2>3 DEF Store, RowTypeOK
<1>3. SetTypeOK'
  BY <1>0 DEF Store, SetTypeOK
<1> QED
  BY <1>1, <1>2, <1>3 DEF Store, LockTypeOK, NamedTypeOK, CountTypeOK

LEMMA ApplyTypes ==
  ASSUME Types, NEW c \in Clients, Apply(c) PROVE Types'
<1> USE DEF Types
<1> DEFINE s == pc[c].s
<1>0. s \in Streams /\ pc[c].cfg \in Configs /\ kind[s] \in Kinds
  BY DEF Apply, At, PcTypeOK, Handlers, RowTypeOK
<1>1. PcTypeOK'
  BY PcEnds DEF Apply
<1>2. RowTypeOK'
  <2>1. Entries(s, pc[c].cfg) \subseteq Option(Ports)
    BY <1>0, EntriesType
  <2>2. entry' \in [Streams -> Option(Ports)]
    BY <1>0, <2>1 DEF Apply, RowTypeOK
  <2> QED BY <2>2 DEF Apply, RowTypeOK
<1>3. SetTypeOK'
  BY DEF Apply, SetTypeOK, history
<1> QED
  BY <1>1, <1>2, <1>3 DEF Apply, history, LockTypeOK, NamedTypeOK, CountTypeOK

LEMMA OvertakenTypes ==
  ASSUME Types, NEW c \in Clients, Overtaken(c) PROVE Types'
<1> USE DEF Types
<1>1. PcTypeOK'
  BY PcEnds DEF Overtaken
<1>2. pc[c].s \in Streams
  BY DEF Overtaken, At, PcTypeOK
<1>3. SetTypeOK'
  BY <1>2 DEF Overtaken, SetTypeOK
<1> QED
  BY <1>1, <1>3 DEF Overtaken, RowTypeOK, LockTypeOK, NamedTypeOK, CountTypeOK

LEMMA LoseTypes ==
  ASSUME Types, NEW s \in Streams, LoseOutput(s) PROVE Types'
<1>1. RowTypeOK'
  BY SingleOption DEF LoseOutput, Types, RowTypeOK, Option
<1> QED BY <1>1 DEF LoseOutput, history, Types, PcTypeOK, LockTypeOK, SetTypeOK,
                    NamedTypeOK, CountTypeOK

LEMMA RestartTypes == ASSUME Types, Restart PROVE Types'
<1> USE DEF Types
<1>1. PcTypeOK'
  BY IdleType DEF Restart, PcTypeOK, Idle
<1>2. LockTypeOK'
  BY DEF Restart, LockTypeOK
<1>3. RowTypeOK'
  <2>1. ASSUME NEW s \in Streams, row[s] # {} PROVE Loads(s) \in Option(Ports)
    <3>1. Row(s) \in Rows /\ kind[s] \in Kinds
      BY <2>1, StoredRow DEF RowTypeOK
    <3>2. {{Effective(kind[s], Row(s).cfg)}, {Row(s).dest}, Row(s).col}
             \subseteq Option(Ports)
      BY <3>1, LoadPortType
    <3> QED BY <3>1, <3>2 DEF Loads, LoadPort, Kinds
  <2>2. {} \in Option(Ports)
    BY DEF Option
  <2>3. PICK out : entry' = [s \in Streams |->
                              IF up' /\ s \in Stored(Streams) \ out THEN Loads(s) ELSE {}]
    BY DEF Restart
  <2>4. entry' \in [Streams -> Option(Ports)]
    BY <2>1, <2>2, <2>3 DEF Stored
  <2> QED BY <2>4 DEF Restart, RowTypeOK
<1>4. SetTypeOK'
  <2>1. {pc[c].s : c \in {c \in Clients : pc[c].at = "store"}} \subseteq Streams
    BY DEF PcTypeOK
  <2> QED BY <2>1 DEF Restart, SetTypeOK
<1> QED
  BY <1>1, <1>2, <1>3, <1>4 DEF Restart, NamedTypeOK, CountTypeOK

LEMMA TypesStep == Types /\ [Next]_vars => Types'
<1> SUFFICES ASSUME Types, [Next]_vars PROVE Types'
  OBVIOUS
<1>1. ASSUME NEW c \in Clients, Request(c) PROVE Types'
  BY <1>1, CreateTypes, SearchTypes, RefuseTypes, CheckTypes, SaveTypes,
     InsertTypes, PatchTypes, StoreTypes, ApplyTypes, OvertakenTypes
     DEF Request, NothingFree, Conflict
<1>2. ASSUME NEW s \in Streams, StartOrStop(s) PROVE Types'
  BY <1>2 DEF StartOrStop, Types, RowTypeOK, PcTypeOK, LockTypeOK, SetTypeOK,
              NamedTypeOK, CountTypeOK, history
<1>3. ASSUME NEW s \in Streams, Delete(s) PROVE Types'
  <2>1. RowTypeOK'
    BY <1>3, SingleOption DEF Delete, Types, RowTypeOK, Option
  <2> QED BY <1>3, <2>1 DEF Delete, Types, PcTypeOK, LockTypeOK, SetTypeOK,
                            NamedTypeOK, CountTypeOK, history
<1>4. CASE Restart
  BY <1>4, RestartTypes
<1>5. CASE UNCHANGED vars
  BY <1>5 DEF vars, history, Types, RowTypeOK, PcTypeOK, LockTypeOK, SetTypeOK,
              NamedTypeOK, CountTypeOK
<1> QED BY <1>1, <1>2, <1>3, <1>4, <1>5, LoseTypes DEF Next

\* Every reachable state has the types of the invariant; a stream has at most
\* one row.
THEOREM PortTypeCorrect == Spec => []TypeOK
BY TypesInit, TypesStep, TypesGive, PTL DEF Spec

-----------------------------------------------------------------------------
(* SRT listener outputs *)

\* A request that is creating a stream whose row is not saved yet.
Creating(c) == pc[c].at \in {"search", "check", "save"}

\* An SRT listener output as it was created, and the port it listens on.
Fresh(l)  == row[l] # {} /\ kind[l] = "listener" /\ l \notin patched
OnPort(l) == Effective("listener", Row(l).cfg)

\* It creates an output under the lock, and alone works on an id that is new.
CreatesAlone ==
  \A c \in Clients : Creating(c) =>
    /\ kind[pc[c].s] # "input" => lock = c
    /\ pc[c].s \notin spent
    /\ \A d \in Clients : pc[d].at # "idle" /\ pc[d].s = pc[c].s => d = c
RowsAreSpent == \A s \in Streams : row[s] # {} => s \in spent

\* The column the check looks at says what the configuration says.
ColumnsAgree == \A l \in Streams : Fresh(l) => Row(l).col = {OnPort(l)}

\* What was checked still holds when the row is saved.
CheckHolds ==
  \A c \in Clients : pc[c].at = "save" /\ kind[pc[c].s] = "listener" =>
    \A l \in Streams : Fresh(l) => OnPort(l) # Wanted(c)

FreshDistinct ==
  \A l, m \in Streams : l # m /\ Fresh(l) /\ Fresh(m) => OnPort(l) # OnPort(m)

PortInv == /\ Types /\ CreatesAlone /\ RowsAreSpent /\ ColumnsAgree
           /\ CheckHolds /\ FreshDistinct

LEMMA PortInvInit == Init => PortInv
<1> SUFFICES ASSUME Init PROVE PortInv
  OBVIOUS
<1>1. \A c \in Clients : pc[c].at = "idle"
  BY DEF Init, Idle
<1>2. \A s \in Streams : row[s] = {}
  BY DEF Init
<1> QED
  BY <1>1, <1>2, TypesInit
     DEF PortInv, CreatesAlone, Creating, RowsAreSpent, ColumnsAgree,
         CheckHolds, FreshDistinct, Fresh

\* A step that stores no row leaves every created output as it is, or drops it
\* from those that were never updated.
OnlyOldRows ==
  \A l \in Streams : Fresh(l)' =>
    Fresh(l) /\ OnPort(l)' = OnPort(l) /\ Row(l)' = Row(l)

LEMMA RowsKeep ==
  ASSUME PortInv, OnlyOldRows PROVE ColumnsAgree' /\ FreshDistinct'
BY DEF PortInv, OnlyOldRows, ColumnsAgree, FreshDistinct

\* A step of c that makes it leave, or not enter, the creation of a stream.
LEMMA QuietStep ==
  ASSUME PortInv, OnlyOldRows, NEW c \in Clients, pc' \in [Clients -> Handlers],
         \A d \in Clients : d # c => pc'[d] = pc[d],
         ~Creating(c)',
         \A d \in Clients : pc'[c].at # "idle" /\ Creating(d) =>
           pc'[c].s # pc[d].s,
         kind' = kind, spent' = spent,
         \A d \in Clients : d # c /\ lock = d => lock' = d,
         RowsAreSpent'
  PROVE  CreatesAlone' /\ RowsAreSpent' /\ ColumnsAgree' /\ CheckHolds' /\ FreshDistinct'
<1>1. CreatesAlone'
  BY DEF PortInv, CreatesAlone, Creating
<1>2. CheckHolds'
  BY DEF PortInv, CheckHolds, OnlyOldRows, Creating, Wanted
<1> QED BY <1>1, <1>2, RowsKeep

LEMMA CreateInv ==
  ASSUME PortInv, NEW c \in Clients, NEW s \in Streams, NEW k \in Kinds,
         NEW ask \in Asks, Create(c, s, k, ask)
  PROVE  PortInv'
<1> DEFINE h == [at |-> IF IsAutomatic(k, ask) THEN "search" ELSE AfterSearch(k),
                 s |-> s, cfg |-> ask]
<1>1. /\ pc' = [pc EXCEPT ![c] = h] /\ kind' = [kind EXCEPT ![s] = k]
      /\ UNCHANGED <<row, spent, patched>>
      /\ s \notin spent /\ pc[c].at = "idle"
      /\ \A d \in Clients : pc[d].s # s
      /\ IF k = "input" THEN lock' = lock ELSE lock = NoOne /\ lock' = c
  BY DEF Create, At, Busy
<1>2. h.s = s /\ h.at \in {"search", "check", "save"}
        /\ (h.at = "save" => k = "input")
  BY DEF AfterSearch
<1> HIDE DEF h
<1>3. pc'[c] = h /\ \A d \in Clients : d # c => pc'[d] = pc[d]
  BY <1>1 DEF PortInv, Types, PcTypeOK
<1>4. kind'[s] = k /\ \A t \in Streams : t # s => kind'[t] = kind[t]
  BY <1>1 DEF PortInv, Types, RowTypeOK
<1>5. row[s] = {}
  BY <1>1 DEF PortInv, RowsAreSpent
<1>6. OnlyOldRows
  BY <1>1, <1>4, <1>5 DEF OnlyOldRows, Fresh, OnPort, Row
<1>7. \A d \in Clients : Creating(d) => pc[d].s \in Streams
  BY DEF PortInv, Types, PcTypeOK, Creating
<1>8. CreatesAlone'
  <2>1. \A d \in Clients : d # c /\ Creating(d) /\ kind[pc[d].s] # "input" => lock' = d
    BY <1>1, PortConfigAssumption DEF PortInv, CreatesAlone
  <2>2. kind'[pc'[c].s] # "input" => lock' = c
    BY <1>1, <1>2, <1>3, <1>4
  <2> QED BY <1>1, <1>2, <1>3, <1>4, <1>7, <2>1, <2>2
             DEF PortInv, CreatesAlone, Creating
<1>9. CheckHolds'
  <2> SUFFICES ASSUME NEW d \in Clients, pc'[d].at = "save",
                      kind'[pc'[d].s] = "listener", NEW l \in Streams, Fresh(l)'
               PROVE  OnPort(l)' # Wanted(d)'
    BY DEF CheckHolds
  <2>1. d # c /\ pc'[d] = pc[d] /\ pc[d].s \in Streams /\ pc[d].s # s
    BY <1>1, <1>2, <1>3, <1>4, <1>7 DEF Creating
  <2>2. kind'[pc[d].s] = kind[pc[d].s] /\ Wanted(d)' = Wanted(d)
    BY <1>4, <2>1 DEF Wanted
  <2> QED BY <1>6, <2>1, <2>2 DEF OnlyOldRows, PortInv, CheckHolds
<1>10. RowsAreSpent'
  BY <1>1 DEF PortInv, RowsAreSpent
<1> QED BY <1>6, <1>8, <1>9, <1>10, RowsKeep, CreateTypes DEF PortInv

\* Steps that change neither rows nor kinds leave every created output alone.
LEMMA SameRows ==
  ASSUME UNCHANGED <<row, kind, patched>> PROVE OnlyOldRows
BY DEF OnlyOldRows, Fresh, OnPort, Row

LEMMA SearchInv == ASSUME PortInv, NEW c \in Clients, Search(c) PROVE PortInv'
<1> DEFINE s == pc[c].s
<1>1. pc[c].at = "search" /\ UNCHANGED <<kind, row, spent, lock, patched>>
  BY DEF Search, At
<1>2. PICK p \in AutoPorts \ UsedPorts :
        pc' = [pc EXCEPT ![c] = [at  |-> AfterSearch(kind[s]), s |-> s,
                                 cfg |-> Assign(kind[s], @.cfg, p)]]
  BY DEF Search
<1>3. /\ pc'[c].s = s /\ pc'[c].at = AfterSearch(kind[s])
      /\ \A d \in Clients : d # c => pc'[d] = pc[d]
  BY <1>2 DEF PortInv, Types, PcTypeOK
<1>4. OnlyOldRows
  BY <1>1, SameRows
<1>5. CreatesAlone'
  BY <1>1, <1>3 DEF PortInv, CreatesAlone, Creating, AfterSearch
<1>6. CheckHolds'
  <2> SUFFICES ASSUME NEW d \in Clients, pc'[d].at = "save",
                      kind'[pc'[d].s] = "listener", NEW l \in Streams, Fresh(l)'
               PROVE  OnPort(l)' # Wanted(d)'
    BY DEF CheckHolds
  <2>1. d # c /\ pc'[d] = pc[d]
    BY <1>1, <1>3 DEF AfterSearch
  <2>2. Wanted(d)' = Wanted(d)
    BY <1>1, <2>1 DEF Wanted
  <2> QED BY <1>1, <1>4, <2>1, <2>2 DEF OnlyOldRows, PortInv, CheckHolds
<1>7. RowsAreSpent'
  BY <1>1 DEF PortInv, RowsAreSpent
<1> QED BY <1>4, <1>5, <1>6, <1>7, RowsKeep, SearchTypes DEF PortInv

LEMMA CheckInv == ASSUME PortInv, NEW c \in Clients, Check(c) PROVE PortInv'
<1>1. pc[c].at = "check" /\ UNCHANGED <<kind, row, spent, lock, patched>>
  BY DEF Check, At, history
<1>2. /\ pc'[c].s = pc[c].s /\ pc'[c].cfg = pc[c].cfg /\ pc'[c].at = "save"
      /\ \A d \in Clients : d # c => pc'[d] = pc[d]
  BY DEF Check, Goto, PortInv, Types, PcTypeOK, Handlers
<1>3. OnlyOldRows
  BY <1>1, SameRows
<1>4. CreatesAlone'
  BY <1>1, <1>2 DEF PortInv, CreatesAlone, Creating
<1>5. ASSUME kind[pc[c].s] = "listener", NEW l \in Streams, Fresh(l)
      PROVE  OnPort(l) # Wanted(c)
  <2>1. Wanted(c) \notin OutputPorts
    BY <1>5 DEF Check, PortConflict
  <2>2. l \in Stored(Outputs)
    BY <1>5 DEF Fresh, Stored, Outputs, Inputs
  <2>3. OnPort(l) \in Row(l).col
    BY <1>5 DEF PortInv, ColumnsAgree
  <2> QED BY <2>1, <2>2, <2>3 DEF OutputPorts
<1>6. CheckHolds'
  <2> SUFFICES ASSUME NEW d \in Clients, pc'[d].at = "save",
                      kind'[pc'[d].s] = "listener", NEW l \in Streams, Fresh(l)'
               PROVE  OnPort(l)' # Wanted(d)'
    BY DEF CheckHolds
  <2>1. Wanted(d)' = Wanted(d) /\ pc'[d].s = pc[d].s /\ (d # c => pc[d].at = "save")
    BY <1>1, <1>2 DEF Wanted
  <2> QED BY <1>1, <1>3, <1>5, <2>1 DEF OnlyOldRows, PortInv, CheckHolds
<1>7. RowsAreSpent'
  BY <1>1 DEF PortInv, RowsAreSpent
<1> QED BY <1>3, <1>4, <1>6, <1>7, RowsKeep, CheckTypes DEF PortInv

\* The one step that adds an output: its port was checked under the lock, which
\* has kept every other output from being saved since.
LEMMA SaveInv == ASSUME PortInv, NEW c \in Clients, Save(c) PROVE PortInv'
<1> PICK s : s = pc[c].s
  OBVIOUS
<1> PICK r : r = CreateRow(kind[s], pc[c].cfg)
  OBVIOUS
<1>1. /\ pc[c].at = "save" /\ UNCHANGED <<kind, lock, patched>>
      /\ row' = [row EXCEPT ![s] = {r}] /\ spent' = spent \cup {s}
  BY DEF Save, At, history
<1>2. s \in Streams /\ Creating(c)
  BY <1>1 DEF PortInv, Types, PcTypeOK, Creating
<1>3. /\ pc'[c].s = s /\ pc'[c].at = "insert"
      /\ \A d \in Clients : d # c => pc'[d] = pc[d]
  BY DEF Save, Goto, PortInv, Types, PcTypeOK, Handlers
<1>4. row'[s] = {r} /\ \A t \in Streams : t # s => row'[t] = row[t]
  BY <1>1, <1>2 DEF PortInv, Types, RowTypeOK
<1>5. ASSUME NEW l \in Streams, l # s, Fresh(l)'
      PROVE  Fresh(l) /\ OnPort(l)' = OnPort(l) /\ Row(l)' = Row(l)
  BY <1>1, <1>4, <1>5 DEF Fresh, OnPort, Row
<1>6. Row(s)' = r /\ r.cfg = pc[c].cfg
  <2>1. \A x \in {r} : x = r
    OBVIOUS
  <2> QED BY <1>4, <2>1 DEF Row, CreateRow
<1>7. ASSUME Fresh(s)' PROVE OnPort(s)' = Wanted(c) /\ r.col = {OnPort(s)'}
                              /\ kind[s] = "listener"
  <2>1. kind[s] = "listener"
    BY <1>1, <1>7 DEF Fresh
  <2> QED BY <1>6, <2>1 DEF OnPort, Wanted, CreateRow
<1>8. CreatesAlone'
  BY <1>1, <1>2, <1>3 DEF PortInv, CreatesAlone, Creating
<1>9. RowsAreSpent'
  BY <1>1, <1>4 DEF PortInv, RowsAreSpent
<1>10. ColumnsAgree'
  BY <1>5, <1>6, <1>7 DEF PortInv, ColumnsAgree
<1>11. FreshDistinct'
  BY <1>1, <1>5, <1>7 DEF PortInv, FreshDistinct, CheckHolds
<1>12. CheckHolds'
  <2> SUFFICES ASSUME NEW d \in Clients, pc'[d].at = "save",
                      kind'[pc'[d].s] = "listener", NEW l \in Streams, Fresh(l)'
               PROVE  OnPort(l)' # Wanted(d)'
    BY DEF CheckHolds
  <2>1. d # c /\ pc'[d] = pc[d] /\ Creating(d) /\ Wanted(d)' = Wanted(d)
    BY <1>1, <1>3 DEF Wanted, Creating
  <2>2. lock = d /\ kind[pc[d].s] = "listener"
    BY <1>1, <2>1 DEF PortInv, CreatesAlone
  <2>3. kind[s] = "input"
    BY <1>2, <2>1, <2>2 DEF PortInv, CreatesAlone
  <2>4. l # s
    BY <1>7, <2>3
  <2> QED BY <1>5, <2>1, <2>2, <2>4 DEF PortInv, CheckHolds
<1> QED BY <1>8, <1>9, <1>10, <1>11, <1>12, SaveTypes DEF PortInv

\* A request ends.
LEMMA EndsInv ==
  ASSUME PortInv, NEW c \in Clients, Finish(c), Types', UNCHANGED <<kind, row, spent, patched>>,
         \A d \in Clients : d # c /\ lock = d => lock' = d
  PROVE  PortInv'
<1>1. pc' \in [Clients -> Handlers] /\ pc'[c].at = "idle"
        /\ \A d \in Clients : d # c => pc'[d] = pc[d]
  BY DEF Finish, PortInv, Types, PcTypeOK, Idle
<1>2. ~Creating(c)' /\ OnlyOldRows /\ RowsAreSpent'
  BY <1>1, SameRows DEF Creating, PortInv, RowsAreSpent
<1> QED BY <1>1, <1>2, QuietStep DEF PortInv

LEMMA PatchInv ==
  ASSUME PortInv, NEW c \in Clients, NEW s \in Streams, NEW new \in Patches,
         Patch(c, s, new)
  PROVE  PortInv'
<1>1. /\ pc' = [pc EXCEPT ![c] = [at |-> "store", s |-> s,
                                  cfg |-> Merge(Row(s).cfg, new)]]
      /\ UNCHANGED <<kind, row, spent, lock, patched>> /\ row[s] # {}
  BY DEF Patch
<1>2. pc'[c].at = "store" /\ pc'[c].s = s
        /\ \A d \in Clients : d # c => pc'[d] = pc[d]
  BY <1>1 DEF PortInv, Types, PcTypeOK
<1>3. Types' /\ pc' \in [Clients -> Handlers]
  BY PatchTypes DEF PortInv, Types, PcTypeOK
<1>4. ~Creating(c)' /\ OnlyOldRows /\ RowsAreSpent'
  BY <1>1, <1>2, SameRows DEF Creating, PortInv, RowsAreSpent
<1>5. \A d \in Clients : Creating(d) => pc'[c].s # pc[d].s
  BY <1>1, <1>2 DEF PortInv, CreatesAlone, RowsAreSpent
<1> QED BY <1>1, <1>2, <1>3, <1>4, <1>5, QuietStep DEF PortInv

LEMMA StoreInv == ASSUME PortInv, NEW c \in Clients, Store(c) PROVE PortInv'
<1> DEFINE s == pc[c].s
<1>1. /\ UNCHANGED <<kind, spent, lock>> /\ patched' = patched \cup {s}
      /\ pc[c].at = "store"
      /\ row' = [row EXCEPT ![s] = {UpdateRow(kind[s], pc[c].cfg, r) : r \in @}]
  BY DEF Store, At
<1>2. s \in Streams
  BY <1>1 DEF PortInv, Types, PcTypeOK
<1>3. /\ pc'[c].s = s /\ pc'[c].at = "apply"
      /\ \A d \in Clients : d # c => pc'[d] = pc[d]
  BY DEF Store, Goto, PortInv, Types, PcTypeOK, Handlers
<1>4. /\ row'[s] # {} => row[s] # {}
      /\ \A t \in Streams : t # s => row'[t] = row[t]
  BY <1>1, <1>2 DEF PortInv, Types, RowTypeOK
<1>5. Types' /\ pc' \in [Clients -> Handlers]
  BY StoreTypes DEF PortInv, Types, PcTypeOK
<1>6. OnlyOldRows
  BY <1>1, <1>4 DEF OnlyOldRows, Fresh, OnPort, Row
<1>7. RowsAreSpent'
  BY <1>1, <1>4 DEF PortInv, RowsAreSpent
<1>8. \A d \in Clients : Creating(d) => pc'[c].s # pc[d].s
  BY <1>1, <1>3 DEF PortInv, CreatesAlone, Creating
<1>9. ~Creating(c)'
  BY <1>3 DEF Creating
<1> QED BY <1>1, <1>3, <1>5, <1>6, <1>7, <1>8, <1>9, QuietStep DEF PortInv

LEMMA RestartInv == ASSUME PortInv, Restart PROVE PortInv'
<1>1. \A c \in Clients : pc'[c].at = "idle"
  BY DEF Restart, Idle
<1>2. UNCHANGED <<kind, row, spent, patched>>
  BY DEF Restart
<1>3. OnlyOldRows /\ RowsAreSpent'
  BY <1>2, SameRows DEF PortInv, RowsAreSpent
<1> QED BY <1>1, <1>3, RowsKeep, RestartTypes
           DEF PortInv, CreatesAlone, Creating, CheckHolds

LEMMA PortInvStep == PortInv /\ [Next]_vars => PortInv'
<1> SUFFICES ASSUME PortInv, [Next]_vars PROVE PortInv'
  OBVIOUS
<1>0. Types'
  BY TypesStep DEF PortInv
<1>1. ASSUME NEW c \in Clients, Request(c) PROVE PortInv'
  <2>1. CASE Refuse(c) \/ Insert(c)
    BY <1>0, <2>1, EndsInv DEF Refuse, Insert, Release, history
  <2>2. CASE Apply(c) \/ Overtaken(c)
    BY <1>0, <2>2, EndsInv DEF Apply, Overtaken, history
  <2> QED BY <1>1, <2>1, <2>2, CreateInv, SearchInv, CheckInv, SaveInv,
             PatchInv, StoreInv DEF Request, NothingFree, Conflict
<1>2. ASSUME NEW s \in Streams, Delete(s) PROVE PortInv'
  <2>1. UNCHANGED <<kind, spent, patched, pc, lock>> /\ row' = [row EXCEPT ![s] = {}]
    BY <1>2 DEF Delete, history
  <2>2. row'[s] = {} /\ \A t \in Streams : t # s => row'[t] = row[t]
    BY <2>1 DEF PortInv, Types, RowTypeOK
  <2>3. OnlyOldRows /\ RowsAreSpent'
    BY <2>1, <2>2 DEF OnlyOldRows, Fresh, OnPort, Row, PortInv, RowsAreSpent
  <2>4. CreatesAlone' /\ CheckHolds'
    BY <2>1, <2>3 DEF PortInv, CreatesAlone, Creating, CheckHolds, OnlyOldRows,
                      Wanted
  <2> QED BY <1>0, <2>3, <2>4, RowsKeep DEF PortInv
<1>3. CASE UNCHANGED <<kind, row, spent, patched, pc, lock>>
  <2>1. OnlyOldRows /\ RowsAreSpent'
    BY <1>3, SameRows DEF PortInv, RowsAreSpent
  <2>2. CreatesAlone' /\ CheckHolds'
    BY <1>3, <2>1 DEF PortInv, CreatesAlone, Creating, CheckHolds, OnlyOldRows,
                      Wanted
  <2> QED BY <1>0, <2>1, <2>2, RowsKeep DEF PortInv
<1>4. CASE Restart
  BY <1>4, RestartInv
<1> QED BY <1>1, <1>2, <1>3, <1>4 DEF Next, StartOrStop, LoseOutput, vars, history

\* However many requests create, update and delete streams at the same time, and
\* wherever the process dies, no two SRT listener outputs that were not updated
\* since are stored with one port.
THEOREM ListenersOnTheirOwnPorts == Spec => []ListenersDistinct
<1>1. PortInv => ListenersDistinct
  BY DEF PortInv, FreshDistinct, Fresh, OnPort, ListenersDistinct, Stored, Outputs
<1> QED BY <1>1, PortInvInit, PortInvStep, PTL DEF Spec

-----------------------------------------------------------------------------
(* Named ports and entries.  What has to be known of a stream s: *)

Working(c, s) == pc[c].at # "idle" /\ pc[c].s = s
AtLabel(s, l) == \E c \in Clients : pc[c].at = l /\ pc[c].s = s

\* The port of the configuration in its row.
PortOf(s) == Port(kind[s], Row(s).cfg)

\* A configuration with which it is on the port it was named.
Honours(s, cfg) ==
  named[s] # {} => cfg.bind = named[s] /\ Port(kind[s], cfg) = named[s]

\* The columns say the same as the configuration, when that says anything.
ColumnsSay(s) ==
  row[s] # {} /\ PortOf(s) # {} =>
    /\ {Row(s).dest} = PortOf(s)
    /\ kind[s] = "listener" => Row(s).col = PortOf(s)

\* Unless requests overlapped, one works on it at a time.  That request has a
\* configuration with the port that was named, and so has the row, except while
\* the request has yet to store it.
OneWorker(s) == \A c, d \in Clients : Working(c, s) /\ Working(d, s) => c = d
HandlerHonours(s) ==
  \A c \in Clients : Working(c, s) /\ pc[c].at # "search" => Honours(s, pc[c].cfg)
RowHonours(s) == row[s] # {} /\ ~AtLabel(s, "store") => Honours(s, Row(s).cfg)

\* A request that has stored its row has yet to put the same in the entry, unless
\* it ends before that; where there is no entry, there is nothing to say.
HandlerStored(s) ==
  \A c \in Clients :
    Working(c, s) /\ pc[c].at \in {"insert", "apply"} /\ row[s] # {} =>
      Row(s).cfg = pc[c].cfg
EntrySays(s) ==
  /\ row[s] # {} /\ ~AtLabel(s, "insert") /\ ~AtLabel(s, "apply")
  /\ entry[s] # {} /\ s \notin behind /\ PortOf(s) # {}
  => entry[s] = PortOf(s)

Undisturbed(s) == /\ OneWorker(s) /\ HandlerHonours(s) /\ RowHonours(s)
                  /\ HandlerStored(s) /\ EntrySays(s)
StreamKept(s)  == /\ 0 \notin named[s] /\ ColumnsSay(s)
                  /\ s \notin torn => Undisturbed(s)

KeepInv == PortInv /\ \A s \in Streams : StreamKept(s)

LEMMA KeepInvInit == Init => KeepInv
<1> SUFFICES ASSUME Init PROVE KeepInv
  OBVIOUS
<1>1. /\ \A c \in Clients : pc[c].at = "idle"
      /\ \A s \in Streams : row[s] = {} /\ named[s] = {}
  BY DEF Init, Idle
<1> QED
  BY <1>1, PortInvInit
     DEF KeepInv, StreamKept, ColumnsSay, Undisturbed, OneWorker, Working,
         HandlerHonours, RowHonours, HandlerStored, EntrySays

\* What a port is, where a configuration has one.
LEMMA PortFacts ==
  ASSUME NEW k \in Kinds, NEW c \in Configs, Port(k, c) # {}
  PROVE  {Effective(k, c)} = Port(k, c)
<1>1. PICK x \in Ports : Port(k, c) = {x}
  BY PortType DEF Option
<1>2. Or(Port(k, c), {Default(k)}) = {x}
  BY <1>1 DEF Or
<1>3. Effective(k, c) \in {x}
  BY <1>2 DEF Effective, Get
<1> QED BY <1>1, <1>3

LEMMA CreateRowSays ==
  ASSUME NEW k \in Kinds, NEW c \in Configs, Port(k, c) # {}
  PROVE  /\ CreateRow(k, c).cfg = c /\ {CreateRow(k, c).dest} = Port(k, c)
         /\ k = "listener" => CreateRow(k, c).col = Port(k, c)
BY PortFacts DEF CreateRow

LEMMA UpdateRowSays ==
  ASSUME NEW k \in Kinds, NEW c \in Configs, NEW r, Port(k, c) # {}
  PROVE  /\ UpdateRow(k, c, r).cfg = c /\ {UpdateRow(k, c, r).dest} = Port(k, c)
         /\ k = "listener" => UpdateRow(k, c, r).col = Port(k, c)
<1> DEFINE d == IF k = "sender" THEN Fallback ELSE 0
<1>1. PICK x \in Ports : Port(k, c) = {x}
  BY PortType DEF Option
<1>2. Or(Port(k, c), {d}) = {x}
  BY <1>1 DEF Or
<1>3. Get(Port(k, c), d) \in {x}
  BY <1>2 DEF Get
<1> QED BY <1>1, <1>3 DEF UpdateRow

\* A request names a port with the new field, and no other; so does an update,
\* and the configuration it is merged into keeps the port it had.
LEMMA NewFieldHonoured ==
  ASSUME NEW k \in Kinds, NEW c \in Configs, NewField(c) # {}
  PROVE  c.bind = NewField(c) /\ Port(k, c) = NewField(c) /\ 0 \notin NewField(c)
<1>1. c.legacy \subseteq c.bind /\ NewField(c) = c.bind \ {0}
  BY DEF NewField
<1>2. PICK x \in Ports : c.bind = {x}
  BY <1>1 DEF Configs, Option
<1>3. x # 0 /\ c.legacy \in {{}, {x}}
  BY <1>1, <1>2 DEF Configs, Option
<1> QED BY <1>1, <1>2, <1>3 DEF Port, Or

LEMMA MergeHonours ==
  ASSUME NEW k \in Kinds, NEW c \in Configs, NEW new \in Option(Ports)
  PROVE  /\ Merge(c, new).bind = IF new = {} THEN c.bind ELSE new
         /\ 0 \notin Merge(c, new).bind => Port(k, Merge(c, new)) = Merge(c, new).bind
BY DEF Merge, Port, Or

LEMMA AssignHonours ==
  ASSUME NEW k \in Kinds, NEW c \in Configs, NEW p \in Ports \ {0}
  PROVE  Assign(k, c, p).bind = {p} /\ Port(k, Assign(k, c, p)) = {p}
BY DEF Assign, Port, Or

\* A stream of which a step changes neither row nor kind keeps its port.
LEMMA SamePort ==
  ASSUME NEW t, row'[t] = row[t], kind'[t] = kind[t]
  PROVE  Row(t)' = Row(t) /\ PortOf(t)' = PortOf(t)
BY DEF Row, PortOf

LEMMA WorkerStream ==
  ASSUME PortInv, NEW c \in Clients, pc[c].at # "idle"
  PROVE  pc[c].s \in Streams /\ pc[c].cfg \in Configs /\ kind[pc[c].s] \in Kinds
BY DEF PortInv, Types, PcTypeOK, RowTypeOK, Handlers

\* The handler of c goes on, or ends, and the others stay where they are.
OthersStay(c) == \A d \in Clients : d # c => pc'[d] = pc[d]

LEMMA Moves ==
  ASSUME PortInv, NEW c \in Clients, NEW h, pc' = [pc EXCEPT ![c] = h]
  PROVE  pc'[c] = h /\ OthersStay(c)
BY DEF PortInv, Types, PcTypeOK, OthersStay

LEMMA Ends ==
  ASSUME PortInv, NEW c \in Clients, Finish(c)
  PROVE  pc'[c].at = "idle" /\ OthersStay(c)
<1>1. pc'[c] = Idle /\ OthersStay(c)
  BY Moves DEF Finish
<1>2. Idle.at = "idle"
  BY DEF Idle
<1> QED BY <1>1, <1>2

LEMMA GoesOn ==
  ASSUME PortInv, NEW c \in Clients, NEW l, Goto(c, l)
  PROVE  /\ pc'[c].at = l /\ pc'[c].s = pc[c].s /\ pc'[c].cfg = pc[c].cfg
         /\ OthersStay(c)
BY DEF Goto, PortInv, Types, PcTypeOK, Handlers, OthersStay

\* A step that is not about stream t keeps what is known of it.
NotAbout(t) ==
  /\ row'[t] = row[t] /\ kind'[t] = kind[t] /\ named'[t] = named[t]
  /\ entry'[t] = entry[t] /\ torn \subseteq torn' /\ (t \in behind => t \in behind')
  /\ \A d \in Clients : Working(d, t) \/ Working(d, t)' => pc'[d] = pc[d]

LEMMA NotAboutKeeps ==
  ASSUME NEW t, StreamKept(t), NotAbout(t) PROVE StreamKept(t)'
<1>1. Row(t)' = Row(t) /\ PortOf(t)' = PortOf(t)
  BY SamePort DEF NotAbout
<1>2. \A d \in Clients : Working(d, t)' <=> Working(d, t)
  BY DEF NotAbout, Working
<1>3. \A l \in {"insert", "apply", "store"} : AtLabel(t, l)' <=> AtLabel(t, l)
  BY DEF NotAbout, AtLabel, Working
<1>4. ColumnsSay(t)'
  BY <1>1 DEF NotAbout, StreamKept, ColumnsSay
<1>5. ASSUME Undisturbed(t) PROVE Undisturbed(t)'
  <2>1. OneWorker(t)'
    BY <1>2, <1>5 DEF Undisturbed, OneWorker
  <2>2. HandlerHonours(t)'
    BY <1>2, <1>5 DEF Undisturbed, HandlerHonours, Honours, NotAbout
  <2>3. RowHonours(t)'
    BY <1>1, <1>3, <1>5 DEF Undisturbed, RowHonours, Honours, NotAbout
  <2>4. HandlerStored(t)'
    BY <1>1, <1>2, <1>5 DEF Undisturbed, HandlerStored, NotAbout
  <2>5. EntrySays(t)'
    BY <1>1, <1>3, <1>5 DEF Undisturbed, EntrySays, NotAbout
  <2> QED BY <2>1, <2>2, <2>3, <2>4, <2>5 DEF Undisturbed
<1> QED BY <1>4, <1>5 DEF NotAbout, StreamKept

\* So for a step of a handler it is enough to look at the stream it works on.
LEMMA OneStream ==
  ASSUME KeepInv, NEW c \in Clients, NEW s \in Streams, OthersStay(c),
         pc[c].at # "idle" => pc[c].s = s, pc'[c].at # "idle" => pc'[c].s = s,
         torn \subseteq torn', behind \ {s} \subseteq behind',
         \A t \in Streams : t # s =>
           /\ row'[t] = row[t] /\ kind'[t] = kind[t] /\ named'[t] = named[t]
           /\ entry'[t] = entry[t],
         StreamKept(s)'
  PROVE  \A t \in Streams : StreamKept(t)'
<1> SUFFICES ASSUME NEW t \in Streams, t # s PROVE StreamKept(t)'
  OBVIOUS
<1>1. \A d \in Clients : Working(d, t) \/ Working(d, t)' => pc'[d] = pc[d]
  BY DEF OthersStay, Working
<1> QED BY <1>1, NotAboutKeeps DEF NotAbout, KeepInv

\* The only one at work on a stream is the only one at a label there.
LEMMA AloneThere ==
  ASSUME NEW c \in Clients, NEW s, Working(c, s)', OneWorker(s)'
  PROVE  \A l \in {"insert", "apply", "store"} : AtLabel(s, l)' <=> pc'[c].at = l
BY DEF OneWorker, Working, AtLabel

-----------------------------------------------------------------------------
(* Each step of a handler, and the stream it works on *)

LEMMA CreateKept ==
  ASSUME KeepInv, NEW c \in Clients, NEW s \in Streams, NEW k \in Kinds,
         NEW ask \in Asks, Create(c, s, k, ask)
  PROVE  \A t \in Streams : StreamKept(t)'
<1> DEFINE h == [at |-> IF IsAutomatic(k, ask) THEN "search" ELSE AfterSearch(k),
                 s |-> s, cfg |-> ask]
<1>1. /\ UNCHANGED <<row, entry, torn, behind>> /\ pc[c].at = "idle" /\ row[s] = {}
      /\ \A d \in Clients : pc[d].s # s
      /\ pc' = [pc EXCEPT ![c] = h]
  BY DEF Create, At, Busy, KeepInv, PortInv, RowsAreSpent
<1>2. h.at \in {"search", "check", "save"} /\ h.s = s /\ h.cfg = ask
  BY DEF AfterSearch
<1> HIDE DEF h
<1>3. /\ pc'[c].at \in {"search", "check", "save"} /\ pc'[c].s = s /\ pc'[c].cfg = ask
      /\ OthersStay(c)
  BY <1>1, <1>2, Moves DEF KeepInv
<1>4. /\ named'[s] = NewField(ask) /\ kind'[s] = k
      /\ \A t \in Streams : t # s => named'[t] = named[t] /\ kind'[t] = kind[t]
  BY DEF Create, KeepInv, PortInv, Types, RowTypeOK, NamedTypeOK
<1>5. Honours(s, ask)' /\ 0 \notin named'[s]
  BY <1>4, NewFieldHonoured, PortConfigAssumption DEF Honours
<1>6. \A d \in Clients : Working(d, s)' => d = c
  BY <1>1, <1>3 DEF Working, OthersStay
<1>7. OneWorker(s)' /\ HandlerHonours(s)'
  BY <1>3, <1>5, <1>6 DEF OneWorker, HandlerHonours, Honours
<1>8. row'[s] = {}
  BY <1>1
<1>9. StreamKept(s)'
  BY <1>5, <1>7, <1>8
     DEF StreamKept, ColumnsSay, Undisturbed, RowHonours, HandlerStored,
         EntrySays
<1> QED BY <1>1, <1>3, <1>4, <1>9, OneStream

LEMMA SearchKept ==
  ASSUME KeepInv, NEW c \in Clients, Search(c)
  PROVE  \A t \in Streams : StreamKept(t)'
<1> PICK s : s = pc[c].s
  OBVIOUS
<1>1. pc[c].at = "search" /\ UNCHANGED <<kind, row, entry, torn, behind>>
  BY DEF Search, At
<1>2. s \in Streams /\ pc[c].cfg \in Configs /\ kind[s] \in Kinds
  BY <1>1, WorkerStream DEF KeepInv
<1>3. PICK p \in AutoPorts \ UsedPorts :
        /\ pc' = [pc EXCEPT ![c] = [at  |-> AfterSearch(kind[s]), s |-> s,
                                    cfg |-> Assign(kind[s], @.cfg, p)]]
        /\ named' = [named EXCEPT ![s] = {p}]
  BY DEF Search
<1>4. p \in Ports \ {0}
  BY PortConfigAssumption
<1>5. /\ pc'[c].at \in {"check", "save"} /\ pc'[c].s = s
      /\ pc'[c].cfg = Assign(kind[s], pc[c].cfg, p) /\ OthersStay(c)
  BY <1>3, Moves DEF KeepInv, AfterSearch, PortInv, Types, PcTypeOK, OthersStay
<1>6. named'[s] = {p} /\ \A t \in Streams : t # s => named'[t] = named[t]
  BY <1>2, <1>3 DEF KeepInv, PortInv, Types, NamedTypeOK
<1>7. Creating(c) /\ row'[s] = {}
  BY <1>1, <1>2 DEF KeepInv, PortInv, CreatesAlone, RowsAreSpent, Creating
<1>8. \A d \in Clients : Working(d, s)' => d = c
  BY <1>5, <1>7 DEF KeepInv, PortInv, CreatesAlone, Working, OthersStay
<1>9. Honours(s, pc[c].cfg)'
  BY <1>1, <1>2, <1>4, <1>5, <1>6, AssignHonours DEF Honours
<1>10. OneWorker(s)' /\ HandlerHonours(s)'
  BY <1>8, <1>9 DEF OneWorker, HandlerHonours, Honours
<1>11. StreamKept(s)'
  BY <1>4, <1>6, <1>7, <1>10
     DEF StreamKept, ColumnsSay, Undisturbed, RowHonours, HandlerStored,
         EntrySays
<1> QED BY <1>1, <1>2, <1>5, <1>6, <1>11, OneStream

LEMMA CheckKept ==
  ASSUME KeepInv, NEW c \in Clients, Check(c)
  PROVE  \A t \in Streams : StreamKept(t)'
<1> PICK s : s = pc[c].s
  OBVIOUS
<1>1. pc[c].at = "check" /\ UNCHANGED <<kind, row, entry, torn, behind, named>>
  BY DEF Check, At, history
<1>2. s \in Streams
  BY <1>1, WorkerStream DEF KeepInv
<1>3. /\ pc'[c].at = "save" /\ pc'[c].s = s /\ pc'[c].cfg = pc[c].cfg /\ OthersStay(c)
  BY GoesOn DEF Check, KeepInv
<1>4. Creating(c) /\ row'[s] = {}
  BY <1>1, <1>2 DEF KeepInv, PortInv, CreatesAlone, RowsAreSpent, Creating
<1>5. \A d \in Clients : Working(d, s)' => d = c
  BY <1>3, <1>4 DEF KeepInv, PortInv, CreatesAlone, Working, OthersStay
<1>6. StreamKept(s)
  BY <1>2 DEF KeepInv
<1>7. s \notin torn => OneWorker(s)' /\ HandlerHonours(s)'
  BY <1>1, <1>3, <1>5, <1>6
     DEF StreamKept, Undisturbed, OneWorker, HandlerHonours, Honours, Working
<1>8. StreamKept(s)'
  BY <1>1, <1>4, <1>6, <1>7
     DEF StreamKept, ColumnsSay, Undisturbed, RowHonours, HandlerStored,
         EntrySays
<1> QED BY <1>1, <1>2, <1>3, <1>8, OneStream

LEMMA SaveKept ==
  ASSUME KeepInv, NEW c \in Clients, Save(c)
  PROVE  \A t \in Streams : StreamKept(t)'
<1> PICK s : s = pc[c].s
  OBVIOUS
<1> PICK r : r = CreateRow(kind[s], pc[c].cfg)
  OBVIOUS
<1>1. /\ pc[c].at = "save" /\ UNCHANGED <<kind, entry, torn, behind, named>>
      /\ row' = [row EXCEPT ![s] = {r}]
  BY DEF Save, At, history
<1>2. s \in Streams /\ kind[s] \in Kinds /\ pc[c].cfg \in Configs
  BY <1>1, WorkerStream DEF KeepInv
<1>3. pc'[c].at = "insert" /\ pc'[c].s = s /\ pc'[c].cfg = pc[c].cfg /\ OthersStay(c)
  BY GoesOn DEF Save, KeepInv
<1>4. row'[s] = {r} /\ \A t \in Streams : t # s => row'[t] = row[t]
  BY <1>1, <1>2 DEF KeepInv, PortInv, Types, RowTypeOK
<1>5. Creating(c)
  BY <1>1 DEF Creating
<1>6. \A d \in Clients : Working(d, s)' => d = c
  BY <1>3, <1>5 DEF KeepInv, PortInv, CreatesAlone, Working, OthersStay
<1>7. StreamKept(s)
  BY <1>2 DEF KeepInv
<1>8. Row(s)' = r /\ r.cfg = pc[c].cfg
  <2>1. \A x \in {r} : x = r
    OBVIOUS
  <2> QED BY <1>4, <2>1 DEF Row, CreateRow
<1>9. ColumnsSay(s)'
  BY <1>1, <1>2, <1>8, CreateRowSays DEF ColumnsSay, PortOf
<1>10. AtLabel(s, "insert")'
  BY <1>3 DEF AtLabel
<1>11. ASSUME s \notin torn PROVE Undisturbed(s)'
  <2>1. Honours(s, pc[c].cfg)
    BY <1>1, <1>7, <1>11 DEF StreamKept, Undisturbed, HandlerHonours, Working
  <2>2. OneWorker(s)' /\ HandlerHonours(s)'
    BY <1>1, <1>3, <1>6, <2>1 DEF OneWorker, HandlerHonours, Honours
  <2>3. RowHonours(s)' /\ HandlerStored(s)'
    BY <1>1, <1>3, <1>6, <1>8, <2>1 DEF RowHonours, HandlerStored, Honours
  <2> QED BY <1>10, <2>2, <2>3 DEF Undisturbed, EntrySays
<1>12. StreamKept(s)'
  BY <1>1, <1>7, <1>9, <1>11 DEF StreamKept
<1> QED BY <1>1, <1>2, <1>3, <1>4, <1>12, OneStream

LEMMA InsertKept ==
  ASSUME KeepInv, NEW c \in Clients, Insert(c)
  PROVE  \A t \in Streams : StreamKept(t)'
<1> PICK s : s = pc[c].s
  OBVIOUS
<1>1. /\ pc[c].at = "insert" /\ UNCHANGED <<kind, row, torn, behind, named>>
      /\ \E e \in Entries(s, pc[c].cfg) : entry' = [entry EXCEPT ![s] = e]
  BY DEF Insert, At, history
<1>2. s \in Streams /\ kind[s] \in Kinds /\ pc[c].cfg \in Configs
  BY <1>1, WorkerStream DEF KeepInv
<1>3. pc'[c].at = "idle" /\ OthersStay(c)
  BY Ends DEF Insert, KeepInv
<1>4. /\ entry'[s] \in {{}, {Effective(kind[s], pc[c].cfg)}}
      /\ \A t \in Streams : t # s => entry'[t] = entry[t]
  BY <1>1, <1>2 DEF KeepInv, PortInv, Types, RowTypeOK, Entries
<1>5. StreamKept(s) /\ Row(s)' = Row(s) /\ PortOf(s)' = PortOf(s)
  BY <1>1, <1>2, SamePort DEF KeepInv
<1>6. ColumnsSay(s)'
  BY <1>1, <1>5 DEF StreamKept, ColumnsSay
<1>7. ASSUME s \notin torn PROVE Undisturbed(s)'
  <2>1. Undisturbed(s) /\ Working(c, s)
    BY <1>1, <1>5, <1>7 DEF StreamKept, Working
  <2>2. \A d \in Clients : ~Working(d, s)'
    BY <1>3, <2>1 DEF Undisturbed, OneWorker, Working, OthersStay
  <2>3. OneWorker(s)' /\ HandlerHonours(s)' /\ HandlerStored(s)'
    BY <2>2 DEF OneWorker, HandlerHonours, HandlerStored
  <2>4. ~AtLabel(s, "store")
    BY <1>1, <2>1 DEF AtLabel, Undisturbed, OneWorker, Working
  <2>5. RowHonours(s)'
    BY <1>1, <1>5, <2>1, <2>4 DEF Undisturbed, RowHonours, Honours
  <2>6. EntrySays(s)'
    BY <1>1, <1>2, <1>4, <1>5, <2>1, PortFacts
       DEF EntrySays, Undisturbed, HandlerStored, PortOf
  <2> QED BY <2>3, <2>5, <2>6 DEF Undisturbed
<1>8. StreamKept(s)'
  BY <1>1, <1>5, <1>6, <1>7 DEF StreamKept
<1> QED BY <1>1, <1>2, <1>3, <1>4, <1>8, OneStream

\* A request is refused before it has saved anything.
LEMMA RefuseKept ==
  ASSUME KeepInv, NEW c \in Clients, pc[c].at \in {"search", "check"}, Refuse(c)
  PROVE  \A t \in Streams : StreamKept(t)'
<1> PICK s : s = pc[c].s
  OBVIOUS
<1>1. UNCHANGED <<kind, row, entry, torn, behind, named>>
  BY DEF Refuse, history
<1>2. s \in Streams
  BY WorkerStream DEF KeepInv
<1>3. pc'[c].at = "idle" /\ OthersStay(c)
  BY Ends DEF Refuse, KeepInv
<1>4. Creating(c) /\ row'[s] = {}
  BY <1>1, <1>2 DEF KeepInv, PortInv, CreatesAlone, RowsAreSpent, Creating
<1>5. \A d \in Clients : ~Working(d, s)'
  BY <1>3, <1>4 DEF KeepInv, PortInv, CreatesAlone, Working, OthersStay
<1>6. 0 \notin named'[s]
  BY <1>1, <1>2 DEF KeepInv, StreamKept
<1>7. StreamKept(s)'
  BY <1>4, <1>5, <1>6
     DEF StreamKept, ColumnsSay, Undisturbed, OneWorker, HandlerHonours,
         RowHonours, HandlerStored, EntrySays
<1> QED BY <1>1, <1>2, <1>3, <1>7, OneStream

LEMMA PatchKept ==
  ASSUME KeepInv, NEW c \in Clients, NEW s \in Streams, NEW new \in Patches,
         Patch(c, s, new)
  PROVE  \A t \in Streams : StreamKept(t)'
<1> PICK m : m = Merge(Row(s).cfg, new)
  OBVIOUS
<1>1. /\ UNCHANGED <<kind, row, entry, behind>> /\ pc[c].at = "idle" /\ row[s] # {}
      /\ pc' = [pc EXCEPT ![c] = [at |-> "store", s |-> s, cfg |-> m]]
      /\ torn' = IF Busy(s) THEN torn \cup {s} ELSE torn
  BY DEF Patch, At
<1>2. /\ pc'[c].at = "store" /\ pc'[c].s = s /\ pc'[c].cfg = m /\ OthersStay(c)
  BY <1>1 DEF KeepInv, PortInv, Types, PcTypeOK, OthersStay
<1>3. /\ named'[s] = IF new = {} THEN named[s] ELSE new \ {0}
      /\ \A t \in Streams : t # s => named'[t] = named[t]
  BY DEF Patch, KeepInv, PortInv, Types, NamedTypeOK
<1>4. StreamKept(s) /\ Row(s)' = Row(s) /\ PortOf(s)' = PortOf(s)
  BY <1>1, SamePort DEF KeepInv
<1>5. Row(s).cfg \in Configs /\ kind[s] \in Kinds /\ new \in Option(Ports)
  BY <1>1, StoredRow, PortConfigAssumption DEF KeepInv, PortInv, Types, RowTypeOK, Rows
<1>6. 0 \notin named'[s] /\ ColumnsSay(s)'
  BY <1>1, <1>3, <1>4 DEF StreamKept, ColumnsSay
<1>7. ASSUME s \notin torn' PROVE Undisturbed(s)'
  <2>1. s \notin torn /\ \A d \in Clients : pc[d].s # s
    BY <1>1, <1>7 DEF Busy
  <2>2. Undisturbed(s) /\ ~AtLabel(s, "store") /\ ~AtLabel(s, "insert") /\ ~AtLabel(s, "apply")
    BY <1>4, <2>1 DEF StreamKept, AtLabel
  <2>3. \A d \in Clients : Working(d, s)' => d = c
    BY <1>2, <2>1 DEF Working, OthersStay
  <2>4. ASSUME named'[s] # {}
        PROVE  m.bind = named'[s] /\ Port(kind[s], m) = named'[s]
    <3>1. m.bind = named'[s]
      <4>1. CASE new = {}
        BY <1>1, <1>3, <1>5, <2>2, <2>4, <4>1, MergeHonours
           DEF Undisturbed, RowHonours, Honours
      <4>2. CASE new # {}
        <5>1. new \ {0} = new
          BY <1>3, <1>5, <2>4, <4>2 DEF Option
        <5>2. m.bind = new
          BY <1>5, <4>2, MergeHonours
        <5> QED BY <1>3, <4>2, <5>1, <5>2
      <4> QED BY <4>1, <4>2
    <3> QED BY <1>5, <1>6, <3>1, MergeHonours
  <2>5. OneWorker(s)' /\ HandlerHonours(s)'
    BY <1>1, <1>2, <2>3, <2>4 DEF OneWorker, HandlerHonours, Honours
  <2>6. AtLabel(s, "store")'
    BY <1>2 DEF AtLabel
  <2>7. RowHonours(s)' /\ HandlerStored(s)'
    BY <1>2, <2>3, <2>6 DEF RowHonours, HandlerStored
  <2>8. EntrySays(s)'
    BY <1>1, <1>4, <2>2 DEF EntrySays, Undisturbed
  <2> QED BY <2>5, <2>7, <2>8 DEF Undisturbed
<1>8. StreamKept(s)'
  BY <1>6, <1>7 DEF StreamKept
<1> QED BY <1>1, <1>2, <1>3, <1>8, OneStream

LEMMA StoreKept ==
  ASSUME KeepInv, NEW c \in Clients, Store(c)
  PROVE  \A t \in Streams : StreamKept(t)'
<1> PICK s : s = pc[c].s
  OBVIOUS
<1>1. /\ pc[c].at = "store" /\ UNCHANGED <<kind, entry, torn, named>>
      /\ behind' = behind \ {s}
      /\ row' = [row EXCEPT ![s] = {UpdateRow(kind[s], pc[c].cfg, r) : r \in @}]
  BY DEF Store, At
<1>2. s \in Streams /\ kind[s] \in Kinds /\ pc[c].cfg \in Configs
  BY <1>1, WorkerStream DEF KeepInv
<1>3. pc'[c].at = "apply" /\ pc'[c].s = s /\ pc'[c].cfg = pc[c].cfg /\ OthersStay(c)
  BY GoesOn DEF Store, KeepInv
<1>4. /\ row'[s] = {UpdateRow(kind[s], pc[c].cfg, r) : r \in row[s]}
      /\ \A t \in Streams : t # s => row'[t] = row[t]
  BY <1>1, <1>2 DEF KeepInv, PortInv, Types, RowTypeOK
<1>5. StreamKept(s)
  BY <1>2 DEF KeepInv
<1>6. ASSUME row'[s] # {}
      PROVE  row[s] # {} /\ Row(s)' = UpdateRow(kind[s], pc[c].cfg, Row(s))
                /\ Row(s)'.cfg = pc[c].cfg
  <2>1. Row(s)' \in row'[s]
    BY <1>6 DEF Row
  <2>2. row[s] = {Row(s)}
    BY <1>2, <1>4, <1>6, StoredRow DEF KeepInv, PortInv, Types
  <2> QED BY <1>4, <2>1, <2>2 DEF UpdateRow
<1>7. ColumnsSay(s)'
  BY <1>1, <1>2, <1>6, UpdateRowSays DEF ColumnsSay, PortOf
<1>8. ASSUME s \notin torn PROVE Undisturbed(s)'
  <2>1. Undisturbed(s) /\ Working(c, s)
    BY <1>1, <1>5, <1>8 DEF StreamKept, Working
  <2>2. \A d \in Clients : Working(d, s)' => d = c
    BY <1>3, <2>1 DEF Undisturbed, OneWorker, Working, OthersStay
  <2>3. Honours(s, pc[c].cfg)
    BY <1>1, <2>1 DEF Undisturbed, HandlerHonours
  <2>4. OneWorker(s)' /\ HandlerHonours(s)'
    BY <1>1, <1>3, <2>2, <2>3 DEF OneWorker, HandlerHonours, Honours
  <2>5. RowHonours(s)' /\ HandlerStored(s)'
    BY <1>1, <1>3, <1>6, <2>2, <2>3 DEF RowHonours, HandlerStored, Honours
  <2>6. AtLabel(s, "apply")'
    BY <1>3 DEF AtLabel
  <2> QED BY <2>4, <2>5, <2>6 DEF Undisturbed, EntrySays
<1>9. StreamKept(s)'
  BY <1>1, <1>5, <1>7, <1>8 DEF StreamKept
<1> QED BY <1>1, <1>2, <1>3, <1>4, <1>9, OneStream

\* What ends a request that has stored its row: the entry is gone, or is on the port
\* of the configuration, or the stream counts as behind.
LEMMA UpdateEnds ==
  ASSUME KeepInv, NEW c \in Clients, NEW s \in Streams, s = pc[c].s,
         pc[c].at = "apply", Finish(c), UNCHANGED <<kind, row, torn, named>>,
         behind \subseteq behind',
         \A t \in Streams : t # s => entry'[t] = entry[t],
         \/ entry'[s] \in {{}, {Effective(kind[s], pc[c].cfg)}}
         \/ s \in behind'
  PROVE  \A t \in Streams : StreamKept(t)'
<1>1. kind[s] \in Kinds /\ pc[c].cfg \in Configs
  BY WorkerStream DEF KeepInv
<1>2. pc'[c].at = "idle" /\ OthersStay(c)
  BY Ends DEF KeepInv
<1>3. StreamKept(s) /\ Row(s)' = Row(s) /\ PortOf(s)' = PortOf(s)
  BY SamePort DEF KeepInv
<1>4. ColumnsSay(s)'
  BY <1>3 DEF StreamKept, ColumnsSay
<1>5. ASSUME s \notin torn PROVE Undisturbed(s)'
  <2>1. Undisturbed(s) /\ Working(c, s)
    BY <1>3, <1>5 DEF StreamKept, Working
  <2>2. \A d \in Clients : ~Working(d, s)'
    BY <1>2, <2>1 DEF Undisturbed, OneWorker, Working, OthersStay
  <2>3. OneWorker(s)' /\ HandlerHonours(s)' /\ HandlerStored(s)'
    BY <2>2 DEF OneWorker, HandlerHonours, HandlerStored
  <2>4. ~AtLabel(s, "store")
    BY <2>1 DEF AtLabel, Undisturbed, OneWorker, Working
  <2>5. RowHonours(s)'
    BY <1>3, <2>1, <2>4 DEF Undisturbed, RowHonours, Honours
  <2>6. EntrySays(s)'
    BY <1>1, <1>3, <2>1, PortFacts DEF EntrySays, Undisturbed, HandlerStored, PortOf
  <2> QED BY <2>3, <2>5, <2>6 DEF Undisturbed
<1>6. StreamKept(s)'
  BY <1>3, <1>4, <1>5 DEF StreamKept
<1> QED BY <1>2, <1>6, OneStream

LEMMA ApplyKept ==
  ASSUME KeepInv, NEW c \in Clients, Apply(c)
  PROVE  \A t \in Streams : StreamKept(t)'
<1> PICK s : s = pc[c].s
  OBVIOUS
<1>1. /\ pc[c].at = "apply" /\ Finish(c)
      /\ UNCHANGED <<kind, row, torn, behind, named>>
      /\ \E e \in Entries(s, pc[c].cfg) :
           entry' = IF s \in Inputs /\ entry[s] = {} THEN entry
                    ELSE [entry EXCEPT ![s] = e]
  BY DEF Apply, At, history
<1>2. s \in Streams
  BY <1>1, WorkerStream DEF KeepInv
<1>3. /\ entry'[s] \in {{}, {Effective(kind[s], pc[c].cfg)}}
      /\ \A t \in Streams : t # s => entry'[t] = entry[t]
  BY <1>1, <1>2 DEF KeepInv, PortInv, Types, RowTypeOK, Entries
<1> QED BY <1>1, <1>2, <1>3, UpdateEnds

LEMMA OvertakenKept ==
  ASSUME KeepInv, NEW c \in Clients, Overtaken(c)
  PROVE  \A t \in Streams : StreamKept(t)'
<1>1. pc[c].at = "apply" /\ pc[c].s \in Streams
  BY WorkerStream DEF Overtaken, At, KeepInv
<1> QED BY <1>1, UpdateEnds DEF Overtaken

LEMMA LoseKept ==
  ASSUME KeepInv, NEW s \in Streams, LoseOutput(s)
  PROVE  \A t \in Streams : StreamKept(t)'
<1>1. /\ UNCHANGED <<kind, row, pc, torn, behind, named>>
      /\ entry' = [entry EXCEPT ![s] = {}]
  BY DEF LoseOutput, history
<1>2. entry'[s] = {} /\ \A t \in Streams : t # s => entry'[t] = entry[t]
  BY <1>1 DEF KeepInv, PortInv, Types, RowTypeOK
<1>3. ASSUME NEW t \in Streams, t # s PROVE StreamKept(t)'
  BY <1>1, <1>2, <1>3, NotAboutKeeps DEF KeepInv, NotAbout
<1>4. StreamKept(s) /\ Row(s)' = Row(s) /\ PortOf(s)' = PortOf(s)
  BY <1>1, SamePort DEF KeepInv
<1>5. \A l : AtLabel(s, l)' <=> AtLabel(s, l)
  BY <1>1 DEF AtLabel
<1>6. ASSUME s \notin torn PROVE Undisturbed(s)'
  BY <1>1, <1>2, <1>4, <1>5, <1>6
     DEF StreamKept, Undisturbed, OneWorker, HandlerHonours, RowHonours, Honours,
         HandlerStored, EntrySays, Working
<1>7. StreamKept(s)'
  BY <1>1, <1>4, <1>6 DEF StreamKept, ColumnsSay
<1> QED BY <1>3, <1>7

LEMMA DeleteKept ==
  ASSUME KeepInv, NEW s \in Streams, Delete(s)
  PROVE  \A t \in Streams : StreamKept(t)'
<1>1. /\ UNCHANGED <<kind, pc, torn, behind, named>>
      /\ row' = [row EXCEPT ![s] = {}] /\ entry' = [entry EXCEPT ![s] = {}]
  BY DEF Delete, history
<1>2. /\ row'[s] = {}
      /\ \A t \in Streams : t # s => row'[t] = row[t] /\ entry'[t] = entry[t]
  BY <1>1 DEF KeepInv, PortInv, Types, RowTypeOK
<1>3. ASSUME NEW t \in Streams, t # s PROVE StreamKept(t)'
  BY <1>1, <1>2, <1>3, NotAboutKeeps DEF KeepInv, NotAbout
<1>4. StreamKept(s)
  BY DEF KeepInv
<1>5. ASSUME s \notin torn PROVE OneWorker(s)' /\ HandlerHonours(s)'
  BY <1>1, <1>4, <1>5
     DEF StreamKept, Undisturbed, OneWorker, HandlerHonours, Honours, Working
<1>6. StreamKept(s)'
  BY <1>1, <1>2, <1>4, <1>5
     DEF StreamKept, ColumnsSay, Undisturbed, RowHonours, HandlerStored,
         EntrySays
<1> QED BY <1>3, <1>6

\* What load_from_db reads is what the configuration says.
LEMMA LoadsSay ==
  ASSUME PortInv, NEW s \in Streams, ColumnsSay(s), row[s] # {}, PortOf(s) # {}
  PROVE  Loads(s) = PortOf(s)
<1>1. kind[s] \in Kinds /\ Row(s).cfg \in Configs
  BY StoredRow DEF PortInv, Types, RowTypeOK, Rows
<1>2. {Effective(kind[s], Row(s).cfg)} = PortOf(s)
  BY <1>1, PortFacts DEF PortOf
<1> QED BY <1>1, <1>2 DEF ColumnsSay, Loads, LoadPort, Kinds

LEMMA RestartKept ==
  ASSUME KeepInv, Restart
  PROVE  \A t \in Streams : StreamKept(t)'
<1> SUFFICES ASSUME NEW s \in Streams PROVE StreamKept(s)'
  OBVIOUS
<1>1. /\ UNCHANGED <<kind, row, named>>
      /\ row[s] # {} => entry'[s] \in {{}, Loads(s)}
      /\ torn' = torn \cup {pc[c].s : c \in {c \in Clients : pc[c].at = "store"}}
  BY DEF Restart, Stored
<1>2. StreamKept(s) /\ Row(s)' = Row(s) /\ PortOf(s)' = PortOf(s)
  BY <1>1, SamePort DEF KeepInv
<1>3. \A c \in Clients : pc'[c].at = "idle"
  BY DEF Restart, Idle
<1>4. ColumnsSay(s)'
  BY <1>1, <1>2 DEF StreamKept, ColumnsSay
<1>5. ASSUME s \notin torn' PROVE Undisturbed(s)'
  <2>1. Undisturbed(s) /\ ~AtLabel(s, "store")
    BY <1>1, <1>2, <1>5 DEF StreamKept, AtLabel
  <2>2. OneWorker(s)' /\ HandlerHonours(s)' /\ HandlerStored(s)'
    BY <1>3 DEF OneWorker, HandlerHonours, HandlerStored, Working
  <2>3. RowHonours(s)'
    BY <1>1, <1>2, <2>1 DEF Undisturbed, RowHonours, Honours
  <2>4. EntrySays(s)'
    BY <1>1, <1>2, LoadsSay DEF EntrySays, StreamKept, KeepInv
  <2> QED BY <2>2, <2>3, <2>4 DEF Undisturbed
<1> QED BY <1>1, <1>2, <1>4, <1>5 DEF StreamKept

LEMMA KeepInvStep == KeepInv /\ [Next]_vars => KeepInv'
<1> SUFFICES ASSUME KeepInv, [Next]_vars PROVE \A t \in Streams : StreamKept(t)'
  BY PortInvStep DEF KeepInv
<1>1. ASSUME NEW c \in Clients, Request(c) PROVE \A t \in Streams : StreamKept(t)'
  <2>1. CASE NothingFree(c) \/ Conflict(c)
    BY <2>1, RefuseKept DEF NothingFree, Conflict, At
  <2> QED BY <1>1, <2>1, CreateKept, SearchKept, CheckKept, SaveKept, InsertKept,
             PatchKept, StoreKept, ApplyKept, OvertakenKept DEF Request
<1>2. CASE UNCHANGED <<row, kind, named, entry, torn, behind, pc>>
  BY <1>2, NotAboutKeeps DEF NotAbout, KeepInv
<1> QED BY <1>1, <1>2, LoseKept, DeleteKept, RestartKept
        DEF Next, StartOrStop, LoseOutput, vars, history

LEMMA KeepInvAlways == Spec => []KeepInv
BY KeepInvInit, KeepInvStep, PTL DEF Spec

LEMMA SettledMeans ==
  ASSUME KeepInv, NEW s \in Streams, Settled(s)
  PROVE  Undisturbed(s) /\ \A l \in {"insert", "apply", "store"} : ~AtLabel(s, l)
BY DEF KeepInv, StreamKept, Settled, Busy, AtLabel

\* However many requests are under way, and wherever the process dies: a stream on
\* which no two requests overlapped, and none was cut short, keeps the port that
\* was last named for it, through updates that name none and through restarts.
THEOREM NamedPortIsKept == Spec => []NamedPortKept
<1>1. KeepInv => NamedPortKept
  BY SettledMeans DEF NamedPortKept, Stored, Undisturbed, RowHonours, Honours
<1> QED BY <1>1, KeepInvAlways, PTL

\* Under the same condition a stream that has an entry, and whose stored
\* configuration says which port it is on, has the entry on that port, before and
\* after a restart and whatever lookups fail; unless its last update was overtaken
\* by a stop or a start of the stream and nothing was updated or restarted since.
THEOREM EntryIsAsStored == Spec => []EntryMatchesRow
<1>1. KeepInv => EntryMatchesRow
  BY SettledMeans DEF EntryMatchesRow, Stored, Undisturbed, EntrySays, PortOf
<1> QED BY <1>1, KeepInvAlways, PTL

-----------------------------------------------------------------------------
(* Coming up again *)

LEMMA NothingToLoad ==
  ASSUME KeepInv, NEW s \in Streams, row[s] # {}, Loads(s) = {}
  PROVE  kind[s] = "listener" /\ s \in patched /\ PortOf(s) = {}
<1>1. kind[s] = "listener" /\ Row(s).col = {}
  BY DEF Loads, LoadPort
<1>2. s \in patched
  BY <1>1 DEF KeepInv, PortInv, ColumnsAgree, Fresh
<1>3. PortOf(s) = {}
  BY <1>1 DEF KeepInv, StreamKept, ColumnsSay
<1> QED BY <1>1, <1>2, <1>3

LEMMA DownStep ==
  ASSUME KeepInv, DownOnlyByUpdate, [Next]_vars
  PROVE  DownOnlyByUpdate'
<1>1. CASE Restart
  <2> SUFFICES ASSUME ~up' PROVE DownOnlyByUpdate'
    BY DEF DownOnlyByUpdate
  <2>1. PICK s \in Streams : row[s] # {} /\ Loads(s) = {}
    BY <1>1 DEF Restart, Stored
  <2>2. kind[s] = "listener" /\ s \in patched /\ PortOf(s) = {}
    BY <2>1, NothingToLoad
  <2>3. UNCHANGED <<kind, row, patched>> /\ Row(s)' = Row(s)
    BY <1>1 DEF Restart, Row
  <2> QED BY <2>1, <2>2, <2>3 DEF DownOnlyByUpdate, Stored, PortOf
<1>2. CASE UNCHANGED vars
  <2>1. UNCHANGED <<up, kind, row, patched>> /\ (\A l : Row(l)' = Row(l))
    BY <1>2 DEF vars, history, Row
  <2> QED BY <2>1 DEF DownOnlyByUpdate, Stored
<1>3. CASE \E c \in Clients : Request(c)
  <2>1. up /\ up' = up
    BY <1>3 DEF Request, Create, Search, NothingFree, Check, Conflict, Save, Insert,
                Patch, Store, Apply, Overtaken, Refuse, At
  <2> QED BY <2>1 DEF DownOnlyByUpdate
<1>4. CASE \E s \in Streams : StartOrStop(s) \/ LoseOutput(s) \/ Delete(s)
  BY <1>4 DEF StartOrStop, LoseOutput, Delete, DownOnlyByUpdate
<1> QED BY <1>1, <1>2, <1>3, <1>4 DEF Next

\* When the process does not come up, an SRT listener output was left without a
\* port by an update: the rows that create_input, create_output and all other
\* updates write can be loaded, whatever requests overlap or are cut short.
THEOREM DownByUpdateOnly == Spec => []DownOnlyByUpdate
<1>1. Init => DownOnlyByUpdate
  BY DEF Init, DownOnlyByUpdate
<1>2. KeepInv /\ DownOnlyByUpdate /\ [Next]_vars => DownOnlyByUpdate'
  BY DownStep
<1> QED BY <1>1, <1>2, KeepInvAlways, PTL DEF Spec

-----------------------------------------------------------------------------
(* Ports that were found for a stream *)

\* A request that was given a port it has not saved yet, and a stream that still
\* has the port it was given.
Binds(s) == kind[s] \in {"input", "listener"}
Given(c) == pc[c].at \in {"check", "save"} /\ pc[c].s \in auto
Kept(t)  == row[t] # {} /\ Binds(t) /\ t \in auto \ patched

\* Of two requests that both have a port the later searched while the earlier was
\* not saved.  A request has a port that is in no row it could have looked at.
GivenRivals ==
  \A c, d \in Clients : Given(c) /\ Given(d) /\ c # d => {pc[c].s, pc[d].s} \in rivals
GivenApart ==
  \A c \in Clients, t \in Streams :
    /\ Given(c) /\ Binds(pc[c].s) /\ Kept(t) /\ {pc[c].s, t} \notin rivals
    => Port(kind[pc[c].s], pc[c].cfg) # PortOf(t)
KeptApart ==
  \A s, t \in Streams :
    Kept(s) /\ Kept(t) /\ s # t /\ {s, t} \notin rivals => PortOf(s) # PortOf(t)

AutoInv == PortInv /\ GivenRivals /\ GivenApart /\ KeptApart

LEMMA AutoInvInit == Init => AutoInv
BY PortInvInit DEF AutoInv, Init, Idle, GivenRivals, GivenApart, KeptApart, Given, Kept

\* A step after which nobody has been given a port, or keeps one, who did not before.
NoNewPorts ==
  /\ rivals \subseteq rivals'
  /\ \A d \in Clients : Given(d)' =>
       /\ Given(d) /\ pc'[d].s = pc[d].s /\ pc'[d].cfg = pc[d].cfg
       /\ kind'[pc[d].s] = kind[pc[d].s]
  /\ \A t \in Streams : Kept(t)' => Kept(t) /\ PortOf(t)' = PortOf(t)

LEMMA NoNewPortsKeeps ==
  ASSUME AutoInv, NoNewPorts PROVE GivenRivals' /\ GivenApart' /\ KeptApart'
<1>1. GivenRivals'
  BY DEF AutoInv, NoNewPorts, GivenRivals
<1>2. GivenApart'
  BY DEF AutoInv, NoNewPorts, GivenApart, Binds
<1>3. KeptApart'
  BY DEF AutoInv, NoNewPorts, KeptApart
<1> QED BY <1>1, <1>2, <1>3

LEMMA CreateApart ==
  ASSUME AutoInv, NEW c \in Clients, NEW s \in Streams, NEW k \in Kinds,
         NEW ask \in Asks, Create(c, s, k, ask)
  PROVE  NoNewPorts
<1>1. /\ UNCHANGED <<row, patched, rivals>> /\ row[s] = {} /\ auto' = auto \ {s}
      /\ \A d \in Clients : pc[d].s # s
      /\ pc'[c].s = s /\ OthersStay(c)
  BY DEF Create, At, Busy, AutoInv, PortInv, RowsAreSpent, Types, PcTypeOK, OthersStay
<1>2. \A t \in Streams : t # s => kind'[t] = kind[t]
  BY DEF Create, AutoInv, PortInv, Types, RowTypeOK
<1>3. \A t \in Streams : t # s => Row(t)' = Row(t) /\ PortOf(t)' = PortOf(t)
  BY <1>1, <1>2, SamePort
<1>4. \A t \in Streams : Kept(t)' => Kept(t) /\ PortOf(t)' = PortOf(t)
  BY <1>1, <1>2, <1>3 DEF Kept, Binds
<1>5. ASSUME NEW d \in Clients, Given(d)'
      PROVE  /\ Given(d) /\ pc'[d] = pc[d] /\ kind'[pc[d].s] = kind[pc[d].s]
  <2>1. d # c /\ pc'[d] = pc[d] /\ Given(d)
    BY <1>1, <1>5 DEF Given, OthersStay
  <2>2. pc[d].s \in Streams
    BY <2>1, WorkerStream DEF AutoInv, Given
  <2> QED BY <1>1, <1>2, <2>1, <2>2
<1> QED BY <1>1, <1>4, <1>5 DEF NoNewPorts

\* The port found is in no row: of an input both fields are looked at, of an SRT
\* listener output the column, which says what its configuration says.
LEMMA SearchApart ==
  ASSUME AutoInv, NEW c \in Clients, Search(c)
  PROVE  GivenRivals' /\ GivenApart' /\ KeptApart'
<1> DEFINE s == pc[c].s
<1>1. pc[c].at = "search" /\ UNCHANGED <<kind, row, patched>>
  BY DEF Search, At
<1>2. s \in Streams /\ pc[c].cfg \in Configs /\ kind[s] \in Kinds
  BY <1>1, WorkerStream DEF AutoInv
<1>3. PICK p \in AutoPorts \ UsedPorts :
        /\ pc' = [pc EXCEPT ![c] = [at  |-> AfterSearch(kind[s]), s |-> s,
                                    cfg |-> Assign(kind[s], @.cfg, p)]]
        /\ auto' = auto \cup {s}
        /\ rivals' = rivals \cup {{s, pc[d].s} : d \in
              {d \in Clients : pc[d].at \in {"check", "save"} /\ pc[d].s \in auto}}
  BY DEF Search
<1>0. s = pc[c].s /\ rivals \subseteq rivals'
  BY <1>3
<1> HIDE DEF s
<1>4. pc'[c].s = s /\ pc'[c].cfg = Assign(kind[s], pc[c].cfg, p) /\ OthersStay(c)
  BY <1>0, <1>3 DEF AutoInv, PortInv, Types, PcTypeOK, OthersStay
<1>5. Creating(c) /\ row[s] = {}
  BY <1>0, <1>1, <1>2 DEF AutoInv, PortInv, CreatesAlone, RowsAreSpent, Creating
<1>6. ASSUME NEW d \in Clients, d # c, Given(d)'
      PROVE  Given(d) /\ pc'[d] = pc[d] /\ pc[d].s # s /\ {s, pc[d].s} \in rivals'
  <2>1. pc'[d] = pc[d] /\ pc[d].at \in {"check", "save"}
    BY <1>4, <1>6 DEF OthersStay, Given
  <2>2. pc[d].s # s
    BY <1>0, <1>5, <1>6, <2>1 DEF AutoInv, PortInv, CreatesAlone
  <2>3. Given(d)
    BY <1>3, <1>6, <2>1, <2>2 DEF Given
  <2> QED BY <1>3, <2>1, <2>2, <2>3 DEF Given
<1>7. \A t \in Streams : Kept(t)' => Kept(t) /\ PortOf(t)' = PortOf(t)
  <2>1. \A t \in Streams : PortOf(t)' = PortOf(t)
    BY <1>1, SamePort
  <2> QED BY <1>1, <1>3, <1>5, <2>1 DEF Kept, Binds
<1>8. GivenRivals'
  <2> SUFFICES ASSUME NEW d \in Clients, NEW e \in Clients, Given(d)', Given(e)', d # e
               PROVE  {pc'[d].s, pc'[e].s} \in rivals'
    BY DEF GivenRivals
  <2>1. CASE d # c /\ e # c
    BY <1>0, <1>6, <2>1 DEF AutoInv, GivenRivals
  <2>2. CASE d = c
    BY <1>4, <1>6, <2>2
  <2>3. CASE e = c
    <3>1. {s, pc[d].s} = {pc[d].s, s}
      OBVIOUS
    <3> QED BY <1>4, <1>6, <2>3, <3>1
  <2> QED BY <2>1, <2>2, <2>3
<1>9. ASSUME Binds(s), NEW t \in Streams, Kept(t)
      PROVE  Port(kind[s], Assign(kind[s], pc[c].cfg, p)) # PortOf(t)
  <2>1. Port(kind[s], Assign(kind[s], pc[c].cfg, p)) = {p}
    BY <1>2, AssignHonours, PortConfigAssumption
  <2>2. kind[t] \in Kinds /\ Row(t) \in Rows /\ Row(t).cfg \in Configs
    BY <1>9, StoredRow DEF Kept, AutoInv, PortInv, Types, RowTypeOK, Rows
  <2>3. CASE kind[t] = "input"
    <3>1. Row(t).cfg.bind \cup Row(t).cfg.legacy \subseteq UsedPorts
      BY <1>9, <2>3 DEF Kept, UsedPorts, Stored, Inputs
    <3>2. PortOf(t) \subseteq UsedPorts
      BY <2>3, <3>1 DEF PortOf, Port, Or
    <3> QED BY <2>1, <3>2
  <2>4. CASE kind[t] = "listener"
    <3>1. Fresh(t)
      BY <1>9, <2>4 DEF Kept, Fresh
    <3>2. Row(t).col = {OnPort(t)}
      BY <3>1 DEF AutoInv, PortInv, ColumnsAgree
    <3>3. OnPort(t) \in UsedPorts
      BY <2>4, <3>1, <3>2 DEF Fresh, UsedPorts, OutputPorts, Stored, Outputs, Inputs
    <3>4. PortOf(t) # {} => PortOf(t) = {OnPort(t)}
      BY <2>2, <2>4, PortFacts DEF PortOf, OnPort
    <3> QED BY <2>1, <3>3, <3>4
  <2> QED BY <1>9, <2>3, <2>4 DEF Kept, Binds
<1>10. GivenApart'
  <2> SUFFICES ASSUME NEW d \in Clients, NEW t \in Streams, Given(d)', Kept(t)',
                      Binds(pc[d].s)', {pc'[d].s, t} \notin rivals'
               PROVE  Port(kind'[pc'[d].s], pc'[d].cfg) # PortOf(t)'
    BY DEF GivenApart
  <2>1. Kept(t) /\ PortOf(t)' = PortOf(t)
    BY <1>7
  <2>2. CASE d = c
    BY <1>1, <1>4, <1>9, <2>1, <2>2 DEF Binds
  <2>3. CASE d # c
    <3>1. Given(d) /\ pc'[d] = pc[d] /\ Binds(pc[d].s)
      BY <1>1, <1>6, <2>3 DEF Binds
    <3>2. Port(kind[pc[d].s], pc[d].cfg) # PortOf(t)
      BY <1>0, <2>1, <3>1 DEF AutoInv, GivenApart
    <3> QED BY <1>1, <2>1, <3>1, <3>2
  <2> QED BY <2>2, <2>3
<1>11. KeptApart'
  BY <1>0, <1>7 DEF AutoInv, KeptApart
<1> QED BY <1>8, <1>10, <1>11

LEMMA SaveApart ==
  ASSUME AutoInv, NEW c \in Clients, Save(c)
  PROVE  GivenRivals' /\ GivenApart' /\ KeptApart'
<1> PICK s : s = pc[c].s
  OBVIOUS
<1> PICK r : r = CreateRow(kind[s], pc[c].cfg)
  OBVIOUS
<1>1. /\ pc[c].at = "save" /\ UNCHANGED <<kind, auto, patched, rivals>>
      /\ row' = [row EXCEPT ![s] = {r}]
  BY DEF Save, At, history
<1>2. s \in Streams
  BY <1>1, WorkerStream DEF AutoInv
<1>3. pc'[c].at = "insert" /\ OthersStay(c)
  BY GoesOn DEF Save, AutoInv
<1>4. row'[s] = {r} /\ \A t \in Streams : t # s => row'[t] = row[t]
  BY <1>1, <1>2 DEF AutoInv, PortInv, Types, RowTypeOK
<1>5. PortOf(s)' = Port(kind[s], pc[c].cfg)
  <2>1. \A x \in {r} : x = r
    OBVIOUS
  <2>2. Row(s)' = r
    BY <1>4, <2>1 DEF Row
  <2> QED BY <1>1, <2>2 DEF PortOf, CreateRow
<1>6. ASSUME NEW t \in Streams, t # s, Kept(t)'
      PROVE  Kept(t) /\ PortOf(t)' = PortOf(t)
  BY <1>1, <1>4, <1>6, SamePort DEF Kept, Binds
<1>7. Kept(s)' => Given(c) /\ Binds(s)
  BY <1>1 DEF Kept, Given, Binds
<1>8. \A d \in Clients : Given(d)' => Given(d) /\ pc'[d] = pc[d] /\ d # c
  BY <1>1, <1>3 DEF Given, OthersStay
<1>9. GivenRivals'
  BY <1>1, <1>8 DEF AutoInv, GivenRivals
<1>10. GivenApart'
  <2> SUFFICES ASSUME NEW d \in Clients, NEW t \in Streams, Given(d)', Kept(t)',
                      Binds(pc[d].s)', {pc'[d].s, t} \notin rivals'
               PROVE  Port(kind'[pc'[d].s], pc'[d].cfg) # PortOf(t)'
    BY DEF GivenApart
  <2>1. t # s
    BY <1>1, <1>7, <1>8 DEF AutoInv, GivenRivals
  <2> QED BY <1>1, <1>6, <1>8, <2>1 DEF Binds, AutoInv, GivenApart
<1>11. KeptApart'
  <2>1. ASSUME NEW t \in Streams, t # s, Kept(s)', Kept(t)', {s, t} \notin rivals
        PROVE  PortOf(s)' # PortOf(t)'
    BY <1>5, <1>6, <1>7, <2>1 DEF AutoInv, GivenApart
  <2> SUFFICES ASSUME NEW t \in Streams, NEW u \in Streams, Kept(t)', Kept(u)', t # u,
                      {t, u} \notin rivals
               PROVE  PortOf(t)' # PortOf(u)'
    BY <1>1 DEF KeptApart
  <2>2. CASE t # s /\ u # s
    BY <1>6, <2>2 DEF AutoInv, KeptApart
  <2>3. {t, u} = {u, t}
    OBVIOUS
  <2> QED BY <2>1, <2>2, <2>3
<1> QED BY <1>9, <1>10, <1>11

\* Every other step, which may move one handler on, out of the way, and which
\* leaves a row as it is, drops it or marks the stream as updated.
LEMMA StoreApart ==
  ASSUME AutoInv, NEW c \in Clients, Store(c) PROVE NoNewPorts
<1> PICK s : s = pc[c].s
  OBVIOUS
<1>1. /\ pc[c].at = "store" /\ UNCHANGED <<kind, auto, rivals>>
      /\ patched' = patched \cup {s}
      /\ row' = [row EXCEPT ![s] = {UpdateRow(kind[s], pc[c].cfg, r) : r \in @}]
  BY DEF Store, At
<1>2. pc'[c].at = "apply" /\ OthersStay(c)
  BY GoesOn DEF Store, AutoInv
<1>3. \A t \in Streams : t # s => row'[t] = row[t]
  BY <1>1 DEF AutoInv, PortInv, Types, RowTypeOK
<1>4. \A t \in Streams : t # s => PortOf(t)' = PortOf(t)
  BY <1>1, <1>3, SamePort
<1>5. \A t \in Streams : Kept(t)' => Kept(t) /\ PortOf(t)' = PortOf(t)
  BY <1>1, <1>3, <1>4 DEF Kept, Binds
<1>6. \A d \in Clients : Given(d)' => Given(d) /\ pc'[d] = pc[d]
  BY <1>1, <1>2 DEF Given, OthersStay
<1> QED BY <1>1, <1>5, <1>6 DEF NoNewPorts

\* A step that gives no port and stores no row.
LEMMA SameRowsApart ==
  ASSUME UNCHANGED <<kind, row, auto, patched, rivals>>,
         \A d \in Clients : Given(d)' =>
           Given(d) /\ pc'[d].s = pc[d].s /\ pc'[d].cfg = pc[d].cfg
  PROVE  NoNewPorts
<1>1. \A t \in Streams : PortOf(t)' = PortOf(t)
  BY SamePort
<1> QED BY <1>1 DEF NoNewPorts, Kept, Binds

LEMMA AutoInvStep == AutoInv /\ [Next]_vars => AutoInv'
<1> SUFFICES ASSUME AutoInv, [Next]_vars PROVE GivenRivals' /\ GivenApart' /\ KeptApart'
  BY PortInvStep DEF AutoInv
<1>1. ASSUME NEW c \in Clients, Request(c) PROVE NoNewPorts \/ Search(c) \/ Save(c)
  <2>1. ASSUME NEW s \in Streams, NEW new \in Patches, Patch(c, s, new) PROVE NoNewPorts
    <3>1. pc'[c].at = "store" /\ OthersStay(c)
      BY <2>1 DEF Patch, AutoInv, PortInv, Types, PcTypeOK, OthersStay
    <3> QED BY <2>1, <3>1, SameRowsApart DEF Patch, Given, OthersStay
  <2>2. CASE Refuse(c) \/ Insert(c) \/ Apply(c) \/ Overtaken(c)
    <3>1. pc'[c].at = "idle" /\ OthersStay(c)
      BY <2>2, Ends DEF AutoInv, Refuse, Insert, Apply, Overtaken
    <3> QED BY <2>2, <3>1, SameRowsApart
               DEF Refuse, Insert, Apply, Overtaken, history, Given, OthersStay
  <2>3. CASE Check(c)
    <3>1. pc[c].at = "check" /\ pc'[c].s = pc[c].s /\ pc'[c].cfg = pc[c].cfg /\ OthersStay(c)
      BY <2>3, GoesOn DEF AutoInv, Check, At
    <3> QED BY <2>3, <3>1, SameRowsApart DEF Check, history, Given, OthersStay
  <2> QED BY <1>1, <2>1, <2>2, <2>3, CreateApart, StoreApart
             DEF Request, NothingFree, Conflict
<1>2. ASSUME NEW s \in Streams, Delete(s) PROVE NoNewPorts
  <2>1. /\ UNCHANGED <<kind, pc, auto, patched, rivals>> /\ row'[s] = {}
        /\ \A t \in Streams : t # s => row'[t] = row[t]
    BY <1>2 DEF Delete, history, AutoInv, PortInv, Types, RowTypeOK
  <2>2. \A t \in Streams : t # s => PortOf(t)' = PortOf(t)
    BY <2>1, SamePort
  <2> QED BY <2>1, <2>2 DEF NoNewPorts, Kept, Binds, Given
<1>3. CASE Restart
  <2>1. \A d \in Clients : pc'[d].at = "idle"
    BY <1>3 DEF Restart, Idle
  <2> QED BY <1>3, <2>1, SameRowsApart, NoNewPortsKeeps DEF Restart, Given
<1>4. CASE UNCHANGED <<kind, row, auto, patched, rivals, pc>>
  BY <1>4, SameRowsApart, NoNewPortsKeeps DEF Given
<1> QED BY <1>1, <1>2, <1>3, <1>4, SearchApart, SaveApart, NoNewPortsKeeps
           DEF Next, StartOrStop, LoseOutput, vars, history

\* However many streams are created at the same time: of two that bind their
\* ports and had them found by the server, and that were not updated since, the
\* ports differ, unless one was searched for while the other was not yet saved.
THEOREM FoundPortsDistinct == Spec => []AutoPortsDistinct
<1>1. AutoInv => AutoPortsDistinct
  BY DEF AutoInv, KeptApart, Kept, Binds, PortOf, AutoPortsDistinct, Bound, Stored
<1> QED BY <1>1, AutoInvInit, AutoInvStep, PTL DEF Spec
=============================================================================
