---------------------------- MODULE AnalysisProofs ---------------------------
(***************************************************************************)
(* The analyses of one input, for any number of clients and any types: no  *)
(* task is left running that neither an entry nor a handler refers to, as  *)
(* long as the input exists.                                               *)
(*                                                                         *)
(* The invariant is inductive as it stands.  What takes an argument is     *)
(* that the numbers of the model suffice: a handler that is about to spawn *)
(* an analysis of a type finds one that is not in use, because only the    *)
(* other handlers can refer to a running analysis of that type.            *)
(***************************************************************************)
EXTENDS AnalysisControl, FiniteSetTheorems, TLAPS

Handlers == [at : {"idle", "insert", "adopt", "resume"},
             id : Ids \cup {<<>>}, todo : [Types -> Nat]]

\* The parts of the type invariant.
FlagsOK == exists \in BOOLEAN /\ shown \in {"active", "Stopped", "Error"}
TasksOK == entries \subseteq Ids /\ alive \subseteq Ids
LockOK  == lock \in Clients \cup {Free}
PcOK    == /\ pc \in [Clients -> Handlers]
           /\ \A c \in Clients : At(c, "insert") => pc[c].id \in Ids
PausedOK == paused \in [Types -> Nat]

Inv == /\ FlagsOK /\ TasksOK /\ LockOK /\ PcOK /\ PausedOK
       /\ AnalysisCanBeStopped

LEMMA InvGives == Inv => TypeOK /\ AnalysisCanBeStopped
BY DEF Inv, FlagsOK, TasksOK, LockOK, PcOK, PausedOK, TypeOK, Handlers

LEMMA IdleType == None \in [Types -> Nat] /\ Idle \in Handlers /\ Idle.at = "idle"
BY DEF Idle, None, Handlers

LEMMA InvInit == Init => Inv
<1> SUFFICES ASSUME Init PROVE Inv
  OBVIOUS
<1>1. FlagsOK /\ TasksOK /\ LockOK /\ PausedOK /\ AnalysisCanBeStopped
  BY IdleType DEF Init, FlagsOK, TasksOK, LockOK, PausedOK, AnalysisCanBeStopped
<1>2. PcOK
  BY IdleType DEF Init, PcOK, At, Idle
<1> QED BY <1>1, <1>2 DEF Inv

-----------------------------------------------------------------------------
(* The numbers suffice *)

LEMMA Numbers ==
  /\ Cardinality(Clients) \in Nat /\ IsFiniteSet(Ids)
  /\ \A e \in Ids : e = <<e[1], e[2]>> /\ e[1] \in Types /\ e[2] \in 1..Cardinality(Clients)
<1>1. Cardinality(Clients) \in Nat
  BY FS_CardinalityType, AnalysisAssumption
<1>2. IsFiniteSet(1..Cardinality(Clients))
  BY <1>1, FS_Interval
<1>3. IsFiniteSet(Ids)
  BY <1>2, FS_Product, AnalysisAssumption DEF Ids
<1> QED BY <1>1, <1>3 DEF Ids

LEMMA NumberIsFree ==
  ASSUME Inv, NEW c \in Clients, NEW t \in Types, ~At(c, "insert"),
         exists, OfType(t) = {}
  PROVE  Unused(t) # {}
<1> DEFINE n == Cardinality(Clients)
           D == Clients \ {c}
           f == [d \in D |-> pc[d].id[2]]
           T == {f[d] : d \in D}
<1>1. n \in Nat /\ IsFiniteSet(D) /\ Cardinality(D) = n - 1
  BY Numbers, FS_RemoveElement, AnalysisAssumption
<1>2. f \in Surjection(D, T)
  BY DEF Surjection
<1>3. IsFiniteSet(T) /\ Cardinality(T) =< n - 1 /\ Cardinality(T) \in Nat
  BY <1>1, <1>2, FS_Surjection, FS_CardinalityType
<1>4. ASSUME Unused(t) = {} PROVE FALSE
  <2>1. ASSUME NEW i \in 1..n PROVE i \in T
    <3>1. <<t, i>> \in Ids
      BY DEF Ids
    <3>2. <<t, i>> \in entries \cup alive \cup Pending
      BY <1>4, <3>1 DEF Unused
    <3>3. <<t, i>> \in Pending
      BY <3>2 DEF Inv, AnalysisCanBeStopped, OfType
    <3>4. PICK d \in Clients : At(d, "insert") /\ pc[d].id = <<t, i>>
      BY <3>3 DEF Pending, At
    <3>5. d \in D /\ f[d] = i
      BY <3>4
    <3> QED BY <3>5
  <2> HIDE DEF T
  <2>2. 1..n \in SUBSET T
    BY <2>1
  <2>3. Cardinality(1..n) =< Cardinality(T)
    BY <1>3, <2>2, FS_Subset
  <2>4. Cardinality(1..n) = n
    BY <1>1, FS_Interval
  <2> QED BY <1>1, <1>3, <2>3, <2>4
<1> QED BY <1>4

-----------------------------------------------------------------------------
(* Steps *)

\* A handler goes on, or ends.
LEMMA PcMoves ==
  ASSUME PcOK, NEW c \in Clients, NEW h \in Handlers,
         h.at = "insert" => h.id \in Ids, pc' = [pc EXCEPT ![c] = h]
  PROVE  PcOK' /\ pc'[c] = h /\ \A d \in Clients : d # c => pc'[d] = pc[d]
BY DEF PcOK, At

LEMMA AfterType ==
  ASSUME NEW h \in Handlers PROVE After(h) \in Handlers /\ After(h).at \in {"idle", "resume"}
BY IdleType DEF After, Handlers

\* A handler that was not about to insert an analysis, and is not now, refers
\* to none.
LEMMA PendingStays ==
  ASSUME NEW c \in Clients, ~At(c, "insert"), pc'[c].at # "insert",
         \A d \in Clients : d # c => pc'[d] = pc[d]
  PROVE  Pending' = Pending
BY DEF Pending, At

LEMMA BeginStep ==
  ASSUME Inv, NEW c \in Clients, NEW t \in Types, NEW h \in Handlers,
         ~At(c, "insert"), BeginAnalysis(c, t, h)
  PROVE  Inv'
<1> USE DEF Inv
<1>1. FlagsOK' /\ LockOK' /\ PausedOK'
  BY DEF BeginAnalysis, FlagsOK, LockOK, PausedOK
<1>2. CASE exists /\ OfType(t) = {}
  <2>1. PICK e \in Unused(t) :
           /\ alive' = alive \cup {e} /\ entries' = entries
           /\ pc' = [pc EXCEPT ![c] = [h EXCEPT !.at = "insert", !.id = e]]
    BY <1>2, NumberIsFree DEF BeginAnalysis
  <2>2. e \in Ids
    BY DEF Unused
  <2> DEFINE g == [h EXCEPT !.at = "insert", !.id = e]
  <2>3. g \in Handlers /\ g.at = "insert" /\ g.id = e
    BY <2>2 DEF Handlers
  <2> HIDE DEF g
  <2>4. PcOK' /\ pc'[c] = g /\ \A d \in Clients : d # c => pc'[d] = pc[d]
    BY <2>1, <2>2, <2>3, PcMoves DEF g
  <2>5. TasksOK'
    BY <2>1, <2>2 DEF TasksOK
  <2>6. Pending \cup {e} \subseteq Pending'
    BY <2>3, <2>4 DEF Pending, At
  <2>7. AnalysisCanBeStopped'
    BY <1>2, <2>1, <2>6 DEF AnalysisCanBeStopped
  <2> QED BY <1>1, <2>4, <2>5, <2>7
<1>3. CASE ~(exists /\ OfType(t) = {})
  <2>1. /\ pc' = [pc EXCEPT ![c] = After(h)]
        /\ UNCHANGED <<exists, entries, alive>>
    BY <1>3 DEF BeginAnalysis
  <2>2. PcOK' /\ pc'[c] = After(h) /\ \A d \in Clients : d # c => pc'[d] = pc[d]
    BY <2>1, AfterType, PcMoves
  <2>3. Pending' = Pending
    BY <2>2, AfterType, PendingStays
  <2> QED BY <1>1, <2>1, <2>2, <2>3 DEF TasksOK, AnalysisCanBeStopped
<1> QED BY <1>2, <1>3

LEMMA InsertStep == ASSUME Inv, NEW c \in Clients, InsertAnalysis(c) PROVE Inv'
<1> USE DEF Inv
<1>1. pc[c] \in Handlers /\ pc[c].id \in Ids
  BY DEF InsertAnalysis, PcOK
<1>2. PcOK' /\ pc'[c] = After(pc[c]) /\ \A d \in Clients : d # c => pc'[d] = pc[d]
  BY <1>1, AfterType, PcMoves DEF InsertAnalysis
<1>3. FlagsOK' /\ LockOK' /\ PausedOK' /\ TasksOK'
  BY <1>1 DEF InsertAnalysis, FlagsOK, LockOK, PausedOK, TasksOK
<1>4. Pending \subseteq Pending' \cup {pc[c].id}
  BY <1>2 DEF Pending
<1>5. AnalysisCanBeStopped'
  BY <1>4 DEF InsertAnalysis, AnalysisCanBeStopped
<1> QED BY <1>2, <1>3, <1>5

\* Entries are removed and their tasks aborted, by a handler of one section.
LEMMA RemoveStep ==
  ASSUME Inv, NEW S, Remove(S), UNCHANGED pc, exists' => exists,
         FlagsOK', LockOK', PausedOK'
  PROVE  Inv'
<1>1. Pending' = Pending
  BY DEF Pending
<1> QED BY <1>1 DEF Inv, Remove, TasksOK, PcOK, At, AnalysisCanBeStopped

\* A handler goes on without spawning or inserting anything.
LEMMA GoStep ==
  ASSUME Inv, NEW c \in Clients, ~At(c, "insert"), NEW h \in Handlers,
         h.at # "insert", pc' = [pc EXCEPT ![c] = h],
         UNCHANGED <<exists, entries, alive>>, FlagsOK', LockOK', PausedOK'
  PROVE  Inv'
<1> USE DEF Inv
<1>1. PcOK' /\ pc'[c] = h /\ \A d \in Clients : d # c => pc'[d] = pc[d]
  BY PcMoves
<1>2. Pending' = Pending
  BY <1>1, PendingStays
<1> QED BY <1>1, <1>2 DEF TasksOK, AnalysisCanBeStopped

LEMMA ResumeStep == ASSUME Inv, NEW c \in Clients, ResumeAnalysis(c) PROVE Inv'
<1>1. PICK t \in Types : /\ pc[c].todo[t] > 0
                         /\ BeginAnalysis(c, t, [pc[c] EXCEPT !.todo[t] = @ - 1])
  BY DEF ResumeAnalysis
<1>2. pc[c] \in Handlers /\ ~At(c, "insert")
  BY DEF ResumeAnalysis, Inv, PcOK, At
<1>3. [pc[c] EXCEPT !.todo[t] = @ - 1] \in Handlers
  BY <1>1, <1>2 DEF Handlers
<1> QED BY <1>1, <1>2, <1>3, BeginStep

LEMMA AdoptStep == ASSUME Inv, NEW c \in Clients, AdoptInput(c) PROVE Inv'
<1> DEFINE h == [pc[c] EXCEPT !.todo = paused]
<1>1. h \in Handlers /\ ~At(c, "insert")
  BY DEF AdoptInput, Inv, PcOK, PausedOK, Handlers, At
<1>2. FlagsOK' /\ PausedOK'
  BY IdleType DEF AdoptInput, Inv, FlagsOK, PausedOK
<1>3. LockOK'
  BY DEF AdoptInput, GuardKept, LockOK
<1> QED BY <1>1, <1>2, <1>3, AfterType, GoStep DEF AdoptInput

LEMMA RequestStep == ASSUME Inv, NEW c \in Clients, Request(c) PROVE Inv'
<1>1. ASSUME NEW t \in Types, StartAnalysis(c, t) PROVE Inv'
  BY <1>1, IdleType, BeginStep DEF StartAnalysis, At
<1>2. ASSUME NEW t \in Types, StopAnalysis(c, t) PROVE Inv'
  BY <1>2, RemoveStep DEF StopAnalysis, Inv, FlagsOK, LockOK, PausedOK
<1>3. CASE StopAllAnalysis(c)
  BY <1>3, RemoveStep DEF StopAllAnalysis, Inv, FlagsOK, LockOK, PausedOK
<1>4. CASE StopInput(c)
  <2>1. \A t \in Types : Cardinality(OfType(t)) \in Nat
    <3> TAKE t \in Types
    <3>1. OfType(t) \in SUBSET Ids
      BY DEF OfType, Inv, TasksOK
    <3> QED BY <3>1, Numbers, FS_Subset, FS_CardinalityType
  <2>2. FlagsOK' /\ LockOK'
    BY <1>4 DEF StopInput, Inv, FlagsOK, LockOK
  <2>3. PausedOK'
    BY <1>4, <2>1 DEF StopInput, Inv, PausedOK
  <2> QED BY <1>4, <2>2, <2>3, RemoveStep DEF StopInput
<1>5. CASE DeleteInput(c)
  BY <1>5, IdleType, RemoveStep DEF DeleteInput, Inv, FlagsOK, LockOK, PausedOK
<1>6. CASE StartInput(c)
  <2> DEFINE h == [pc[c] EXCEPT !.at = "adopt"]
  <2>1. h \in Handlers /\ h.at # "insert" /\ ~At(c, "insert")
    BY <1>6 DEF StartInput, Inv, PcOK, Handlers, At
  <2>2. pc' = [pc EXCEPT ![c] = h]
    BY <1>6 DEF StartInput, Inv, PcOK
  <2> QED BY <1>6, <2>1, <2>2, GoStep DEF StartInput, Inv, FlagsOK, LockOK, PausedOK
<1> QED BY <1>1, <1>2, <1>3, <1>4, <1>5, <1>6 DEF Request

LEMMA InvStep == Inv /\ [Next]_vars => Inv'
<1> SUFFICES ASSUME Inv, [Next]_vars PROVE Inv'
  OBVIOUS
<1>1. ASSUME NEW c \in Clients, Request(c) PROVE Inv'
  BY <1>1, RequestStep
<1>2. ASSUME NEW c \in Clients, Continue(c) PROVE Inv'
  <2>1. CASE RefuseInput(c)
    BY <2>1, IdleType, GoStep
       DEF RefuseInput, At, Inv, FlagsOK, LockOK, PausedOK
  <2> QED BY <1>2, <2>1, InsertStep, AdoptStep, ResumeStep DEF Continue
<1>3. ASSUME NEW e \in Ids, AnalysisEnds(e) PROVE Inv'
  BY <1>3 DEF AnalysisEnds, Inv, FlagsOK, TasksOK, LockOK, PcOK, PausedOK, At,
              AnalysisCanBeStopped, Pending
<1>4. CASE InputReports
  BY <1>4 DEF InputReports, Inv, FlagsOK, TasksOK, LockOK, PcOK, PausedOK, At,
              AnalysisCanBeStopped, Pending
<1>5. CASE UNCHANGED vars
  BY <1>5 DEF vars, Inv, FlagsOK, TasksOK, LockOK, PcOK, PausedOK, At,
              AnalysisCanBeStopped, Pending
<1> QED BY <1>1, <1>2, <1>3, <1>4, <1>5 DEF Next

-----------------------------------------------------------------------------
\* Every reachable state has the types of the invariant.
THEOREM AnalysisTypeCorrect == Spec => []TypeOK
BY InvInit, InvStep, InvGives, PTL DEF Spec

\* However start_analysis, stop_analysis, stop_input and a start of the input
\* overlap, a running analysis of an input that exists has an entry, or a
\* handler that is about to insert it.
THEOREM NoAnalysisIsLost == Spec => []AnalysisCanBeStopped
BY InvInit, InvStep, InvGives, PTL DEF Spec
=============================================================================
