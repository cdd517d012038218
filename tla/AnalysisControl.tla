--------------------------- MODULE AnalysisControl --------------------------
(***************************************************************************)
(* The MPEG-TS analyses of one input: the tasks that analysis.rs spawns,   *)
(* the entries of analysis_tasks that can abort them, and paused_analysis, *)
(* in which stop_input remembers what start_input has to start again.      *)
(*                                                                         *)
(* All of it is behind the lock of ACTIVE_STREAMS.  A section that takes   *)
(* the lock and gives it back is one action; the lock is a variable because *)
(* one handler asks for it while it holds it.                              *)
(*                                                                         *)
(* Left out: the reports, the packets, and that an abort takes a moment.   *)
(***************************************************************************)
EXTENDS Naturals, FiniteSets

CONSTANTS
  Types,    \* mux and tr101
  Clients,  \* HTTP requests that may be served at the same time
  Spts,     \* whether the input is an SPTS input
  MaxPaused \* bound: how often paused_analysis holds one type

ASSUME AnalysisAssumption ==
  /\ IsFiniteSet(Types) /\ IsFiniteSet(Clients)
  /\ Spts \in BOOLEAN /\ MaxPaused \in Nat

VARIABLES
  exists,  \* the input is a key of ACTIVE_STREAMS
  shown,   \* what the input's status amounts to: active, Stopped or Error
  entries, \* keys of analysis_tasks
  alive,   \* analyses whose task has not ended
  paused,  \* paused_analysis: how often it holds each type
  lock,    \* the handler that keeps the write lock between two steps, or Free
  pc       \* where each client's handler is

vars == <<exists, shown, entries, alive, paused, lock, pc>>

\* An analysis is its type and a number.  Numbers are taken again when nothing
\* refers to the analysis any more; as many as there are clients are enough,
\* since a type that has an entry gets no further task.
Ids     == Types \X (1..Cardinality(Clients))
Free    == "free"
None    == [t \in Types |-> 0]
Idle    == [at |-> "idle", id |-> <<>>, todo |-> None]
Pending == {pc[c].id : c \in {d \in Clients : pc[d].at = "insert"}}
OfType(t) == {e \in entries : e[1] = t}
Unused(t) == {e \in Ids \ (entries \cup alive \cup Pending) : e[1] = t}
At(c, label) == pc[c].at = label

\* The input has been started, so there is a task of it that may report.
Init ==
  /\ exists = TRUE /\ shown = "active"
  /\ entries = {} /\ alive = {}
  /\ paused = None
  /\ lock = Free
  /\ pc = [c \in Clients |-> Idle]

-----------------------------------------------------------------------------
(* start_analysis *)

\* The handler of c is done with one analysis; a start_input goes on with the
\* types it still has to do.
After(h) == IF h.todo = None THEN Idle
            ELSE [h EXCEPT !.at = "resume", !.id = <<>>]

\* The read section, and the task spawned after it.
BeginAnalysis(c, t, h) ==
  /\ lock = Free
  /\ IF exists /\ OfType(t) = {}
     THEN LET e == CHOOSE e \in Unused(t) : TRUE IN
          /\ alive' = alive \cup {e}
          /\ pc' = [pc EXCEPT ![c] = [h EXCEPT !.at = "insert", !.id = e]]
     ELSE /\ pc' = [pc EXCEPT ![c] = After(h)]
          /\ UNCHANGED alive
  /\ UNCHANGED <<exists, shown, entries, paused, lock>>

StartAnalysis(c, t) == At(c, "idle") /\ BeginAnalysis(c, t, Idle)

\* The write section.  When the input has gone the JoinHandle is dropped, which
\* leaves the task running.
InsertAnalysis(c) ==
  /\ At(c, "insert") /\ lock = Free
  /\ entries' = IF exists THEN entries \cup {pc[c].id} ELSE entries
  /\ pc' = [pc EXCEPT ![c] = After(pc[c])]
  /\ UNCHANGED <<exists, shown, alive, paused, lock>>

-----------------------------------------------------------------------------
(* stop_analysis, stop_all_analysis, and the input's own handlers *)

\* The entries of S are removed and their tasks aborted.
Forget(S) == entries' = entries \ S /\ UNCHANGED alive
Remove(S) == entries' = entries \ S /\ alive' = alive \ S

StopAnalysis(c, t) ==
  /\ At(c, "idle") /\ lock = Free /\ exists
  /\ \E e \in OfType(t) : Remove({e})
  /\ UNCHANGED <<exists, shown, paused, lock, pc>>

StopAllAnalysis(c) ==
  /\ At(c, "idle") /\ lock = Free /\ exists
  /\ Remove(entries)
  /\ UNCHANGED <<exists, shown, paused, lock, pc>>

\* stop_input adds to what paused_analysis holds already.
StopInput(c) ==
  /\ At(c, "idle") /\ lock = Free /\ exists /\ shown # "Stopped"
  /\ \A t \in Types : paused[t] + Cardinality(OfType(t)) <= MaxPaused
  /\ shown' = "Stopped"
  /\ paused' = [t \in Types |-> paused[t] + Cardinality(OfType(t))]
  /\ Remove(entries)
  /\ UNCHANGED <<exists, lock, pc>>

DeleteInput(c) ==
  /\ At(c, "idle") /\ lock = Free /\ exists
  /\ exists' = FALSE /\ shown' = "Stopped"
  /\ Remove(entries)
  /\ paused' = None
  /\ UNCHANGED <<lock, pc>>

\* start_input, the check.
StartInput(c) ==
  /\ At(c, "idle") /\ lock = Free /\ exists /\ shown # "active"
  /\ pc' = [pc EXCEPT ![c].at = "adopt"]
  /\ UNCHANGED <<exists, shown, entries, alive, paused, lock>>

\* start_input, the section that stores the new task and drains
\* paused_analysis.  For an SPTS input the lock is released before the
\* analyses are started; for other inputs start_analysis is called under it,
\* and asks for it again.
GuardAlwaysKept(c) == c
GuardKept(c)       == IF Spts THEN Free ELSE c

AdoptInput(c) ==
  LET h == [pc[c] EXCEPT !.todo = paused] IN
  /\ At(c, "adopt") /\ lock = Free
  /\ shown' = IF exists THEN "active" ELSE shown
  /\ paused' = None
  /\ pc'   = [pc EXCEPT ![c] = After(h)]
  /\ lock' = IF h.todo = None THEN Free ELSE GuardKept(c)
  /\ UNCHANGED <<exists, entries, alive>>

\* An SPTS input is not started when its source is not active.
RefuseInput(c) ==
  /\ At(c, "adopt") /\ Spts /\ lock = Free
  /\ pc' = [pc EXCEPT ![c] = Idle]
  /\ UNCHANGED <<exists, shown, entries, alive, paused, lock>>

ResumeAnyAnalysis(c) ==
  /\ At(c, "resume")
  /\ \E t \in Types : BeginAnalysis(c, t, [pc[c] EXCEPT !.todo[t] = @ - 1])
ResumeOneAnalysis(c) ==
  /\ At(c, "resume")
  /\ \E t \in Types :
       /\ pc[c].todo[t] > 0
       /\ BeginAnalysis(c, t, [pc[c] EXCEPT !.todo = None])
ResumeAnalysis(c) ==
  /\ At(c, "resume")
  /\ \E t \in Types :
       /\ pc[c].todo[t] > 0
       /\ BeginAnalysis(c, t, [pc[c] EXCEPT !.todo[t] = @ - 1])

\* A task ends by itself, at its timeout or with the channel of the input; its
\* entry stays.
AnalysisEnds(e) ==
  /\ e \in alive
  /\ alive' = alive \ {e}
  /\ UNCHANGED <<exists, shown, entries, paused, lock, pc>>

\* The processor applies, under the write lock, what a task of the input has
\* sent: that it is active, or its end, which is Error, or Stopped when the
\* source of an SPTS input has ended.  The message may be late and of an earlier
\* task than the entry holds, so a stopped input may be shown active again.
InputReports ==
  /\ lock = Free /\ exists
  /\ shown' \in {"active", IF Spts THEN "Stopped" ELSE "Error"}
  /\ UNCHANGED <<exists, entries, alive, paused, lock, pc>>

-----------------------------------------------------------------------------
Continue(c) == \/ InsertAnalysis(c) \/ AdoptInput(c) \/ RefuseInput(c)
               \/ ResumeAnalysis(c)
Request(c)  == \/ \E t \in Types : StartAnalysis(c, t) \/ StopAnalysis(c, t)
               \/ StopAllAnalysis(c) \/ StopInput(c) \/ StartInput(c)
               \/ DeleteInput(c)
Next == \/ \E c \in Clients : Request(c) \/ Continue(c)
        \/ \E e \in Ids : AnalysisEnds(e)
        \/ InputReports

Spec == Init /\ [][Next]_vars

\* tokio's RwLock is fair and no section of another handler waits for anything
\* else, so a handler that waits for a lock nobody keeps goes on.
FairSpec == Spec /\ \A c \in Clients : WF_vars(Continue(c))

-----------------------------------------------------------------------------
(* Properties *)

\* The type invariant.
TypeOK ==
  /\ exists \in BOOLEAN /\ shown \in {"active", "Stopped", "Error"}
  /\ entries \subseteq Ids /\ alive \subseteq Ids
  /\ paused \in [Types -> Nat]
  /\ lock \in Clients \cup {Free}
  /\ pc \in [Clients -> [at : {"idle", "insert", "adopt", "resume"},
                         id : Ids \cup {<<>>}, todo : [Types -> Nat]]]

\* A running analysis of an input that exists can be stopped, or is about to
\* be: however start_analysis, stop_input and a restart of the input
\* interleave, no task is left that nothing refers to.
AnalysisCanBeStopped == exists => alive \subseteq entries \cup Pending

\* Every handler ends.
HandlersEnd == \A c \in Clients : ~At(c, "idle") ~> At(c, "idle")

\* What start_input took from paused_analysis is running again at some time
\* after, unless the input is deleted first.
PausedComeBack ==
  \A t \in Types :
    (\E c \in Clients : pc[c].todo[t] > 0) ~> (OfType(t) # {} \/ ~exists)
=============================================================================
