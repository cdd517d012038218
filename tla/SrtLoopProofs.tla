---------------------------- MODULE SrtLoopProofs ---------------------------
(***************************************************************************)
(* The SRT loop, for every limit of attempts and every channel capacity:   *)
(* it gives up after exactly MAX_RETRIES attempts that lead nowhere, and   *)
(* it implements what StreamControl assumes of an SRT task.                *)
(*                                                                         *)
(* The invariant says what consecutive_failures counts: outside get_socket *)
(* the attempts announced since the last connection, inside it one less.   *)
(***************************************************************************)
EXTENDS SrtLoop, TLAPS

\* While the task lives, the attempts announced since it was last connected
\* are the failures it has counted and the attempt it is in.
AttemptsCounted ==
  /\ asked =< MaxRetries
  /\ pos \in {"ask", "linked", "pause"} =>
       failures < MaxRetries /\ asked = failures
  /\ pos = "open" => failures < MaxRetries /\ asked = failures + 1
  /\ said = "Error" => pos = "gone"

LoopInv == TypeOK /\ AttemptsCounted /\ ErrorIsEarned

-----------------------------------------------------------------------------
LEMMA LoopInit == Init => LoopInv
<1> SUFFICES ASSUME Init PROVE LoopInv
  OBVIOUS
<1>1. sender \in BOOLEAN /\ closed \in BOOLEAN
  BY Zenon DEF Init
<1>2. /\ kind \in {"listener", "caller"} /\ pos = "ask" /\ failures = 0
      /\ backlog = 0 /\ said = "nothing" /\ asked = 0
  BY Zenon DEF Init
<1> QED
  BY <1>1, <1>2, SrtLoopAssumption
     DEF LoopInv, TypeOK, AttemptsCounted, ErrorIsEarned, Says, Status

LEMMA AnnounceSays ==
  ASSUME NEW k PROVE Announce(k) \in Says \ {"Error"}
BY DEF Announce, Says, Status

LEMMA LoopStep == LoopInv /\ [Next]_vars => LoopInv'
<1> SUFFICES ASSUME LoopInv, [Next]_vars PROVE LoopInv'
  OBVIOUS
<1> USE SrtLoopAssumption DEF LoopInv, TypeOK, AttemptsCounted, ErrorIsEarned
<1>1. CASE Ask
  BY <1>1, AnnounceSays DEF Ask
<1>2. CASE LinkUp
  BY <1>2 DEF LinkUp, OnConnect, Says, Status
<1>3. CASE Fail
  <2>1. failures' = failures + 1 /\ failures' =< MaxRetries
    BY <1>3 DEF Fail, OnFailure
  <2>2. CASE failures' >= MaxRetries
    BY <1>3, <2>1, <2>2 DEF Fail, GivesUp, Says, Status
  <2>3. CASE ~(failures' >= MaxRetries)
    BY <1>3, <2>1, <2>3 DEF Fail, GivesUp, Says, Status
  <2> QED BY <2>2, <2>3
<1>4. CASE Break
  BY <1>4 DEF Break, Says, Status
<1>5. CASE Forward
  BY <1>5 DEF Forward, taskVars
<1>6. CASE SeeClosed
  BY <1>6 DEF SeeClosed
<1>7. CASE Wake
  BY <1>7 DEF Wake
<1>8. CASE Drop
  BY <1>8 DEF Drop
<1>9. CASE Publish
  BY <1>9 DEF Publish, taskVars
<1>10. CASE Close
  BY <1>10 DEF Close, taskVars
<1>11. CASE UNCHANGED vars
  BY <1>11 DEF vars
<1> QED
  BY <1>1, <1>2, <1>3, <1>4, <1>5, <1>6, <1>7, <1>8, <1>9, <1>10, <1>11
     DEF Next

\* The loop keeps its invariant.
THEOREM LoopInvariant == Spec => []LoopInv
BY LoopInit, LoopStep, PTL DEF Spec

\* The variables of the loop keep their types; in particular the counter of
\* failures never passes MAX_RETRIES.
THEOREM LoopTypeCorrect == Spec => []TypeOK
<1>1. LoopInv => TypeOK
  BY DEF LoopInv
<1> QED BY <1>1, LoopInvariant, PTL

\* An SRT task reports Error only after MAX_RETRIES attempts in a row that it
\* announced and that failed.
THEOREM ErrorEarned == Spec => []ErrorIsEarned
<1>1. LoopInv => ErrorIsEarned
  BY DEF LoopInv
<1> QED BY <1>1, LoopInvariant, PTL

-----------------------------------------------------------------------------
(* Refinement *)

LEMMA LifeInit == Init => Life!Init
BY DEF Init, Life!Init, LifePhase, Life!InputKinds, Life!OutputKinds

\* What TaskLife allows an SRT task in each phase.
LEMMA MovesOfSrt ==
  ASSUME kind \in {"listener", "caller"}, sender \in BOOLEAN
  PROVE  /\ LifePhase = "start" =>
              Move(Announce(kind), "waiting") \in Life!LifeMoves
         /\ LifePhase = "waiting" =>
              /\ Move("Connected", "flowing") \in Life!LifeMoves
              /\ Move("Reconnecting", "start") \in Life!LifeMoves
              /\ Fault("Error", "done") \in Life!LifeMoves
         /\ LifePhase = "flowing" =>
              Move("Reconnecting", "start") \in Life!LifeMoves
         /\ LifePhase = "flowing" /\ sender /\ closed =>
              Move("nothing", "done") \in Life!LifeMoves
<1> USE DEF Life!OutputMoves, Life!InputMoves, Life!SrtMoves, Life!Move,
            Life!Fault, Life!Announce, Move, Fault, Announce
<1>1. CASE sender
  BY <1>1 DEF Life!LifeMoves
<1>2. CASE ~sender
  BY <1>2 DEF Life!LifeMoves
<1> QED BY <1>1, <1>2

\* A step that is one of these moves is a step of TaskLife.
LEMMA MoveIsLifeStep ==
  ASSUME NEW m \in Life!LifeMoves,
         LifePhase' = m.next,
         said' = IF m.say = "nothing" THEN said ELSE m.say,
         UNCHANGED <<sender, kind, closed>>
  PROVE  Life!MakeMove
BY DEF Life!MakeMove

LEMMA LifeStep ==
  TypeOK /\ [Next]_vars =>
    [Life!MakeMove \/ Life!Close \/ Life!Drop]_Life!lifeVars
<1> SUFFICES ASSUME TypeOK, [Next]_vars
             PROVE  [Life!MakeMove \/ Life!Close \/ Life!Drop]_Life!lifeVars
  OBVIOUS
<1>0. kind \in {"listener", "caller"} /\ sender \in BOOLEAN
  BY DEF TypeOK
<1>1. CASE Ask
  <2> DEFINE m == Move(Announce(kind), "waiting")
  <2>1. m \in Life!LifeMoves
    BY <1>0, <1>1, MovesOfSrt DEF Ask, LifePhase
  <2>2. m.say # "nothing" /\ m.say = Announce(kind) /\ m.next = "waiting"
    BY DEF Move, Announce
  <2> QED BY <1>1, <2>1, <2>2, MoveIsLifeStep DEF Ask, LifePhase
<1>2. CASE LinkUp
  <2> DEFINE m == Move("Connected", "flowing")
  <2>1. m \in Life!LifeMoves
    BY <1>0, <1>2, MovesOfSrt DEF LinkUp, LifePhase
  <2>2. m.say = "Connected" /\ m.next = "flowing"
    BY DEF Move
  <2> QED BY <1>2, <2>1, <2>2, MoveIsLifeStep DEF LinkUp, LifePhase
<1>3. CASE Fail
  <2> DEFINE m == Move("Reconnecting", "start")
             e == Fault("Error", "done")
  <2>1. m \in Life!LifeMoves /\ e \in Life!LifeMoves
    BY <1>0, <1>3, MovesOfSrt DEF Fail, LifePhase
  <2>2. /\ m.say = "Reconnecting" /\ m.next = "start"
        /\ e.say = "Error" /\ e.next = "done"
    BY DEF Move, Fault
  <2>3. CASE GivesUp(failures')
    BY <1>3, <2>1, <2>2, <2>3, MoveIsLifeStep DEF Fail, LifePhase
  <2>4. CASE ~GivesUp(failures')
    BY <1>3, <2>1, <2>2, <2>4, MoveIsLifeStep DEF Fail, LifePhase
  <2> QED BY <2>3, <2>4
<1>4. CASE Break
  <2> DEFINE m == Move("Reconnecting", "start")
  <2>1. m \in Life!LifeMoves
    BY <1>0, <1>4, MovesOfSrt DEF Break, LifePhase
  <2>2. m.say = "Reconnecting" /\ m.next = "start"
    BY DEF Move
  <2> QED BY <1>4, <2>1, <2>2, MoveIsLifeStep DEF Break, LifePhase
<1>5. CASE Forward
  BY <1>5 DEF Forward, taskVars, LifePhase, Life!lifeVars
<1>6. CASE SeeClosed
  <2> DEFINE m == Move("nothing", "done")
  <2>1. m \in Life!LifeMoves
    BY <1>0, <1>6, MovesOfSrt DEF SeeClosed, LifePhase
  <2>2. m.say = "nothing" /\ m.next = "done"
    BY DEF Move
  <2> QED BY <1>6, <2>1, <2>2, MoveIsLifeStep DEF SeeClosed, LifePhase
<1>7. CASE Wake
  BY <1>7 DEF Wake, LifePhase, Life!lifeVars
<1>8. CASE Drop
  BY <1>8 DEF Drop, TypeOK, LifePhase, Life!Drop, Life!LivePhases
<1>9. CASE Publish
  BY <1>9 DEF Publish, taskVars, LifePhase, Life!lifeVars
<1>10. CASE Close
  BY <1>10 DEF Close, taskVars, LifePhase, Life!Close
<1>11. CASE UNCHANGED vars
  BY <1>11 DEF vars, LifePhase, Life!lifeVars
<1> QED
  BY <1>1, <1>2, <1>3, <1>4, <1>5, <1>6, <1>7, <1>8, <1>9, <1>10, <1>11
     DEF Next

\* Spawned for an input or an output, as a listener or a caller, the loop makes
\* only the moves and sends only the statuses that StreamTask lists.
THEOREM LoopImplementsLife == Spec => ImplementsLife
BY LifeInit, LifeStep, LoopTypeCorrect, PTL DEF Spec, ImplementsLife, Life!Spec
=============================================================================
