------------------------------ MODULE TaskLife ------------------------------
(***************************************************************************)
(* What StreamControl assumes of one worker task: the moves StreamTask     *)
(* lists for its kind, seen through the phase it is in and the status it   *)
(* sent last, or being dropped without a word.                             *)
(***************************************************************************)
EXTENDS StreamTask

VARIABLES
  sender,  \* whether the task sends, for an output, or receives
  kind,    \* how it gets at its packets
  closed,  \* the channel a sender reads has no publisher any more
  phase,   \* the phase of the task
  said     \* the status it sent last

lifeVars == <<sender, kind, closed, phase, said>>

LifeMoves == IF sender THEN OutputMoves(kind, phase, closed)
                       ELSE InputMoves(kind, phase, closed)

Init == /\ sender \in BOOLEAN /\ kind \in IF sender THEN OutputKinds ELSE InputKinds
        /\ closed = FALSE
        /\ phase = "start" /\ said = "nothing"

MakeMove ==
  /\ \E m \in LifeMoves :
       /\ phase' = m.next
       /\ said' = IF m.say = "nothing" THEN said ELSE m.say
  /\ UNCHANGED <<sender, kind, closed>>

Close == closed' = TRUE /\ UNCHANGED <<sender, kind, phase, said>>

Drop == /\ phase \in LivePhases /\ phase' = "done"
        /\ UNCHANGED <<sender, kind, closed, said>>

Spec == Init /\ [][MakeMove \/ Close \/ Drop]_lifeVars
=============================================================================
