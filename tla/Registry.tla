------------------------------ MODULE Registry -----------------------------
(***************************************************************************)
(* What the API promises about which streams there are, whatever requests  *)
(* are served at the same time and wherever the process dies: an id is     *)
(* used once; an output belongs to an input that can be managed; an input  *)
(* is never deleted without its outputs; what has been deleted does not    *)
(* come back, by a late write or by a restart; and a create that was cut   *)
(* short is completed by the restart.                                      *)
(***************************************************************************)
CONSTANTS Inputs, Outputs, Parent

VARIABLE life  \* life[s] of a stream's id

Lives == {"free", "creating", "managed", "deleted"}

Managed(s)    == life[s] = "managed"
ManagedOf(i)  == {o \in Outputs : Parent[o] = i /\ Managed(o)}
Become(S, to) == life' = [s \in Inputs \cup Outputs |-> IF s \in S THEN to ELSE life[s]]

\* The streams the database holds when the process is first started.
Init ==
  /\ life \in [Inputs \cup Outputs -> {"free", "managed"}]
  /\ \A o \in Outputs : Managed(o) => Managed(Parent[o])

\* An input has an id, and is not in the map yet.
Create(i) == life[i] = "free" /\ Become({i}, "creating")
Admit(i)  == life[i] = "creating" /\ Become({i}, "managed")
Delete(i) == Managed(i) /\ Become({i} \cup ManagedOf(i), "deleted")

AddOutput(o)    == life[o] = "free" /\ Managed(Parent[o]) /\ Become({o}, "managed")
RemoveOutput(o) == Managed(o) /\ Managed(Parent[o]) /\ Become({o}, "deleted")

\* The process is started again.  A delete that the end of the process cut
\* short may have reached the outputs, S, and not their input.
Recover(S) ==
  life' = [s \in Inputs \cup Outputs |->
             IF s \in S THEN "deleted"
             ELSE IF s \in Inputs /\ life[s] = "creating" THEN "managed" ELSE life[s]]

Next == \/ \E i \in Inputs : \/ Create(i) \/ Admit(i) \/ Delete(i)
                             \/ Managed(i) /\ Recover(ManagedOf(i))
        \/ \E o \in Outputs : AddOutput(o) \/ RemoveOutput(o)
        \/ Recover({})

Spec == Init /\ [][Next]_life

\* No output is left without its input.
NoOrphans == \A o \in Outputs : Managed(o) => Managed(Parent[o])
=============================================================================
