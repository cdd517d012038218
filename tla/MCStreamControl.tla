--------------------------- MODULE MCStreamControl --------------------------
(***************************************************************************)
(* Values of the constants of StreamControl for TLC.                       *)
(***************************************************************************)
EXTENDS StreamControl, TLC

CONSTANTS u1, l1, sp, p1, q1, h1   \* ids of streams

\* u1 a UDP input, l1 an SRT listener input, sp an SPTS input on u1;
\* p1 a UDP output, q1 an SRT caller output, h1 a UDP output to a host name;
\* outputs belong to the SPTS input where there is one.
MCKind ==
  [s \in Streams |-> CASE s = u1 -> "udp"
                       [] s = l1 -> "listener"
                       [] s = sp -> "spts"
                       [] s = q1 -> "caller"
                       [] OTHER  -> "udp"]
MCParent    == [o \in Outputs |-> IF sp \in Inputs THEN sp
                               ELSE CHOOSE i \in Inputs : i \in {u1, l1}]
MCSource    == [i \in Inputs \cap {sp} |-> u1]
MCHostNamed == Outputs \cap {h1}

B(e, n, l, k) == [error |-> e, lookup |-> n, late |-> l, crash |-> k]
NoFaults      == B(0, 0, 0, 0)
AllFaults     == B(1, 1, 1, 1)
OneCrash      == B(0, 0, 0, 1)
LookupCrash   == B(0, 1, 0, 1)

\* Bound: the source of an SPTS input is started once.
SourceOnce == sp \in Inputs => gen[u1] <= 1
=============================================================================
