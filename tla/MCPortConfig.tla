---------------------------- MODULE MCPortConfig ----------------------------
(***************************************************************************)
(* Values of the constants of PortConfig for TLC.                          *)
(***************************************************************************)
EXTENDS PortConfig, TLC

CONSTANTS s1, s2, c1, c2

Ask(b, l, a) == [bind |-> b, legacy |-> l, auto |-> a]
\* Nothing, a port with the new field, and one with the old field that the server
\* is not to replace; for boot also none while asking it not to find one.
MCAsks     == {Ask({}, {}, {}), Ask({1}, {}, {}), Ask({}, {1}, {FALSE})}
MCBootAsks == MCAsks \cup {Ask({}, {}, {FALSE})}
MCPatches  == {{}, {1}}
Symmetry   == Permutations(Clients) \cup Permutations(Streams)
=============================================================================
