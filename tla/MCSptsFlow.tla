----------------------------- MODULE MCSptsFlow -----------------------------
(***************************************************************************)
(* Values of the constants of SptsFlow for TLC.                            *)
(***************************************************************************)
EXTENDS SptsFlow, TLC

CONSTANTS t, o,                          \* programs
          pat, cat, pm1, pm2, e1, e2, e3   \* PIDs

\* The program t comes on air with the second edition of the PAT; with the
\* third the two programs swap their PMT PIDs.
MCPats == << (t :> {})    @@ (o :> {pm2}),
             (t :> {pm1}) @@ (o :> {pm2}),
             (t :> {pm2}) @@ (o :> {pm1}) >>
MCPmts == (t :> << {e1}, {e2} >>) @@ (o :> << {e3} >>)
=============================================================================
