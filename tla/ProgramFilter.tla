---------------------------- MODULE ProgramFilter ---------------------------
(***************************************************************************)
(* ProgramFilter of mpegts_filter.rs as operators: what a filter learns    *)
(* from the tables in the stream and which packets it lets through.        *)
(*                                                                         *)
(* A packet carries its PID and, when a section starts in it that is       *)
(* complete within it, the kind of table, the program a PMT is about and   *)
(* the edition of the table.  A PAT edition says on which PID each program *)
(* has its PMT, a PMT edition which PIDs the program is made of.  All that *)
(* the filter sees of an edition number is the version, which is modulo    *)
(* Versions.  An Option is a set of at most one element.  A packet without *)
(* sync byte is treated as one on a PID that nobody asked for.             *)
(***************************************************************************)
EXTENDS Naturals, Sequences

CONSTANTS
  Programs,  \* programs of the multiplex
  Target,    \* the program the filter is to pass, target_program
  Pids,      \* PIDs of packets
  PatPid,    \* PAT_PID
  CatPid,    \* CAT_PID
  Pats,      \* Pats[n][p]: the PID of p's PMT in edition n of the PAT, if any
  Pmts,      \* Pmts[p][n]: the PIDs of p in edition n of its PMT
  Versions   \* versions a table can have

ASSUME ProgramFilterAssumption ==
  /\ Target \in Programs
  /\ {PatPid, CatPid} \subseteq Pids
  /\ Pats \in Seq([Programs -> {{}} \cup {{q} : q \in Pids}])
  /\ \A n \in 1..Len(Pats), p \in Programs :
       Pats[n][p] \cap {PatPid, CatPid} = {}
  /\ Pmts \in [Programs -> Seq(SUBSET Pids)]
  /\ Versions \in Nat \ {0}

\* Packets.
Tables == {"PAT", "PMT", "none"}
Plain(q)         == [pid |-> q, table |-> "none", prog |-> Target, n |-> 0]
PatPacket(n)     == [pid |-> PatPid, table |-> "PAT", prog |-> Target, n |-> n]
PmtPacket(q, p, n) == [pid |-> q, table |-> "PMT", prog |-> p, n |-> n]

Version(n) == n % Versions

\* A filter: program_info with its pmt_pid and pids, and the two versions.
NewFilter == [pmt |-> {}, pids |-> {}, patV |-> {}, pmtV |-> {}]

Included(f, k) == k.pid \in {PatPid, CatPid} \cup f.pmt \cup f.pids

\* process_pat: the PMT PID is taken from the first PAT that has the program.
RelearnPat(f, k) ==
  IF k.table # "PAT" \/ f.patV # {} THEN f
  ELSE [f EXCEPT !.patV = {Version(k.n)}, !.pmt = Pats[k.n][Target]]
ProcessPat(f, k) ==
  IF k.table # "PAT" \/ f.patV = {Version(k.n)} THEN f
  ELSE [f EXCEPT !.patV = {Version(k.n)},
                 !.pmt  = IF f.pmt = {} THEN Pats[k.n][Target] ELSE f.pmt]

\* process_pmt does not look at the program the section is about.
AddPmt(f, k) ==
  IF k.table # "PMT" \/ f.pmtV = {Version(k.n)} THEN f
  ELSE [f EXCEPT !.pmtV = {Version(k.n)}, !.pids = @ \cup Pmts[k.prog][k.n]]
ProcessPmt(f, k) ==
  IF k.table # "PMT" \/ f.pmtV = {Version(k.n)} THEN f
  ELSE [f EXCEPT !.pmtV = {Version(k.n)}, !.pids = Pmts[k.prog][k.n]]

\* One turn of the loop in filter_packets: what the filter knows after it.
Learn(f, k) ==
  IF k.pid = PatPid THEN ProcessPat(f, k)
  ELSE IF k.pid \in f.pmt THEN ProcessPmt(f, k)
  ELSE f

\* Whether that turn puts anything in the output: the packet, or a null packet
\* in its place.
Emits(f, k, fill) == Included(f, k) \/ fill
=============================================================================
