------------------------ MODULE StreamControlPlaces -------------------------
(***************************************************************************)
(* Proofs that every step of StreamControl keeps handlers where they may   *)
(* be, and the rows of inputs in agreement with ACTIVE_STREAMS.  An input  *)
(* that is being attached is or was in the map (AttachingKnown), so no     *)
(* create_input is under way for it when its filter is spawned.            *)
(***************************************************************************)
EXTENDS StreamControlTypes

-----------------------------------------------------------------------------
(* Handlers are where they may be. *)

\* What c does disturbs no create_input under way in another handler.
Undisturbed(c) ==
  \A d \in Clients \ {c} :
    Creator(d) => gen'[pc[d].s] = gen[pc[d].s] /\ pc[d].s \notin present'

LEMMA FrameUndisturbs ==
  ASSUME HandlersPlaced, NEW c, gen' = gen, present' \subseteq present
  PROVE  Undisturbed(c)
  BY DEF Undisturbed, HandlersPlaced, CreatorOK

\* Tasks are spawned for outputs and for inputs that have an entry.
LEMMA SpawnUndisturbs ==
  ASSUME TypeOK, HandlersPlaced, NEW c,
         NEW S \in SUBSET (present \cup Outputs),
         NEW ch, Spawn(S, ch), present' = present
  PROVE  Undisturbed(c)
<1> SUFFICES ASSUME NEW d \in Clients \ {c}, Creator(d)
             PROVE  gen'[pc[d].s] = gen[pc[d].s] /\ pc[d].s \notin present'
  BY DEF Undisturbed
<1>1. pc[d].s \in Inputs /\ pc[d].s \notin present
  BY DEF HandlersPlaced, PlaceOK, Creator, CreatorOK, InputLabels
<1>2. pc[d].s \notin S /\ pc[d].s \in Streams
  BY <1>1, StreamControlAssumption DEF Streams
<1> QED
  BY <1>1, <1>2 DEF Spawn

LEMMA PlacedMoves ==
  ASSUME TypeOK, HandlersPlaced, NEW c \in Clients, NEW h, Undisturbed(c),
         pc' = [pc EXCEPT ![c] = h], PlaceOK(h),
         h.at \in CreateLabels =>
           /\ h.s \notin present'
           /\ h.at = "insert" => h.g = gen'[h.s]
           /\ h.at = "refuse" => Kind[h.s] = "spts"
           /\ \A d \in Clients \ {c} : Creator(d) => pc[d].s # h.s
  PROVE  HandlersPlaced'
<1> SUFFICES ASSUME NEW d \in Clients
             PROVE  PlaceOK(pc'[d]) /\ (Creator(d) => CreatorOK(d))'
  BY DEF HandlersPlaced, PlaceOK
<1>1. pc'[c] = h /\ \A e \in Clients \ {c} : pc'[e] = pc[e]
  BY DEF TypeOK
<1>2. CASE d = c
  BY <1>1, <1>2 DEF Creator, CreatorOK, At
<1>3. CASE d # c
  <2>1. pc'[d] = pc[d] /\ PlaceOK(pc[d]) /\ (Creator(d) => CreatorOK(d))
    BY <1>1, <1>3 DEF HandlersPlaced
  <2>2. Creator(d) => gen'[pc[d].s] = gen[pc[d].s] /\ pc[d].s \notin present'
    BY <1>3 DEF Undisturbed
  <2>3. ASSUME Creator(d), NEW e \in Clients, Creator(e)', pc'[e].s = pc[d].s
        PROVE  d = e
    BY <1>1, <1>3, <2>1, <2>3 DEF Creator, CreatorOK
  <2> QED
    BY <2>1, <2>2, <2>3 DEF Creator, CreatorOK, At
<1> QED
  BY <1>2, <1>3

LEMMA PlacedStays ==
  ASSUME TypeOK, HandlersPlaced, pc' = pc, present' \subseteq present,
         \A d \in Clients : Creator(d) => gen'[pc[d].s] = gen[pc[d].s]
  PROVE  HandlersPlaced'
  BY DEF HandlersPlaced, PlaceOK, Creator, CreatorOK, At

LEMMA PlacedReturns ==
  ASSUME TypeOK, HandlersPlaced, NEW c \in Clients, Undisturbed(c), Return(c)
  PROVE  HandlersPlaced'
<1>1. PlaceOK(Idle) /\ Idle.at \notin CreateLabels
  BY DEF PlaceOK, Idle, CreateLabels, AttachLabels, InputLabels, OutputLabels
<1> QED
  BY <1>1, PlacedMoves DEF Return

LEMMA PlacedGoes ==
  ASSUME TypeOK, HandlersPlaced, NEW c \in Clients, Undisturbed(c),
         NEW label \in Labels \ (CreateLabels \cup {"adopt", "idle"}),
         Goto(c, label), ~At(c, "idle"),
         label \in AttachLabels => Kind[pc[c].s] = "spts",
         label \in InputLabels => pc[c].s \in Inputs,
         label \in OutputLabels => pc[c].s \in Outputs
  PROVE  HandlersPlaced'
<1> DEFINE h == [pc[c] EXCEPT !.at = label]
<1>1. h.at = label /\ h.s = pc[c].s /\ pc[c].s \in Streams
  BY DEF TypeOK, Handlers, HandlersPlaced, PlaceOK, At
<1>2. PlaceOK(h) /\ h.at \notin CreateLabels
  BY <1>1 DEF PlaceOK
<1>3. pc' = [pc EXCEPT ![c] = h]
  BY DEF Goto, TypeOK, Handlers
<1> HIDE DEF h
<1> QED
  BY <1>2, <1>3, PlacedMoves

LEMMA PlacedBegins ==
  ASSUME TypeOK, HandlersPlaced, NEW c \in Clients, Undisturbed(c),
         NEW label \in Labels \ (CreateLabels \cup AttachLabels \cup {"adopt"}),
         NEW op, NEW s \in Streams, Begin(c, label, op, s),
         label \in InputLabels => s \in Inputs,
         label \in OutputLabels => s \in Outputs
  PROVE  HandlersPlaced'
<1> DEFINE h == [Idle EXCEPT !.at = label, !.op = op, !.s = s]
<1>1. h.at = label /\ h.s = s
  BY DEF Idle
<1>2. PlaceOK(h) /\ h.at \notin CreateLabels
  BY <1>1 DEF PlaceOK
<1>3. pc' = [pc EXCEPT ![c] = h]
  BY DEF Begin
<1> HIDE DEF h
<1> QED
  BY <1>2, <1>3, PlacedMoves

\* No create_input is under way for an input that is or was in the map.
LEMMA KnownNotCreated ==
  ASSUME HandlersPlaced, InputRowsMatchEntries, NEW i \in Inputs, Known(i),
         NEW d \in Clients, Creator(d)
  PROVE  pc[d].s # i
<1> SUFFICES ASSUME pc[d].s = i PROVE FALSE
  OBVIOUS
<1>1. i \notin present /\ Creating(i)
  BY DEF HandlersPlaced, CreatorOK, Creator, CreateLabels, Creating
<1> QED
  BY <1>1 DEF InputRowsMatchEntries, HasRow, Known

LEMMA PlacedStep ==
  TypeOK /\ HandlersPlaced /\ InputRowsMatchEntries /\ AttachingKnown
    /\ [Next]_vars => HandlersPlaced'
<1> SUFFICES ASSUME TypeOK, HandlersPlaced, InputRowsMatchEntries,
                    AttachingKnown, [Next]_vars
             PROVE  HandlersPlaced'
  OBVIOUS
<1>1. ASSUME NEW s \in Streams, NEW g \in Gens, TaskStep(s, g)
      PROVE  HandlersPlaced'
  BY <1>1, PlacedStays
     DEF TaskStep, memory, taskVars
<1>2. ASSUME NEW s \in Streams, NEW g \in Gens, LateStep(s, g)
      PROVE  HandlersPlaced'
  BY <1>2, PlacedStays
     DEF LateStep, memory, taskVars
<1>3. ASSUME NEW s \in Streams, NEW g \in Gens, AbortLands(s, g)
      PROVE  HandlersPlaced'
  BY <1>3, PlacedStays
     DEF AbortLands, memory, taskVars
<1>4. ASSUME Process
      PROVE  HandlersPlaced'
  BY <1>4, PlacedStays
     DEF Process, memory, taskVars
<1>5. ASSUME NEW c \in Clients, NEW i \in Inputs, CreateInput(c, i)
      PROVE  HandlersPlaced'
  <2> DEFINE h == [Idle EXCEPT !.at = "spawn", !.op = "create", !.s = i]
  <2>1. Undisturbed(c)
    BY <1>5, FrameUndisturbs DEF CreateInput, memory, taskVars
  <2>2. h.at = "spawn" /\ h.s = i /\ i \in Streams
    BY DEF Idle, Streams
  <2>3. PlaceOK(h)
    BY <2>2 DEF PlaceOK, InputLabels, OutputLabels, CreateLabels, AttachLabels
  <2>4. ~HasRow(i)
    BY <1>5 DEF CreateInput, HasRow
  <2>5. i \notin present' /\ \A d \in Clients : Creator(d) => pc[d].s # i
    BY <1>5, <2>4 DEF CreateInput, memory, InputRowsMatchEntries, Creating,
                      Creator, CreateLabels
  <2>6. pc' = [pc EXCEPT ![c] = h]
    BY <1>5 DEF CreateInput, Begin
  <2> HIDE DEF h
  <2> QED
    BY <2>1, <2>2, <2>3, <2>5, <2>6, PlacedMoves
<1>6. ASSUME NEW c \in Clients, NEW i \in Inputs, DeleteInput(c, i)
      PROVE  HandlersPlaced'
  BY <1>6, PlacedStays
     DEF DeleteInput
<1>7. ASSUME NEW c \in Clients, NEW i \in Inputs, StartInput(c, i)
      PROVE  HandlersPlaced'
  <2>1. Undisturbed(c) /\ i \in Streams
    BY <1>7, FrameUndisturbs DEF StartInput, memory, taskVars, Streams
  <2> QED
    BY <1>7, <2>1, PlacedBegins
       DEF StartInput, Labels, InputLabels, OutputLabels, CreateLabels, AttachLabels
<1>8. ASSUME NEW c \in Clients, NEW i \in Inputs, StopInput(c, i)
      PROVE  HandlersPlaced'
  <2>1. Undisturbed(c) /\ i \in Streams
    BY <1>8, FrameUndisturbs
       DEF StopInput, HaltInput, memory, taskVars, Streams
  <2> QED
    BY <1>8, <2>1, PlacedBegins
       DEF StopInput, Labels, InputLabels, OutputLabels, CreateLabels, AttachLabels
<1>9. ASSUME NEW c \in Clients, NEW i \in Inputs, UpdateInput(c, i)
      PROVE  HandlersPlaced'
  <2>1. Undisturbed(c) /\ i \in Streams
    BY <1>9, FrameUndisturbs DEF UpdateInput, memory, taskVars, Streams
  <2> QED
    BY <1>9, <2>1, PlacedBegins
       DEF UpdateInput, Labels, InputLabels, OutputLabels, CreateLabels, AttachLabels
<1>10. ASSUME NEW c \in Clients, NEW o \in Outputs, CreateOutput(c, o)
       PROVE  HandlersPlaced'
  <2>1. CASE RunOutput(o)
    <3> DEFINE ch == [s \in {o} |-> channel[Parent[o]]]
    <3>1. Spawn({o}, ch) /\ {o} \in SUBSET (present \cup Outputs)
      BY <2>1 DEF RunOutput
    <3>2. present' = present
      BY <2>1 DEF RunOutput
    <3> HIDE DEF ch
    <3>3. Undisturbed(c)
      BY <3>1, <3>2, SpawnUndisturbs
    <3>4. ~Creator(c)
      BY <1>10 DEF CreateOutput, At, Creator, CreateLabels
    <3>5. \A d \in Clients : Creator(d) => gen'[pc[d].s] = gen[pc[d].s]
      BY <3>3, <3>4 DEF Undisturbed
    <3> QED
      BY <1>10, <3>2, <3>5, PlacedStays DEF CreateOutput
  <2>2. CASE LookupFails(o)
    BY <1>10, <2>2, PlacedStays DEF CreateOutput, LookupFails, taskVars
  <2> QED
    BY <1>10, <2>1, <2>2 DEF CreateOutput
<1>11. ASSUME NEW c \in Clients, NEW o \in Outputs, DeleteOutput(c, o)
       PROVE  HandlersPlaced'
  BY <1>11, PlacedStays
     DEF DeleteOutput
<1>12. ASSUME NEW c \in Clients, NEW o \in Outputs, StartOutput(c, o)
       PROVE  HandlersPlaced'
  <2>1. Undisturbed(c) /\ o \in Streams
    BY <1>12, FrameUndisturbs DEF StartOutput, memory, taskVars, Streams
  <2> QED
    BY <1>12, <2>1, PlacedBegins
       DEF StartOutput, Labels, InputLabels, OutputLabels, CreateLabels, AttachLabels
<1>13. ASSUME NEW c \in Clients, NEW o \in Outputs, StopOutput(c, o)
       PROVE  HandlersPlaced'
  <2>1. Undisturbed(c) /\ o \in Streams
    BY <1>13, FrameUndisturbs DEF StopOutput, memory, taskVars, Streams
  <2> QED
    BY <1>13, <2>1, PlacedBegins
       DEF StopOutput, Labels, InputLabels, OutputLabels, CreateLabels, AttachLabels
<1>14. ASSUME NEW c \in Clients, NEW o \in Outputs, UpdateOutput(c, o)
       PROVE  HandlersPlaced'
  <2>1. Undisturbed(c) /\ o \in Streams
    BY <1>14, FrameUndisturbs DEF UpdateOutput, memory, taskVars, Streams
  <2> QED
    BY <1>14, <2>1, PlacedBegins
       DEF UpdateOutput, Labels, InputLabels, OutputLabels, CreateLabels, AttachLabels
<1>15. ASSUME NEW c \in Clients, SpawnInput(c)
       PROVE  HandlersPlaced'
  <2> DEFINE i  == pc[c].s
             ch == [s \in {i} |-> IF Reads(i) THEN channel[Source[i]] ELSE 0]
  <2>1. i \in Inputs /\ i \notin present /\ present' = present
        /\ \A d \in Clients \ {c} : Creator(d) => pc[d].s # i
    BY <1>15, PlacedTyped DEF SpawnInput, memory, HandlersPlaced, Creator,
                             CreatorOK, CreateLabels, At
  <2>2. CASE Kind[i] = "spts" /\ Source[i] \notin present
    <3> DEFINE h == [pc[c] EXCEPT !.at = "refuse"]
    <3>1. h.at = "refuse" /\ h.s = i
      BY DEF TypeOK, Handlers
    <3>2. PlaceOK(h)
      BY <2>1, <3>1 DEF PlaceOK, InputLabels, OutputLabels, CreateLabels,
                        AttachLabels, Streams
    <3>3. pc' = [pc EXCEPT ![c] = h] /\ Undisturbed(c)
      BY <1>15, <2>2, FrameUndisturbs
         DEF SpawnInput, Goto, memory, taskVars, TypeOK, Handlers
    <3> HIDE DEF h
    <3> QED
      BY <2>1, <2>2, <3>1, <3>2, <3>3, PlacedMoves
  <2>3. CASE ~(Kind[i] = "spts" /\ Source[i] \notin present)
    <3> DEFINE h == [pc[c] EXCEPT !.at = "insert", !.g = gen[i] + 1]
    <3>1. h.at = "insert" /\ h.s = i /\ h.g = gen[i] + 1
      BY DEF TypeOK, Handlers
    <3>2. PlaceOK(h)
      BY <2>1, <3>1 DEF PlaceOK, InputLabels, OutputLabels, CreateLabels,
                        AttachLabels, Streams
    <3>3. pc' = [pc EXCEPT ![c] = h] /\ Spawn({i}, ch)
      BY <1>15, <2>3 DEF SpawnInput, Carry
    <3> HIDE DEF ch, h
    <3>4. i \in Streams /\ gen'[i] = gen[i] + 1
      BY <2>1, <3>3 DEF Spawn, Streams
    <3>5. Undisturbed(c)
      BY <2>1, <3>3 DEF Undisturbed, HandlersPlaced, PlaceOK, CreatorOK,
                        Creator, InputLabels, Spawn, Streams
    <3> QED
      BY <2>1, <3>1, <3>2, <3>3, <3>4, <3>5, PlacedMoves
  <2> QED
    BY <2>2, <2>3
<1>16. ASSUME NEW c \in Clients, InsertInput(c)
       PROVE  HandlersPlaced'
  <2>1. Undisturbed(c)
    BY <1>16 DEF InsertInput, taskVars, Undisturbed, HandlersPlaced, Creator,
                CreatorOK, CreateLabels, At
  <2> QED
    BY <1>16, <2>1, PlacedReturns DEF InsertInput
<1>17. ASSUME NEW c \in Clients, InsertFailedInput(c)
       PROVE  HandlersPlaced'
  <2>1. Undisturbed(c)
    BY <1>17
       DEF InsertFailedInput, taskVars, Undisturbed, HandlersPlaced, Creator,
                CreatorOK, CreateLabels, At
  <2> QED
    BY <1>17, <2>1, PlacedReturns DEF InsertFailedInput
<1>18. ASSUME NEW c \in Clients, RestartInput(c)
       PROVE  HandlersPlaced'
  <2>1. Undisturbed(c)
    BY <1>18, FrameUndisturbs DEF RestartInput, memory, taskVars
  <2> QED
    BY <1>18, <2>1, PlacedReturns, PlacedGoes, PlacedTyped
       DEF RestartInput, At, Labels, InputLabels, OutputLabels, CreateLabels, AttachLabels
<1>19. ASSUME NEW c \in Clients, Respawn(c)
       PROVE  HandlersPlaced'
  <2> DEFINE i == pc[c].s
  <2>1. i \in Inputs
    BY <1>19, PlacedTyped DEF Respawn
  <2>2. CASE i \notin present
    <3>1. Undisturbed(c)
      BY <1>19, <2>2, FrameUndisturbs DEF Respawn, memory, taskVars
    <3> QED
      BY <1>19, <2>2, <3>1, PlacedReturns DEF Respawn
  <2>3. CASE i \in present
    <3>1. PICK failed \in SUBSET StoppedOf(i) :
            LET S == {i} \cup (StoppedOf(i) \ failed) IN
            Spawn(S, [s \in S |-> IF s = i THEN 0 ELSE gen[i] + 1])
      BY <1>19, <2>3 DEF Respawn
    <3> DEFINE S  == {i} \cup (StoppedOf(i) \ failed)
               ch == [s \in S |-> IF s = i THEN 0 ELSE gen[i] + 1]
    <3>2. S \in SUBSET (present \cup Outputs) /\ Spawn(S, ch)
      BY <2>3, <3>1 DEF StoppedOf, OutputsOf
    <3>3. present' = present
      BY <1>19, <2>3 DEF Respawn
    <3> HIDE DEF S, ch
    <3>4. Undisturbed(c)
      BY <3>2, <3>3, SpawnUndisturbs
    <3> QED
      BY <1>19, <2>1, <2>3, <3>4, PlacedGoes
         DEF Respawn, At, Labels, InputLabels, OutputLabels, CreateLabels, AttachLabels
  <2> QED
    BY <2>2, <2>3
<1>20. ASSUME NEW c \in Clients, Attach(c)
       PROVE  HandlersPlaced'
  <2> DEFINE i  == pc[c].s
             ch == [s \in {i} |-> channel[Source[i]]]
             ok == Source[i] \in present
  <2>1. i \in Inputs /\ present' = present
    BY <1>20, PlacedTyped DEF Attach, memory
  <2>2. CASE ~ok
    <3>1. Undisturbed(c)
      BY <1>20, <2>1, <2>2, FrameUndisturbs DEF Attach, taskVars
    <3> QED
      BY <1>20, <2>2, <3>1, PlacedReturns DEF Attach
  <2>3. CASE ok
    <3> DEFINE h == [pc[c] EXCEPT !.at = "adopt", !.g = gen[i] + 1]
    <3>1. h.at = "adopt" /\ h.s = i /\ Kind[i] = "spts"
      BY <1>20, PlacedTyped DEF Attach, TypeOK, Handlers
    <3>2. PlaceOK(h) /\ h.at \notin CreateLabels
      BY <2>1, <3>1 DEF PlaceOK, InputLabels, OutputLabels, CreateLabels,
                        AttachLabels, Streams
    <3>3. pc' = [pc EXCEPT ![c] = h] /\ Spawn({i}, ch)
      BY <1>20, <2>3 DEF Attach, Carry
    <3> HIDE DEF ch, h
    <3>4. \A d \in Clients : Creator(d) => pc[d].s # i
      BY <1>20, <2>1, KnownNotCreated
         DEF Attach, At, AttachingKnown, Attaching, AttachLabels
    <3>5. Undisturbed(c)
      BY <2>1, <3>3, <3>4
         DEF Undisturbed, HandlersPlaced, PlaceOK, CreatorOK, Creator,
             InputLabels, Spawn, Streams
    <3> QED
      BY <3>2, <3>3, <3>5, PlacedMoves
  <2> QED
    BY <2>2, <2>3
<1>21. ASSUME NEW c \in Clients, Adopt(c)
       PROVE  HandlersPlaced'
  <2> DEFINE i == pc[c].s
             g == pc[c].g
  <2>1. i \in Inputs
    BY <1>21, PlacedTyped DEF Adopt
  <2>2. CASE i \notin present
    <3>1. Undisturbed(c)
      BY <1>21, <2>2, FrameUndisturbs DEF Adopt, memory, taskVars
    <3> QED
      BY <1>21, <2>2, <3>1, PlacedReturns DEF Adopt
  <2>3. CASE i \in present
    <3>1. PICK failed \in SUBSET StoppedOf(i) :
            LET S == StoppedOf(i) \ failed IN Spawn(S, [s \in S |-> g])
      BY <1>21, <2>3 DEF Adopt
    <3> DEFINE S  == StoppedOf(i) \ failed
               ch == [s \in S |-> g]
    <3>2. S \in SUBSET (present \cup Outputs) /\ Spawn(S, ch)
      BY <3>1 DEF StoppedOf, OutputsOf
    <3>3. present' = present
      BY <1>21, <2>3 DEF Adopt
    <3> HIDE DEF S, ch
    <3>4. Undisturbed(c)
      BY <3>2, <3>3, SpawnUndisturbs
    <3> QED
      BY <1>21, <2>1, <2>3, <3>4, PlacedGoes
         DEF Adopt, At, Labels, InputLabels, OutputLabels, CreateLabels, AttachLabels
  <2> QED
    BY <2>2, <2>3
<1>22. ASSUME NEW c \in Clients, ProbeInput(c)
       PROVE  HandlersPlaced'
  <2>1. Undisturbed(c)
    BY <1>22, FrameUndisturbs DEF ProbeInput, memory, taskVars
  <2> QED
    BY <1>22, <2>1, PlacedReturns, PlacedGoes, PlacedTyped
       DEF ProbeInput, At, Labels, InputLabels, OutputLabels, CreateLabels, AttachLabels
<1>23. ASSUME NEW c \in Clients, HaltForUpdate(c)
       PROVE  HandlersPlaced'
  <2>1. Undisturbed(c)
    BY <1>23, FrameUndisturbs DEF HaltForUpdate, HaltInput, memory, taskVars
  <2> QED
    BY <1>23, <2>1, PlacedReturns, PlacedGoes, PlacedTyped
       DEF HaltForUpdate, At, Labels, InputLabels, OutputLabels, CreateLabels, AttachLabels
<1>24. ASSUME NEW c \in Clients, BeginOutput(c)
       PROVE  HandlersPlaced'
  <2> DEFINE o == pc[c].s
  <2>1. o \in Outputs /\ ~At(c, "idle")
    BY <1>24, PlacedTyped DEF BeginOutput, At
  <2>2. CASE RunOutput(o)
    <3> DEFINE ch == [s \in {o} |-> channel[Parent[o]]]
    <3>1. Spawn({o}, ch) /\ {o} \in SUBSET (present \cup Outputs)
      BY <2>1, <2>2 DEF RunOutput
    <3>2. present' = present
      BY <2>2 DEF RunOutput
    <3> HIDE DEF ch
    <3>3. Undisturbed(c)
      BY <3>1, <3>2, SpawnUndisturbs
    <3> QED
      BY <1>24, <2>1, <3>3, PlacedGoes, PlacedReturns
         DEF BeginOutput, Labels, InputLabels, OutputLabels, CreateLabels, AttachLabels
  <2>3. CASE LookupFails(o) \/ UNCHANGED <<memory, taskVars, budget>>
    <3>1. Undisturbed(c)
      BY <2>3, FrameUndisturbs DEF LookupFails, memory, taskVars
    <3> QED
      BY <1>24, <2>1, <3>1, PlacedGoes, PlacedReturns
         DEF BeginOutput, Labels, InputLabels, OutputLabels, CreateLabels, AttachLabels
  <2> QED
    BY <1>24, <2>2, <2>3 DEF BeginOutput
<1>25. ASSUME NEW c \in Clients, EndOutput(c)
       PROVE  HandlersPlaced'
  <2>1. Undisturbed(c)
    BY <1>25, FrameUndisturbs DEF EndOutput, HaltOutput, memory, taskVars
  <2> QED
    BY <1>25, <2>1, PlacedReturns, PlacedGoes, PlacedTyped
       DEF EndOutput, At, Labels, InputLabels, OutputLabels, CreateLabels, AttachLabels
<1>26. ASSUME NEW c \in Clients, ProbeOutput(c)
       PROVE  HandlersPlaced'
  <2>1. Undisturbed(c)
    BY <1>26, FrameUndisturbs DEF ProbeOutput, memory, taskVars
  <2> QED
    BY <1>26, <2>1, PlacedReturns, PlacedGoes, PlacedTyped
       DEF ProbeOutput, At, Labels, InputLabels, OutputLabels, CreateLabels, AttachLabels
<1>27. ASSUME NEW c \in Clients, ParkOutput(c)
       PROVE  HandlersPlaced'
  <2>1. Undisturbed(c)
    BY <1>27, FrameUndisturbs DEF ParkOutput, memory, taskVars
  <2> QED
    BY <1>27, <2>1, PlacedReturns, PlacedGoes, PlacedTyped
       DEF ParkOutput, At, Labels, InputLabels, OutputLabels, CreateLabels, AttachLabels
<1>28. ASSUME NEW c \in Clients, ReadStatus(c)
       PROVE  HandlersPlaced'
  <2> DEFINE st == IF Found(pc[c].s) THEN status[pc[c].s]
                   ELSE IF pc[c].s \in Inputs THEN "Listening"
                   ELSE "Connecting"
             h  == [pc[c] EXCEPT !.at = "write", !.st = st]
  <2>1. h.at = "write" /\ h.s = pc[c].s /\ pc[c].s \in Streams
    BY <1>28, PlacedTyped DEF ReadStatus, At, TypeOK, Handlers
  <2>2. PlaceOK(h) /\ h.at \notin CreateLabels
    BY <2>1 DEF PlaceOK, InputLabels, OutputLabels, CreateLabels, AttachLabels
  <2>3. pc' = [pc EXCEPT ![c] = h] /\ Undisturbed(c)
    BY <1>28, FrameUndisturbs
       DEF ReadStatus, memory, taskVars, TypeOK, Handlers
  <2> HIDE DEF h
  <2> QED
    BY <2>2, <2>3, PlacedMoves
<1>29. ASSUME NEW c \in Clients, WriteRow(c)
       PROVE  HandlersPlaced'
  <2>1. Undisturbed(c)
    BY <1>29, FrameUndisturbs DEF WriteRow, memory, taskVars
  <2> QED
    BY <1>29, <2>1, PlacedReturns, PlacedGoes, PlacedTyped
       DEF WriteRow, At, Labels, InputLabels, OutputLabels, CreateLabels, AttachLabels
<1>30. ASSUME Restart
       PROVE  HandlersPlaced'
  <2>1. \A d \in Clients : pc'[d] = Idle
    BY <1>30 DEF Restart
  <2>2. PlaceOK(Idle) /\ Idle.at \notin CreateLabels
    BY DEF PlaceOK, Idle, CreateLabels, AttachLabels, InputLabels, OutputLabels
  <2> QED
    BY <2>1, <2>2 DEF HandlersPlaced, Creator, PlaceOK
<1>31. ASSUME NEW c \in Clients, ReachInput(c) \/ CheckSource(c)
       PROVE  HandlersPlaced'
  <2>1. Undisturbed(c)
    BY <1>31, FrameUndisturbs DEF ReachInput, CheckSource, memory, taskVars
  <2>2. pc[c].s \in Inputs /\ Kind[pc[c].s] = "spts" /\ ~At(c, "idle")
    BY <1>31, PlacedTyped DEF ReachInput, CheckSource, At
  <2> QED
    BY <1>31, <2>1, <2>2, PlacedReturns, PlacedGoes
       DEF ReachInput, CheckSource, Labels, InputLabels, OutputLabels,
           CreateLabels, AttachLabels
<1>32. CASE UNCHANGED vars
  BY <1>32, PlacedStays DEF vars, memory, taskVars
<1> QED
  BY <1>1, <1>2, <1>3, <1>4, <1>5, <1>6, <1>7, <1>8, <1>9, <1>10, <1>11,
     <1>12, <1>13, <1>14, <1>15, <1>16,
     <1>17, <1>18, <1>19, <1>20, <1>21, <1>22, <1>23, <1>24, <1>25, <1>26,
     <1>27, <1>28, <1>29, <1>30, <1>31, <1>32
     DEF Next, TaskAction, Request, Continue

-----------------------------------------------------------------------------
(* Rows and entries of inputs. *)

LEMMA RowsKept ==
  ASSUME InputRowsMatchEntries, present' = present,
         \A i \in Inputs : HasRow(i)' <=> HasRow(i),
         \A i \in Inputs : Creating(i)' <=> Creating(i)
  PROVE  InputRowsMatchEntries'
  BY DEF InputRowsMatchEntries

LEMMA CreatingStays ==
  ASSUME pc' = pc PROVE \A i : Creating(i)' <=> Creating(i)
  BY DEF Creating

LEMMA CreatingMoves ==
  ASSUME TypeOK, NEW c \in Clients, ~Creator(c), NEW h,
         pc' = [pc EXCEPT ![c] = h], h.at \notin CreateLabels
  PROVE  \A i : Creating(i)' <=> Creating(i)
<1>1. pc'[c] = h /\ \A d \in Clients \ {c} : pc'[d] = pc[d]
  BY DEF TypeOK
<1> QED
  BY <1>1 DEF Creating, Creator, CreateLabels

LEMMA CreatingReturns ==
  ASSUME TypeOK, NEW c \in Clients, ~Creator(c), Return(c)
  PROVE  \A i : Creating(i)' <=> Creating(i)
  BY CreatingMoves DEF Return, Idle, CreateLabels

LEMMA CreatingGoes ==
  ASSUME TypeOK, NEW c \in Clients, ~Creator(c),
         NEW label \in Labels \ CreateLabels, Goto(c, label)
  PROVE  \A i : Creating(i)' <=> Creating(i)
<1> DEFINE h == [pc[c] EXCEPT !.at = label]
<1>1. h.at \notin CreateLabels /\ pc' = [pc EXCEPT ![c] = h]
  BY DEF Goto, TypeOK, Handlers
<1> HIDE DEF h
<1> QED
  BY <1>1, CreatingMoves

LEMMA CreatingBegins ==
  ASSUME TypeOK, NEW c \in Clients, ~Creator(c),
         NEW label \in Labels \ CreateLabels, NEW op, NEW s,
         Begin(c, label, op, s)
  PROVE  \A i : Creating(i)' <=> Creating(i)
<1> DEFINE h == [Idle EXCEPT !.at = label, !.op = op, !.s = s]
<1>1. h.at \notin CreateLabels /\ pc' = [pc EXCEPT ![c] = h]
  BY DEF Begin, Idle
<1> HIDE DEF h
<1> QED
  BY <1>1, CreatingMoves

LEMMA InputRowsStep ==
  TypeOK /\ HandlersPlaced /\ InputRowsMatchEntries /\ [Next]_vars
    => InputRowsMatchEntries'
<1> SUFFICES ASSUME TypeOK, HandlersPlaced, InputRowsMatchEntries, [Next]_vars
             PROVE  InputRowsMatchEntries'
  OBVIOUS
<1>1. ASSUME NEW s \in Streams, NEW g \in Gens, TaskStep(s, g)
      PROVE  InputRowsMatchEntries'
  BY <1>1, RowsKept, CreatingStays
     DEF TaskStep, memory, taskVars, HasRow
<1>2. ASSUME NEW s \in Streams, NEW g \in Gens, LateStep(s, g)
      PROVE  InputRowsMatchEntries'
  BY <1>2, RowsKept, CreatingStays
     DEF LateStep, memory, taskVars, HasRow
<1>3. ASSUME NEW s \in Streams, NEW g \in Gens, AbortLands(s, g)
      PROVE  InputRowsMatchEntries'
  BY <1>3, RowsKept, CreatingStays
     DEF AbortLands, memory, taskVars, HasRow
<1>4. ASSUME Process
      PROVE  InputRowsMatchEntries'
  BY <1>4, RowsKept, CreatingStays
     DEF Process, memory, taskVars, HasRow
<1>5. ASSUME NEW c \in Clients, NEW i \in Inputs, CreateInput(c, i)
      PROVE  InputRowsMatchEntries'
  <2> DEFINE h == [Idle EXCEPT !.at = "spawn", !.op = "create", !.s = i]
  <2>1. present' = present /\ ~Creator(c)
    BY <1>5 DEF CreateInput, memory, At, Creator, CreateLabels
  <2>2. /\ pc' = [pc EXCEPT ![c] = h]
        /\ h.at = "spawn" /\ h.s = i
    BY <1>5 DEF CreateInput, Begin, Idle
  <2> HIDE DEF h
  <2>3. pc'[c] = h /\ \A d \in Clients \ {c} : pc'[d] = pc[d]
    BY <2>2 DEF TypeOK
  <2>4. Creating(i)' /\ HasRow(i)'
    BY <1>5, <2>2, <2>3 DEF CreateInput, Creating, HasRow, TypeOK, Streams
  <2>5. ASSUME NEW j \in Inputs \ {i}
        PROVE  (HasRow(j)' <=> HasRow(j)) /\ (Creating(j)' <=> Creating(j))
    BY <1>5, <2>1, <2>2, <2>3
       DEF CreateInput, Creating, Creator, CreateLabels, HasRow, TypeOK
  <2> QED
    BY <2>1, <2>4, <2>5 DEF InputRowsMatchEntries
<1>6. ASSUME NEW c \in Clients, NEW i \in Inputs, DeleteInput(c, i)
      PROVE  InputRowsMatchEntries'
  <2>1. \A j \in Inputs : Creating(j)' <=> Creating(j)
    BY <1>6, CreatingStays DEF DeleteInput
  <2>2. ~Creating(i)
    BY <1>6 DEF DeleteInput, HandlersPlaced, Creating, Creator, CreatorOK,
                CreateLabels
  <2>3. HasRow(i)' = FALSE /\ i \notin present'
    BY <1>6 DEF DeleteInput, DeleteRows, HasRow, Streams
  <2>4. ASSUME NEW j \in Inputs \ {i}
        PROVE  (HasRow(j)' <=> HasRow(j)) /\ (j \in present' <=> j \in present)
    BY <1>6, StreamControlAssumption
       DEF DeleteInput, DeleteRows, HasRow, OutputsOf, Streams
  <2> QED
    BY <2>1, <2>2, <2>3, <2>4 DEF InputRowsMatchEntries
<1>7. ASSUME NEW c \in Clients, NEW i \in Inputs, StartInput(c, i)
      PROVE  InputRowsMatchEntries'
  <2>1. present' = present /\ row' = row
    BY <1>7 DEF StartInput, memory
  <2>2. ~Creator(c)
    BY <1>7 DEF StartInput, At, Creator, CreateLabels
  <2> QED
    BY <1>7, <2>1, <2>2, RowsKept, CreatingBegins
       DEF StartInput, HasRow, Labels, CreateLabels
<1>8. ASSUME NEW c \in Clients, NEW i \in Inputs, StopInput(c, i)
      PROVE  InputRowsMatchEntries'
  <2>1. present' = present /\ row' = row
    BY <1>8 DEF StopInput, HaltInput, memory
  <2>2. ~Creator(c)
    BY <1>8 DEF StopInput, At, Creator, CreateLabels
  <2> QED
    BY <1>8, <2>1, <2>2, RowsKept, CreatingBegins
       DEF StopInput, HasRow, Labels, CreateLabels
<1>9. ASSUME NEW c \in Clients, NEW i \in Inputs, UpdateInput(c, i)
      PROVE  InputRowsMatchEntries'
  <2>1. present' = present /\ row' = row
    BY <1>9 DEF UpdateInput, memory
  <2>2. ~Creator(c)
    BY <1>9 DEF UpdateInput, At, Creator, CreateLabels
  <2> QED
    BY <1>9, <2>1, <2>2, RowsKept, CreatingBegins
       DEF UpdateInput, HasRow, Labels, CreateLabels
<1>10. ASSUME NEW c \in Clients, NEW o \in Outputs, CreateOutput(c, o)
       PROVE  InputRowsMatchEntries'
  <2>1. present' = present /\ pc' = pc
    BY <1>10 DEF CreateOutput, RunOutput, LookupFails
  <2>2. \A i \in Inputs : HasRow(i)' <=> HasRow(i)
    BY <1>10, StreamControlAssumption DEF CreateOutput, HasRow, TypeOK, Streams
  <2> QED
    BY <2>1, <2>2, RowsKept, CreatingStays
<1>11. ASSUME NEW c \in Clients, NEW o \in Outputs, DeleteOutput(c, o)
       PROVE  InputRowsMatchEntries'
  <2>1. present' = present /\ pc' = pc
    BY <1>11 DEF DeleteOutput
  <2>2. \A i \in Inputs : HasRow(i)' <=> HasRow(i)
    BY <1>11, StreamControlAssumption
       DEF DeleteOutput, DeleteRows, HasRow, TypeOK, Streams
  <2> QED
    BY <2>1, <2>2, RowsKept, CreatingStays
<1>12. ASSUME NEW c \in Clients, NEW o \in Outputs, StartOutput(c, o)
       PROVE  InputRowsMatchEntries'
  <2>1. present' = present /\ row' = row
    BY <1>12 DEF StartOutput, memory
  <2>2. ~Creator(c)
    BY <1>12 DEF StartOutput, At, Creator, CreateLabels
  <2> QED
    BY <1>12, <2>1, <2>2, RowsKept, CreatingBegins
       DEF StartOutput, HasRow, Labels, CreateLabels
<1>13. ASSUME NEW c \in Clients, NEW o \in Outputs, StopOutput(c, o)
       PROVE  InputRowsMatchEntries'
  <2>1. present' = present /\ row' = row
    BY <1>13 DEF StopOutput, memory
  <2>2. ~Creator(c)
    BY <1>13 DEF StopOutput, At, Creator, CreateLabels
  <2> QED
    BY <1>13, <2>1, <2>2, RowsKept, CreatingBegins
       DEF StopOutput, HasRow, Labels, CreateLabels
<1>14. ASSUME NEW c \in Clients, NEW o \in Outputs, UpdateOutput(c, o)
       PROVE  InputRowsMatchEntries'
  <2>1. present' = present /\ row' = row
    BY <1>14 DEF UpdateOutput, memory
  <2>2. ~Creator(c)
    BY <1>14 DEF UpdateOutput, At, Creator, CreateLabels
  <2> QED
    BY <1>14, <2>1, <2>2, RowsKept, CreatingBegins
       DEF UpdateOutput, HasRow, Labels, CreateLabels
<1>15. ASSUME NEW c \in Clients, SpawnInput(c)
       PROVE  InputRowsMatchEntries'
  <2>1. present' = present /\ row' = row
    BY <1>15 DEF SpawnInput, memory
  <2>2. PICK h : /\ pc' = [pc EXCEPT ![c] = h]
                 /\ h.at \in {"insert", "refuse"} /\ h.s = pc[c].s
    <3>1. CASE Goto(c, "refuse")
      <4> DEFINE h == [pc[c] EXCEPT !.at = "refuse"]
      <4>1. pc' = [pc EXCEPT ![c] = h] /\ h.at = "refuse" /\ h.s = pc[c].s
        BY <3>1 DEF Goto, TypeOK, Handlers
      <4> HIDE DEF h
      <4> QED
        BY <4>1
    <3>2. CASE Carry(c, "insert", gen[pc[c].s] + 1)
      <4> DEFINE h == [pc[c] EXCEPT !.at = "insert", !.g = gen[pc[c].s] + 1]
      <4>1. pc' = [pc EXCEPT ![c] = h] /\ h.at = "insert" /\ h.s = pc[c].s
        BY <3>2 DEF Carry, TypeOK, Handlers
      <4> HIDE DEF h
      <4> QED
        BY <4>1
    <3> QED
      BY <1>15, <3>1, <3>2 DEF SpawnInput
  <2>3. pc'[c] = h /\ \A d \in Clients \ {c} : pc'[d] = pc[d]
    BY <2>2 DEF TypeOK
  <2>4. \A i \in Inputs : Creating(i)' <=> Creating(i)
    BY <1>15, <2>2, <2>3 DEF SpawnInput, At, Creating
  <2> QED
    BY <2>1, <2>4, RowsKept DEF HasRow
<1>16. ASSUME NEW c \in Clients, InsertInput(c)
       PROVE  InputRowsMatchEntries'
  <2>0. PICK i \in Inputs : i = pc[c].s
    BY <1>16, PlacedTyped DEF InsertInput
  <2>1. i \in Streams /\ Creating(i)
    BY <1>16, <2>0 DEF InsertInput, At, Creating, Streams
  <2>2. pc'[c] = Idle /\ \A d \in Clients \ {c} : pc'[d] = pc[d]
    BY <1>16 DEF InsertInput, Return, TypeOK
  <2>3. HasRow(i)' /\ present' = present \cup {i}
    BY <1>16, <2>0, <2>1 DEF InsertInput, InputRowsMatchEntries, HasRow, TypeOK
  <2>4. ASSUME NEW j \in Inputs \ {i}
        PROVE  (HasRow(j)' <=> HasRow(j)) /\ (Creating(j)' <=> Creating(j))
    <3>1. HasRow(j)' <=> HasRow(j)
      BY <1>16, <2>0 DEF InsertInput, HasRow, TypeOK
    <3>2. Idle.at \notin {"spawn", "insert", "refuse"}
      BY DEF Idle
    <3>3. Creating(j)' <=> Creating(j)
      BY <2>0, <2>2, <3>2 DEF Creating
    <3> QED
      BY <3>1, <3>3
  <2> QED
    BY <2>1, <2>3, <2>4 DEF InputRowsMatchEntries
<1>17. ASSUME NEW c \in Clients, InsertFailedInput(c)
       PROVE  InputRowsMatchEntries'
  <2>0. PICK i \in Inputs : i = pc[c].s
    BY <1>17, PlacedTyped DEF InsertFailedInput
  <2>1. i \in Streams /\ Creating(i)
    BY <1>17, <2>0 DEF InsertFailedInput, At, Creating, Streams
  <2>2. pc'[c] = Idle /\ \A d \in Clients \ {c} : pc'[d] = pc[d]
    BY <1>17 DEF InsertFailedInput, Return, TypeOK
  <2>3. HasRow(i)' /\ present' = present \cup {i}
    BY <1>17, <2>0, <2>1
       DEF InsertFailedInput, InputRowsMatchEntries, HasRow, TypeOK
  <2>4. ASSUME NEW j \in Inputs \ {i}
        PROVE  (HasRow(j)' <=> HasRow(j)) /\ (Creating(j)' <=> Creating(j))
    <3>1. HasRow(j)' <=> HasRow(j)
      BY <1>17, <2>0 DEF InsertFailedInput, HasRow, TypeOK
    <3>2. Idle.at \notin {"spawn", "insert", "refuse"}
      BY DEF Idle
    <3>3. Creating(j)' <=> Creating(j)
      BY <2>0, <2>2, <3>2 DEF Creating
    <3> QED
      BY <3>1, <3>3
  <2> QED
    BY <2>1, <2>3, <2>4 DEF InputRowsMatchEntries
<1>18. ASSUME NEW c \in Clients, RestartInput(c)
       PROVE  InputRowsMatchEntries'
  <2>1. present' = present /\ row' = row
    BY <1>18 DEF RestartInput, memory
  <2>2. ~Creator(c)
    BY <1>18 DEF RestartInput, At, Creator, CreateLabels
  <2> QED
    BY <1>18, <2>1, <2>2, RowsKept, CreatingGoes, CreatingReturns
       DEF RestartInput, HasRow, Labels, CreateLabels
<1>19. ASSUME NEW c \in Clients, Respawn(c)
       PROVE  InputRowsMatchEntries'
  <2>1. present' = present /\ row' = row
    BY <1>19 DEF Respawn, memory
  <2>2. ~Creator(c)
    BY <1>19 DEF Respawn, At, Creator, CreateLabels
  <2> QED
    BY <1>19, <2>1, <2>2, RowsKept, CreatingGoes, CreatingReturns
       DEF Respawn, HasRow, Labels, CreateLabels
<1>20. ASSUME NEW c \in Clients, Attach(c)
       PROVE  InputRowsMatchEntries'
  <2>1. present' = present /\ row' = row
    BY <1>20 DEF Attach, memory
  <2>2. ~Creator(c)
    BY <1>20 DEF Attach, At, Creator, CreateLabels
  <2>3. CASE Carry(c, "adopt", gen[pc[c].s] + 1)
    <3> DEFINE h == [pc[c] EXCEPT !.at = "adopt", !.g = gen[pc[c].s] + 1]
    <3>1. h.at \notin CreateLabels /\ pc' = [pc EXCEPT ![c] = h]
      BY <2>3 DEF Carry, CreateLabels, TypeOK, Handlers
    <3> HIDE DEF h
    <3> QED
      BY <2>1, <2>2, <3>1, RowsKept, CreatingMoves DEF HasRow
  <2>4. CASE Return(c)
    BY <2>1, <2>2, <2>4, RowsKept, CreatingReturns DEF HasRow
  <2> QED
    BY <1>20, <2>3, <2>4 DEF Attach
<1>21. ASSUME NEW c \in Clients, Adopt(c)
       PROVE  InputRowsMatchEntries'
  <2>1. present' = present /\ row' = row
    BY <1>21 DEF Adopt, memory
  <2>2. ~Creator(c)
    BY <1>21 DEF Adopt, At, Creator, CreateLabels
  <2> QED
    BY <1>21, <2>1, <2>2, RowsKept, CreatingGoes, CreatingReturns
       DEF Adopt, HasRow, Labels, CreateLabels
<1>22. ASSUME NEW c \in Clients, ProbeInput(c)
       PROVE  InputRowsMatchEntries'
  <2>1. present' = present /\ row' = row
    BY <1>22 DEF ProbeInput, memory
  <2>2. ~Creator(c)
    BY <1>22 DEF ProbeInput, At, Creator, CreateLabels
  <2> QED
    BY <1>22, <2>1, <2>2, RowsKept, CreatingGoes, CreatingReturns
       DEF ProbeInput, HasRow, Labels, CreateLabels
<1>23. ASSUME NEW c \in Clients, HaltForUpdate(c)
       PROVE  InputRowsMatchEntries'
  <2>1. present' = present /\ row' = row
    BY <1>23 DEF HaltForUpdate, HaltInput, memory
  <2>2. ~Creator(c)
    BY <1>23 DEF HaltForUpdate, At, Creator, CreateLabels
  <2> QED
    BY <1>23, <2>1, <2>2, RowsKept, CreatingGoes, CreatingReturns
       DEF HaltForUpdate, HasRow, Labels, CreateLabels
<1>24. ASSUME NEW c \in Clients, BeginOutput(c)
       PROVE  InputRowsMatchEntries'
  <2>1. present' = present /\ row' = row
    BY <1>24 DEF BeginOutput, RunOutput, LookupFails, memory
  <2>2. ~Creator(c)
    BY <1>24 DEF BeginOutput, At, Creator, CreateLabels
  <2> QED
    BY <1>24, <2>1, <2>2, RowsKept, CreatingGoes, CreatingReturns
       DEF BeginOutput, HasRow, Labels, CreateLabels
<1>25. ASSUME NEW c \in Clients, EndOutput(c)
       PROVE  InputRowsMatchEntries'
  <2>1. present' = present /\ row' = row
    BY <1>25 DEF EndOutput, HaltOutput, memory
  <2>2. ~Creator(c)
    BY <1>25 DEF EndOutput, At, Creator, CreateLabels
  <2> QED
    BY <1>25, <2>1, <2>2, RowsKept, CreatingGoes, CreatingReturns
       DEF EndOutput, HasRow, Labels, CreateLabels
<1>26. ASSUME NEW c \in Clients, ProbeOutput(c)
       PROVE  InputRowsMatchEntries'
  <2>1. present' = present /\ row' = row
    BY <1>26 DEF ProbeOutput, memory
  <2>2. ~Creator(c)
    BY <1>26 DEF ProbeOutput, At, Creator, CreateLabels
  <2> QED
    BY <1>26, <2>1, <2>2, RowsKept, CreatingGoes, CreatingReturns
       DEF ProbeOutput, HasRow, Labels, CreateLabels
<1>27. ASSUME NEW c \in Clients, ParkOutput(c)
       PROVE  InputRowsMatchEntries'
  <2>1. present' = present /\ row' = row
    BY <1>27 DEF ParkOutput, memory
  <2>2. ~Creator(c)
    BY <1>27 DEF ParkOutput, At, Creator, CreateLabels
  <2> QED
    BY <1>27, <2>1, <2>2, RowsKept, CreatingGoes, CreatingReturns
       DEF ParkOutput, HasRow, Labels, CreateLabels
<1>28. ASSUME NEW c \in Clients, ReadStatus(c)
       PROVE  InputRowsMatchEntries'
  <2> DEFINE st == IF Found(pc[c].s) THEN status[pc[c].s]
                   ELSE IF pc[c].s \in Inputs THEN "Listening"
                   ELSE "Connecting"
             h  == [pc[c] EXCEPT !.at = "write", !.st = st]
  <2>1. present' = present /\ row' = row /\ ~Creator(c)
    BY <1>28 DEF ReadStatus, memory, At, Creator, CreateLabels
  <2>2. h.at \notin CreateLabels /\ pc' = [pc EXCEPT ![c] = h]
    BY <1>28 DEF ReadStatus, CreateLabels, TypeOK, Handlers
  <2> HIDE DEF h
  <2> QED
    BY <2>1, <2>2, RowsKept, CreatingMoves DEF HasRow
<1>29. ASSUME NEW c \in Clients, WriteRow(c)
       PROVE  InputRowsMatchEntries'
  <2>1. present' = present /\ ~Creator(c)
    BY <1>29 DEF WriteRow, memory, At, Creator, CreateLabels
  <2>2. FinalStatus(c) \notin {"none", "deleted"}
    BY FinalStatusTyped DEF Status
  <2>3. \A i \in Inputs : HasRow(i)' <=> HasRow(i)
    BY <1>29, <2>2 DEF WriteRow, HasRow, TypeOK, Streams
  <2> QED
    BY <1>29, <2>1, <2>3, RowsKept, CreatingReturns DEF WriteRow
<1>30. ASSUME Restart
       PROVE  InputRowsMatchEntries'
  <2>1. \A d \in Clients : pc'[d] = Idle
    BY <1>30 DEF Restart
  <2>2. \A i : ~Creating(i)'
    BY <2>1 DEF Creating, Idle
  <2> QED
    BY <1>30, <2>2 DEF Restart, InputRowsMatchEntries, HasRow, Rowed, Streams
<1>31. ASSUME NEW c \in Clients, ReachInput(c) \/ CheckSource(c)
       PROVE  InputRowsMatchEntries'
  <2>1. present' = present /\ row' = row
    BY <1>31 DEF ReachInput, CheckSource, memory
  <2>2. ~Creator(c)
    BY <1>31 DEF ReachInput, CheckSource, At, Creator, CreateLabels
  <2> QED
    BY <1>31, <2>1, <2>2, RowsKept, CreatingGoes, CreatingReturns
       DEF ReachInput, CheckSource, HasRow, Labels, CreateLabels
<1>32. CASE UNCHANGED vars
  BY <1>32, RowsKept, CreatingStays DEF vars, memory, taskVars, HasRow
<1> QED
  BY <1>1, <1>2, <1>3, <1>4, <1>5, <1>6, <1>7, <1>8, <1>9, <1>10, <1>11,
     <1>12, <1>13, <1>14, <1>15, <1>16,
     <1>17, <1>18, <1>19, <1>20, <1>21, <1>22, <1>23, <1>24, <1>25, <1>26,
     <1>27, <1>28, <1>29, <1>30, <1>31, <1>32
     DEF Next, TaskAction, Request, Continue

-----------------------------------------------------------------------------
(* Inputs that are being attached to their source. *)

\* An input that is or was in the map never gets to be a new one again.
LEMMA StillKnown ==
  ASSUME TypeOK, HandlersPlaced, InputRowsMatchEntries,
         NEW i \in Inputs, Known(i), [Next]_vars, ~Restart
  PROVE  Known(i)'
<1>1. ASSUME NEW c \in Clients, NEW j \in Inputs, DeleteInput(c, j)
      PROVE  Known(i)'
  BY <1>1, StreamControlAssumption
     DEF DeleteInput, DeleteRows, Known, InputRowsMatchEntries, OutputsOf,
         Streams
<1>2. ASSUME NEW c \in Clients, NEW j \in Inputs, CreateInput(c, j)
      PROVE  Known(i)'
  BY <1>2 DEF CreateInput, memory, Known, TypeOK
<1>3. ASSUME NEW c \in Clients, InsertInput(c) \/ InsertFailedInput(c)
      PROVE  Known(i)'
  <2>1. pc[c].s # i
    BY <1>3, KnownNotCreated
       DEF InsertInput, InsertFailedInput, At, Creator, CreateLabels
  <2> QED
    BY <1>3, <2>1 DEF InsertInput, InsertFailedInput, Known, TypeOK, Streams
<1>4. ASSUME NEW c \in Clients, NEW o \in Outputs,
             CreateOutput(c, o) \/ DeleteOutput(c, o)
      PROVE  Known(i)'
  BY <1>4, StreamControlAssumption
     DEF CreateOutput, RunOutput, LookupFails, DeleteOutput, DeleteOutputRows,
         DeleteRows, Known, TypeOK, Streams
<1>5. ASSUME NEW c \in Clients, WriteRow(c)
      PROVE  Known(i)'
  BY <1>5 DEF WriteRow, memory, HasRow, Known, TypeOK, Streams
<1>6. CASE present' = present /\ row' = row
  BY <1>6 DEF Known
<1>7. CASE TaskAction
  BY <1>6, <1>7 DEF TaskAction, TaskStep, LateStep, AbortLands, memory
<1>8. ASSUME NEW c \in Clients, NEW i0 \in Inputs,
             StartInput(c, i0) \/ StopInput(c, i0) \/ UpdateInput(c, i0)
      PROVE  present' = present /\ row' = row
  BY <1>8 DEF StartInput, StopInput, UpdateInput, HaltInput, memory
<1>9. ASSUME NEW c \in Clients, NEW o \in Outputs,
             StartOutput(c, o) \/ StopOutput(c, o) \/ UpdateOutput(c, o)
      PROVE  present' = present /\ row' = row
  BY <1>9 DEF StartOutput, StopOutput, UpdateOutput, memory
<1>10. ASSUME NEW c \in Clients, Continue(c)
       PROVE  \/ InsertInput(c) \/ InsertFailedInput(c) \/ WriteRow(c)
              \/ present' = present /\ row' = row
  BY <1>10
     DEF Continue, SpawnInput, RestartInput, Respawn, ReachInput, CheckSource,
         Attach, Adopt, ProbeInput, HaltForUpdate, HaltInput, BeginOutput,
         RunOutput, LookupFails, EndOutput, HaltOutput, ProbeOutput,
         ParkOutput, ReadStatus, memory
<1>11. CASE Process \/ UNCHANGED vars
  BY <1>6, <1>11 DEF Process, vars, memory
<1> QED
  BY <1>1, <1>2, <1>3, <1>4, <1>5, <1>6, <1>7, <1>8, <1>9, <1>10, <1>11
     DEF Next, Request

\* Where a handler that does not attach an input goes.
LEMMA AttachingStays ==
  ASSUME TypeOK, NEW c \in Clients,
         \/ pc' = pc
         \/ Return(c)
         \/ \E label \in Labels \ AttachLabels :
              \/ Goto(c, label)
              \/ \E op, s : Begin(c, label, op, s)
              \/ \E g : Carry(c, label, g)
  PROVE  \A d \in Clients : Attaching(d)' => Attaching(d) /\ pc'[d] = pc[d]
<1>1. CASE pc' = pc
  BY <1>1 DEF Attaching
<1>2. CASE \E h : h.at \notin AttachLabels /\ pc' = [pc EXCEPT ![c] = h]
  <2>1. PICK h : h.at \notin AttachLabels /\ pc' = [pc EXCEPT ![c] = h]
    BY <1>2
  <2>2. pc'[c] = h /\ \A d \in Clients \ {c} : pc'[d] = pc[d]
    BY <2>1 DEF TypeOK
  <2> QED
    BY <2>1, <2>2 DEF Attaching
<1>3. CASE Return(c)
  BY <1>2, <1>3 DEF Return, Idle, AttachLabels
<1>4. ASSUME NEW label \in Labels \ AttachLabels, Goto(c, label)
      PROVE  \E h : h.at \notin AttachLabels /\ pc' = [pc EXCEPT ![c] = h]
  <2>1. [pc[c] EXCEPT !.at = label].at = label
    BY DEF TypeOK, Handlers
  <2> QED
    BY <1>4, <2>1 DEF Goto, TypeOK
<1>5. ASSUME NEW label \in Labels \ AttachLabels, NEW op, NEW s,
             Begin(c, label, op, s)
      PROVE  \E h : h.at \notin AttachLabels /\ pc' = [pc EXCEPT ![c] = h]
  BY <1>5 DEF Begin, Idle
<1>6. ASSUME NEW label \in Labels \ AttachLabels, NEW g, Carry(c, label, g)
      PROVE  \E h : h.at \notin AttachLabels /\ pc' = [pc EXCEPT ![c] = h]
  <2>1. [pc[c] EXCEPT !.at = label, !.g = g].at = label
    BY DEF TypeOK, Handlers
  <2> QED
    BY <1>6, <2>1 DEF Carry
<1> QED
  BY <1>1, <1>2, <1>3, <1>4, <1>5, <1>6

LEMMA AttachingStep ==
  TypeOK /\ HandlersPlaced /\ InputRowsMatchEntries /\ AttachingKnown
    /\ [Next]_vars => AttachingKnown'
<1> SUFFICES ASSUME TypeOK, HandlersPlaced, InputRowsMatchEntries,
                    AttachingKnown, [Next]_vars
             PROVE  AttachingKnown'
  OBVIOUS
<1>1. CASE Restart
  BY <1>1 DEF Restart, AttachingKnown, Attaching, AttachLabels, Idle
<1>2. ASSUME ~Restart, NEW i \in Inputs, Known(i)
      PROVE  Known(i)'
  BY <1>2, StillKnown
<1>3. ASSUME ~Restart,
             \A d \in Clients : Attaching(d)' => Attaching(d) /\ pc'[d] = pc[d]
      PROVE  AttachingKnown'
  <2> SUFFICES ASSUME NEW d \in Clients, Attaching(d)'
               PROVE  Known(pc[d].s)' /\ pc'[d].s = pc[d].s
    BY DEF AttachingKnown, Known
  <2>1. Attaching(d) /\ pc'[d] = pc[d] /\ Known(pc[d].s)
    BY <1>3 DEF AttachingKnown
  <2>2. pc[d].s \in Inputs
    BY <2>1, PlacedTyped DEF Attaching, AttachLabels, At
  <2> QED
    BY <1>2, <1>3, <2>1, <2>2 DEF Known
<1>4. ASSUME ~Restart, NEW c \in Clients, ReachInput(c) \/ CheckSource(c)
      PROVE  AttachingKnown'
  <2>1. CASE Return(c)
    BY <1>3, <1>4, <2>1, AttachingStays
  <2>2. ASSUME NEW label \in AttachLabels, Goto(c, label)
        PROVE  AttachingKnown'
    <3>1. pc[c].s \in Inputs /\ Known(pc[c].s)
      BY <1>4, <2>2, PlacedTyped
         DEF ReachInput, CheckSource, Goto, Known, AttachingKnown, Attaching,
             AttachLabels, At, TypeOK, Return, Idle
    <3>2. /\ pc'[c].s = pc[c].s /\ Known(pc[c].s)'
          /\ \A d \in Clients \ {c} : pc'[d] = pc[d]
      BY <1>2, <1>4, <2>2, <3>1 DEF Goto, TypeOK, Handlers, Known
    <3>3. ASSUME NEW d \in Clients \ {c}, Attaching(d)
          PROVE  Known(pc[d].s)'
      <4>1. pc[d].s \in Inputs /\ Known(pc[d].s)
        BY <3>3, PlacedTyped
           DEF AttachingKnown, Attaching, AttachLabels, At
      <4> QED
        BY <1>2, <1>4, <3>2, <4>1 DEF Known
    <3> QED
      BY <3>2, <3>3 DEF AttachingKnown, Attaching, Known
  <2> QED
    BY <1>4, <2>1, <2>2 DEF ReachInput, CheckSource, AttachLabels
<1>5. CASE TaskAction \/ Process \/ UNCHANGED vars
  <2>1. pc' = pc
    BY <1>5
       DEF TaskAction, TaskStep, LateStep, AbortLands, Process, vars
  <2>2. \A d \in Clients : Attaching(d)' => Attaching(d) /\ pc'[d] = pc[d]
    BY <2>1 DEF Attaching
  <2> QED
    BY <1>1, <1>3, <2>2
<1>6. ASSUME NEW c \in Clients, Request(c)
      PROVE  \/ pc' = pc
             \/ \E label \in Labels \ AttachLabels :
                  \E op, s : Begin(c, label, op, s)
  BY <1>6
     DEF Request, CreateInput, DeleteInput, StartInput, StopInput, UpdateInput,
         CreateOutput, DeleteOutput, StartOutput, StopOutput, UpdateOutput,
         Labels, AttachLabels
<1>7. ASSUME NEW c \in Clients, ReadStatus(c)
      PROVE  \A d \in Clients : Attaching(d)' => Attaching(d) /\ pc'[d] = pc[d]
  BY <1>7 DEF ReadStatus, Attaching, AttachLabels, TypeOK, Handlers
<1>8. ASSUME NEW c \in Clients, Continue(c)
      PROVE  \/ ReachInput(c) \/ CheckSource(c) \/ ReadStatus(c) \/ Return(c)
             \/ \E label \in Labels \ AttachLabels :
                  Goto(c, label) \/ \E g : Carry(c, label, g)
  <2>1. {"refuse", "insert", "respawn", "adopt", "write", "read", "halt",
         "check", "end", "begin", "park"} \subseteq Labels \ AttachLabels
    BY DEF Labels, AttachLabels
  <2> QED
    BY <1>8, <2>1
       DEF Continue, SpawnInput, InsertInput, InsertFailedInput, RestartInput,
           Respawn, Attach, Adopt, ProbeInput, HaltForUpdate, BeginOutput,
           EndOutput, ProbeOutput, ParkOutput, WriteRow
<1>9. ASSUME ~Restart, NEW c \in Clients, Request(c) \/ Continue(c)
      PROVE  AttachingKnown'
  BY <1>3, <1>4, <1>6, <1>7, <1>8, <1>9, AttachingStays
<1> QED
  BY <1>1, <1>5, <1>9 DEF Next
=============================================================================
