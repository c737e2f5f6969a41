------------------------- MODULE ChunkColumnsProofs --------------------------
(***************************************************************************)
(* Proofs, for any number of workers, columns and jobs, that saved terrain *)
(* is kept, that a column is left READY and lit, and that one which a      *)
(* single job generated has been through all of the stages.                *)
(***************************************************************************)
EXTENDS ChunkColumns, SequenceTheorems, TLAPS

\* The states a stage starts from.
Stages == {"INITIALIZED", "RAW_GENERATION", "LAKES", "LOCAL_MODIFICATIONS", "UNDERGROUND_STRUCTURES",
           "SURFACE_STRUCTURES", "STRONGHOLDS", "UNDERGROUND_ORES", "UNDERGROUND_DECORATION",
           "FLUID_SPRINGS", "VEGETAL_DECORATION", "TOP_LAYER_MODIFICATION"}

\* Where a worker is before it knows whether the column is loaded, and after.
Reading == {"reading", "sections"}
Asking == {"region", "reading", "sections", "loaded?"}
Generating == {"generate", "stage", "light"}

\* What is written to a column.
Writes == {"saved", "raw", "lakes", "local", "vegetal", "flat", "cubic", "debug"}

\* What a world that is not generated in stages writes, in one go.
FlatWrites == {"flat", "cubic"} \cup {s \in {"debug"} : world.type = "debug"}

TypeOK ==
    /\ columns \in [Positions -> [state : Stages \cup {"none", "READY"}, written : Seq(Writes), lit : BOOLEAN]]
    /\ regionLoaded \in BOOLEAN
    /\ toRead \subseteq Saved \cup Partial
    /\ started \in [Positions -> Nat]
    /\ at \in [Workers -> [pc : {"idle"} \cup Asking \cup Generating, pos : Positions \cup {None},
                           seen : Stages \cup {"none"} \cup Positions]]
    /\ \A w \in Workers : /\ at[w].pc = "idle" <=> at[w].pos = None
                          /\ at[w].pc = "sections" => at[w].seen \in Saved
                          /\ at[w].pc = "stage" => at[w].seen \in Stages

\* A column is added before it is generated.
AddedInv ==
    /\ \A w \in Workers : at[w].pc \in Generating => columns[at[w].pos].state # "none"
    /\ \A p \in Positions : columns[p].state = "none" => columns[p] = NoColumn

\* The region is read once, by the worker that holds _accessMutex; whoever has
\* returned from loadRegion() finds it read.
RegionInv ==
    /\ \A w \in Workers : at[w].pc \in Reading <=> accessMutex = w
    /\ accessMutex \in Workers \cup {None}
    /\ accessMutex # None => regionLoaded
    /\ ~regionLoaded => toRead = Saved \cup Partial
    /\ regionLoaded /\ accessMutex = None => toRead = {}
    /\ \A w \in Workers : at[w].pc \in {"loaded?"} \cup Generating => regionLoaded /\ accessMutex = None

\* What _regionLoadChunk() leaves.
SavedColumn == [state |-> "READY", written |-> <<"saved">>, lit |-> TRUE]

\* A saved column is not there yet, being filled, or complete; nobody generates it.
SavedInv ==
    /\ \A p \in Saved : /\ p \in toRead => columns[p] = NoColumn
                        /\ p \notin toRead => \/ columns[p] = SavedColumn
                                              \/ /\ columns[p] = NewColumn
                                                 /\ \E w \in Workers : at[w].pc = "sections" /\ at[w].seen = p
    /\ \A w \in Workers : /\ at[w].pc = "sections" => at[w].seen \notin toRead
                          /\ at[w].pc \in Generating => at[w].pos \notin Saved

\* Whoever makes a column READY lights it before it goes.
LightInv ==
    \A p \in Positions : IsReady(p) => \/ columns[p].lit
                                       \/ \E w \in Workers : at[w].pos = p /\ at[w].pc \in Generating

Generates == world.generation /\ world.type \in {"default", "superflat", "superflat_cubic_server", "debug"}

\* A column that is not READY, whoever set its state back, has a worker that will see it.
ReadyInv ==
    Generates =>
        \A p \in Positions : started[p] > 0 /\ ~IsReady(p) =>
            \E w \in Workers : at[w].pos = p /\ at[w].pc \in Asking \cup {"generate", "stage"}

\* What has been written to a column that has got to a state undisturbed.
WrittenAt(state) ==
    CASE state \in {"none", "INITIALIZED"} -> <<>>
      [] state = "RAW_GENERATION" -> <<"raw">>
      [] state = "LAKES" -> <<"raw", "lakes">>
      [] state \in {"VEGETAL_DECORATION", "TOP_LAYER_MODIFICATION", "READY"} ->
            <<"raw", "lakes", "local", "vegetal">>
      [] OTHER -> <<"raw", "lakes", "local">>

\* A column whose only job is under way, or was, is as far as its state says.
Undisturbed(p) ==
    /\ \A v, w \in Workers : at[v].pos = p /\ at[w].pos = p => v = w
    /\ world.type = "default" => columns[p].written = WrittenAt(columns[p].state)
    /\ world.type # "default" =>
          \/ columns[p].state \in {"none", "INITIALIZED"} /\ columns[p].written = <<>>
          \/ columns[p].state = "READY" /\ (world.type = "debug" \/ columns[p].written \in {<<"flat">>, <<"cubic">>})
    /\ \A w \in Workers : at[w].pos = p =>
          /\ at[w].pc = "stage" => world.type = "default" /\ at[w].seen = columns[p].state
          /\ at[w].pc = "generate" /\ world.type # "default" => columns[p].state = "INITIALIZED"

AloneInv ==
    \A p \in Positions \ Saved :
        /\ started[p] = 0 => columns[p] = NoColumn /\ Quiet(p)
        /\ started[p] = 1 => Undisturbed(p)

IInv == TypeOK /\ AddedInv /\ RegionInv /\ SavedInv /\ LightInv /\ ReadyInv /\ AloneInv

\* The switch of _generateOverworld() goes from each state to the next.
LEMMA StageOrder ==
    /\ StageAfter("INITIALIZED") = "RAW_GENERATION"
    /\ StageAfter("RAW_GENERATION") = "LAKES"
    /\ StageAfter("LAKES") = "LOCAL_MODIFICATIONS"
    /\ StageAfter("LOCAL_MODIFICATIONS") = "UNDERGROUND_STRUCTURES"
    /\ StageAfter("UNDERGROUND_STRUCTURES") = "SURFACE_STRUCTURES"
    /\ StageAfter("SURFACE_STRUCTURES") = "STRONGHOLDS"
    /\ StageAfter("STRONGHOLDS") = "UNDERGROUND_ORES"
    /\ StageAfter("UNDERGROUND_ORES") = "UNDERGROUND_DECORATION"
    /\ StageAfter("UNDERGROUND_DECORATION") = "FLUID_SPRINGS"
    /\ StageAfter("FLUID_SPRINGS") = "VEGETAL_DECORATION"
    /\ StageAfter("VEGETAL_DECORATION") = "TOP_LAYER_MODIFICATION"
    /\ StageAfter("TOP_LAYER_MODIFICATION") = "READY"
<1>1. DOMAIN States = 1 .. 13
  BY DEF States
<1>2. ASSUME NEW i \in 1 .. 12, \A j \in 1 .. 13 : States[j] = States[i] => j = i
      PROVE  StageAfter(States[i]) = States[1 + i]
  <2>1. (CHOOSE j \in DOMAIN States : States[j] = States[i]) = i
    BY <1>1, <1>2
  <2> QED
    BY <2>1 DEF StageAfter
<1>3. \A i, j \in 1 .. 13 : States[j] = States[i] => j = i
  BY DEF States
<1>4. \A i \in 1 .. 12 : StageAfter(States[i]) = States[1 + i]
  BY <1>2, <1>3
<1>5. /\ StageAfter(States[1]) = States[2] /\ StageAfter(States[2]) = States[3]
      /\ StageAfter(States[3]) = States[4] /\ StageAfter(States[4]) = States[5]
      /\ StageAfter(States[5]) = States[6] /\ StageAfter(States[6]) = States[7]
      /\ StageAfter(States[7]) = States[8] /\ StageAfter(States[8]) = States[9]
      /\ StageAfter(States[9]) = States[10] /\ StageAfter(States[10]) = States[11]
      /\ StageAfter(States[11]) = States[12] /\ StageAfter(States[12]) = States[13]
  BY <1>4
<1> QED
  BY <1>5 DEF States

LEMMA StageAfterType == \A state \in Stages : StageAfter(state) \in Stages \cup {"READY"}
  BY StageOrder DEF Stages

\* Append(), element by element.
LEMMA AppendIs ==
    ASSUME NEW S, NEW s \in Seq(S), NEW t \in Seq(S), NEW e \in S,
           Len(t) = Len(s) + 1, t[Len(s) + 1] = e, \A i \in 1 .. Len(s) : t[i] = s[i]
    PROVE  Append(s, e) = t
<1>1. /\ Append(s, e) \in Seq(S) /\ Len(Append(s, e)) = Len(s) + 1
      /\ \A i \in 1 .. Len(s) : Append(s, e)[i] = s[i]
      /\ Append(s, e)[Len(s) + 1] = e
  BY AppendProperties
<1>2. Len(s) \in Nat
  BY LenProperties
<1>3. \A i \in 1 .. Len(t) : i \in 1 .. Len(s) \/ i = Len(s) + 1
  BY <1>2
<1>4. \A i \in 1 .. Len(t) : Append(s, e)[i] = t[i]
  BY <1>1, <1>3
<1> QED
  BY <1>1, <1>4, SeqEqual

\* Append() to a tuple.
LEMMA AppendTuples ==
    ASSUME NEW a, NEW b, NEW c, NEW d
    PROVE  /\ Append(<<>>, a) = <<a>>
           /\ Append(<<a>>, b) = <<a, b>>
           /\ Append(<<a, b>>, c) = <<a, b, c>>
           /\ Append(<<a, b, c>>, d) = <<a, b, c, d>>
<1> DEFINE S == {a, b, c, d}
           s0 == <<>>
           s1 == <<a>>
           s2 == <<a, b>>
           s3 == <<a, b, c>>
           s4 == <<a, b, c, d>>
<1>0. s0 \in Seq(S) /\ Len(s0) = 0
  OBVIOUS
<1>1. s1 \in Seq(S) /\ Len(s1) = 1 /\ s1[1] = a
  OBVIOUS
<1>2. s2 \in Seq(S) /\ Len(s2) = 2 /\ s2[1] = a /\ s2[2] = b
  OBVIOUS
<1>3. s3 \in Seq(S) /\ Len(s3) = 3 /\ s3[1] = a /\ s3[2] = b /\ s3[3] = c
  OBVIOUS
<1>4. s4 \in Seq(S) /\ Len(s4) = 4 /\ s4[1] = a /\ s4[2] = b /\ s4[3] = c /\ s4[4] = d
  OBVIOUS
<1>5. a \in S /\ b \in S /\ c \in S /\ d \in S
  OBVIOUS
<1> HIDE DEF S, s0, s1, s2, s3, s4
<1>6. Append(s1, b) = s2
  <2>1. Len(s2) = Len(s1) + 1 /\ s2[Len(s1) + 1] = b /\ \A i \in 1 .. Len(s1) : s2[i] = s1[i]
    BY <1>1, <1>2
  <2> QED
    BY <1>1, <1>2, <1>5, <2>1, AppendIs, ZenonT(40)
<1>7. Append(s2, c) = s3
  <2>1. Len(s3) = Len(s2) + 1 /\ s3[Len(s2) + 1] = c /\ \A i \in 1 .. Len(s2) : s3[i] = s2[i]
    BY <1>2, <1>3
  <2> QED
    BY <1>2, <1>3, <1>5, <2>1, AppendIs
<1>8. Append(s3, d) = s4
  <2>1. Len(s4) = Len(s3) + 1 /\ s4[Len(s3) + 1] = d /\ \A i \in 1 .. Len(s3) : s4[i] = s3[i]
    BY <1>3, <1>4
  <2> QED
    BY <1>3, <1>4, <1>5, <2>1, AppendIs
<1>9. Append(s0, a) = s1
  <2>1. Len(s1) = Len(s0) + 1 /\ s1[Len(s0) + 1] = a /\ \A i \in 1 .. Len(s0) : s1[i] = s0[i]
    BY <1>0, <1>1
  <2> QED
    BY <1>0, <1>1, <1>5, <2>1, AppendIs
<1> QED
  BY <1>6, <1>7, <1>8, <1>9 DEF s0, s1, s2, s3, s4

\* A stage that follows what was written up to its state writes what is to be
\* there in the next.
LEMMA StageWrites ==
    ASSUME NEW state \in Stages
    PROVE  /\ Written(WrittenAt(state), state) = WrittenAt(StageAfter(state))
           /\ StageAfter(state) # "none"
<1>1. /\ Append(<<"raw">>, "lakes") = <<"raw", "lakes">>
      /\ Append(<<"raw", "lakes">>, "local") = <<"raw", "lakes", "local">>
      /\ Append(<<"raw", "lakes", "local">>, "vegetal") = <<"raw", "lakes", "local", "vegetal">>
  BY AppendTuples
<1> QED
  BY <1>1, StageOrder DEF Stages, Written, WrittenAt

\* The level starts without columns.
LEMMA InitIInv == Init => IInv
<1> SUFFICES ASSUME Init PROVE IInv
  OBVIOUS
<1>1. TypeOK
  <2>1. NoColumn \in [state : Stages \cup {"none", "READY"}, written : Seq(Writes), lit : BOOLEAN]
    BY DEF NoColumn
  <2>2. Idle \in [pc : {"idle"} \cup Asking \cup Generating, pos : Positions \cup {None},
                  seen : Stages \cup {"none"} \cup Positions]
    BY DEF Idle
  <2> QED
    BY <2>1, <2>2 DEF Init, TypeOK, Idle
<1>2. RegionInv /\ SavedInv /\ AddedInv
  BY ColumnsAssumption DEF Init, AddedInv, RegionInv, SavedInv, Idle, Reading, Generating
<1>3. LightInv /\ ReadyInv
  BY DEF Init, LightInv, ReadyInv, IsReady, NoColumn
<1>4. AloneInv
  BY ColumnsAssumption DEF Init, AloneInv, Quiet, Idle, NoColumn
<1> QED
  BY <1>1, <1>2, <1>3, <1>4 DEF IInv

-----------------------------------------------------------------------------
(* What the steps do                                                       *)

\* Worker w goes on to another place, the others stay where they are.
Moves(w, pc, pos, seen) ==
    /\ at' = [v \in Workers |-> at'[v]]
    /\ at'[w] = [pc |-> pc, pos |-> pos, seen |-> seen]
    /\ \A v \in Workers \ {w} : at'[v] = at[v]

\* Column p becomes c, the others stay as they are.
Column(p, c) ==
    /\ columns' = [q \in Positions |-> columns'[q]]
    /\ columns'[p] = c
    /\ \A q \in Positions \ {p} : columns'[q] = columns[q]

\* A column that is added to the map unless it is there.
Added(p) == IF columns[p] = NoColumn THEN NewColumn ELSE columns[p]

\* Two fields of a column that are assigned in turn.
LEMMA TwoFields ==
    ASSUME TypeOK, NEW p \in Positions, NEW x, NEW y,
           columns' = [columns EXCEPT ![p].written = x, ![p].state = y]
    PROVE  Column(p, [state |-> y, written |-> x, lit |-> columns[p].lit])
<1> DEFINE c == columns[p]
           once == [columns EXCEPT ![p] = [c EXCEPT !.written = x]]
<1>1. columns' = [once EXCEPT ![p] = [once[p] EXCEPT !.state = y]]
  OBVIOUS
<1>2. DOMAIN columns = Positions /\ c = [state |-> c.state, written |-> c.written, lit |-> c.lit]
  BY DEF TypeOK
<1> HIDE DEF c
<1>3. once[p] = [state |-> c.state, written |-> x, lit |-> c.lit] /\ DOMAIN once = Positions
  BY <1>2
<1>4. \A q \in Positions \ {p} : once[q] = columns[q]
  BY <1>2
<1> HIDE DEF once
<1>5. columns'[p] = [state |-> y, written |-> x, lit |-> c.lit]
  <2>1. columns'[p] = [once[p] EXCEPT !.state = y]
    BY <1>1, <1>3
  <2>2. columns'[p] = [[state |-> c.state, written |-> x, lit |-> c.lit] EXCEPT !.state = y]
    BY <1>3, <2>1
  <2> QED
    BY <2>2
<1>6. \A q \in Positions \ {p} : columns'[q] = columns[q]
  BY <1>1, <1>3, <1>4
<1>7. columns' = [q \in Positions |-> columns'[q]]
  BY <1>1, <1>3
<1> QED
  BY <1>5, <1>6, <1>7 DEF Column, c

\* A worker's place is assigned as a whole, or but for the position.
LEMMA MovesTo ==
    ASSUME TypeOK, NEW w \in Workers, NEW pc, NEW pos, NEW seen,
           at' = [at EXCEPT ![w] = [pc |-> pc, pos |-> pos, seen |-> seen]]
    PROVE  Moves(w, pc, pos, seen)
  BY DEF TypeOK, Moves

LEMMA MovesSeeing ==
    ASSUME TypeOK, NEW w \in Workers, NEW pc, NEW seen,
           at' = [at EXCEPT ![w] = [at[w] EXCEPT !.pc = pc, !.seen = seen]]
    PROVE  Moves(w, pc, at[w].pos, seen)
<1> DEFINE r == at[w]
           once == [r EXCEPT !.pc = pc]
           twice == [once EXCEPT !.seen = seen]
<1>1. at' = [at EXCEPT ![w] = twice]
  OBVIOUS
<1>2. r = [pc |-> r.pc, pos |-> r.pos, seen |-> r.seen]
  BY DEF TypeOK
<1> HIDE DEF r
<1>3. once = [pc |-> pc, pos |-> r.pos, seen |-> r.seen]
  BY <1>2
<1> HIDE DEF once
<1>4. twice = [pc |-> pc, pos |-> r.pos, seen |-> seen]
  BY <1>3
<1> HIDE DEF twice
<1>5. Moves(w, pc, r.pos, seen)
  BY <1>1, <1>4, MovesTo
<1> QED
  BY <1>5 DEF r

LEMMA MovesOn ==
    ASSUME TypeOK, NEW w \in Workers, NEW pc, at' = [at EXCEPT ![w].pc = pc]
    PROVE  Moves(w, pc, at[w].pos, at[w].seen)
<1>1. [at[w] EXCEPT !.pc = pc] = [pc |-> pc, pos |-> at[w].pos, seen |-> at[w].seen]
  BY DEF TypeOK
<1> QED
  BY <1>1, MovesTo

\* Where each action takes its worker.
LEMMA WorkerMoves ==
    ASSUME TypeOK, NEW w \in Workers
    PROVE  /\ \A p \in Positions : GenerateChunk(w, p) => at[w].pc = "idle" /\ Moves(w, "region", p, "none")
           /\ LoadRegion(w) => Moves(w, IF regionLoaded THEN "loaded?" ELSE "reading", at[w].pos, at[w].seen)
           /\ \A p \in Positions : RegionAddsColumn(w, p) /\ p \notin Partial => Moves(w, "sections", at[w].pos, p)
           /\ RegionFillsColumn(w) => Moves(w, "reading", at[w].pos, "none")
           /\ RegionRead(w) => Moves(w, "loaded?", at[w].pos, at[w].seen)
           /\ IsChunkLoaded(w) => IF IsReady(at[w].pos) \/ ~world.generation
                                  THEN Moves(w, "idle", None, "none")
                                  ELSE Moves(w, "generate", at[w].pos, at[w].seen)
           /\ ReadState(w) => IF IsReady(at[w].pos)
                              THEN Moves(w, "light", at[w].pos, at[w].seen)
                              ELSE Moves(w, "stage", at[w].pos, columns[at[w].pos].state)
           /\ RunStage(w) => Moves(w, "generate", at[w].pos, at[w].seen)
           /\ GenerateFlat(w) => Moves(w, "light", at[w].pos, at[w].seen)
           /\ RecalculateSkyLight(w) => Moves(w, "idle", None, "none")
<1> USE DEF Go, Idle
<1>0. at[w] = [pc |-> at[w].pc, pos |-> at[w].pos, seen |-> at[w].seen]
  BY DEF TypeOK
<1>1. \A p \in Positions : GenerateChunk(w, p) => at[w].pc = "idle" /\ Moves(w, "region", p, "none")
  <2> SUFFICES ASSUME NEW p \in Positions, GenerateChunk(w, p)
               PROVE  at[w].pc = "idle" /\ Moves(w, "region", p, "none")
    OBVIOUS
  <2>1. at[w].pc = "idle" /\ at' = [at EXCEPT ![w] = [pc |-> "region", pos |-> p, seen |-> "none"]]
    BY DEF GenerateChunk
  <2> QED
    BY <2>1, MovesTo
<1>2. LoadRegion(w) => Moves(w, IF regionLoaded THEN "loaded?" ELSE "reading", at[w].pos, at[w].seen)
  BY MovesOn DEF LoadRegion
<1>3. \A p \in Positions : RegionAddsColumn(w, p) /\ p \notin Partial => Moves(w, "sections", at[w].pos, p)
  <2> SUFFICES ASSUME NEW p \in Positions, RegionAddsColumn(w, p), p \notin Partial
               PROVE  Moves(w, "sections", at[w].pos, p)
    OBVIOUS
  <2>1. at' = [at EXCEPT ![w] = [at[w] EXCEPT !.pc = "sections", !.seen = p]]
    BY DEF RegionAddsColumn
  <2> QED
    BY <2>1, MovesSeeing
<1>4. RegionFillsColumn(w) => Moves(w, "reading", at[w].pos, "none")
  <2> SUFFICES ASSUME RegionFillsColumn(w) PROVE Moves(w, "reading", at[w].pos, "none")
    OBVIOUS
  <2>1. at' = [at EXCEPT ![w] = [at[w] EXCEPT !.pc = "reading", !.seen = "none"]]
    BY DEF RegionFillsColumn
  <2> QED
    BY <2>1, MovesSeeing
<1>5. RegionRead(w) => Moves(w, "loaded?", at[w].pos, at[w].seen)
  BY MovesOn DEF RegionRead
<1>6. IsChunkLoaded(w) => IF IsReady(at[w].pos) \/ ~world.generation
                          THEN Moves(w, "idle", None, "none")
                          ELSE Moves(w, "generate", at[w].pos, at[w].seen)
  <2>1. [at[w] EXCEPT !.pc = "generate"] = [pc |-> "generate", pos |-> at[w].pos, seen |-> at[w].seen]
    BY <1>0
  <2> QED
    BY <2>1, MovesTo DEF IsChunkLoaded
<1>7. ReadState(w) => IF IsReady(at[w].pos)
                      THEN Moves(w, "light", at[w].pos, at[w].seen)
                      ELSE Moves(w, "stage", at[w].pos, columns[at[w].pos].state)
  <2>1. CASE IsReady(at[w].pos)
    <3>1. [at[w] EXCEPT !.pc = "light"] = [pc |-> "light", pos |-> at[w].pos, seen |-> at[w].seen]
      BY <1>0
    <3> QED
      BY <2>1, <3>1, MovesTo DEF ReadState
  <2>2. CASE ~IsReady(at[w].pos)
    <3>1. ReadState(w) => at' = [at EXCEPT ![w] = [at[w] EXCEPT !.pc = "stage", !.seen = columns[at[w].pos].state]]
      BY <2>2 DEF ReadState
    <3> QED
      BY <2>2, <3>1, MovesSeeing
  <2> QED
    BY <2>1, <2>2
<1>8. RunStage(w) => Moves(w, "generate", at[w].pos, at[w].seen)
  BY MovesOn DEF RunStage
<1>9. GenerateFlat(w) => Moves(w, "light", at[w].pos, at[w].seen)
  BY MovesOn DEF GenerateFlat
<1>10. RecalculateSkyLight(w) => Moves(w, "idle", None, "none")
  BY MovesTo DEF RecalculateSkyLight
<1> QED
  BY <1>1, <1>2, <1>3, <1>4, <1>5, <1>6, <1>7, <1>8, <1>9, <1>10

\* What it does to the column it works on.
LEMMA ColumnChanges ==
    ASSUME TypeOK, NEW w \in Workers
    PROVE  /\ \A p \in Positions : RegionAddsColumn(w, p) /\ p \notin Partial => Column(p, Added(p))
           /\ RegionFillsColumn(w) => Column(at[w].seen, SavedColumn)
           /\ IsChunkLoaded(w) => IF IsReady(at[w].pos) THEN columns' = columns
                                  ELSE Column(at[w].pos, Added(at[w].pos))
           /\ RunStage(w) => Column(at[w].pos, [state |-> StageAfter(at[w].seen),
                                                written |-> Written(columns[at[w].pos].written, at[w].seen),
                                                lit |-> columns[at[w].pos].lit])
           /\ GenerateFlat(w) =>
                 \/ columns' = columns /\ ~Generates
                 \/ \E flat \in FlatWrites :
                       Column(at[w].pos, [state |-> "READY", written |-> Append(columns[at[w].pos].written, flat),
                                          lit |-> columns[at[w].pos].lit])
           /\ RecalculateSkyLight(w) => Column(at[w].pos, [columns[at[w].pos] EXCEPT !.lit = TRUE])
<1> USE DEF TypeOK, Column, Added
<1>1. \A p \in Positions : RegionAddsColumn(w, p) /\ p \notin Partial => Column(p, Added(p))
  BY DEF RegionAddsColumn
<1>2. RegionFillsColumn(w) => Column(at[w].seen, SavedColumn)
  BY ColumnsAssumption DEF RegionFillsColumn, SavedColumn
<1>3. at[w].pc # "idle" => at[w].pos \in Positions
  OBVIOUS
<1>4. IsChunkLoaded(w) => IF IsReady(at[w].pos) THEN columns' = columns
                          ELSE Column(at[w].pos, Added(at[w].pos))
  BY <1>3 DEF IsChunkLoaded
<1>5. RunStage(w) => Column(at[w].pos, [state |-> StageAfter(at[w].seen),
                                        written |-> Written(columns[at[w].pos].written, at[w].seen),
                                        lit |-> columns[at[w].pos].lit])
  <2> SUFFICES ASSUME RunStage(w)
               PROVE  Column(at[w].pos, [state |-> StageAfter(at[w].seen),
                                         written |-> Written(columns[at[w].pos].written, at[w].seen),
                                         lit |-> columns[at[w].pos].lit])
    OBVIOUS
  <2>1. columns' = [columns EXCEPT ![at[w].pos].written = Written(columns[at[w].pos].written, at[w].seen),
                                   ![at[w].pos].state = StageAfter(at[w].seen)]
    BY DEF RunStage
  <2>2. at[w].pos \in Positions
    BY <1>3 DEF RunStage
  <2> QED
    BY <2>1, <2>2, TwoFields
<1>6. GenerateFlat(w) =>
         \/ columns' = columns /\ ~Generates
         \/ \E flat \in FlatWrites :
               Column(at[w].pos, [state |-> "READY", written |-> Append(columns[at[w].pos].written, flat),
                                  lit |-> columns[at[w].pos].lit])
  <2> SUFFICES ASSUME GenerateFlat(w)
               PROVE  \/ columns' = columns /\ ~Generates
                      \/ \E flat \in FlatWrites :
                            Column(at[w].pos, [state |-> "READY",
                                               written |-> Append(columns[at[w].pos].written, flat),
                                               lit |-> columns[at[w].pos].lit])
    OBVIOUS
  <2>1. at[w].pos \in Positions
    BY <1>3 DEF GenerateFlat
  <2>2. \/ columns' = columns /\ ~Generates
        \/ columns' = [columns EXCEPT ![at[w].pos].written = Append(columns[at[w].pos].written, "flat"),
                                      ![at[w].pos].state = "READY"]
        \/ columns' = [columns EXCEPT ![at[w].pos].written = Append(columns[at[w].pos].written, "cubic"),
                                      ![at[w].pos].state = "READY"]
        \/ /\ world.type = "debug"
           /\ columns' = [columns EXCEPT ![at[w].pos].written = Append(columns[at[w].pos].written, "debug"),
                                         ![at[w].pos].state = "READY"]
    BY DEF GenerateFlat, Generates
  <2>3. TypeOK
    OBVIOUS
  <2> HIDE DEF TypeOK, Column
  <2>4. ASSUME NEW x, columns' = [columns EXCEPT ![at[w].pos].written = x, ![at[w].pos].state = "READY"]
        PROVE  Column(at[w].pos, [state |-> "READY", written |-> x, lit |-> columns[at[w].pos].lit])
    BY <2>1, <2>3, <2>4, TwoFields
  <2> QED
    BY <2>2, <2>4 DEF FlatWrites
<1>7. RecalculateSkyLight(w) => Column(at[w].pos, [columns[at[w].pos] EXCEPT !.lit = TRUE])
  BY <1>3 DEF RecalculateSkyLight
<1> QED
  BY <1>1, <1>2, <1>4, <1>5, <1>6, <1>7

-----------------------------------------------------------------------------
(* The parts of the invariant                                              *)

ColumnType == [state : Stages \cup {"none", "READY"}, written : Seq(Writes), lit : BOOLEAN]
PlaceType == [pc : {"idle"} \cup Asking \cup Generating, pos : Positions \cup {None},
              seen : Stages \cup {"none"} \cup Positions]

PlacesOK ==
    /\ at \in [Workers -> PlaceType]
    /\ \A w \in Workers : /\ at[w].pc = "idle" <=> at[w].pos = None
                          /\ at[w].pc = "sections" => at[w].seen \in Saved
                          /\ at[w].pc = "stage" => at[w].seen \in Stages

\* A step that moves a worker to a place of the right type keeps the types.
LEMMA PlacesStep ==
    ASSUME TypeOK, NEW w \in Workers, NEW pc \in {"idle"} \cup Asking \cup Generating,
           NEW pos \in Positions \cup {None}, NEW seen \in Stages \cup {"none"} \cup Positions,
           Moves(w, pc, pos, seen), pc = "idle" <=> pos = None,
           pc = "sections" => seen \in Saved, pc = "stage" => seen \in Stages
    PROVE  PlacesOK'
<1>1. [pc |-> pc, pos |-> pos, seen |-> seen] \in PlaceType
  BY DEF PlaceType
<1>2. PlacesOK
  BY DEF TypeOK, PlacesOK, PlaceType
<1>3. at' = [v \in Workers |-> at'[v]] /\ \A v \in Workers \ {w} : at'[v] = at[v]
  BY DEF Moves
<1>4. at'[w] = [pc |-> pc, pos |-> pos, seen |-> seen]
  BY DEF Moves
<1>5. at' \in [Workers -> PlaceType]
  BY <1>1, <1>2, <1>3, <1>4 DEF PlacesOK
<1>6. at'[w].pc = pc /\ at'[w].pos = pos /\ at'[w].seen = seen
  BY <1>4
<1> QED
  BY <1>2, <1>3, <1>5, <1>6 DEF PlacesOK

\* A column that becomes one of the right type.
LEMMA ColumnStep ==
    ASSUME TypeOK, NEW p \in Positions, NEW c \in ColumnType, Column(p, c)
    PROVE  columns' \in [Positions -> ColumnType]
  BY DEF TypeOK, Column, ColumnType

LEMMA NewColumnIs == NewColumn = [state |-> "INITIALIZED", written |-> <<>>, lit |-> FALSE]
<1>1. ASSUME NEW r, NEW t, r = [state |-> r.state, written |-> r.written, lit |-> r.lit]
      PROVE  [r EXCEPT !.state = t] = [state |-> t, written |-> r.written, lit |-> r.lit]
  BY <1>1
<1>2. /\ NoColumn = [state |-> NoColumn.state, written |-> NoColumn.written, lit |-> NoColumn.lit]
      /\ NoColumn.written = <<>> /\ NoColumn.lit = FALSE
  BY DEF NoColumn
<1>3. NewColumn = [state |-> "INITIALIZED", written |-> NoColumn.written, lit |-> NoColumn.lit]
  BY <1>1, <1>2 DEF NewColumn
<1> QED
  BY <1>2, <1>3, Zenon

LEMMA AddedType ==
    ASSUME TypeOK, NEW p \in Positions
    PROVE  Added(p) \in ColumnType
<1>1. NewColumn = [state |-> "INITIALIZED", written |-> <<>>, lit |-> FALSE]
  BY NewColumnIs
<1>2. NewColumn \in ColumnType
  BY <1>1 DEF ColumnType, Stages
<1> QED
  BY <1>2 DEF Added, TypeOK, ColumnType

LEMMA TypeStep ==
    ASSUME IInv, NEW w \in Workers, Step(w)
    PROVE  TypeOK'
<1>0. TypeOK /\ columns \in [Positions -> ColumnType] /\ at \in [Workers -> PlaceType]
  BY DEF IInv, TypeOK, ColumnType, PlaceType
<1>1. at[w].pos \in Positions \cup {None} /\ at[w].seen \in Stages \cup {"none"} \cup Positions
  BY <1>0 DEF PlaceType
<1>2. at[w].pc # "idle" => at[w].pos \in Positions /\ at[w].pos # None
  BY <1>0, <1>1, ColumnsAssumption DEF TypeOK
<1>3. SUFFICES /\ PlacesOK' /\ columns' \in [Positions -> ColumnType]
               /\ regionLoaded' \in BOOLEAN /\ toRead' \subseteq Saved \cup Partial
               /\ started' \in [Positions -> Nat]
  BY DEF TypeOK, PlacesOK, PlaceType, ColumnType
<1>4. regionLoaded \in BOOLEAN /\ toRead \subseteq Saved \cup Partial /\ started \in [Positions -> Nat] /\ PlacesOK
  BY <1>0 DEF TypeOK, PlacesOK, PlaceType
<1> USE DEF Asking, Generating
<1>5. ASSUME NEW p \in Positions, GenerateChunk(w, p)
      PROVE  /\ PlacesOK' /\ UNCHANGED <<columns, regionLoaded, toRead>>
             /\ started' \in [Positions -> Nat]
  <2>1. Moves(w, "region", p, "none") /\ p # None
    BY <1>0, <1>5, WorkerMoves, ColumnsAssumption
  <2>2. PlacesOK'
    BY <1>0, <2>1, PlacesStep
  <2> QED
    BY <1>4, <1>5, <2>2 DEF GenerateChunk
<1>6. CASE LoadRegion(w)
  <2>1. \E pc \in {"loaded?", "reading"} : Moves(w, pc, at[w].pos, at[w].seen)
    BY <1>0, <1>6, WorkerMoves
  <2>2. PlacesOK'
    BY <1>0, <1>1, <1>2, <1>6, <2>1, PlacesStep DEF LoadRegion
  <2> QED
    BY <1>0, <1>4, <1>6, <2>2 DEF LoadRegion
<1>7. ASSUME NEW p \in Positions, RegionAddsColumn(w, p)
      PROVE  /\ PlacesOK' /\ columns' \in [Positions -> ColumnType]
             /\ toRead' = toRead \ {p} /\ UNCHANGED <<regionLoaded, started>>
  <2>1. CASE p \in Partial
    BY <1>0, <1>4, <1>7, <2>1 DEF RegionAddsColumn, PlacesOK
  <2>2. CASE p \notin Partial
    <3>1. p \in Saved
      BY <1>4, <1>7, <2>2 DEF RegionAddsColumn
    <3>2. Moves(w, "sections", at[w].pos, p) /\ Column(p, Added(p))
      BY <1>0, <1>7, <2>2, WorkerMoves, ColumnChanges
    <3>3. PlacesOK'
      BY <1>0, <1>1, <1>2, <1>7, <3>1, <3>2, PlacesStep DEF RegionAddsColumn
    <3>4. columns' \in [Positions -> ColumnType]
      BY <1>0, <3>2, AddedType, ColumnStep
    <3> QED
      BY <1>7, <3>3, <3>4 DEF RegionAddsColumn
  <2> QED
    BY <2>1, <2>2
<1>8. CASE RegionFillsColumn(w)
  <2>1. Moves(w, "reading", at[w].pos, "none") /\ Column(at[w].seen, SavedColumn)
    BY <1>0, <1>8, WorkerMoves, ColumnChanges
  <2>2. SavedColumn \in ColumnType /\ at[w].seen \in Positions
    BY <1>4, <1>8, ColumnsAssumption DEF SavedColumn, ColumnType, Writes, RegionFillsColumn, PlacesOK
  <2>3. columns' \in [Positions -> ColumnType]
    BY <1>0, <2>1, <2>2, ColumnStep
  <2>4. PlacesOK'
    BY <1>0, <1>1, <1>2, <1>8, <2>1, PlacesStep DEF RegionFillsColumn
  <2> QED
    BY <1>4, <1>8, <2>3, <2>4 DEF RegionFillsColumn
<1>9. CASE RegionRead(w)
  <2>1. PlacesOK'
    BY <1>0, <1>1, <1>2, <1>9, WorkerMoves, PlacesStep DEF RegionRead
  <2> QED
    BY <1>0, <1>4, <1>9, <2>1 DEF RegionRead
<1>10. CASE IsChunkLoaded(w)
  <2>1. at[w].pos \in Positions
    BY <1>2, <1>10 DEF IsChunkLoaded
  <2>2. columns' \in [Positions -> ColumnType]
    BY <1>0, <1>10, <2>1, ColumnChanges, AddedType, ColumnStep
  <2>3. Moves(w, "idle", None, "none") \/ Moves(w, "generate", at[w].pos, at[w].seen)
    BY <1>0, <1>10, WorkerMoves
  <2>4. PlacesOK'
    <3>1. CASE Moves(w, "idle", None, "none")
      BY <1>0, <3>1, PlacesStep
    <3>2. CASE Moves(w, "generate", at[w].pos, at[w].seen)
      BY <1>0, <1>1, <1>2, <1>10, <3>2, PlacesStep DEF IsChunkLoaded
    <3> QED
      BY <2>3, <3>1, <3>2
  <2> QED
    BY <1>4, <1>10, <2>2, <2>4 DEF IsChunkLoaded
<1>11. CASE ReadState(w)
  <2>1. at[w].pc = "generate" /\ at[w].pos \in Positions
    BY <1>2, <1>11 DEF ReadState
  <2>2. columns[at[w].pos].state \in Stages \cup {"none", "READY"}
    BY <1>0, <2>1 DEF ColumnType
  <2>3. CASE IsReady(at[w].pos)
    <3>1. PlacesOK'
      BY <1>0, <1>1, <1>2, <1>11, <2>1, <2>3, WorkerMoves, PlacesStep
    <3> QED
      BY <1>0, <1>4, <1>11, <3>1 DEF ReadState
  <2>4. CASE ~IsReady(at[w].pos)
    <3>1. columns[at[w].pos].state # "none"
      BY <2>1 DEF IInv, AddedInv, Generating
    <3>2. PlacesOK'
      BY <1>0, <1>1, <1>2, <1>11, <2>1, <2>2, <2>4, <3>1, WorkerMoves, PlacesStep DEF IsReady
    <3> QED
      BY <1>0, <1>4, <1>11, <3>2 DEF ReadState
  <2> QED
    BY <2>3, <2>4

<1>12. CASE RunStage(w)
  <2>1. at[w].pc = "stage" /\ at[w].pos \in Positions /\ at[w].seen \in Stages
    BY <1>2, <1>4, <1>12 DEF RunStage, PlacesOK
  <2> DEFINE written == columns[at[w].pos].written
             c == [state |-> StageAfter(at[w].seen), written |-> Written(written, at[w].seen),
                   lit |-> columns[at[w].pos].lit]
  <2>2. written \in Seq(Writes) /\ columns[at[w].pos].lit \in BOOLEAN
    BY <1>0, <2>1 DEF ColumnType
  <2>3. Written(written, at[w].seen) \in Seq(Writes)
    <3>1. {"raw", "lakes", "local", "vegetal"} \subseteq Writes /\ <<"raw">> \in Seq(Writes)
      BY DEF Writes
    <3>2. \A kind \in Writes : Append(written, kind) \in Seq(Writes)
      BY <2>2, AppendProperties
    <3> QED
      BY <2>2, <3>1, <3>2 DEF Written
  <2>4. c \in ColumnType
    BY <2>1, <2>2, <2>3, StageAfterType DEF ColumnType
  <2>5. Column(at[w].pos, c)
    BY <1>0, <1>12, ColumnChanges
  <2>6. columns' \in [Positions -> ColumnType]
    BY <1>0, <2>1, <2>4, <2>5, ColumnStep
  <2>7. PlacesOK'
    BY <1>0, <1>1, <1>2, <1>12, <2>1, WorkerMoves, PlacesStep
  <2> QED
    BY <1>4, <1>12, <2>6, <2>7 DEF RunStage
<1>13. CASE GenerateFlat(w)
  <2>1. at[w].pc = "generate" /\ at[w].pos \in Positions
    BY <1>2, <1>13 DEF GenerateFlat
  <2>2. columns[at[w].pos].written \in Seq(Writes) /\ columns[at[w].pos].lit \in BOOLEAN
    BY <1>0, <2>1 DEF ColumnType
  <2>3. ASSUME NEW flat \in FlatWrites
        PROVE  [state |-> "READY", written |-> Append(columns[at[w].pos].written, flat),
                lit |-> columns[at[w].pos].lit] \in ColumnType
    <3>1. flat \in Writes
      BY <2>3 DEF Writes, FlatWrites
    <3>2. Append(columns[at[w].pos].written, flat) \in Seq(Writes)
      BY <2>2, <3>1, AppendProperties
    <3> QED
      BY <2>2, <3>2 DEF ColumnType
  <2>4. columns' \in [Positions -> ColumnType]
    BY <1>0, <1>13, <2>1, <2>3, ColumnChanges, ColumnStep
  <2>5. PlacesOK'
    BY <1>0, <1>1, <1>2, <1>13, <2>1, WorkerMoves, PlacesStep
  <2> QED
    BY <1>4, <1>13, <2>4, <2>5 DEF GenerateFlat
<1>14. CASE RecalculateSkyLight(w)
  <2>1. at[w].pos \in Positions
    BY <1>2, <1>14 DEF RecalculateSkyLight
  <2>2. [columns[at[w].pos] EXCEPT !.lit = TRUE] \in ColumnType
    BY <1>0, <2>1 DEF ColumnType
  <2>3. columns' \in [Positions -> ColumnType]
    BY <1>0, <1>14, <2>1, <2>2, ColumnChanges, ColumnStep
  <2>4. PlacesOK'
    BY <1>0, <1>14, WorkerMoves, PlacesStep
  <2> QED
    BY <1>4, <1>14, <2>3, <2>4 DEF RecalculateSkyLight
<1> QED
  BY <1>0, <1>4, <1>5, <1>6, <1>7, <1>8, <1>9, <1>10, <1>11, <1>12, <1>13, <1>14 DEF Step

\* Places read off a move.
LEMMA Place ==
    ASSUME NEW w, NEW pc, NEW pos, NEW seen, Moves(w, pc, pos, seen)
    PROVE  /\ at'[w].pc = pc /\ at'[w].pos = pos /\ at'[w].seen = seen
           /\ \A v \in Workers \ {w} : at'[v] = at[v]
  BY DEF Moves

LEMMA Changed ==
    ASSUME NEW p, NEW c, Column(p, c)
    PROVE  columns'[p] = c /\ \A q \in Positions \ {p} : columns'[q] = columns[q]
  BY DEF Column

\* _accessMutex is taken by the worker that puts the region in the store, and given
\* back when nothing is left to read.
LEMMA RegionStep ==
    ASSUME IInv, NEW w \in Workers, Step(w)
    PROVE  RegionInv'
<1>0. TypeOK /\ RegionInv /\ None \notin Workers /\ toRead \subseteq Saved \cup Partial /\ regionLoaded \in BOOLEAN
  BY ColumnsAssumption DEF IInv, TypeOK
<1> USE DEF RegionInv, Reading, Generating
<1>1. ASSUME NEW p \in Positions, GenerateChunk(w, p) PROVE RegionInv'
  <2>1. Moves(w, "region", p, "none") /\ at[w].pc = "idle"
    BY <1>0, <1>1, WorkerMoves
  <2> QED
    BY <1>0, <1>1, <2>1, Place DEF GenerateChunk
<1>2. CASE LoadRegion(w)
  <2>1. Moves(w, IF regionLoaded THEN "loaded?" ELSE "reading", at[w].pos, at[w].seen)
    BY <1>0, <1>2, WorkerMoves
  <2>2. CASE regionLoaded
    <3>1. at'[w].pc = "loaded?" /\ \A v \in Workers \ {w} : at'[v] = at[v]
      BY <2>1, <2>2, Place
    <3>2. at[w].pc = "region" /\ accessMutex = None /\ UNCHANGED <<regionLoaded, accessMutex, toRead>>
      BY <1>2, <2>2 DEF LoadRegion
    <3> QED
      BY <1>0, <2>2, <3>1, <3>2
  <2>3. CASE ~regionLoaded
    <3>1. at'[w].pc = "reading" /\ \A v \in Workers \ {w} : at'[v] = at[v]
      BY <2>1, <2>3, Place
    <3>2. /\ at[w].pc = "region" /\ accessMutex = None
          /\ regionLoaded' = TRUE /\ accessMutex' = w /\ UNCHANGED toRead
      BY <1>2, <2>3 DEF LoadRegion
    <3> QED
      BY <1>0, <2>3, <3>1, <3>2
  <2> QED
    BY <2>2, <2>3
<1>3. ASSUME NEW p \in Positions, RegionAddsColumn(w, p) PROVE RegionInv'
  <2>1. /\ at[w].pc = "reading" /\ p \in toRead /\ toRead' = toRead \ {p}
        /\ UNCHANGED <<regionLoaded, accessMutex>>
    BY <1>3 DEF RegionAddsColumn
  <2>2. accessMutex = w /\ regionLoaded
    BY <1>0, <2>1
  <2>3. at'[w].pc \in {"reading", "sections"} /\ \A v \in Workers \ {w} : at'[v] = at[v]
    <3>1. CASE p \in Partial
      BY <1>3, <2>1, <3>1 DEF RegionAddsColumn
    <3>2. CASE p \notin Partial
      BY <1>0, <1>3, <3>2, WorkerMoves, Place
    <3> QED
      BY <3>1, <3>2
  <2> QED
    BY <1>0, <2>1, <2>2, <2>3
<1>4. CASE RegionFillsColumn(w)
  <2>1. Moves(w, "reading", at[w].pos, "none")
    BY <1>0, <1>4, WorkerMoves
  <2> QED
    BY <1>0, <1>4, <2>1, Place DEF RegionFillsColumn
<1>5. CASE RegionRead(w)
  <2>1. Moves(w, "loaded?", at[w].pos, at[w].seen)
    BY <1>0, <1>5, WorkerMoves
  <2> QED
    BY <1>0, <1>5, <2>1, Place DEF RegionRead
<1>6. ASSUME IsChunkLoaded(w) \/ ReadState(w) \/ RunStage(w) \/ GenerateFlat(w) \/ RecalculateSkyLight(w)
      PROVE  RegionInv'
  <2>1. at'[w].pc \in {"idle", "generate", "stage", "light"} /\ \A v \in Workers \ {w} : at'[v] = at[v]
    <3>1. \E pc \in {"idle", "generate", "stage", "light"} : \E pos, seen : Moves(w, pc, pos, seen)
      BY <1>0, <1>6, WorkerMoves
    <3> QED
      BY <3>1, Place
  <2>2. /\ at[w].pc \in {"loaded?", "generate", "stage", "light"}
        /\ UNCHANGED <<regionLoaded, accessMutex, toRead>>
    BY <1>6 DEF IsChunkLoaded, ReadState, RunStage, GenerateFlat, RecalculateSkyLight
  <2> QED
    BY <1>0, <2>1, <2>2
<1> QED
  BY <1>1, <1>2, <1>3, <1>4, <1>5, <1>6 DEF Step

\* Saved columns are read before anyone asks for them, so nobody generates them.
LEMMA SavedStep ==
    ASSUME IInv, NEW w \in Workers, Step(w)
    PROVE  SavedInv'
<1>0. /\ TypeOK /\ RegionInv /\ SavedInv /\ w # None /\ toRead \subseteq Saved \cup Partial
      /\ Saved \subseteq Positions /\ Saved \cap Partial = {}
      /\ NoColumn.state = "none" /\ NewColumn.state = "INITIALIZED" /\ SavedColumn.state = "READY"
  <2>1. NewColumn.state = "INITIALIZED"
    BY NewColumnIs
  <2> QED
    BY <2>1, ColumnsAssumption DEF IInv, TypeOK, NoColumn, SavedColumn
<1> USE DEF SavedInv, Generating
<1>1. ASSUME NEW p \in Positions, GenerateChunk(w, p) PROVE SavedInv'
  <2>1. Moves(w, "region", p, "none") /\ at[w].pc = "idle"
    BY <1>0, <1>1, WorkerMoves
  <2> QED
    BY <1>0, <1>1, <2>1, Place DEF GenerateChunk
<1>2. CASE LoadRegion(w)
  <2>1. \E pc \in {"loaded?", "reading"} : Moves(w, pc, at[w].pos, at[w].seen)
    BY <1>0, <1>2, WorkerMoves
  <2> QED
    BY <1>0, <1>2, <2>1, Place DEF LoadRegion
<1>3. ASSUME NEW p \in Positions, RegionAddsColumn(w, p) PROVE SavedInv'
  <2>1. CASE p \in Partial
    BY <1>0, <1>3, <2>1 DEF RegionAddsColumn
  <2>2. CASE p \notin Partial
    <3>1. /\ at'[w].pc = "sections" /\ at'[w].seen = p /\ at'[w].pos = at[w].pos
          /\ \A v \in Workers \ {w} : at'[v] = at[v]
      BY <1>0, <1>3, <2>2, WorkerMoves, Place
    <3>2. columns'[p] = Added(p) /\ \A q \in Positions \ {p} : columns'[q] = columns[q]
      BY <1>0, <1>3, <2>2, ColumnChanges, ZenonT(40) DEF Column
    <3>3. p \in Saved /\ p \in toRead /\ toRead' = toRead \ {p} /\ at[w].pc = "reading"
      BY <1>0, <1>3, <2>2 DEF RegionAddsColumn
    <3>4. columns'[p] = NewColumn
      BY <1>0, <3>2, <3>3 DEF Added
    <3>5. ASSUME NEW q \in Saved, q # p
          PROVE  /\ q \in toRead' => columns'[q] = NoColumn
                 /\ q \notin toRead' => \/ columns'[q] = SavedColumn
                                        \/ /\ columns'[q] = NewColumn
                                           /\ \E v \in Workers : at'[v].pc = "sections" /\ at'[v].seen = q
      BY <1>0, <3>1, <3>2, <3>3, <3>5
    <3> QED
      BY <1>0, <3>1, <3>3, <3>4, <3>5
  <2> QED
    BY <2>1, <2>2
<1>4. CASE RegionFillsColumn(w)
  <2> DEFINE s == at[w].seen
  <2>1. /\ at'[w].pc = "reading" /\ at'[w].pos = at[w].pos
        /\ \A v \in Workers \ {w} : at'[v] = at[v]
    BY <1>0, <1>4, WorkerMoves, Place
  <2>2. columns'[s] = SavedColumn /\ \A q \in Positions \ {s} : columns'[q] = columns[q]
    BY <1>0, <1>4, ColumnChanges DEF Column
  <2>3. at[w].pc = "sections" /\ s \in Saved /\ toRead' = toRead
    BY <1>0, <1>4 DEF RegionFillsColumn, TypeOK
  <2>4. s \notin toRead
    BY <1>0, <2>3
  <2> QED
    BY <1>0, <2>1, <2>2, <2>3, <2>4
<1>5. CASE RegionRead(w)
  <2>1. Moves(w, "loaded?", at[w].pos, at[w].seen)
    BY <1>0, <1>5, WorkerMoves
  <2> QED
    BY <1>0, <1>5, <2>1, Place DEF RegionRead

<1>6. CASE IsChunkLoaded(w)
  <2>1. at[w].pc = "loaded?" /\ toRead' = toRead /\ at[w].pos \in Positions
    BY <1>0, <1>6 DEF IsChunkLoaded, TypeOK
  <2>2. toRead = {} /\ \A v \in Workers : at[v].pc # "sections"
    BY <1>0, <2>1, ColumnsAssumption DEF RegionInv, Reading
  <2>3. at[w].pos \in Saved => IsReady(at[w].pos)
    BY <1>0, <2>2 DEF IsReady
  <2>4. \A v \in Workers \ {w} : at'[v] = at[v]
    BY <1>0, <1>6, WorkerMoves DEF Moves
  <2>5. \/ at'[w].pc = "idle"
        \/ at'[w].pc = "generate" /\ at'[w].pos = at[w].pos /\ ~IsReady(at[w].pos)
    BY <1>0, <1>6, WorkerMoves, Place
  <2>6. \A q \in Saved : columns'[q] = columns[q]
    <3>1. IF IsReady(at[w].pos) THEN columns' = columns ELSE Column(at[w].pos, Added(at[w].pos))
      BY <1>0, <1>6, ColumnChanges
    <3> QED
      BY <1>0, <2>1, <2>3, <3>1, Changed
  <2> QED
    BY <1>0, <2>1, <2>2, <2>3, <2>4, <2>5, <2>6
<1>7. ASSUME ReadState(w) \/ RunStage(w) \/ GenerateFlat(w) \/ RecalculateSkyLight(w)
      PROVE  SavedInv'
  <2>1. /\ at[w].pc \in Generating /\ toRead' = toRead /\ at[w].pos \in Positions \ Saved
        /\ \A v \in Workers : at[v].pc # "sections"
    <3>1. at[w].pc \in Generating /\ toRead' = toRead
      BY <1>7 DEF ReadState, RunStage, GenerateFlat, RecalculateSkyLight
    <3>2. at[w].pos \in Positions \ Saved
      BY <1>0, <3>1 DEF TypeOK
    <3>3. \A v \in Workers : at[v].pc # "sections"
      BY <1>0, <3>1, ColumnsAssumption DEF RegionInv, Reading
    <3> QED
      BY <3>1, <3>2, <3>3
  <2>2. \A q \in Saved : columns'[q] = columns[q]
    <3>1. CASE ReadState(w)
      BY <3>1 DEF ReadState
    <3>2. CASE RunStage(w) \/ GenerateFlat(w) \/ RecalculateSkyLight(w)
      <4>1. columns' = columns \/ \E c : Column(at[w].pos, c)
        BY <1>0, <3>2, ColumnChanges
      <4> QED
        BY <1>0, <2>1, <4>1 DEF Column
    <3> QED
      BY <1>7, <3>1, <3>2
  <2>3. \E pc \in {"idle", "generate", "stage", "light"} : \E pos \in {None, at[w].pos} : \E seen :
           Moves(w, pc, pos, seen)
    BY <1>0, <1>7, WorkerMoves
  <2>4. /\ at'[w].pc # "sections" /\ at'[w].pos \in {None, at[w].pos}
        /\ \A v \in Workers \ {w} : at'[v] = at[v]
    BY <2>3, Place
  <2>5. None \notin Saved
    BY <1>0, ColumnsAssumption
  <2> QED
    BY <1>0, <2>1, <2>2, <2>4, <2>5
<1> QED
  BY <1>1, <1>2, <1>3, <1>4, <1>5, <1>6, <1>7 DEF Step

\* Whoever adds a column, makes it READY or sets it back is there to go on with it.
LEMMA WorkStep ==
    ASSUME IInv, NEW w \in Workers, Step(w)
    PROVE  AddedInv' /\ LightInv' /\ ReadyInv'
<1>0. /\ TypeOK /\ AddedInv /\ LightInv /\ ReadyInv /\ SavedInv /\ started \in [Positions -> Nat]
      /\ Saved \subseteq Positions /\ None \notin Positions
      /\ \A v \in Workers : at[v].pos \in Positions \cup {None}
      /\ \A v \in Workers : at[v].pc = "idle" <=> at[v].pos = None
      /\ NoColumn.state = "none" /\ NewColumn.state = "INITIALIZED"
      /\ SavedColumn.state = "READY" /\ SavedColumn.lit
  <2>1. NewColumn.state = "INITIALIZED"
    BY NewColumnIs
  <2>2. TypeOK /\ started \in [Positions -> Nat] /\ \A v \in Workers : at[v].pos \in Positions \cup {None}
    BY DEF IInv, TypeOK
  <2> QED
    BY <2>1, <2>2, ColumnsAssumption DEF IInv, TypeOK, NoColumn, SavedColumn
<1>1. ASSUME NEW p \in Positions, GenerateChunk(w, p) PROVE AddedInv' /\ LightInv' /\ ReadyInv'
  <2>1. /\ at[w].pc = "idle" /\ at'[w].pc = "region" /\ at'[w].pos = p
        /\ \A v \in Workers \ {w} : at'[v] = at[v]
    BY <1>0, <1>1, WorkerMoves, Place
  <2>2. started' = [started EXCEPT ![p] = @ + 1] /\ UNCHANGED <<columns, world>>
    BY <1>1 DEF GenerateChunk
  <2>3. \A q \in Positions \ {p} : started'[q] = started[q]
    BY <1>0, <2>2
  <2> QED
    BY <1>0, <2>1, <2>2, <2>3
       DEF AddedInv, LightInv, ReadyInv, Asking, Generating, IsReady, Generates
<1>2. CASE LoadRegion(w) \/ RegionRead(w)
  <2>1. \E pc \in {"loaded?", "reading"} : Moves(w, pc, at[w].pos, at[w].seen)
    BY <1>0, <1>2, WorkerMoves
  <2>2. /\ at'[w].pc \in {"loaded?", "reading"} /\ at'[w].pos = at[w].pos
        /\ \A v \in Workers \ {w} : at'[v] = at[v]
    BY <2>1, Place
  <2>3. at[w].pc \in {"region", "reading"} /\ UNCHANGED <<columns, world, started>>
    BY <1>2 DEF LoadRegion, RegionRead
  <2> QED
    BY <1>0, <2>2, <2>3
       DEF AddedInv, LightInv, ReadyInv, Asking, Generating, IsReady, Generates
<1>3. ASSUME NEW p \in Positions, RegionAddsColumn(w, p) PROVE AddedInv' /\ LightInv' /\ ReadyInv'
  <2>1. CASE p \in Partial
    BY <1>0, <1>3, <2>1 DEF RegionAddsColumn, AddedInv, LightInv, ReadyInv, IsReady, Generates
  <2>2. CASE p \notin Partial
    <3>1. /\ at'[w].pc = "sections" /\ at'[w].pos = at[w].pos
          /\ \A v \in Workers \ {w} : at'[v] = at[v]
      BY <1>0, <1>3, <2>2, WorkerMoves, Place
    <3>2. columns'[p] = Added(p) /\ \A q \in Positions \ {p} : columns'[q] = columns[q]
      BY <1>0, <1>3, <2>2, ColumnChanges, Changed
    <3>3. at[w].pc = "reading" /\ p \in toRead /\ UNCHANGED <<world, started>>
      BY <1>3 DEF RegionAddsColumn
    <3>4. p \in Saved /\ columns[p] = NoColumn /\ columns'[p] = NewColumn
      BY <1>0, <2>2, <3>2, <3>3 DEF Added, SavedInv, TypeOK
    <3> QED
      BY <1>0, <3>1, <3>2, <3>3, <3>4
         DEF AddedInv, LightInv, ReadyInv, Asking, Generating, IsReady, Generates
  <2> QED
    BY <2>1, <2>2
<1>4. CASE RegionFillsColumn(w)
  <2>1. /\ at'[w].pc = "reading" /\ at'[w].pos = at[w].pos
        /\ \A v \in Workers \ {w} : at'[v] = at[v]
    BY <1>0, <1>4, WorkerMoves, Place
  <2>2. columns'[at[w].seen] = SavedColumn /\ \A q \in Positions \ {at[w].seen} : columns'[q] = columns[q]
    BY <1>0, <1>4, ColumnChanges, Changed
  <2>3. at[w].pc = "sections" /\ UNCHANGED <<world, started>>
    BY <1>4 DEF RegionFillsColumn
  <2> QED
    BY <1>0, <2>1, <2>2, <2>3
       DEF AddedInv, LightInv, ReadyInv, Asking, Generating, IsReady, Generates
<1>5. CASE IsChunkLoaded(w)
  <2> DEFINE p == at[w].pos
  <2>0. at[w].pc = "loaded?" /\ p \in Positions /\ UNCHANGED <<world, started>>
    BY <1>0, <1>5 DEF IsChunkLoaded
  <2>1. CASE IsReady(p)
    <3>1. at'[w].pc = "idle" /\ (\A v \in Workers \ {w} : at'[v] = at[v]) /\ columns' = columns
      <4>1. columns' = columns
        BY <1>0, <1>5, <2>1, ColumnChanges
      <4>2. Moves(w, "idle", None, "none")
        BY <1>0, <1>5, <2>1, WorkerMoves
      <4> QED
        BY <4>1, <4>2, Place
    <3> QED
      BY <1>0, <2>0, <2>1, <3>1
         DEF AddedInv, LightInv, ReadyInv, Asking, Generating, IsReady, Generates
  <2>2. CASE ~IsReady(p)
    <3>1. columns'[p] = Added(p) /\ \A q \in Positions \ {p} : columns'[q] = columns[q]
      BY <1>0, <1>5, <2>2, ColumnChanges, Changed
    <3>2. columns'[p].state # "READY"
      BY <1>0, <2>2, <3>1 DEF Added, IsReady
    <3>3. columns'[p].state # "none"
      <4>1. columns[p] # NoColumn => columns[p].state # "none"
        BY <1>0, <2>0 DEF AddedInv
      <4> QED
        BY <1>0, <3>1, <4>1 DEF Added
    <3>4. \A v \in Workers \ {w} : at'[v] = at[v]
      BY <1>0, <1>5, WorkerMoves DEF Moves
    <3>5. IF world.generation THEN at'[w].pc = "generate" /\ at'[w].pos = p ELSE at'[w].pc = "idle"
      BY <1>0, <1>5, <2>2, WorkerMoves, Place
    <3> QED
      BY <1>0, <2>0, <2>2, <3>1, <3>2, <3>3, <3>4, <3>5
         DEF AddedInv, LightInv, ReadyInv, Asking, Generating, IsReady, Generates
  <2> QED
    BY <2>1, <2>2
<1>6. CASE ReadState(w)
  <2> DEFINE p == at[w].pos
  <2>0. at[w].pc = "generate" /\ p \in Positions /\ UNCHANGED <<world, started, columns>>
    BY <1>0, <1>6 DEF ReadState
  <2>1. /\ IF IsReady(p) THEN at'[w].pc = "light" ELSE at'[w].pc = "stage"
        /\ at'[w].pos = p /\ \A v \in Workers \ {w} : at'[v] = at[v]
    BY <1>0, <1>6, WorkerMoves, Place
  <2> QED
    BY <1>0, <2>0, <2>1
       DEF AddedInv, LightInv, ReadyInv, Asking, Generating, IsReady, Generates
<1>7. CASE RunStage(w)
  <2> DEFINE p == at[w].pos
  <2>0. at[w].pc = "stage" /\ p \in Positions /\ at[w].seen \in Stages /\ UNCHANGED <<world, started>>
    BY <1>0, <1>7 DEF RunStage, TypeOK
  <2>1. at'[w].pc = "generate" /\ at'[w].pos = p /\ \A v \in Workers \ {w} : at'[v] = at[v]
    BY <1>0, <1>7, WorkerMoves, Place
  <2>2. columns'[p].state = StageAfter(at[w].seen) /\ \A q \in Positions \ {p} : columns'[q] = columns[q]
    <3>1. \E written, lit : Column(p, [state |-> StageAfter(at[w].seen), written |-> written, lit |-> lit])
      BY <1>0, <1>7, ColumnChanges
    <3> QED
      BY <3>1, Changed
  <2>3. columns'[p].state # "none"
    BY <2>0, <2>2, StageWrites
  <2> QED
    BY <1>0, <2>0, <2>1, <2>2, <2>3
       DEF AddedInv, LightInv, ReadyInv, Asking, Generating, IsReady, Generates
<1>8. CASE GenerateFlat(w)
  <2> DEFINE p == at[w].pos
  <2>0. at[w].pc = "generate" /\ p \in Positions /\ UNCHANGED <<world, started>>
    BY <1>0, <1>8 DEF GenerateFlat
  <2>1. at'[w].pc = "light" /\ at'[w].pos = p /\ \A v \in Workers \ {w} : at'[v] = at[v]
    BY <1>0, <1>8, WorkerMoves, Place
  <2>2. \/ columns' = columns /\ ~Generates
        \/ columns'[p].state = "READY" /\ \A q \in Positions \ {p} : columns'[q] = columns[q]
    <3>1. \/ columns' = columns /\ ~Generates
          \/ \E written, lit : Column(p, [state |-> "READY", written |-> written, lit |-> lit])
      BY <1>0, <1>8, ColumnChanges
    <3>2. ASSUME NEW written, NEW lit, Column(p, [state |-> "READY", written |-> written, lit |-> lit])
          PROVE  columns'[p].state = "READY" /\ \A q \in Positions \ {p} : columns'[q] = columns[q]
      BY <3>2, Changed
    <3> QED
      BY <3>1, <3>2
  <2>3. CASE columns' = columns /\ ~Generates
    BY <1>0, <2>0, <2>1, <2>3 DEF AddedInv, LightInv, ReadyInv, Asking, Generating, IsReady, Generates
  <2>4. CASE columns'[p].state = "READY" /\ \A q \in Positions \ {p} : columns'[q] = columns[q]
    BY <1>0, <2>0, <2>1, <2>4 DEF AddedInv, LightInv, ReadyInv, Asking, Generating, IsReady, Generates
  <2> QED
    BY <2>2, <2>3, <2>4
<1>9. CASE RecalculateSkyLight(w)
  <2> DEFINE p == at[w].pos
  <2>0. at[w].pc = "light" /\ p \in Positions /\ UNCHANGED <<world, started>>
    BY <1>0, <1>9 DEF RecalculateSkyLight
  <2>1. at'[w].pc = "idle" /\ \A v \in Workers \ {w} : at'[v] = at[v]
    BY <1>0, <1>9, WorkerMoves, Place
  <2>2. columns[p] \in [state : Stages \cup {"none", "READY"}, written : Seq(Writes), lit : BOOLEAN]
    BY <1>0, <2>0 DEF TypeOK
  <2>3. columns'[p].state = columns[p].state /\ columns'[p].lit /\ \A q \in Positions \ {p} : columns'[q] = columns[q]
    <3> DEFINE c == [columns[p] EXCEPT !.lit = TRUE]
    <3>1. c.state = columns[p].state /\ c.lit
      BY <2>2
    <3>2. Column(p, c)
      BY <1>0, <1>9, ColumnChanges
    <3> HIDE DEF c
    <3> QED
      BY <3>1, <3>2, Changed
  <2> QED
    BY <1>0, <2>0, <2>1, <2>3
       DEF AddedInv, LightInv, ReadyInv, Asking, Generating, IsReady, Generates
<1> QED
  BY <1>1, <1>2, <1>3, <1>4, <1>5, <1>6, <1>7, <1>8, <1>9 DEF Step

\* Columns are changed only by a worker that is there, or when the region is read.
LEMMA OthersStay ==
    ASSUME IInv, NEW w \in Workers, Step(w), NEW q \in Positions \ Saved, at[w].pos # q
    PROVE  columns'[q] = columns[q]
<1>0. TypeOK
  BY DEF IInv
<1>1. ASSUME NEW p \in Positions, RegionAddsColumn(w, p) PROVE columns'[q] = columns[q]
  <2>1. CASE p \in Partial
    BY <1>1, <2>1 DEF RegionAddsColumn
  <2>2. CASE p \notin Partial
    <3>1. p # q
      BY <1>0, <1>1, <2>2 DEF RegionAddsColumn, TypeOK
    <3> QED
      BY <1>0, <1>1, <2>2, <3>1, ColumnChanges, Changed
  <2> QED
    BY <2>1, <2>2
<1>2. CASE RegionFillsColumn(w)
  <2>1. at[w].seen # q
    BY <1>0, <1>2 DEF RegionFillsColumn, TypeOK
  <2> QED
    BY <1>0, <1>2, <2>1, ColumnChanges, Changed
<1>3. CASE IsChunkLoaded(w) \/ RunStage(w) \/ GenerateFlat(w) \/ RecalculateSkyLight(w)
  <2>1. columns' = columns \/ \E c : Column(at[w].pos, c)
    BY <1>0, <1>3, ColumnChanges
  <2> QED
    BY <2>1, Changed
<1>4. CASE LoadRegion(w) \/ RegionRead(w) \/ ReadState(w) \/ \E p \in Positions : GenerateChunk(w, p)
  BY <1>4 DEF LoadRegion, RegionRead, ReadState, GenerateChunk
<1> QED
  BY <1>1, <1>2, <1>3, <1>4 DEF Step

\* A worker stays at its position until it is done.
LEMMA PositionStays ==
    ASSUME TypeOK, NEW w \in Workers, Step(w)
    PROVE  /\ \A v \in Workers \ {w} : at'[v] = at[v]
           /\ at'[w].pos \in {None, at[w].pos} \/ \E p \in Positions : GenerateChunk(w, p)
           /\ world' = world
<1>1. world' = world
  BY DEF Step, GenerateChunk, LoadRegion, RegionAddsColumn, RegionFillsColumn, RegionRead, IsChunkLoaded, ReadState,
         RunStage, GenerateFlat, RecalculateSkyLight
<1>2. ASSUME NEW p \in Positions, RegionAddsColumn(w, p), p \in Partial
      PROVE  at' = at
  BY <1>2 DEF RegionAddsColumn
<1>3. ASSUME NEW p \in Positions, GenerateChunk(w, p)
      PROVE  \A v \in Workers \ {w} : at'[v] = at[v]
  BY <1>3, WorkerMoves, Place
<1>4. ASSUME NEW p \in Positions, RegionAddsColumn(w, p), p \notin Partial
      PROVE  Moves(w, "sections", at[w].pos, p)
  BY <1>4, WorkerMoves
<1>5. CASE \/ LoadRegion(w) \/ RegionFillsColumn(w) \/ RegionRead(w) \/ IsChunkLoaded(w) \/ ReadState(w)
           \/ RunStage(w) \/ GenerateFlat(w) \/ RecalculateSkyLight(w)
  <2>1. \E pc, pos, seen : pos \in {None, at[w].pos} /\ Moves(w, pc, pos, seen)
    BY <1>5, WorkerMoves
  <2> QED
    BY <1>1, <2>1, Place
<1> QED
  BY <1>1, <1>2, <1>3, <1>4, <1>5, Place DEF Step

\* A job that is alone at its column finds it as the stage before left it.
LEMMA AloneStep ==
    ASSUME IInv, NEW w \in Workers, Step(w)
    PROVE  AloneInv'
<1> SUFFICES ASSUME NEW q \in Positions \ Saved
             PROVE  /\ started'[q] = 0 => columns'[q] = NoColumn /\ Quiet(q)'
                    /\ started'[q] = 1 => Undisturbed(q)'
  BY DEF AloneInv
<1>0. /\ TypeOK /\ AloneInv /\ AddedInv /\ started \in [Positions -> Nat] /\ None \notin Positions
      /\ columns[q] \in [state : Stages \cup {"none", "READY"}, written : Seq(Writes), lit : BOOLEAN]
      /\ \A v \in Workers : at[v].pc = "idle" <=> at[v].pos = None
  BY ColumnsAssumption DEF IInv, TypeOK
<1>1. /\ started[q] = 0 => columns[q] = NoColumn /\ Quiet(q)
      /\ started[q] = 1 => Undisturbed(q)
  BY <1>0 DEF AloneInv
<1>2. world' = world /\ \A v \in Workers \ {w} : at'[v] = at[v]
  BY <1>0, PositionStays
<1>3. ASSUME NEW p \in Positions, GenerateChunk(w, p)
      PROVE  /\ started'[q] = 0 => columns'[q] = NoColumn /\ Quiet(q)'
             /\ started'[q] = 1 => Undisturbed(q)'
  <2>1. at[w].pc = "idle" /\ at'[w].pc = "region" /\ at'[w].pos = p
    BY <1>0, <1>3, WorkerMoves, Place
  <2>2. started' = [started EXCEPT ![p] = started[p] + 1] /\ columns' = columns
    BY <1>3 DEF GenerateChunk
  <2>3. at[w].pos # q
    BY <1>0, <2>1
  <2>4. CASE p # q
    <3>1. started'[q] = started[q] /\ at'[w].pos # q
      BY <1>0, <2>1, <2>2, <2>4
    <3> QED
      BY <1>1, <1>2, <2>2, <2>3, <3>1 DEF Quiet, Undisturbed
  <2>5. CASE p = q
    <3>1. started'[q] = started[q] + 1 /\ started[q] \in Nat
      BY <1>0, <2>2, <2>5
    <3>2. SUFFICES ASSUME started[q] = 0 PROVE Undisturbed(q)'
      BY <3>1
    <3>3. columns'[q].state = "none" /\ columns'[q].written = <<>> /\ \A v \in Workers \ {w} : at'[v].pos # q
      BY <1>1, <1>2, <2>2, <3>2 DEF NoColumn, Quiet
    <3>4. WrittenAt("none") = <<>>
      BY DEF WrittenAt
    <3> QED
      BY <2>1, <3>3, <3>4 DEF Undisturbed
  <2> QED
    BY <2>4, <2>5
<1>4. ASSUME ~ \E p \in Positions : GenerateChunk(w, p)
      PROVE  /\ started'[q] = 0 => columns'[q] = NoColumn /\ Quiet(q)'
             /\ started'[q] = 1 => Undisturbed(q)'
  <2>1. started' = started /\ at'[w].pos \in {None, at[w].pos}
    <3>1. started' = started
      BY <1>4 DEF Step, LoadRegion, RegionAddsColumn, RegionFillsColumn, RegionRead, IsChunkLoaded, ReadState,
                  RunStage, GenerateFlat, RecalculateSkyLight
    <3> QED
      BY <1>0, <1>4, <3>1, PositionStays
  <2>2. CASE at[w].pos # q
    <3>1. columns'[q] = columns[q] /\ at'[w].pos # q
      BY <1>0, <2>1, <2>2, OthersStay
    <3> QED
      BY <1>1, <1>2, <2>1, <2>2, <3>1 DEF Quiet, Undisturbed
  <2>3. CASE at[w].pos = q
    <3>1. started[q] # 0
      BY <1>1, <2>3 DEF Quiet
    <3> SUFFICES ASSUME started[q] = 1 PROVE Undisturbed(q)'
      BY <2>1, <3>1
    <3>2. Undisturbed(q)
      BY <1>1
    <3>3. \A v \in Workers \ {w} : at'[v].pos # q
      BY <1>2, <2>3, <3>2 DEF Undisturbed
    <3>4. CASE LoadRegion(w) \/ RegionRead(w)
      <4>1. \E pc \in {"loaded?", "reading"} : Moves(w, pc, at[w].pos, at[w].seen)
        BY <1>0, <3>4, WorkerMoves
      <4>2. at'[w].pc \in {"loaded?", "reading"} /\ columns' = columns
        BY <3>4, <4>1, Place DEF LoadRegion, RegionRead
      <4> QED
        BY <1>2, <3>2, <3>3, <4>2 DEF Undisturbed
    <3>5. ASSUME NEW p \in Positions, RegionAddsColumn(w, p) PROVE Undisturbed(q)'
      <4>1. CASE p \in Partial
        BY <1>2, <3>2, <3>5, <4>1 DEF RegionAddsColumn, Undisturbed
      <4>2. CASE p \notin Partial
        <5>1. at'[w].pc = "sections"
          BY <1>0, <3>5, <4>2, WorkerMoves, Place
        <5>2. p # q
          BY <1>0, <3>5, <4>2 DEF RegionAddsColumn, TypeOK
        <5>3. columns'[q] = columns[q]
          <6>1. Column(p, Added(p))
            BY <1>0, <3>5, <4>2, ColumnChanges
          <6> QED
            BY <5>2, <6>1, Changed
        <5> QED
          BY <1>2, <3>2, <3>3, <5>1, <5>3 DEF Undisturbed
      <4> QED
        BY <4>1, <4>2
    <3>6. CASE RegionFillsColumn(w)
      <4>1. at'[w].pc = "reading" /\ at[w].seen # q
        <5>1. Moves(w, "reading", at[w].pos, "none")
          BY <1>0, <3>6, WorkerMoves
        <5>2. at[w].seen # q
          BY <1>0, <3>6 DEF RegionFillsColumn, TypeOK
        <5> QED
          BY <5>1, <5>2, Place
      <4>2. columns'[q] = columns[q]
        <5>1. Column(at[w].seen, SavedColumn)
          BY <1>0, <3>6, ColumnChanges
        <5> QED
          BY <4>1, <5>1, Changed
      <4> QED
        BY <1>2, <3>2, <3>3, <4>1, <4>2 DEF Undisturbed
    <3>7. CASE IsChunkLoaded(w)
      <4>1. at'[w].pc \in {"idle", "generate"} /\ (IsReady(q) => at'[w].pc = "idle")
        BY <1>0, <2>3, <3>7, WorkerMoves, Place
      <4>2. CASE IsReady(q)
        BY <1>0, <1>2, <2>3, <3>2, <3>3, <3>7, <4>1, <4>2, ColumnChanges DEF Undisturbed
      <4>3. CASE ~IsReady(q)
        <5>1. columns'[q] = Added(q)
          BY <1>0, <2>3, <3>7, <4>3, ColumnChanges, Changed
        <5>2. CASE columns[q] = NoColumn
          <6>1. columns'[q].state = "INITIALIZED" /\ columns'[q].written = <<>>
            BY <5>1, <5>2, NewColumnIs DEF Added
          <6>2. WrittenAt("INITIALIZED") = <<>>
            BY DEF WrittenAt
          <6> QED
            BY <3>3, <4>1, <6>1, <6>2 DEF Undisturbed
        <5>3. CASE columns[q] # NoColumn
          <6>1. columns'[q] = columns[q] /\ columns[q].state # "none" /\ columns[q].state # "READY"
            BY <1>0, <4>3, <5>1, <5>3 DEF Added, AddedInv, IsReady
          <6> QED
            BY <1>2, <3>2, <3>3, <4>1, <6>1 DEF Undisturbed
        <5> QED
          BY <5>2, <5>3
      <4> QED
        BY <4>2, <4>3
    <3>8. CASE ReadState(w)
      <4>1. world.type = "default" /\ columns' = columns
        BY <3>8 DEF ReadState
      <4>2. \/ at'[w].pc = "light"
            \/ at'[w].pc = "stage" /\ at'[w].seen = columns[q].state
        BY <1>0, <2>3, <3>8, WorkerMoves, Place
      <4> QED
        BY <1>2, <3>2, <3>3, <4>1, <4>2 DEF Undisturbed
    <3>9. CASE RunStage(w)
      <4>1. at[w].pc = "stage" /\ at[w].seen \in Stages
        BY <1>0, <3>9 DEF RunStage, TypeOK
      <4>2. world.type = "default" /\ at[w].seen = columns[q].state /\ columns[q].written = WrittenAt(at[w].seen)
        BY <2>3, <3>2, <4>1 DEF Undisturbed
      <4>3. at'[w].pc = "generate"
        BY <1>0, <3>9, WorkerMoves, Place
      <4>4. Column(q, [state |-> StageAfter(at[w].seen), written |-> Written(columns[q].written, at[w].seen),
                       lit |-> columns[q].lit])
        BY <1>0, <2>3, <3>9, ColumnChanges
      <4>5. /\ columns'[q].state = StageAfter(at[w].seen)
            /\ columns'[q].written = Written(columns[q].written, at[w].seen)
        BY <4>4, Changed
      <4>6. columns'[q].written = WrittenAt(columns'[q].state)
        BY <4>1, <4>2, <4>5, StageWrites
      <4> QED
        BY <1>2, <3>3, <4>2, <4>3, <4>6 DEF Undisturbed
    <3>10. CASE GenerateFlat(w)
      <4>1. at[w].pc = "generate" /\ world.type # "default"
        BY <3>10 DEF GenerateFlat
      <4>2. columns[q].state = "INITIALIZED" /\ columns[q].written = <<>>
        BY <2>3, <3>2, <4>1 DEF Undisturbed
      <4>3. at'[w].pc = "light"
        BY <1>0, <3>10, WorkerMoves, Place
      <4>4. CASE columns' = columns
        BY <1>2, <3>2, <3>3, <4>3, <4>4 DEF Undisturbed
      <4>5. ASSUME NEW flat \in FlatWrites,
                   Column(q, [state |-> "READY", written |-> Append(columns[q].written, flat), lit |-> columns[q].lit])
            PROVE  Undisturbed(q)'
        <5>1. columns'[q].state = "READY" /\ columns'[q].written = Append(columns[q].written, flat)
          BY <4>5, Changed
        <5>2. columns'[q].written = <<flat>>
          BY <4>2, <5>1, AppendTuples
        <5> QED
          BY <1>2, <3>3, <4>1, <4>3, <4>5, <5>1, <5>2 DEF Undisturbed, FlatWrites
      <4> QED
        BY <1>0, <2>3, <3>10, <4>4, <4>5, ColumnChanges
    <3>11. CASE RecalculateSkyLight(w)
      <4> DEFINE c == [columns[q] EXCEPT !.lit = TRUE]
      <4>1. c.state = columns[q].state /\ c.written = columns[q].written
        BY <1>0
      <4>2. Column(q, c)
        BY <1>0, <2>3, <3>11, ColumnChanges
      <4> HIDE DEF c
      <4>3. columns'[q].state = columns[q].state /\ columns'[q].written = columns[q].written
        BY <4>1, <4>2, Changed
      <4>4. at'[w].pc = "idle"
        BY <1>0, <3>11, WorkerMoves, Place
      <4> QED
        BY <1>2, <3>2, <3>3, <4>3, <4>4 DEF Undisturbed
    <3> QED
      BY <1>4, <3>4, <3>5, <3>6, <3>7, <3>8, <3>9, <3>10, <3>11 DEF Step
  <2> QED
    BY <2>2, <2>3
<1> QED
  BY <1>3, <1>4

\* Every step keeps the invariant.
LEMMA Inductive == Spec => []IInv
<1>1. IInv /\ [Next]_vars => IInv'
  <2> SUFFICES ASSUME IInv, [Next]_vars PROVE IInv'
    OBVIOUS
  <2>1. ASSUME NEW w \in Workers, Step(w) PROVE IInv'
    BY <2>1, TypeStep, RegionStep, SavedStep, WorkStep, AloneStep DEF IInv
  <2>2. CASE UNCHANGED vars
    BY <2>2 DEF vars, IInv, TypeOK, AddedInv, RegionInv, SavedInv, LightInv, ReadyInv, AloneInv, Undisturbed, Quiet,
                IsReady, Generates
  <2> QED
    BY <2>1, <2>2 DEF Next
<1> QED
  BY <1>1, InitIInv, PTL DEF Spec

-----------------------------------------------------------------------------

\* For any number of workers, jobs and columns, a column the region file holds
\* complete shows its saved blocks, whoever reads the region and whoever asks for it.
THEOREM SavedIsKept == Spec => []SavedTerrainIsKept
<1>1. IInv => SavedTerrainIsKept
  BY NewColumnIs DEF IInv, SavedInv, SavedTerrainIsKept, IsReady, SavedColumn, NoColumn
<1> QED
  BY <1>1, Inductive, PTL

\* For any number of workers, jobs and columns, whoever is the last to leave a column
\* leaves it READY and lit, although they set each other's state back.
THEOREM LastLeavesItReady == Spec => []LeftReadyAndLit
<1>1. IInv => LeftReadyAndLit
  BY DEF IInv, LightInv, ReadyInv, LeftReadyAndLit, Quiet, Generates
<1> QED
  BY <1>1, Inductive, PTL

\* A column that one job generated is READY only when every stage of its world has
\* written, once and in order; with a terrain that such a pass finishes, it is finished.
THEOREM AloneIsFinished ==
    ASSUME StagesFinish
    PROVE  Spec => []ReadyIsFinished
<1>1. IInv => ReadyIsFinished
  <2> SUFFICES ASSUME IInv, NEW p \in Positions \ Saved, IsReady(p), started[p] = 1, world.type # "debug", NEW noise \in Noises
               PROVE  Finished(BlocksOf(columns[p].written, noise))
    BY DEF ReadyIsFinished
  <2>1. Undisturbed(p)
    BY DEF IInv, AloneInv
  <2>2. WrittenAt("READY") = <<"raw", "lakes", "local", "vegetal">>
    BY DEF WrittenAt
  <2>3. columns[p].written \in CompleteLists
    BY <2>1, <2>2 DEF Undisturbed, IsReady, CompleteLists
  <2> QED
    BY <2>3, StagesFinish DEF StagesFinish
<1> QED
  BY <1>1, Inductive, PTL
=============================================================================
