--------------------------- MODULE ExperienceMemory ---------------------------
(***************************************************************************)
(* mario::KnowledgeMemory (src/examples/mario_dashboard/                   *)
(* experience_memory.hpp): what the dashboard's control process remembers  *)
(* of the frames it is shown, with the game and the runner that show them. *)
(*                                                                         *)
(* One process handles one line at a time, so a line is one action and the *)
(* object is one value, m, which import and reset replace as a whole.  A   *)
(* frame is abstracted to what the memory looks at: where it belongs, what *)
(* the player does, the columns in view, the enemies by slot.  Positions,  *)
(* means and the report of the last frame (learning_delta) are left out;   *)
(* a statistic is the number of its samples.                               *)
(***************************************************************************)
EXTENDS Integers, FiniteSets, SequencesExt

CONSTANTS
  Scenes,      \* what a frame may show, and how long after the frame before it
  Sessions,    \* whether the client reports its session: a set of Booleans
  MaxColumns, MaxTypes,
  MaxLines, MaxRuns, MaxEpochs  \* bounds

\* The longest gap between two frames that still makes a trajectory.
Gap == 4

ASSUME MemoryAssumption ==
  /\ \A s \in Scenes :
       /\ DOMAIN s = {"after", "known", "ground", "leaps", "motion", "dead", "clear",
                        "view", "torn", "foes"}
       /\ s.after \in Nat \ {0} /\ s.motion \in {"up", "down", "level"}
       /\ {s.known, s.ground, s.leaps, s.dead, s.clear, s.torn} \subseteq BOOLEAN
       /\ s.view \in Seq(Range(s.view)) /\ s.foes \in Seq(Range(s.foes))
  /\ Sessions \subseteq BOOLEAN
  /\ MaxColumns \in Nat \ {0} /\ MaxTypes \in Nat \ {0}

VARIABLES
  m,        \* the KnowledgeMemory
  game,     \* what the client's session and RAM say
  seen,     \* the last frame shown
  file,     \* the saved memory, empty at first
  base,     \* history: the outcomes m was loaded with
  counted,  \* history: the outcomes shown to m since
  torn,     \* history: a frame failed half way and none was finished since
  trail,    \* history: the flight the player is in, as far as m was shown it
  lines     \* bound: lines sent to the process, and what happens between them

memory_vars == <<m, game, seen, file, base, counted, torn, trail, lines>>

NoJump == [active |-> FALSE, bounced |-> FALSE, start |-> 0, fell |-> FALSE]
Nothing == <<>>  \* the empty map

\* A KnowledgeMemory as constructed.
New ==
  [columns |-> Nothing, types |-> Nothing, order |-> 0, observed |-> 0,
   successes |-> 0, failures |-> 0, completed |-> 0, bounces |-> 0, jumps |-> 0,
   epoch |-> -1, frame |-> -1, identity |-> Nothing, event |-> Nothing,
   valid |-> FALSE, ground |-> FALSE, recorded |-> FALSE, foes |-> Nothing, jump |-> NoJump]

-----------------------------------------------------------------------------
(* observe: which episode the frame is of *)

ResetEpisode(k, epoch) ==
  [k EXCEPT !.epoch = epoch, !.frame = -1, !.valid = FALSE, !.recorded = FALSE,
            !.foes = Nothing, !.jump = NoJump]

\* With a session the physical episode counts, not the epoch of the models.
Enter(k, o) ==
  IF o.session
  THEN [(IF o.identity # k.identity THEN ResetEpisode(k, o.epoch) ELSE k)
          EXCEPT !.epoch = o.epoch, !.identity = o.identity]
  ELSE [(IF o.epoch # k.epoch THEN ResetEpisode(k, o.epoch) ELSE k)
          EXCEPT !.identity = Nothing]

\* Mutant: the trajectories survive a gap in the identity of the level.
KeepUnknown(k, o) == [k EXCEPT !.foes = Nothing, !.frame = o.frame]

\* Unknown level: nothing is learnt across it.
Unknown(k, o) ==
  [k EXCEPT !.valid = FALSE, !.foes = Nothing, !.jump = NoJump, !.frame = o.frame]

Dead(o) == o.scene.dead \/ o.event = "death"
Cleared(o) == o.scene.clear \/ o.event = "clear"

-----------------------------------------------------------------------------
(* observe: the columns in view *)

Unseen == [rows |-> Nothing, observations |-> 0, changes |-> 0, order |-> 0,
           imported |-> FALSE]

SeeColumn(k, c) ==
  LET x == c[1]
      old == IF x \in DOMAIN k.columns THEN k.columns[x] ELSE Unseen
      new == [rows |-> c[2], observations |-> old.observations + 1,
              changes |-> IF old.observations > 0 /\ old.rows # c[2] THEN old.changes + 1
                                                                     ELSE old.changes,
              order |-> k.order + 1, imported |-> FALSE]
  IN  [k EXCEPT !.columns = [y \in DOMAIN @ \cup {x} |-> IF y = x THEN new ELSE @[y]],
                !.order = @ + 1]

\* The memory after each column.
Saw(k, view) ==
  LET upTo[i \in 0..Len(view)] == IF i = 0 THEN k ELSE SeeColumn(upTo[i - 1], view[i])
  IN  upTo

\* The loop up to its end, or up to the column that throws.
See(k, o) == IF Dead(o) THEN k ELSE Saw(k, o.scene.view)[Len(o.scene.view)]
Throws(o) == o.scene.torn /\ ~Dead(o)

Newer(cs, x) == {y \in DOMAIN cs : cs[y].order > cs[x].order}

\* The columns seen longest ago go.
Evict(k) ==
  LET kept == {x \in DOMAIN k.columns : Cardinality(Newer(k.columns, x)) < MaxColumns}
  IN  [k EXCEPT !.columns = [x \in kept |-> @[x]]]

-----------------------------------------------------------------------------
(* observe: enemies, the flight, the outcome *)

\* The enemy was in this slot, of this kind and near this place, a few frames ago.
Moves(k, o, f) ==
  /\ f[1] \in DOMAIN k.foes /\ k.foes[f[1]].kind = f[2] /\ f[3]
  /\ o.frame - k.foes[f[1]].frame \in 1..Gap

\* Mutant: one type too many.
KeptOneMore(k, f) == Cardinality(DOMAIN k.types) <= MaxTypes

\* An enemy is <<slot, kind, near>>; a type beyond the limit is passed over.
Kept(k, f) == f[2] \in DOMAIN k.types \/ Cardinality(DOMAIN k.types) < MaxTypes

MeetOne(k, o, t, f) ==
  LET old == IF f[2] \in DOMAIN t.types THEN t.types[f[2]]
             ELSE [observations |-> 0, velocity |-> 0]
      new == [observations |-> old.observations + 1,
              velocity |-> old.velocity + (IF Moves(k, o, f) THEN 1 ELSE 0)]
  IN  IF ~Kept(t, f) THEN t
      ELSE [t EXCEPT !.types = [y \in DOMAIN @ \cup {f[2]} |-> IF y = f[2] THEN new ELSE @[y]]]

\* The memory after each enemy.
Met(k, o) ==
  LET upTo[i \in 0..Len(o.scene.foes)] ==
        IF i = 0 THEN k ELSE MeetOne(k, o, upTo[i - 1], o.scene.foes[i])
  IN  upTo

Meet(k, o) ==
  LET known == Met(k, o)[Len(o.scene.foes)]
      slots == {i \in DOMAIN o.scene.foes : o.scene.foes[i][2] \in DOMAIN known.types}
  IN  [known EXCEPT !.foes =
         [s \in {o.scene.foes[i][1] : i \in slots} |->
            LET i == CHOOSE i \in slots : o.scene.foes[i][1] = s
            IN  [kind |-> o.scene.foes[i][2], frame |-> o.frame]]]

Land(k, j) ==
  [k EXCEPT !.completed = @ + 1, !.jump = NoJump,
            !.bounces = IF j.bounced THEN @ + 1 ELSE @,
            !.jumps = IF j.bounced THEN @ ELSE @ + 1]

\* Takeoff, by a jump and not over an edge; the samples in the air; landing.
Fly(k, o) ==
  LET consecutive == o.frame - k.frame <= Gap
      takeoff == consecutive /\ k.ground /\ ~o.scene.ground /\ o.scene.leaps
      j == IF takeoff THEN [NoJump EXCEPT !.active = TRUE, !.start = k.frame] ELSE k.jump
      sampled == [j EXCEPT !.bounced = @ \/ (j.fell /\ o.scene.motion = "up"),
                           !.fell = IF o.scene.motion = "level" THEN @
                                    ELSE o.scene.motion = "down"]
  IN  IF ~k.valid \/ Dead(o) \/ Cleared(o) \/ ~j.active THEN k
      ELSE IF ~consecutive THEN [k EXCEPT !.jump = NoJump]
      ELSE IF o.scene.ground THEN Land(k, sampled)
      ELSE [k EXCEPT !.jump = sampled]

\* Mutant: the RAM flags count as well as the session's events.
OutcomeFromRam(o) ==
  IF Cleared(o) THEN "clear" ELSE IF Dead(o) THEN "death" ELSE "none"

\* The session's events where there is a session, the RAM flags otherwise.
OutcomeOf(o) ==
  IF o.session THEN o.event
  ELSE IF Cleared(o) THEN "clear" ELSE IF Dead(o) THEN "death" ELSE "none"

EventId(o) ==
  IF o.session /\ o.event # "none" THEN <<o.identity[1], o.frame, o.event>> ELSE Nothing

Judge(k, o) ==
  LET unseen == IF o.session THEN EventId(o) # Nothing /\ EventId(o) # k.event
                             ELSE ~k.recorded
      new == unseen /\ OutcomeOf(o) # "none"
  IN  IF OutcomeOf(o) = "none" THEN k
      ELSE [k EXCEPT !.successes = IF new /\ OutcomeOf(o) = "clear" THEN @ + 1 ELSE @,
                     !.failures = IF new /\ OutcomeOf(o) = "death" THEN @ + 1 ELSE @,
                     !.event = IF EventId(o) # Nothing THEN EventId(o) ELSE @,
                     !.recorded = TRUE]

Finish(k, o) ==
  [k EXCEPT !.jump = IF Dead(o) \/ Cleared(o) THEN [@ EXCEPT !.active = FALSE] ELSE @,
            !.ground = o.scene.ground, !.valid = TRUE, !.frame = o.frame]

Accepted(k, o) == o.frame > Enter(k, o).frame
Learnt(k, o) == Accepted(k, o) /\ o.scene.known /\ ~Throws(o)

Observe(k, o) ==
  LET e == Enter(k, o)
      s == See([e EXCEPT !.observed = @ + 1], o)
      a == Meet(IF Dead(o) THEN s ELSE Evict(s), o)
  IN  IF ~Accepted(k, o) THEN e
      ELSE IF ~o.scene.known THEN Unknown(e, o)
      ELSE IF Throws(o) THEN s
      ELSE Finish(Judge(Fly(a, o), o), o)

-----------------------------------------------------------------------------
(* export_json and import_json *)

Export(k) ==
  [columns |-> k.columns, types |-> k.types, observed |-> k.observed,
   successes |-> k.successes, failures |-> k.failures,
   completed |-> k.completed, bounces |-> k.bounces, jumps |-> k.jumps]

Fits(f) == Cardinality(DOMAIN f.columns) <= MaxColumns
Valid(f) ==
  /\ Cardinality(DOMAIN f.types) <= MaxTypes
  /\ \A x \in DOMAIN f.columns :
       /\ f.columns[x].observations > 0
       /\ f.columns[x].changes <= f.columns[x].observations
  /\ f.bounces <= f.completed /\ f.jumps = f.completed - f.bounces
  /\ f.successes <= f.observed /\ f.failures <= f.observed

\* Mutant: the order of what was imported is not gone on from.
LoadOrder0(f) ==
  [New EXCEPT !.columns = [x \in DOMAIN f.columns |-> [f.columns[x] EXCEPT !.imported = TRUE]],
              !.types = f.types, !.observed = f.observed,
              !.successes = f.successes, !.failures = f.failures,
              !.completed = f.completed, !.bounces = f.bounces, !.jumps = f.jumps]

Loaded(f) ==
  [New EXCEPT !.columns = [x \in DOMAIN f.columns |-> [f.columns[x] EXCEPT !.imported = TRUE]],
              !.order = Max({0} \cup {f.columns[x].order : x \in DOMAIN f.columns}),
              !.types = f.types, !.observed = f.observed,
              !.successes = f.successes, !.failures = f.failures,
              !.completed = f.completed, !.bounces = f.bounces, !.jumps = f.jumps]

\* Nothing is taken from a file that does not validate.
Import(k, f) == IF Fits(f) /\ Valid(f) THEN Loaded(f) ELSE k

-----------------------------------------------------------------------------
(* The control process and its client *)

\* What the client shows: the game's place and event with a scene.
Frame(g, s) ==
  [session |-> g.session, epoch |-> g.epoch, frame |-> g.frame, event |-> g.event,
   identity |-> IF g.session THEN <<g.run, g.deaths, g.stage>> ELSE Nothing, scene |-> s]

\* The terminal event of a frame; without a session there is one in an epoch.
Terminal(o) == IF o.session THEN <<o.identity[1], o.frame, o.event>> ELSE <<o.epoch>>

NoTrail == [start |-> -1, last |-> -1, whole |-> FALSE, fell |-> FALSE, bounced |-> FALSE]

\* The trail goes on over this frame, starts at it, or is lost.
Trail(o) ==
  LET on == [trail EXCEPT
               !.last = o.frame,
               !.whole = @ /\ ~Dead(o) /\ ~Cleared(o) /\ o.frame - trail.last <= Gap,
               !.bounced = @ \/ (trail.fell /\ o.scene.motion = "up"),
               !.fell = IF o.scene.motion = "level" THEN @ ELSE o.scene.motion = "down"]
  IN  IF o.scene.ground
      THEN [NoTrail EXCEPT !.start = o.frame, !.last = o.frame, !.whole = TRUE]
      ELSE on

\* A line with a frame: the experience_memory node.
Show(o) ==
  /\ m' = Observe(m, o)
  /\ seen' = o
  /\ counted' = IF Learnt(m, o) /\ OutcomeOf(o) # "none" THEN counted \cup {Terminal(o)}
                                                         ELSE counted
  /\ torn' = IF Accepted(m, o) /\ o.scene.known /\ ~Dead(o) THEN Throws(o) ELSE torn
  /\ trail' = LET entered == Enter(m, o).frame = -1  \* another episode
              IN  IF Learnt(m, o) THEN IF entered /\ ~o.scene.ground THEN NoTrail ELSE Trail(o)
                  ELSE IF entered \/ (Accepted(m, o) /\ ~o.scene.known) THEN NoTrail ELSE trail
  /\ UNCHANGED <<file, base>>

\* The game goes on, or skips over the end of a life or of a stage to where
\* the player stands again.
Play(s) ==
  \E e \in {"none", "death", "clear"} :
    /\ e # "none" => game.session /\ s.after > Gap /\ s.ground /\ ~s.dead /\ ~s.clear
    /\ game' = [game EXCEPT !.frame = @ + s.after, !.event = e,
                            !.deaths = IF e = "death" THEN @ + 1 ELSE @,
                            !.stage = IF e = "clear" THEN @ + 1 ELSE @]
    /\ Show(Frame(game', s))

\* The frame just shown is shown again.
Again == seen # Nothing /\ Show(seen) /\ UNCHANGED game

Clear ==
  /\ m' = New /\ base' = 0 /\ counted' = {} /\ torn' = FALSE /\ trail' = NoTrail

\* GAME OVER: knowledge of the run ends with it, or is kept as it is.
GameOver(retain) ==
  /\ game.session
  /\ IF retain THEN UNCHANGED <<m, base, counted, torn, trail>> ELSE Clear
  /\ game.run < MaxRuns
  /\ game' = [game EXCEPT !.run = @ + 1, !.deaths = 0, !.stage = 1, !.frame = 0,
                          !.epoch = @ + 1, !.event = "none"]
  /\ seen' = Nothing
  /\ UNCHANGED <<file>>

\* A mode or model is selected; without a session, or when the run is restarted, the
\* frames start over.
NextEpoch(restart) ==
  /\ game.epoch < MaxEpochs
  /\ restart => ~game.session \/ game.run < MaxRuns
  /\ game' = IF restart
             THEN [game EXCEPT !.epoch = @ + 1, !.frame = 0, !.event = "none", !.deaths = 0,
                               !.stage = 1, !.run = IF game.session THEN @ + 1 ELSE @]
             ELSE [game EXCEPT !.epoch = @ + 1]
  /\ seen' = Nothing
  /\ UNCHANGED <<m, file, base, counted, torn, trail>>

\* memory_export; the client replaces its file.
Save ==
  /\ file' = Export(m)
  /\ UNCHANGED <<m, game, seen, base, counted, torn, trail>>

\* Client and process start again and import the file; runs and epochs do too.
Restart ==
  /\ m' = Import(New, file)
  /\ base' = m'.successes + m'.failures
  /\ counted' = {} /\ torn' = FALSE /\ trail' = NoTrail
  /\ game' = [game EXCEPT !.run = 1, !.deaths = 0, !.stage = 1, !.frame = 0, !.epoch = 1,
                          !.event = "none"]
  /\ seen' = Nothing
  /\ UNCHANGED <<file>>

MemoryInit ==
  /\ m = New /\ file = Export(New)
  /\ game \in [session : Sessions, run : {1}, deaths : {0}, stage : {1}, frame : {0},
               epoch : {1}, event : {"none"}]
  /\ seen = Nothing /\ base = 0 /\ counted = {} /\ torn = FALSE /\ trail = NoTrail
  /\ lines = 0

MemoryNext ==
  /\ lines < MaxLines /\ lines' = lines + 1
  /\ \/ Again \/ Save \/ Restart
     \/ \E s \in Scenes : Play(s)
     \/ \E b \in BOOLEAN : GameOver(b) \/ NextEpoch(b)

MemorySpec == MemoryInit /\ [][MemoryNext]_memory_vars

-----------------------------------------------------------------------------
(* Properties *)

\* "Count only the authoritative session lifecycle": however many frames show an
\* outcome, in RAM before the skip and in the session after it, the memory has counted
\* each outcome it learnt from once, on top of those it was loaded with.  A frame of an
\* unknown level, or one that failed, is not learnt from (Learnt), and an outcome that
\* no other frame shows is not counted.
OutcomesOnce == m.successes + m.failures = base + Cardinality(counted)

\* What a process saves, the next one can load, all of it: as long as no frame failed
\* between its columns, the file is within the limits that import_json insists on, and
\* what is loaded from it would be saved as the same again.
SavedIsLoadable ==
  /\ Valid(Export(m)) /\ (torn \/ Fits(Export(m)))
  /\ LET again == Export(Loaded(Export(m)))
     IN  /\ [again EXCEPT !.columns = Nothing] = [Export(m) EXCEPT !.columns = Nothing]
         /\ DOMAIN again.columns = DOMAIN m.columns

\* "Do not learn from missing trajectory samples": a flight that is counted was shown to
\* the memory without a gap, in one episode, from the ground to the ground; one that
\* bounced is not a sample.
WholeFlights ==
  m'.completed > m.completed /\ seen' # Nothing =>
    /\ trail.whole /\ trail.start # -1
    /\ seen'.frame - trail.last \in 1..Gap
    /\ m'.jumps > m.jumps => ~trail.bounced

\* What the memory learnt from is what was played: every outcome once, every flight whole.
SamplesHonest == [][OutcomesOnce' /\ WholeFlights]_memory_vars

\* The map forgets what was seen longest ago, also what it was loaded with: whatever
\* of a finished frame fits is there after it.
NewestKept ==
  [][seen' # Nothing /\ Learnt(m, seen') /\ ~Dead(seen') =>
       LET view == seen'.scene.view
           last == {i \in DOMAIN view :
                      Cardinality({view[j][1] : j \in i..Len(view)}) <= MaxColumns}
       IN  \A i \in last : view[i][1] \in DOMAIN m'.columns]_memory_vars
=============================================================================
