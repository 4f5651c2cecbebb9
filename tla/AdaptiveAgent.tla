---------------------------- MODULE AdaptiveAgent ----------------------------
(***************************************************************************)
(* mario::AdaptiveAgent (src/examples/mario_dashboard/adaptive_agent.hpp): *)
(* the dashboard's learner and executive, with the game and the runner     *)
(* that show it a frame at a time.  A line is one action: observe, tasks,  *)
(* engage, execute, in that order, and the action that won goes into the   *)
(* game's next frame.                                                      *)
(*                                                                         *)
(* A frame is what the code tells apart: a scene, and the game's place in  *)
(* its run.  Positions, physics, the values a forecast predicts and the    *)
(* scores of plans are left out; a context of experience is the signature  *)
(* of its plan.                                                            *)
(***************************************************************************)
EXTENDS AgentTracks, SkillArbitration

CONSTANTS
  Scenes,         \* what the games of a family may show: a set of scenes for each family,
                  \* with the turns they come about by
  Horizons,       \* of forecasts, in frames ({1, 4, 8, 16, 32} in the code)
  Period,         \* a forecast is frozen every so many frames (4)
  TakeoffWindow,  \* frames in which a takeoff must be observed (8)
  HoldStep, HoldLimit,  \* what an undershot flight adds to the next one's hold (6, 32)
  CrossFrames, CrossJump,  \* of a crossing: its frames (100) and those of its jump (32)
  Clearance, Ascent,       \* frames a takeoff and an ascent are held for (10, 30)
  CommitFrames, CommitSlack,  \* of a committed landing: frames (48), and those after it (3)
  MaxLines  \* bound: lines sent to the process in a family's games

ASSUME AgentAssumption ==
  /\ Horizons \subseteq Nat \ {0} /\ {Period, CrossJump} \subseteq Nat \ {0}
  /\ {TakeoffWindow, HoldStep, HoldLimit, CrossFrames, Clearance, Ascent, CommitFrames,
      CommitSlack} \subseteq Nat

\* How a frame comes about: the game goes on, or skips to the next life or stage.
Turns == {"on", "life", "stage"}

\* What a scene shows: the player, enemies and eliminations, what the geometry and the
\* controller make of them, a plan, and those that a model may be asked to rank.  Its
\* place in the run is left to the game.
Enemy == [slot : Nat, kind : Nat, x : Int, stompable : BOOLEAN]
Course == [exists : BOOLEAN, apply : BOOLEAN, hold : Nat, frames : Nat, lands : BOOLEAN,
           goes_on : BOOLEAN, safe : BOOLEAN]
Option == [id : STRING, target : Int, collides : BOOLEAN, sound : BOOLEAN, fits : BOOLEAN,
           plan : Course]
Scene ==
  [ground : BOOLEAN, rise : BOOLEAN, steady : BOOLEAN, dead : BOOLEAN, contact : BOOLEAN,
   low : BOOLEAN, reached : BOOLEAN, foes : Seq(Enemy), gone : Seq(Enemy), mode : STRING,
   x : Int, pose : STRING, base : STRING, nav : BOOLEAN, moving : STRING,
   pair : SUBSET {"seen", "window", "low", "close", "passed"}, plan : Course,
   support : BOOLEAN, stage : STRING, star : BOOLEAN, climb : BOOLEAN, under : BOOLEAN,
   ceiling : BOOLEAN, turns : SUBSET Turns, facts : STRING, goals : SUBSET STRING,
   plans : Seq(Option), run : Int, life : Int, place : Int, frame : Int, lost : BOOLEAN,
   moved : BOOLEAN, over : BOOLEAN, terminal : BOOLEAN, input : STRING]

ASSUME SceneAssumption == \A f \in DOMAIN Scenes : Scenes[f] \subseteq Scene

VARIABLES
  k,       \* the AdaptiveAgent
  game,    \* the run, the life, the stage, the frame, the action in effect, how it is going
  family,  \* of the game
  told,    \* history: what the frames since the agent's reset have shown
  lines    \* bound

agentVars == <<k, game, family, told, lines>>

NoFlight == [start |-> None]
NoLanding == [at |-> None]
Silent == [credit |-> "none", scored |-> {}]

\* An AdaptiveAgent as constructed.
New ==
  [run |-> None, life |-> None, place |-> None, frame |-> None, prev |-> Nothing,
   flight |-> NoFlight, cut |-> FALSE, forecasts |-> {}, deaths |-> 0,
   ids |-> {}, labels |-> [o \in {"succeeded", "failed", "unknown"} |-> 0], holds |-> Nothing,
   tracks |-> Nothing, next |-> 1, archived |-> 0, confirmed |-> 0, target |-> None,
   status |-> "exploring", task |-> NoTask, attack |-> NoAttack, combat |-> "none",
   phase |-> "navigation", crossing |-> [phase |-> 0, started |-> None, jump |-> 0],
   landing |-> NoLanding, skill |-> "none", plan |-> "none", report |-> Silent]

-----------------------------------------------------------------------------
(* observe: lives and flights *)

Boundary(a, o) == a.place # o.place \/ a.life # o.life \/ o.frame < a.frame
Death(a, o) == o.dead \/ o.lost \/ (a.life >= 0 /\ o.life > a.life)
Flying(a) == a.flight # NoFlight

Record(a, id, outcome) ==
  IF id \in a.ids THEN a ELSE [a EXCEPT !.ids = @ \cup {id}, !.labels[outcome] = @ + 1]

\* Mutant: every frame of a death is one.
FatalAgain(a, o) == Death(a, o) /\ a.prev # Nothing

\* The first frame to show the end of a life.
Fatal(a, o) == Death(a, o) /\ a.prev # Nothing /\ ~a.prev.dead /\ ~a.prev.lost

\* A confirmed flight that fell short of its target is to be held longer.
Undershot(f) == f.confirmed /\ ~f.contact /\ f.low

Lengthened(a) ==
  LET f == a.flight
      old == IF f.context \in DOMAIN a.holds THEN a.holds[f.context] ELSE 0
      new == IF f.held + HoldStep > HoldLimit THEN HoldLimit ELSE f.held + HoldStep
  IN  With(a.holds, f.context, IF old > new THEN old ELSE new)

Credit(a, o) ==
  LET failed == Record([a EXCEPT !.deaths = @ + 1, !.report.credit = "death"],
                       <<o.run, o.frame>>, "failed")
  IN  IF ~Fatal(a, o) THEN a
      ELSE IF ~Flying(a) THEN failed
      ELSE [failed EXCEPT !.flight = NoFlight,
                          !.holds = IF Undershot(a.flight) THEN Lengthened(a) ELSE @]

Cross(a, o) ==
  IF ~Boundary(a, o) THEN a
  ELSE [Archive(a) EXCEPT !.prev = Nothing, !.flight = NoFlight, !.forecasts = {},
                          !.cut = FALSE, !.landing = NoLanding]

\* The frame follows the one before it, and physics can be learnt from the two.
Contiguous(a, o) ==
  /\ a.prev # Nothing /\ o.frame = a.frame + 1 /\ o.steady
  /\ ~o.dead /\ ~o.lost /\ ~o.moved /\ ~a.prev.dead /\ ~a.prev.lost

Airborne(a, o) ==
  LET cut == IF o.ground THEN FALSE ELSE a.cut \/ ~Jumping(a.prev.input)
      f == a.flight
  IN  [a EXCEPT !.cut = cut,
         !.flight = IF ~Flying(a) \/ o.ground THEN @
                    ELSE [f EXCEPT
                            !.confirmed = @ \/ (o.rise /\ o.frame - f.start <= TakeoffWindow),
                            !.contact = @ \/ o.contact,
                            !.held = IF Jumping(a.prev.input) /\ ~cut THEN @ + 1 ELSE @,
                            !.airborne = TRUE, !.low = o.low]]

\* "Landing elsewhere is not task success."
Land(a, o) ==
  IF a.prev.ground \/ ~o.ground \/ ~Flying(a) THEN a
  ELSE [Record(a, <<o.run, a.flight.start>>,
               IF o.reached /\ a.flight.confirmed THEN "succeeded" ELSE "unknown")
          EXCEPT !.flight = NoFlight, !.report.credit = "landing"]

Learn(a, o) == IF Contiguous(a, o) THEN Land(Airborne(a, o), o) ELSE a

\* Mutant: another action does not cancel a forecast.
HoldsAny(f, o) == o.frame <= f.due

\* "Holding the action is a condition, not an assumption about execution."
Holds(f, o) == f.action = o.input /\ o.frame <= f.due

Forecast(a, o, contiguous) ==
  LET held == {f \in a.forecasts : contiguous /\ Holds(f, o)}
      frozen == IF o.frame % Period = 0 /\ ~o.dead /\ ~o.lost
                THEN {[due |-> o.frame + h, horizon |-> h, action |-> o.input] : h \in Horizons}
                ELSE {}
  IN  [a EXCEPT !.report.scored = {f.horizon : f \in {f \in held : f.due = o.frame}},
                !.forecasts = {f \in held : f.due > o.frame} \cup frozen]

Remember(a, o) ==
  [a EXCEPT !.run = o.run, !.life = o.life, !.place = o.place, !.frame = o.frame,
            !.prev = [ground |-> o.ground, dead |-> o.dead, lost |-> o.lost, input |-> o.input]]

Observe(a, o) ==
  LET e == [(IF a.run \notin {None, o.run} THEN New ELSE a) EXCEPT !.report = Silent]
      c == Cross(Credit(e, o), o)
  IN  IF o.over THEN [New EXCEPT !.run = o.run]
      ELSE IF ~Boundary(e, o) /\ o.frame = e.frame THEN e
      ELSE Remember(See(Forecast(Learn(c, o), o, Contiguous(c, o)), o), o)

-----------------------------------------------------------------------------
(* execute: the skills and their proposals *)

Offer(id, action, allowed, priority) ==
  [id |-> id, action |-> action, valid |-> TRUE, max_age |-> 0, priority |-> priority,
   utility |-> 0, emergency |-> FALSE, at |-> [run |-> 0, frame |-> 0, context |-> 0,
                                               candidates |-> 0],
   conditions |-> {IF allowed THEN "true" ELSE "false"}]

\* Mutant: a crossing goes on though its hazard is out of sight.
ExpiredLate(c, o) == o.frame - c.started > CrossFrames

Expired(c, o) == o.frame - c.started > CrossFrames \/ (c.phase < 3 /\ o.pair = {})

\* A crossing begins before a hazard overhead.
Begun(c, o) ==
  IF c.phase = 0 /\ ~o.terminal /\ ~o.nav /\ o.ground /\ "window" \in o.pair
  THEN [phase |-> 1, started |-> o.frame, jump |-> 0] ELSE c

\* Wait for its descent, approach, jump, clear it; with the action of the phase.
Phased(c, o) ==
  LET low == IF c.phase = 1 /\ "low" \in o.pair THEN 2 ELSE c.phase
      p == IF low = 2 /\ "close" \in o.pair THEN 3 ELSE low
      jump == IF p = 3 THEN c.jump + 1 ELSE c.jump
  IN  [action |-> CASE p = 1 -> "noop" [] p = 2 -> "run" [] p = 3 -> "jump" [] p = 4 -> "run",
       next |-> [c EXCEPT !.jump = jump,
                          !.phase = CASE p = 3 -> IF jump >= CrossJump THEN 4 ELSE 3
                                      [] p = 4 -> IF o.pair = {} \/ "passed" \in o.pair THEN 0 ELSE 4
                                      [] OTHER -> p]]

Crossing(a, o) ==
  LET b == Begun(IF o.terminal THEN [a.crossing EXCEPT !.phase = 0] ELSE a.crossing, o)
  IN  IF b.phase # 0 /\ Expired(b, o) THEN [b EXCEPT !.phase = 0] ELSE b

Crosses(a, o) == Crossing(a, o).phase # 0 /\ ~o.terminal /\ ~o.nav

\* Mutant: a committed landing goes on though its support is out of sight.
CommittedBlind(a, o) ==
  LET elapsed == o.frame - a.landing.at
  IN  /\ a.landing # NoLanding /\ ~o.terminal /\ ~o.nav /\ ~o.ground
      /\ elapsed > 0 /\ elapsed <= Least({CommitFrames, a.landing.plan.frames + CommitSlack})

\* What was committed to still holds: in the air, over the support it aimed at.
Committed(a, o) ==
  LET elapsed == o.frame - a.landing.at
  IN  /\ a.landing # NoLanding
      /\ ~o.terminal /\ ~o.nav /\ ~o.ground /\ o.support
      /\ elapsed > 0 /\ elapsed <= Least({CommitFrames, a.landing.plan.frames + CommitSlack})

\* The plan's action so many frames on: it jumps for some, then runs.
StepOf(plan, elapsed) == IF elapsed < plan.hold THEN "jump" ELSE "run"

Rising(a, o, limit) ==
  /\ Jumping(o.input) /\ Flying(a) /\ a.flight.confirmed /\ ~o.ground /\ o.rise
  /\ o.frame - a.flight.start < limit /\ ~o.ceiling /\ ~o.terminal /\ ~o.nav

\* An unplanned release before the hold that was learnt is put off.
Constrained(a, o) ==
  /\ ~o.terminal /\ ~o.nav /\ ~o.ground /\ o.rise /\ ~a.cut /\ ~o.ceiling
  /\ Flying(a) /\ a.flight.confirmed /\ a.flight.context \in DOMAIN a.holds
  /\ a.flight.held < a.holds[a.flight.context]
  /\ ~o.plan.apply /\ a.combat = "none" /\ ~Jumping(o.base)

Proposals(a, o) ==
  LET target == a.target # None /\ OnHunt(o)
      calm == ~o.terminal /\ ~o.nav
      When(c, s) == IF c THEN s ELSE <<>>
  IN  << Offer("reactive", IF Constrained(a, o) THEN "jump" ELSE o.base, TRUE,
                  IF o.terminal THEN 1000 ELSE IF o.nav THEN 900 ELSE 100) >>
      \o When(o.moving = "intercept", << Offer("moving_intercept", o.base, ~o.terminal, 760) >>)
      \o When(o.moving = "runup", << Offer("moving_runup", o.base, ~o.terminal, 740) >>)
      \o When(Crosses(a, o), << Offer("paired_hazard", Phased(Crossing(a, o), o).action,
                                         TRUE, 750) >>)
      \o When(Committed(a, o), << Offer("plan_commit",
                StepOf(a.landing.plan, o.frame - a.landing.at), TRUE, 650) >>)
      \o When(calm /\ o.ground /\ o.stage # "none",
              << Offer("platform_stage", o.stage, TRUE, 720) >>)
      \o When(o.plan.exists, << Offer("rollout", StepOf(o.plan, 0),
                                         o.plan.apply /\ ~o.terminal, 400) >>)
      \o << Offer("target", IF a.combat = "none" THEN o.base ELSE a.combat,
                     a.combat # "none" /\ calm, IF a.phase = "release" THEN 800 ELSE 450),
            Offer("star_contact", "run", o.star /\ OnHunt(o) /\ o.ground /\ calm, 600) >>
      \o When(target /\ o.under /\ Rising(a, o, Clearance),
              << Offer("takeoff_commitment", o.input, TRUE, 700) >>)
      \o When(o.climb /\ ~a.cut /\ Rising(a, o, Ascent),
              << Offer("platform_hold", o.input, TRUE, 700) >>)

\* A rollout selected in the air that reaches its target and goes on from there.
Commits(a, o, selected) ==
  /\ selected = "rollout" /\ ~o.ground
  /\ o.plan.lands /\ o.plan.goes_on /\ o.plan.frames > 1 /\ o.plan.safe

TakesOff(a, o, action) == o.ground /\ Jumping(action) /\ ~Flying(a) /\ ~o.dead /\ ~o.lost

\* Mutant: a jump that was not observed to take off stays the one in flight.
NotTakenOffKept(a, o) == FALSE

NotTakenOff(a, o) ==
  Flying(a) /\ ~a.flight.airborne /\ o.frame - a.flight.start > TakeoffWindow

Execute(a, o) ==
  LET all == Proposals(a, o)
      now == [run |-> 0, frame |-> 0, context |-> 0, candidates |-> 0]
      won == all[Arbitrate(now, all)]
      kept == IF Committed(a, o) THEN a.landing ELSE NoLanding
      plan == <<won.id, won.action>>
      started == [start |-> o.frame, context |-> plan, confirmed |-> FALSE, contact |-> FALSE,
                  airborne |-> FALSE, held |-> 0, low |-> FALSE]
      flown == [a EXCEPT !.flight = IF TakesOff(a, o, won.action) THEN started ELSE @]
  IN  [flown EXCEPT
         !.crossing = IF Crosses(a, o) THEN Phased(Crossing(a, o), o).next ELSE Crossing(a, o),
         !.landing = IF kept = NoLanding /\ Commits(a, o, won.id)
                     THEN [at |-> o.frame, plan |-> o.plan] ELSE kept,
         !.skill = won.id, !.plan = plan,
         !.flight = IF NotTakenOff(flown, o) THEN NoFlight ELSE @]

-----------------------------------------------------------------------------
(* The control process, the runner and the game *)

\* What is known of the frames since the agent was reset.
Untold == [alive |-> {}, ended |-> {}, landings |-> 0, air |-> None, whole |-> TRUE,
           steps |-> 0, input |-> "none", stage |-> 0, aloft |-> FALSE]

Advance(turn) ==
  [game EXCEPT !.frame = @ + 1, !.life = IF turn = "life" THEN @ + 1 ELSE @,
               !.place = IF turn = "stage" THEN @ + 1 ELSE @]

\* A scene at the game's place; after a skip the runner has let go of the buttons.
Shown(g, turn, s) ==
  [s EXCEPT !.run = g.run, !.life = g.life, !.place = g.place, !.frame = g.frame,
            !.lost = turn = "life", !.moved = turn = "stage", !.over = FALSE,
            !.terminal = s.dead \/ turn # "on",
            !.input = IF turn = "on" THEN g.action ELSE "noop"]

Tell(o, a) ==
  LET t == IF k.run \in {None, o.run} THEN told ELSE Untold
      ends == (IF o.dead THEN {o.life} ELSE {}) \cup (IF o.lost THEN {o.life - 1} ELSE {})
      joined == o.steady /\ ~o.lost /\ ~o.moved /\ ~o.dead
  IN  told' = [alive |-> IF o.dead \/ o.lost THEN t.alive ELSE t.alive \cup {o.life},
               ended |-> t.ended \cup (ends \cap t.alive),
               landings |-> t.landings + (IF a.report.credit = "landing" THEN 1 ELSE 0),
               air |-> IF o.ground THEN None ELSE IF t.air = None THEN o.frame ELSE t.air,
               whole |-> a.flight.start = o.frame \/ (t.whole /\ o.steady),
               steps |-> IF joined /\ o.input = t.input THEN t.steps + 1 ELSE 0,
               input |-> o.input,
               stage |-> IF o.terminal \/ o.pair = {} THEN 0
                         ELSE IF "low" \in o.pair /\ (t.stage > 0 \/ "window" \in o.pair) THEN 2
                         ELSE IF "window" \in o.pair /\ t.stage = 0 THEN 1 ELSE t.stage,
               aloft |-> /\ ~o.ground /\ ~o.terminal
                         /\ (t.aloft /\ o.support) \/ a.landing.at = o.frame]

\* A line with a frame: what the graph's nodes ask of the agent, in their order.
Line(o) == Execute(Engage(Tasks(Observe(k, o), o), o), o)

Show(turn, s) ==
  LET g == Advance(turn)
      o == Shown(g, turn, s)
  IN  /\ ~game.over /\ turn \in s.turns
      /\ IF turn = "on" THEN game.dying => s.dead ELSE ~s.dead
      /\ turn = "stage" => ~game.dying
      /\ k' = Line(o)
      /\ game' = [g EXCEPT !.action = k'.plan[2], !.dying = s.dead]
      /\ Tell(o, k')
      /\ UNCHANGED family

\* The last line of a run that is lost.
GameOver(s) ==
  LET o == [Shown(Advance("life"), "life", s) EXCEPT !.over = TRUE]
  IN  /\ ~game.over /\ "life" \in s.turns
      /\ k' = Line(o) /\ told' = Untold
      /\ game' = [game EXCEPT !.over = TRUE]
      /\ UNCHANGED family

\* The run is started again.
Restart ==
  /\ game' = [game EXCEPT !.run = @ + 1, !.life = 0, !.place = 1, !.frame = 0,
                          !.action = "noop", !.dying = FALSE, !.over = FALSE]
  /\ UNCHANGED <<k, family, told>>

\* memory_reset: the knowledge of the run is given up.
MemoryReset == k' = New /\ told' = Untold /\ UNCHANGED <<game, family>>

AgentInit ==
  /\ k = New /\ told = Untold /\ family \in DOMAIN Scenes
  /\ game = [run |-> 1, life |-> 0, place |-> 1, frame |-> 0, action |-> "noop",
             dying |-> FALSE, over |-> FALSE]
  /\ lines = 0

AgentNext ==
  /\ lines < MaxLines[family] /\ lines' = lines + 1
  /\ \/ \E s \in Scenes[family] : GameOver(s) \/ \E turn \in Turns : Show(turn, s)
     \/ Restart \/ MemoryReset

AgentSpec == AgentInit /\ [][AgentNext]_agentVars

-----------------------------------------------------------------------------
(* Properties *)

\* "Observed results": each life the agent saw alive and then lost is one failure, in RAM
\* before the skip or in the session after it, and no outcome is refused because the ID
\* of its attempt was used before.
CreditedOnce ==
  /\ k.deaths = Cardinality(told.ended) /\ k.labels["failed"] = k.deaths
  /\ k.labels["succeeded"] + k.labels["unknown"] = told.landings

\* "Only the executed skill receives outcome credit": as long as nothing hid a landing
\* since its jump was pressed, a flight that is credited with one is the flight that
\* took off then, within the frames a takeoff is given.
CreditIsOwn ==
  [][k'.report.credit = "landing" /\ k # k' /\ told.whole =>
       k.flight.start <= told.air /\ told.air <= k.flight.start + TakeoffWindow + 1]_agentVars

\* "Prequential": an error at a horizon is that of a forecast whose action was held, in
\* frames that followed one another, all the way to it.
ForecastsHonest == \A h \in k.report.scored : told.steps >= h

\* Nothing is learnt twice from one death, or from a forecast nobody followed.
LearningHonest == CreditedOnce /\ ForecastsHonest

\* Every entity discovered in the run is tracked, confirmed by RAM or archived as
\* unresolved, one of them, and the target is one that is tracked and alive.
TracksConserved ==
  /\ k.next - 1 = k.archived + k.confirmed + Cardinality(Live(k))
  /\ k.target \in Live(k) \cup {None}

\* "Task vetoes apply in flight too": whatever phase an attack has come to, it goes on
\* only against an enemy in view that can be stomped, within the budget of the attempt.
AttackSupported ==
  k.skill = "target" =>
    k.target \in Live(k) /\ k.tracks[k.target].seen = k.frame
    /\ k.tracks[k.target].stompable /\ k.task.frames <= Budget

\* The hunt's books add up, and it goes after nothing that its own facts rule out.
HuntSound == TracksConserved /\ AttackSupported

\* "Wait while it is above the current lane": a crossing jumps only when the hazard was
\* seen overhead and then down without being lost from sight; and a landing that was
\* committed to is flown step by step as it was forecast, as long as every frame since
\* then was one in the air that showed the support it aims at.
PhasesInOrder ==
  [][/\ k'.crossing.phase >= 3 /\ k.crossing.phase < 3 => told'.stage = 2
     /\ k'.skill = "plan_commit" /\ k' # k =>
          told'.aloft /\ k'.plan[2] = StepOf(k.landing.plan, k'.frame - k.landing.at)]_agentVars
=============================================================================
