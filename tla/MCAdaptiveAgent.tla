--------------------------- MODULE MCAdaptiveAgent ---------------------------
(* An instance of PlanJudgment, and of AdaptiveAgent, for TLC. *)
EXTENDS PlanJudgment

NoPlan == [exists |-> FALSE, apply |-> FALSE, hold |-> 0, frames |-> 0, lands |-> FALSE,
           goes_on |-> FALSE, safe |-> FALSE]
Standing ==
  [ground |-> TRUE, rise |-> FALSE, steady |-> TRUE, dead |-> FALSE, contact |-> FALSE,
   low |-> FALSE, reached |-> FALSE, foes |-> <<>>, gone |-> <<>>, mode |-> "speedrun", x |-> 0,
   pose |-> "far", base |-> "run", nav |-> FALSE, moving |-> "none", pair |-> {},
   plan |-> NoPlan, support |-> FALSE, stage |-> "none", star |-> FALSE, climb |-> FALSE,
   under |-> FALSE, ceiling |-> FALSE, turns |-> {"on"},
   plans |-> <<>>, facts |-> "clear", goals |-> {}, run |-> None, life |-> None,
   place |-> None, frame |-> None, lost |-> FALSE, moved |-> FALSE, over |-> FALSE,
   terminal |-> FALSE, input |-> "none"]
Start == [Standing EXCEPT !.turns = Turns]
Up == [Standing EXCEPT !.ground = FALSE, !.rise = TRUE]
Down == [Standing EXCEPT !.ground = FALSE, !.low = TRUE]

\* Jumps, their takeoffs and landings; what hides them; deaths.
Flights ==
  {Start, [Standing EXCEPT !.base = "jump"], [Standing EXCEPT !.steady = FALSE],
   [Standing EXCEPT !.reached = TRUE, !.base = "jump"],
   Up, [Up EXCEPT !.climb = TRUE, !.contact = TRUE], Down,
   [Down EXCEPT !.dead = TRUE]}

\* Nothing but jumps that fall short of their target and end a life.
Falls ==
  {[Standing EXCEPT !.base = "jump", !.turns = {"on", "life"}], Up, Down}

Foe(slot, x) == [slot |-> slot, kind |-> 6, x |-> x, stompable |-> TRUE]
Hunting == [Standing EXCEPT !.mode = "hunter"]

\* Enemies that come, go, share a slot, are hit and attacked.
Hunts ==
  {[Hunting EXCEPT !.foes = <<Foe(0, 2)>>, !.turns = Turns],
   [Hunting EXCEPT !.foes = <<Foe(0, 2)>>, !.pose = "retreat"],
   [Hunting EXCEPT !.foes = <<Foe(0, 2)>>, !.pose = "blocked"],
   [Hunting EXCEPT !.foes = <<Foe(0, 2)>>, !.pose = "near", !.mode = "score_attack"],
   [Hunting EXCEPT !.foes = <<Foe(0, 2), Foe(1, 1)>>, !.pose = "wait", !.x = 2],
   [Hunting EXCEPT !.foes = <<Foe(0, 1), Foe(1, 3)>>, !.pose = "near", !.x = 1],
   [Hunting EXCEPT !.foes = <<Foe(0, 5), [Foe(1, 3) EXCEPT !.stompable = FALSE]>>,
                   !.pose = "near"],
   [Hunting EXCEPT !.gone = <<Foe(0, 2)>>, !.star = TRUE],
   [Hunting EXCEPT !.ground = FALSE, !.rise = TRUE, !.foes = <<Foe(0, 2)>>, !.under = TRUE],
   [Hunting EXCEPT !.ground = FALSE, !.foes = <<Foe(0, 2), Foe(2, 9)>>, !.pose = "replan"]}

Plan == [NoPlan EXCEPT !.exists = TRUE, !.apply = TRUE, !.hold = 1, !.frames = 2,
                       !.lands = TRUE, !.goes_on = TRUE, !.safe = TRUE]

\* A hazard overhead and down, platforms, rollouts, a support that goes out of sight.
Crossings ==
  {Start, [Standing EXCEPT !.pair = {"seen", "window"}],
   [Standing EXCEPT !.pair = {"seen", "low"}, !.stage = "jump"],
   [Standing EXCEPT !.pair = {"seen", "low", "close"}, !.moving = "runup"],
   [Standing EXCEPT !.pair = {"seen", "close"}, !.nav = TRUE],
   [Up EXCEPT !.plan = Plan, !.support = TRUE],
   [Down EXCEPT !.support = TRUE, !.pair = {"seen", "passed"}], Down,
   [Standing EXCEPT !.support = TRUE, !.moving = "intercept"]}

\* Plans on the ground that keep or change their target, fit the budget or not, in a frame
\* like the one before it or in another.
Hop(id, target) ==
  [id |-> id, target |-> target, collides |-> FALSE, sound |-> TRUE, fits |-> TRUE,
   plan |-> [Plan EXCEPT !.hold = IF id = "a" THEN 1 ELSE 0]]
Choosing == [Standing EXCEPT !.plan = Plan, !.plans = <<Hop("a", 1), Hop("b", 2)>>,
                             !.goals = {"finish_fast"}]
Rankings ==
  {[Choosing EXCEPT !.turns = Turns],
   [Choosing EXCEPT !.plans = <<Hop("a", 2), [Hop("b", 2) EXCEPT !.fits = FALSE]>>,
                    !.goals = {"finish_fast", "stomp_enemy"}],
   [Choosing EXCEPT !.plans = <<[Hop("a", 1) EXCEPT !.fits = FALSE], Hop("b", 2)>>],
   [Choosing EXCEPT !.plans = <<[Hop("a", 1) EXCEPT !.sound = FALSE]>>, !.facts = "other"]}

MCScenes ==
  [flights |-> Flights, falls |-> Falls, hunts |-> Hunts, crossings |-> Crossings,
   rankings |-> Rankings]
MCLines == [flights |-> 7, falls |-> 7, hunts |-> 5, crossings |-> 6, rankings |-> 5]
==============================================================================
