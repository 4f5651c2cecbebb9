----------------------------- MODULE PlanJudgment -----------------------------
(***************************************************************************)
(* The model that ranks the AdaptiveAgent's plans, or names its goal,      *)
(* while the game goes on (src/examples/mario_dashboard): StrategyWorker   *)
(* and the loop of async_runner.py that asks it, evaluate_plan() and       *)
(* evaluate_strategy() of mario_demo.cpp and bind_plan_judgment() that     *)
(* answer, plan_ranking.hpp and the intent gate of fast_graph.cpp that     *)
(* decide what an answer may still change.                                 *)
(*                                                                         *)
(* One turn of the loop is one action: poll, step, submit.  The worker's   *)
(* thread answers in between, and so do the commands of the dashboard.     *)
(* The loop submits when it likes, which stands for any period.  A scene   *)
(* shows plans, in the order of their objective utility: their ID, their   *)
(* landing target, whether they collide, are sound (nothing unknown, no    *)
(* unsafe cut, a continuation, a stomp for a hunter) and fit the budget.   *)
(* A score is a number, a score of Defer that of deferring.                *)
(***************************************************************************)
EXTENDS AdaptiveAgent

CONSTANTS
  Judged,     \* the families of games a model is asked in
  Modes, MaxScore,
  Defer,      \* the score of the option to defer
  PlanAge, GoalAge,  \* frames a judgment and an intent may be used for (45, 90)
  MaxPlans    \* how many plans are offered (6)

ASSUME JudgmentAssumption ==
  /\ Judged \subseteq DOMAIN Scenes /\ {MaxScore, Defer, PlanAge, GoalAge, MaxPlans} \subseteq Nat

VARIABLES
  epoch, mode, generation,  \* of the runner; generation counts the model's switches
  policy,     \* what the model is asked for: "plan" or "goal"
  future,     \* the request in flight, with its answer
  latest,     \* the judgment polled last
  shaping     \* history: what shaped the last line

play == <<k, game, family, told>>
desk == <<epoch, mode, generation, policy, future, latest, shaping>>
judgedVars == <<agentVars, desk>>

NoJudgment == [kind |-> "none"]
Pending == [kind |-> "pending"]
Failed == [kind |-> "failed"]
NoRequest == [answer |-> NoJudgment]
Unused == [plan |-> NoJudgment, goal |-> "none", by |-> NoJudgment]

-----------------------------------------------------------------------------
(* What is offered for a frame, and what an answer to it may be *)

Sound(p) == ~p.collides /\ p.sound

\* offer(): the first sound plans, each ID once.
Offered(s) ==
  LET sound == SelectSeq(s.plans, Sound)
      Once(ps, p) == IF \E i \in DOMAIN ps : ps[i].id = p.id THEN ps ELSE Append(ps, p)
      once == FoldLeft(Once, <<>>, sound)
  IN  SubSeq(once, 1, Least({Len(once), MaxPlans}))

Ids(offered) == {offered[i].id : i \in DOMAIN offered}

\* context_facts: what must stay, and the target of each plan offered.
Facts(s) ==
  LET offered == Offered(s)
  IN  [relevant |-> s.facts,
       targets |-> [id \in Ids(offered) |->
                      offered[CHOOSE i \in DOMAIN offered : offered[i].id = id].target]]

Request(g, s) ==
  [kind |-> policy, epoch |-> epoch', frame |-> g.frame, mode |-> mode', facts |-> Facts(s),
   ids |-> [i \in DOMAIN Offered(s) |-> Offered(s)[i].id], answer |-> Pending,
   generation |-> generation,
   place |-> <<g.run, g.life, g.place>>]  \* history

\* The option that scores highest, the first of them; none, when that is to defer.
Selected(ids, scores) ==
  LET best == {i \in DOMAIN ids : \A j \in DOMAIN ids : scores[ids[j]] <= scores[ids[i]]}
  IN  IF ids = <<>> \/ scores[ids[Least(best)]] <= Defer THEN "none" ELSE ids[Least(best)]

Goals == {"finish_fast", "stomp_enemy"}

\* The answers to a request: every preference, or an error.
Judgments(r) ==
  LET options == IF r.kind = "plan" THEN ToSet(r.ids) ELSE Goals
  IN  {Failed} \cup
      {[kind |-> r.kind, epoch |-> r.epoch, frame |-> r.frame, mode |-> r.mode,
        facts |-> r.facts, scores |-> scores, place |-> r.place, generation |-> r.generation,
        selected |-> IF r.kind = "plan" THEN Selected(r.ids, scores) ELSE "none"]
         : scores \in [options -> 0..MaxScore]}

-----------------------------------------------------------------------------
(* What a judgment may still change *)

Current(j, kind, frame, age) ==
  /\ j.kind = kind /\ j.epoch = epoch' /\ j.mode = mode'
  /\ j.frame <= frame /\ frame - j.frame <= age

SameTarget(j, now) ==
  /\ j.facts.relevant = now.relevant
  /\ j.selected \in DOMAIN j.facts.targets
  /\ j.facts.targets[j.selected] = now.targets[j.selected]

\* validate()
Validated(j, s, frame) ==
  LET now == Facts(s)
  IN  /\ Current(j, "plan", frame, PlanAge) /\ j.selected # "none"
      /\ j.selected \in DOMAIN now.targets
      /\ j.facts = now \/ SameTarget(j, now)

\* risk(): no plan is within the budget, and one is wanted all the same.
Emergency(s) == \A i \in DOMAIN s.plans : s.plans[i].collides \/ ~s.plans[i].fits

\* apply(): the index of the plan scored highest of those that are still sound and within
\* the budget; 0 when there is none, or the judgment is of no use now.
Ranked(j, s, frame, terminal) ==
  LET live == {i \in DOMAIN s.plans : /\ Sound(s.plans[i]) /\ s.plans[i].fits
                                      /\ s.plans[i].id \in DOMAIN j.scores}
      best == {i \in live : \A l \in live : j.scores[s.plans[l].id] <= j.scores[s.plans[i].id]}
  IN  IF terminal \/ ~s.plan.apply \/ Emergency(s) \/ ~Validated(j, s, frame) \/ live = {} THEN 0
      ELSE Least(best)

\* The intent gate: the goal scored highest of those the frame allows.
Intent(j, s, frame) ==
  LET open == {g \in s.goals \cap DOMAIN j.scores : j.scores[g] > 0}
  IN  IF ~Current(j, "goal", frame, GoalAge) \/ open = {} THEN "none"
      ELSE CHOOSE g \in open : \A h \in open : j.scores[h] <= j.scores[g]

\* The scene as the judgment shapes it: a plan, or the controller's action.
Shaped(j, s, frame, terminal) ==
  LET i == Ranked(j, s, frame, terminal)
      goal == Intent(j, s, frame)
  IN  [s EXCEPT !.plan = IF i = 0 THEN @ ELSE s.plans[i].plan,
                !.base = IF goal = "stomp_enemy" THEN "jump" ELSE @]

Use(j, s, frame, terminal) ==
  LET i == Ranked(j, s, frame, terminal)
  IN  shaping' = [plan |-> IF i = 0 THEN NoJudgment
                           ELSE [kind |-> "plan", of |-> s.plans[i], now |-> Facts(s)],
                  goal |-> Intent(j, s, frame), by |-> j]

-----------------------------------------------------------------------------
(* The runner and its worker *)

Asks == family \in Judged

\* Epochs are counted where a model is asked.  The request in flight cannot be cancelled:
\* what comes of it is discarded.
Turned == epoch' = IF Asks THEN epoch + 1 ELSE epoch
Forgotten == NoJudgment

\* Mutant: a life that is lost does not end the epoch.
SkippedStage(turn) == IF turn = "stage" THEN Turned ELSE UNCHANGED epoch

\* After a skip the runner starts another epoch.
Skipped(turn) == IF turn = "on" THEN UNCHANGED epoch ELSE Turned

Done == future.answer \notin {NoJudgment, Pending}
Mine == future.epoch = epoch' /\ future.mode = mode' /\ future.generation = generation

\* The latest judgment, when the loop has polled.
Polled(turn) ==
  LET kept == IF turn = "on" THEN latest ELSE Forgotten
  IN  IF Done /\ Mine /\ future.answer # Failed THEN future.answer ELSE kept

\* A turn of the loop, with a request or not.
Turn(turn, s, submit) ==
  LET frame == game.frame + 1
      free == Done \/ future = NoRequest
      asked == submit /\ free /\ Asks /\ (policy = "plan" => Offered(s) # <<>>)
  IN  /\ Skipped(turn) /\ UNCHANGED <<mode, generation, policy>>
      /\ latest' = Polled(turn)
      /\ IF Asks
         THEN /\ Show(turn, Shaped(latest', s, frame, s.dead \/ turn # "on"))
              /\ Use(latest', s, frame, s.dead \/ turn # "on")
         ELSE Show(turn, s) /\ UNCHANGED shaping
      /\ submit => asked
      /\ future' = IF asked THEN Request(game', s) ELSE IF free THEN NoRequest ELSE future

\* The worker's thread is answered.
Answer ==
  /\ future.answer = Pending
  /\ \E j \in Judgments(future) : future' = [future EXCEPT !.answer = j]
  /\ UNCHANGED <<play, epoch, mode, generation, policy, latest, shaping>>

SwitchModel ==
  /\ generation' = generation + 1 /\ Turned /\ latest' = Forgotten
  /\ UNCHANGED <<play, mode, policy, future, shaping>>

SetMode(m) ==
  /\ ~game.over
  /\ mode' = m /\ Turned /\ latest' = Forgotten
  /\ UNCHANGED <<play, generation, policy, future, shaping>>

\* The last line, with the judgment there is; a run that is started again, by a command
\* or in another mode; and knowledge given up, at the end of a run or by a command.
LastLine(s) ==
  /\ UNCHANGED desk
  /\ GameOver(IF Asks THEN Shaped(latest, s, game.frame + 1, TRUE) ELSE s)

StartAgain(m) ==
  /\ Restart /\ m \in (IF Asks /\ game.over THEN Modes ELSE {mode})
  /\ mode' = m /\ Turned /\ latest' = Forgotten /\ UNCHANGED <<generation, policy, future, shaping>>

GiveUp ==
  /\ MemoryReset
  /\ \/ game.over /\ UNCHANGED <<epoch, latest>>
     \/ Turned /\ latest' = Forgotten
  /\ UNCHANGED <<mode, generation, policy, future, shaping>>

JudgedInit ==
  /\ AgentInit
  /\ epoch = 1 /\ mode = (CHOOSE m \in Modes : TRUE) /\ generation = 0
  /\ policy \in (IF Asks THEN {"plan", "goal"} ELSE {"plan"})
  /\ future = NoRequest /\ latest = NoJudgment /\ shaping = Unused

JudgedNext ==
  /\ lines < MaxLines[family] /\ lines' = lines + 1
  /\ \/ \E s \in Scenes[family] :
          LastLine(s) \/ \E turn \in Turns, submit \in BOOLEAN : Turn(turn, s, submit)
     \/ GiveUp \/ \E m \in Modes : StartAgain(m)
     \/ /\ Asks
        /\ Answer \/ SwitchModel \/ \E m \in Modes : SetMode(m)

JudgedSpec == JudgedInit /\ [][JudgedNext]_judgedVars

-----------------------------------------------------------------------------
(* Properties *)

\* "Cached intent age is separate", "epoch checks discard its eventual result": whatever
\* was switched, lost or started again while the model was thinking, a judgment shapes a
\* line only in the life, stage and run, the mode and for the model it was asked in, and
\* within its frames; the plan it picks is one it scored, sound and within the budget now,
\* and the one it selected still lands where it did.
JudgmentCurrent ==
  [][LET j == shaping'.by
     IN  shaping' # shaping /\ (shaping'.plan # NoJudgment \/ shaping'.goal # "none") =>
           /\ j.place = <<game'.run, game'.life, game'.place>>
           /\ j.mode = mode' /\ j.generation = generation'
           /\ game'.frame - j.frame \in 0..(IF j.kind = "plan" THEN PlanAge ELSE GoalAge)
           /\ shaping'.plan # NoJudgment =>
                LET p == shaping'.plan.of
                IN  /\ Sound(p) /\ p.fits /\ p.id \in DOMAIN j.facts.targets
                    /\ j.selected \in DOMAIN shaping'.plan.now.targets
                    /\ shaping'.plan.now.targets[j.selected] = j.facts.targets[j.selected]
    ]_judgedVars
=============================================================================
