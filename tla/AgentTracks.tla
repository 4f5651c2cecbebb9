----------------------------- MODULE AgentTracks -----------------------------
(***************************************************************************)
(* mario::AdaptiveAgent (src/examples/mario_dashboard/adaptive_agent.hpp), *)
(* the part that follows enemies: entities tracked by slot, kind and       *)
(* place, what RAM confirms of them, the target of a hunt and the skill    *)
(* that attacks it.  The agent is one value, k, that every call replaces.  *)
(*                                                                         *)
(* Places are cells of 16 pixels on a line; an enemy is a record [slot,    *)
(* kind, x, stompable].  What the geometry says of an attack is the        *)
(* frame's pose.  Velocities and the report of the skill are left out.     *)
(***************************************************************************)
EXTENDS Integers, FiniteSets, Functions, SequencesExt

CONSTANTS
  MaxTracks,   \* entities tracked (128 in the code)
  MaxUnseen,   \* frames after which an entity is not met again (90)
  Stray,       \* cells an entity may stray at most before it is met again (6)
  Fresh,       \* frames after which an elimination is nobody's (8)
  Reach,       \* cells within which a target is chosen (12)
  Budget,      \* frames of an attempt without progress (360)
  Latch, Hold  \* frames A is held for on the ground and in an intercept (4, 8)

ASSUME TracksAssumption ==
  /\ {MaxTracks, Budget, Latch, Hold} \subseteq Nat \ {0}
  /\ {MaxUnseen, Stray, Fresh, Reach} \subseteq Nat

None == -1
Nothing == <<>>  \* the empty map
NoAttack == [target |-> None, frames |-> 0, air |-> FALSE]
NoTask == [target |-> None, frames |-> 0, at |-> None, active |-> FALSE, from |-> 0, left |-> 0]

Abs(n) == IF n < 0 THEN -n ELSE n
Distance(t, o) == Abs(t.x - o.x)
Jumping(action) == action = "jump"

Live(k) == {i \in DOMAIN k.tracks : k.tracks[i].status # "confirmed"}
Without(f, i) == Restrict(f, DOMAIN f \ {i})
With(f, i, v) == [j \in DOMAIN f \cup {i} |-> IF j = i THEN v ELSE f[j]]
Least(S) == CHOOSE n \in S : \A m \in S : n <= m

-----------------------------------------------------------------------------
(* observe: the enemies in view, and the eliminations RAM reports *)

\* How far an entity may be from where it was seen, so many frames ago.
Near(gap) == Least({Stray, 1 + gap \div 4})

\* Mutant: what is eliminated can be met again.
MatchesAny(k, f, frame) ==
  {i \in DOMAIN k.tracks :
     LET t == k.tracks[i]
     IN  /\ t.slot = f.slot /\ t.kind = f.kind
         /\ frame - t.seen <= MaxUnseen /\ Abs(f.x - t.x) <= Near(frame - t.seen)}

Matches(k, f, frame) ==
  {i \in Live(k) :
     LET t == k.tracks[i]
     IN  /\ t.slot = f.slot /\ t.kind = f.kind
         /\ frame - t.seen <= MaxUnseen /\ Abs(f.x - t.x) <= Near(frame - t.seen)}

\* Room for one more: the entity seen longest ago goes.
MakeRoom(k) ==
  LET old == Least({i \in DOMAIN k.tracks :
                      \A j \in DOMAIN k.tracks : k.tracks[i].seen <= k.tracks[j].seen})
  IN  IF Cardinality(DOMAIN k.tracks) < MaxTracks THEN k
      ELSE [k EXCEPT !.archived = IF old \in Live(k) THEN @ + 1 ELSE @,
                     !.target = IF @ = old THEN None ELSE @,
                     !.tracks = Without(@, old)]

Follow(k, f, frame) ==
  LET known == Matches(k, f, frame)
      room == IF known = {} THEN MakeRoom(k) ELSE k
      id == IF known = {} THEN k.next ELSE Least(known)
  IN  [room EXCEPT
         !.next = IF known = {} THEN @ + 1 ELSE @,
         !.tracks = With(@, id, [slot |-> f.slot, kind |-> f.kind, x |-> f.x, seen |-> frame,
                                 stompable |-> f.stompable, visible |-> TRUE,
                                 status |-> "observed"])]

Unseen(k) ==
  [k EXCEPT !.tracks =
     [i \in DOMAIN @ |->
        IF i \in Live(k) THEN [@[i] EXCEPT !.visible = FALSE, !.status = "unobserved"]
        ELSE [@[i] EXCEPT !.visible = FALSE]]]

\* "A score increase or aggregate kill count is not enough for attribution."
Eliminated(k, e, frame) ==
  {i \in Live(k) :
     LET t == k.tracks[i]
     IN  t.slot = e.slot /\ t.kind = e.kind /\ Abs(t.x - e.x) < 2 /\ frame - t.seen <= Fresh}

Confirm(k, e, frame) ==
  LET gone == Eliminated(k, e, frame)
  IN  [k EXCEPT !.confirmed = @ + Cardinality(gone),
                !.tracks = [i \in DOMAIN @ |->
                              IF i \in gone
                              THEN [@[i] EXCEPT !.status = "confirmed", !.visible = FALSE]
                              ELSE @[i]]]

See(k, o) ==
  LET met[i \in 0..Len(o.foes)] ==
        IF i = 0 THEN Unseen(k) ELSE Follow(met[i - 1], o.foes[i], o.frame)
      seen[i \in 0..Len(o.gone)] ==
        IF i = 0 THEN met[Len(o.foes)] ELSE Confirm(seen[i - 1], o.gone[i], o.frame)
  IN  seen[Len(o.gone)]

\* Another life or stage: what was not eliminated stays unresolved.
Archive(k) ==
  [k EXCEPT !.archived = @ + Cardinality(Live(k)), !.tracks = Nothing, !.target = None,
            !.attack = NoAttack]

-----------------------------------------------------------------------------
(* tasks: the target of a hunt *)

OnHunt(o) == o.mode \in {"hunter", "score_attack"}

Attackable(k, i) == i \in Live(k) /\ k.tracks[i].visible /\ k.tracks[i].stompable

\* The target so far; it gives way to another when it is out of reach or takes too long.
Kept(k, o) ==
  IF k.target \notin Live(k) THEN None
  ELSE IF /\ OnHunt(o)
          /\ ~Attackable(k, k.target) \/ k.task.frames > Budget
          /\ \E i \in DOMAIN k.tracks \ {k.target} : Attackable(k, i)
       THEN None ELSE k.target

\* The nearest enemy in view but the one that just gave way.
Choose(k, o) ==
  LET near == {i \in Live(k) : /\ k.tracks[i].visible /\ Distance(k.tracks[i], o) < Reach
                               /\ i # k.target}
  IN  IF ~OnHunt(o) \/ Kept(k, o) # None THEN Kept(k, o)
      ELSE IF near = {} THEN None
      ELSE Least({i \in near : \A j \in near :
                    Distance(k.tracks[i], o) <= Distance(k.tracks[j], o)})

TaskStatus(k, o, target, frames) ==
  IF target = None \/ ~OnHunt(o)          THEN "exploring"
  ELSE IF ~k.tracks[target].visible      THEN "unobserved"
  ELSE IF ~k.tracks[target].stompable    THEN "unsupported"
  ELSE IF o.pose = "unsafe"              THEN "unsafe return"
  ELSE IF frames > Budget                THEN "budget"
  ELSE IF o.pose = "blocked"             THEN "blocked"
  ELSE "active"

\* The player, and not only the target, has moved closer than it was.
Closer(k, o, target) ==
  o.x # k.task.from /\ Distance(k.tracks[target], o) < k.task.left

\* The frames an attempt was active for without progress.
Spent(k, o, target) ==
  LET t == k.task
  IN  IF t.target # target \/ Closer(k, o, target) THEN 0
      ELSE t.frames + (IF t.active /\ t.at # None THEN o.frame - t.at ELSE 0)

Tasks(k, o) ==
  LET target == Choose(k, o)
      pursued == OnHunt(o) /\ target # None
      frames == IF pursued THEN Spent(k, o, target) ELSE k.task.frames
      progress == pursued /\ (k.task.target # target \/ Closer(k, o, target))
      status == TaskStatus(k, o, target, frames)
  IN  [k EXCEPT !.target = target, !.status = status,
                !.task = [target |-> IF pursued THEN target ELSE @.target, frames |-> frames,
                          from |-> IF progress THEN o.x ELSE @.from,
                          left |-> IF progress THEN Distance(k.tracks[target], o) ELSE @.left,
                          at |-> o.frame, active |-> status = "active"]]

-----------------------------------------------------------------------------
(* engage: the skill that attacks the target *)

Rest(k, phase) ==
  [k EXCEPT !.attack = [@ EXCEPT !.frames = 0, !.air = FALSE], !.combat = "none",
            !.phase = phase]

Press(k, phase, frames, air, action) ==
  [k EXCEPT !.attack = [@ EXCEPT !.frames = frames, !.air = air],
            !.combat = action, !.phase = phase]

\* The attack goes on where it was, or starts when the target is another.
Aimed(k) ==
  IF k.attack.target = k.target THEN k
  ELSE [k EXCEPT !.attack = [NoAttack EXCEPT !.target = k.target]]

OnGround(k, o) ==
  LET a == IF k.attack.air THEN 0 ELSE k.attack.frames
  IN  CASE o.pose = "wait"                    -> Press(k, "wait", 0, FALSE, "run")
        [] o.pose = "wall"                    -> [k EXCEPT !.combat = "none", !.phase = "wall"]
        [] o.pose \in {"near", "far"} /\ a > 0 /\ a < Latch ->
             Press(k, "latch", a + 1, FALSE, "jump")
        [] o.pose \in {"near", "far"} /\ ~(a > 0 /\ a < Latch) /\ Jumping(o.input) ->
             Press(k, "release", 0, FALSE, "run")
        [] OTHER -> IF o.pose = "near" THEN Press(k, "launch", 1, FALSE, "jump")
                    ELSE Press(k, "approach", a, FALSE, "run")

InFlight(k, o) ==
  Press(k, "intercept", k.attack.frames + 1, TRUE,
        IF k.attack.frames < Hold /\ o.rise THEN "jump" ELSE "run")

\* Mutant: once in the air an attack is not called off.
VetoedOnGround(k, o) == k.status # "active" /\ o.ground

\* "Task vetoes apply in flight too."
Vetoed(k, o) == k.status # "active"

\* combat is the action proposed, "none" when nothing is; only a hunter attacks.
Engage(k, o) ==
  LET seen == k.target # None /\ k.tracks[k.target].visible
      lost == [k EXCEPT !.attack = NoAttack, !.combat = "none",
                        !.phase = IF k.attack.target \in DOMAIN k.tracks \ Live(k)
                                  THEN "verified" ELSE "navigation"]
  IN  CASE o.mode # "hunter" \/ o.terminal -> [k EXCEPT !.combat = "none", !.phase = "navigation"]
        [] o.mode = "hunter" /\ ~o.terminal /\ ~seen -> lost
        [] OTHER ->
             IF Vetoed(k, o) THEN Rest(k, k.status)
             ELSE IF o.ground /\ o.pose = "retreat" THEN Press(k, "retreat", 0, FALSE, "left")
             ELSE IF ~o.ground /\ o.pose = "replan" THEN Rest(k, "replan")
             ELSE IF o.pose = "gap" THEN [Aimed(k) EXCEPT !.combat = "none", !.phase = "geometry"]
             ELSE IF o.ground THEN OnGround(Aimed(k), o) ELSE InFlight(Aimed(k), o)
=============================================================================
