---------------------------- MODULE MCSkillRuntime ----------------------------
(* Instances of SkillDispatch and SkillRuntime for TLC. *)
EXTENDS SkillDispatch

CONSTANTS a1, a2, a3, x, y, z

Symmetry == Permutations({a1, a2, a3}) \cup Permutations({x, y, z})

Plain == [valid |-> TRUE, max_age |-> 0, priority |-> 0, utility |-> 0, emergency |-> FALSE,
          conditions |-> {"true"}]

\* Regular proposals that differ in priority, utility or age, an emergency above them,
\* and proposals that may not be executed.
SomeOffers == {
  Plain,
  [Plain EXCEPT !.utility = 1, !.max_age = 1],
  [Plain EXCEPT !.priority = 1, !.max_age = 2],
  [Plain EXCEPT !.priority = 2, !.emergency = TRUE],
  [Plain EXCEPT !.priority = 2, !.conditions = {"unknown", "true"}],
  [Plain EXCEPT !.priority = 2, !.conditions = {"false", "unknown"}],
  [Plain EXCEPT !.priority = 2, !.valid = FALSE]}
=============================================================================
