-------------------------- MODULE MCExperienceMemory --------------------------
(* An instance of ExperienceMemory for TLC. *)
EXTENDS ExperienceMemory

Standing == [after |-> 1, known |-> TRUE, ground |-> TRUE, leaps |-> FALSE,
             motion |-> "level", dead |-> FALSE, clear |-> FALSE, view |-> <<>>,
             torn |-> FALSE, foes |-> <<>>]

\* On the ground over two columns with an enemy, now or after a skip; another column, the
\* first changed and another enemy in its slot, in a jump; falling, also after a gap;
\* dying; an unknown level; a frame that fails after two columns.
MCScenes ==
  {[Standing EXCEPT !.after = d, !.view = << <<"a", 1>>, <<"b", 1>> >>,
                    !.foes = << <<0, 6, TRUE>> >>] : d \in {1, 5}}
  \cup {[Standing EXCEPT !.after = d, !.ground = FALSE, !.motion = "down"] : d \in {1, 5}}
  \cup
  {[Standing EXCEPT !.ground = FALSE, !.leaps = TRUE, !.motion = "up",
                    !.view = << <<"a", 2>>, <<"c", 1>> >>,
                    !.foes = << <<0, 7, TRUE>>, <<1, 6, FALSE>> >>],
   [Standing EXCEPT !.dead = TRUE, !.ground = FALSE],
   [Standing EXCEPT !.known = FALSE],
   [Standing EXCEPT !.torn = TRUE, !.view = << <<"c", 2>>, <<"d", 1>> >>]}
===============================================================================
