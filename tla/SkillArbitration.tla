--------------------------- MODULE SkillArbitration ---------------------------
(* jevt::skills::arbitrate (src/include/jevt/skill.hpp): which of the          *)
(* proposals made for a snapshot is executed.  IDs are unique, or the call     *)
(* throws.  Names, reasons and the trace are left out; a priority and a        *)
(* utility are numbers, conditions a set of truth values.                      *)
EXTENDS Integers, Sequences

\* A version of a snapshot other than the frame.
SameVersions(p, now) ==
  p.at.run = now.run /\ p.at.context = now.context /\ p.at.candidates = now.candidates

\* Mutant: a set of candidates that was replaced is not noticed.
StaleButCandidates(p, now) ==
  \/ p.at.run # now.run \/ p.at.context # now.context
  \/ p.at.frame > now.frame \/ now.frame - p.at.frame > p.max_age

\* Mutant: a proposal for a frame ahead of the snapshot passes, its age being negative.
StaleNotAhead(p, now) == ~SameVersions(p, now) \/ now.frame - p.at.frame > p.max_age

Stale(p, now) ==
  ~SameVersions(p, now) \/ p.at.frame > now.frame \/ now.frame - p.at.frame > p.max_age

\* "A known prohibition is more informative than an unknown condition."
Status(p, now) ==
  CASE ~p.valid               -> "invalid"
    [] p.valid /\ Stale(p, now) -> "stale"
    [] OTHER -> IF "false" \in p.conditions THEN "prohibited"
                ELSE IF "unknown" \in p.conditions THEN "unknown"
                ELSE "admissible"

\* A later proposal takes the place of the best so far.
Beats(p, best) ==
  \/ best.emergency /\ ~p.emergency
  \/ p.emergency = best.emergency /\ p.priority > best.priority
  \/ p.emergency = best.emergency /\ p.priority = best.priority /\ p.utility > best.utility

\* What is selected once proposal i has been looked at too; 0 is nothing yet.
Better(now, proposals, best, i) ==
  IF Status(proposals[i], now) # "admissible" THEN best
  ELSE IF best = 0 \/ Beats(proposals[i], proposals[best]) THEN i ELSE best

\* What is selected after each round of the loop.
Rounds(now, proposals) ==
  LET best[i \in 0..Len(proposals)] ==
        IF i = 0 THEN 0 ELSE Better(now, proposals, best[i - 1], i)
  IN  best

\* The index of the proposal selected; 0, no action, when none is admissible.
Arbitrate(now, proposals) == Rounds(now, proposals)[Len(proposals)]
=============================================================================
