---------------------------- MODULE SkillExecution ----------------------------
(***************************************************************************)
(* jevt::skills::skill_execution (src/include/jevt/skill.hpp): one attempt *)
(* of a skill at a time, started, executed and verified by evidence that   *)
(* an asynchronous verifier supplies.                                      *)
(*                                                                         *)
(* The world is external: runs follow one another and each counts its      *)
(* frames from 0.  The verifier may have observed anything, of any attempt,*)
(* at any moment so far, and delivers it late, in any order, again and     *)
(* again, or never.  Runs are numbered in their order, which the code      *)
(* cannot see: it compares run IDs for equality only.  Reasons and details *)
(* are left out.                                                           *)
(***************************************************************************)
EXTENDS Integers

CONSTANTS
  Attempts,   \* attempt IDs, each used once
  MaxRun, MaxFrame,  \* bounds: how many runs, how many frames in one
  NoAttempt

ASSUME SkillAssumption ==
  MaxRun \in Nat \ {0} /\ MaxFrame \in Nat /\ NoAttempt \notin Attempts

Moments == [run : 0..MaxRun, frame : 0..MaxFrame]
NoMoment == [run |-> 0, frame |-> 0]
Truth == {"unknown", "false", "true"}
Evidence == [attempt : Attempts, at : Moments, effect : Truth]
NoEvidence == [attempt |-> NoAttempt, at |-> NoMoment, effect |-> "unknown"]

VARIABLES
  status, attempt_id, started, evidence,  \* status_, attempt_id_, started_, evidence_
  run, frames,  \* the run it is, and the frames each run has come to
  used          \* the attempt IDs the adapter has used up

execution == <<status, attempt_id, started, evidence>>
world == <<run, frames>>
vars == <<execution, world, used>>

Now == [run |-> run, frame |-> frames[run]]

Active == status \in {"running", "verifying"}
Terminal == {"succeeded", "failed", "blocked", "interrupted"}

Init ==
  /\ status = "ready" /\ attempt_id = NoAttempt
  /\ started = NoMoment /\ evidence = NoEvidence
  /\ run = 1 /\ frames = [r \in 1..MaxRun |-> 0]
  /\ used = {}

-----------------------------------------------------------------------------
\* start() with the truth values of its initiation conditions.
Start(a, initiation) ==
  /\ ~Active
  /\ a \notin used
  /\ attempt_id' = a /\ started' = Now /\ evidence' = NoEvidence
  /\ status' = IF initiation \subseteq {"true"} THEN "running" ELSE "blocked"
  /\ used' = used \cup {a}
  /\ UNCHANGED <<world>>

BeginVerification ==
  /\ status = "running"
  /\ status' = "verifying"
  /\ UNCHANGED <<attempt_id, started, evidence, world, used>>

\* Mutant: the run of the evidence is not compared.
AcceptsAnyRun(e) ==
  /\ status = "verifying"
  /\ e.attempt = attempt_id
  /\ e.at.frame > started.frame
  /\ evidence = NoEvidence \/ e.at.frame >= evidence.at.frame

\* Mutant: an outcome can be revised.
AcceptsRevision(e) ==
  /\ status \in {"verifying", "succeeded", "failed"}
  /\ e.attempt = attempt_id
  /\ e.at.run = started.run /\ e.at.frame > started.frame
  /\ evidence = NoEvidence \/ e.at.frame >= evidence.at.frame

Accepts(e) ==
  /\ status = "verifying"
  /\ e.attempt = attempt_id
  /\ e.at.run = started.run /\ e.at.frame > started.frame
  /\ evidence = NoEvidence \/ e.at.frame >= evidence.at.frame

\* Evidence that is not accepted changes nothing.
Verify(e) ==
  /\ Accepts(e)
  /\ evidence' = e
  /\ status' = CASE e.effect = "true"    -> "succeeded"
                 [] e.effect = "false"   -> "failed"
                 [] e.effect = "unknown" -> status
  /\ UNCHANGED <<attempt_id, started, world, used>>

Interrupt ==
  /\ Active
  /\ status' = "interrupted"
  /\ UNCHANGED <<attempt_id, started, evidence, world, used>>

-----------------------------------------------------------------------------
(* The world and the verifier *)

Frame ==
  /\ frames[run] < MaxFrame
  /\ frames' = [frames EXCEPT ![run] = @ + 1]
  /\ UNCHANGED <<execution, run, used>>

NewRun ==
  /\ run < MaxRun
  /\ run' = run + 1
  /\ UNCHANGED <<execution, frames, used>>

\* What the verifier may have observed so far.
Observed ==
  {e \in Evidence : e.at.run \in 1..run /\ e.at.frame <= frames[e.at.run]}

Next ==
  \/ \E a \in Attempts, initiation \in SUBSET Truth : Start(a, initiation)
  \/ BeginVerification \/ Interrupt
  \/ \E e \in Observed : Verify(e)
  \/ Frame \/ NewRun

Spec == Init /\ [][Next]_vars

-----------------------------------------------------------------------------
(* Properties *)

TypeOK ==
  /\ status \in Terminal \cup {"ready", "running", "verifying"}
  /\ attempt_id \in Attempts \cup {NoAttempt} /\ started \in Moments
  /\ evidence \in Evidence \cup {NoEvidence}
  /\ status \in {"ready", "running", "blocked"} => evidence = NoEvidence
  /\ run \in 1..MaxRun /\ frames \in [1..MaxRun -> 0..MaxFrame]
  /\ used \subseteq Attempts

\* Real time: a moment of an earlier run is earlier whatever its frame.
Earlier(m, n) == m.run < n.run \/ (m.run = n.run /\ m.frame < n.frame)

\* Whatever is delivered late, twice or out of order: what evidence() shows is of the
\* attempt it is asked about, and a success or failure was observed as such, of this
\* attempt, in the run it was made in and after it had started.
OutcomeSupported ==
  /\ TypeOK
  /\ evidence # NoEvidence => evidence.attempt = attempt_id
  /\ status \in {"succeeded", "failed"} =>
       /\ evidence.attempt = attempt_id
       /\ Earlier(started, evidence.at) /\ evidence.at.run = started.run
       /\ evidence.effect = IF status = "succeeded" THEN "true" ELSE "false"

\* "Terminal outcomes cannot be overwritten" and "stale ... evidence is rejected": until
\* another attempt starts an outcome is final, and evidence goes forward only.
AttemptForward ==
  [][attempt_id' = attempt_id =>
       /\ status \in Terminal => status' = status /\ evidence' = evidence
       /\ evidence # NoEvidence => ~Earlier(evidence'.at, evidence.at)]_vars
=============================================================================
