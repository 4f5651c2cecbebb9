----------------------------- MODULE SkillRuntime -----------------------------
(***************************************************************************)
(* Skills and experience together, the way docs/SKILLS.md has an adapter   *)
(* use them: attempts are executed and verified one after another, and     *)
(* each that was executed is reported to an outcome memory, late, again    *)
(* and under another context's name as it may happen.  A blocked attempt   *)
(* "was not executed and must not be recorded as a failed attempt", an     *)
(* interrupted one is neither success nor failure.                         *)
(***************************************************************************)
EXTENDS SkillExecution, OutcomeMemory

CONSTANT Contexts   \* the contexts attempts are made in

VARIABLE ended   \* the adapter's notes: the outcome of each attempt that was executed

allvars == <<vars, memory, ended>>

RuntimeInit == Init /\ MemoryInit /\ ended = <<>>

\* The adapter reads status() once an attempt is over.
Note ==
  /\ status \in {"succeeded", "failed", "interrupted"} /\ attempt_id \notin DOMAIN ended
  /\ ended' = [a \in DOMAIN ended \cup {attempt_id} |->
       IF a # attempt_id THEN ended[a]
       ELSE IF status = "interrupted" THEN "unknown" ELSE status]
  /\ UNCHANGED <<vars, memory>>

Report(c, a) ==
  /\ a \in DOMAIN ended
  /\ Label(c, a, ended[a])
  /\ UNCHANGED <<vars, ended>>

Reset == Forget /\ UNCHANGED <<vars, ended>>

RuntimeNext ==
  \/ Next /\ UNCHANGED <<memory, ended>>
  \/ Note \/ Reset
  \/ \E c \in Contexts, a \in Attempts : Report(c, a)

RuntimeSpec == RuntimeInit /\ [][RuntimeNext]_allvars

=============================================================================
