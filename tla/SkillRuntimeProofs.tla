-------------------------- MODULE SkillRuntimeProofs --------------------------
(* What late, repeated and misplaced evidence and reports cannot do to an     *)
(* execution and to an outcome memory, for any attempts, runs and capacity;   *)
(* and what the dashboard's agent, which chooses among skills by the same     *)
(* rules, learns and does, for any scenes of its games and any judgments.     *)
EXTENDS SkillDispatch, PlanJudgment, FiniteSetTheorems, SequenceTheorems,
        WellFoundedInduction, TLAPS

\* Evidence that was accepted is of the run the attempt started in, and the ID of an
\* attempt that was made is used up.
Accepted ==
  /\ evidence # NoEvidence => evidence.at.run = started.run
  /\ attempt_id # NoAttempt => attempt_id \in used

ExecutionInv == OutcomeSupported /\ Accepted

-----------------------------------------------------------------------------
(* skill_execution *)

LEMMA ExecutionInit == Init => ExecutionInv
<1> SUFFICES ASSUME Init PROVE ExecutionInv
  OBVIOUS
<1>1. TypeOK
  BY SkillAssumption
     DEF Init, TypeOK, Terminal, NoMoment, NoEvidence, Evidence, Moments, Truth
<1> QED
  BY <1>1 DEF Init, ExecutionInv, OutcomeSupported, Accepted

LEMMA NowIsMoment == ASSUME TypeOK PROVE Now \in Moments
  BY DEF TypeOK, Now, Moments

\* Evidence that verify() accepts supports the status it sets.
LEMMA VerifyInv ==
  ASSUME ExecutionInv, NEW e \in Evidence, Verify(e)
  PROVE  ExecutionInv'
<1>1. e # NoEvidence
  BY SkillAssumption DEF Evidence, NoEvidence
<1>2. /\ evidence' = e /\ e.attempt = attempt_id
      /\ e.at.run = started.run /\ e.at.frame > started.frame
      /\ status = "verifying"
      /\ UNCHANGED <<attempt_id, started, run, frames, used>>
  BY DEF Verify, Accepts, world
<1>3. /\ e.effect = "true" => status' = "succeeded"
      /\ e.effect = "false" => status' = "failed"
      /\ e.effect = "unknown" => status' = "verifying"
      /\ e.effect \in {"true", "false", "unknown"}
  BY <1>2 DEF Verify, Evidence, Truth
<1>4. TypeOK'
  BY <1>1, <1>2, <1>3 DEF ExecutionInv, OutcomeSupported, TypeOK, Terminal
<1>5. Earlier(started, e.at)
  BY <1>2 DEF Earlier
<1> QED
  BY <1>1, <1>2, <1>3, <1>4, <1>5 DEF ExecutionInv, OutcomeSupported, Accepted, Earlier

LEMMA ExecutionStep == ExecutionInv /\ [Next]_vars => ExecutionInv'
<1> SUFFICES ASSUME ExecutionInv, [Next]_vars PROVE ExecutionInv'
  OBVIOUS
<1> USE DEF ExecutionInv, OutcomeSupported, Accepted
<1>1. CASE UNCHANGED vars
  BY <1>1 DEF vars, execution, world, TypeOK, Earlier
<1>2. ASSUME NEW a \in Attempts, NEW initiation \in SUBSET Truth, Start(a, initiation)
      PROVE  ExecutionInv'
  <2>1. status' \in {"running", "blocked"} /\ evidence' = NoEvidence
        /\ attempt_id' = a /\ started' = Now /\ used' = used \cup {a}
        /\ UNCHANGED <<run, frames>>
    BY <1>2 DEF Start, world
  <2>2. TypeOK'
    BY <2>1, NowIsMoment DEF TypeOK, Terminal
  <2> QED
    BY <2>1, <2>2
<1>3. CASE BeginVerification
  BY <1>3 DEF BeginVerification, TypeOK, world, Earlier
<1>4. CASE Interrupt
  BY <1>4 DEF Interrupt, TypeOK, Terminal, world, Earlier
<1>5. ASSUME NEW e \in Observed, Verify(e) PROVE ExecutionInv'
  BY <1>5, VerifyInv DEF Observed
<1>6. CASE Frame \/ NewRun
  BY <1>6, SkillAssumption DEF Frame, NewRun, execution, TypeOK, Earlier
<1> QED
  BY <1>1, <1>2, <1>3, <1>4, <1>5, <1>6 DEF Next

\* What follows for the composition: its steps are steps of skill_execution or leave it
\* alone.
LEMMA RuntimeSteps == [RuntimeNext]_allvars => [Next]_vars
  BY DEF RuntimeNext, allvars, Note, Report, Reset

LEMMA RuntimeInvariance == RuntimeSpec => []ExecutionInv
<1>1. RuntimeInit => ExecutionInv
  BY ExecutionInit DEF RuntimeInit
<1>2. ExecutionInv /\ [RuntimeNext]_allvars => ExecutionInv'
  BY RuntimeSteps, ExecutionStep
<1> QED
  BY <1>1, <1>2, PTL DEF RuntimeSpec

\* A success or failure rests on evidence observed after the attempt started, in its run
\* and of that attempt: skill.hpp:190-199.
THEOREM Supported == RuntimeSpec => []OutcomeSupported
<1>1. ExecutionInv => OutcomeSupported
  BY DEF ExecutionInv
<1> QED
  BY <1>1, RuntimeInvariance, PTL

\* Until another attempt starts its outcome is final and its evidence does not go back
\* in time: skill.hpp:170-173 and 191-194.
THEOREM Forward == RuntimeSpec => AttemptForward
<1> DEFINE Forth ==
      attempt_id' = attempt_id =>
        /\ status \in Terminal => status' = status /\ evidence' = evidence
        /\ evidence # NoEvidence => ~Earlier(evidence'.at, evidence.at)
<1>1. ExecutionInv /\ [Next]_vars => [Forth]_vars
  <2> SUFFICES ASSUME ExecutionInv, Next, attempt_id' = attempt_id
               PROVE  Forth
    OBVIOUS
  <2>1. evidence \in Evidence \/ evidence = NoEvidence
    BY DEF ExecutionInv, OutcomeSupported, TypeOK
  <2>2. ASSUME evidence' = evidence, status \in Terminal => status' = status
        PROVE  Forth
    <3>1. ~Earlier(evidence.at, evidence.at)
      BY <2>1, SkillAssumption DEF Earlier, Evidence, Moments, NoEvidence, NoMoment
    <3> QED
      BY <2>2, <3>1
  <2>3. ASSUME NEW a \in Attempts, NEW initiation \in SUBSET Truth, Start(a, initiation)
        PROVE  FALSE
    BY <2>3, SkillAssumption DEF Start, ExecutionInv, Accepted
  <2>4. CASE BeginVerification \/ Interrupt \/ Frame \/ NewRun
    BY <2>2, <2>4
       DEF BeginVerification, Interrupt, Active, Frame, NewRun, execution, Terminal
  <2>5. ASSUME NEW e \in Observed, Verify(e) PROVE Forth
    <3>1. /\ status = "verifying" /\ evidence' = e /\ e \in Evidence
          /\ e.at.run = started.run
          /\ evidence # NoEvidence => e.at.frame >= evidence.at.frame
      BY <2>5 DEF Verify, Accepts, Observed
    <3>2. evidence # NoEvidence => evidence.at.run = e.at.run
      BY <3>1 DEF ExecutionInv, Accepted
    <3> QED
      BY <2>1, <3>1, <3>2 DEF Terminal, Earlier, Evidence, Moments
  <2> QED
    BY <2>3, <2>4, <2>5 DEF Next
<1>2. ExecutionInv /\ [RuntimeNext]_allvars => [Forth]_vars
  BY <1>1, RuntimeSteps
<1> QED
  BY <1>2, RuntimeInvariance, PTL DEF RuntimeSpec, AttemptForward

-----------------------------------------------------------------------------
(* outcome_memory *)

Labels == [context : Contexts, attempt : Attempts, outcome : Outcome]

\* seen_ is the attempts of the last labels, all of them or as many as the window holds.
SeenIsTail ==
  /\ seen \in Seq(Attempts) /\ labels \in Seq(Labels)
  /\ Len(seen) <= Len(labels) /\ Len(seen) <= Window
  /\ Len(seen) = Window \/ Len(seen) = Len(labels)
  /\ \A i \in 1..Len(seen) : seen[i] = labels[Len(labels) - Len(seen) + i].attempt

MemoryInv ==
  /\ \A a \in DOMAIN ended : ended[a] \in Outcome
  /\ SeenIsTail /\ LabelledOnce

\* The window after a label: the attempt comes last, and the first gives way.
LEMMA RememberedTail ==
  ASSUME SeenIsTail, NEW l \in Labels, seen' = Remembered(l.attempt),
         labels' = Append(labels, l)
  PROVE  SeenIsTail'
<1>0. Len(seen) \in Nat /\ Len(labels) \in Nat /\ Window \in Nat \ {0}
  BY LenProperties, MemoryAssumption DEF SeenIsTail
<1>1. /\ labels' \in Seq(Labels) /\ Len(labels') = Len(labels) + 1
      /\ labels'[Len(labels) + 1] = l
      /\ \A i \in 1..Len(labels) : labels'[i] = labels[i]
  BY AppendProperties DEF SeenIsTail
<1> DEFINE longer == Append(seen, l.attempt)
<1>2. /\ longer \in Seq(Attempts) /\ longer # <<>> /\ Len(longer) = Len(seen) + 1
      /\ longer[Len(seen) + 1] = l.attempt
      /\ \A i \in 1..Len(seen) : longer[i] = seen[i]
  BY AppendProperties DEF SeenIsTail, Labels
<1>3. \A i \in 1..(Len(seen) + 1) :
        longer[i] = labels'[Len(labels) - Len(seen) + i].attempt
  <2> TAKE i \in 1..(Len(seen) + 1)
  <2>1. CASE i = Len(seen) + 1
    BY <1>1, <1>2, <2>1 DEF SeenIsTail
  <2>2. CASE i \in 1..Len(seen)
    <3>1. Len(labels) - Len(seen) + i \in 1..Len(labels)
      BY <2>2 DEF SeenIsTail
    <3> QED
      BY <1>1, <1>2, <2>2, <3>1 DEF SeenIsTail
  <2>3. i \in Nat /\ i >= 1 /\ i <= Len(seen) + 1
    BY <1>0
  <2>4. i = Len(seen) + 1 \/ i \in 1..Len(seen)
    BY <1>0, <2>3
  <2> QED
    BY <2>1, <2>2, <2>4
<1>4. CASE Len(seen) + 1 > Window
  <2>1. seen' = Tail(longer) /\ Len(seen) = Window
    BY <1>0, <1>4 DEF Remembered, SeenIsTail
  <2>2. /\ seen' \in Seq(Attempts) /\ Len(seen') = Len(seen)
        /\ \A i \in 1..Len(seen) : seen'[i] = longer[i + 1]
    BY <1>2, <2>1, HeadTailProperties DEF SeenIsTail
  <2>3. \A i \in 1..Len(seen) : seen'[i] = labels'[Len(labels') - Len(seen') + i].attempt
    <3> TAKE i \in 1..Len(seen)
    <3>1. i + 1 \in 1..(Len(seen) + 1)
      BY DEF SeenIsTail
    <3>2. seen'[i] = labels'[Len(labels) - Len(seen) + (i + 1)].attempt
      BY <1>3, <2>2, <3>1
    <3>3. Len(labels) - Len(seen) + (i + 1) = Len(labels') - Len(seen') + i
      BY <1>1, <2>2 DEF SeenIsTail
    <3> QED
      BY <3>2, <3>3
  <2>4. Len(seen') <= Len(labels') /\ Len(seen') = Window
    BY <1>0, <1>1, <2>1, <2>2 DEF SeenIsTail
  <2>5. \A i \in 1..Len(seen') : seen'[i] = labels'[Len(labels') - Len(seen') + i].attempt
    BY <2>2, <2>3
  <2> QED
    BY <1>0, <1>1, <2>2, <2>4, <2>5 DEF SeenIsTail
<1>5. CASE ~(Len(seen) + 1 > Window)
  <2>1. seen' = longer /\ Len(seen) = Len(labels)
    BY <1>0, <1>5 DEF Remembered, SeenIsTail
  <2>2. seen' \in Seq(Attempts) /\ Len(seen') = Len(labels') /\ Len(seen') <= Window
    BY <1>0, <1>1, <1>2, <1>5, <2>1
  <2>3. ASSUME NEW i \in 1..Len(seen')
        PROVE  seen'[i] = labels'[Len(labels') - Len(seen') + i].attempt
    <3>1. i \in 1..(Len(seen) + 1)
      BY <1>2, <2>1, <2>3
    <3>2. seen'[i] = labels'[Len(labels) - Len(seen) + i].attempt
      BY <1>3, <2>1, <3>1
    <3>3. Len(labels) - Len(seen) + i = Len(labels') - Len(seen') + i
      BY <1>0, <1>1, <2>1, <2>2
    <3> QED
      BY <3>2, <3>3
  <2>4. Len(seen') <= Len(labels')
    BY <1>0, <1>1, <2>2
  <2> QED
    BY <1>1, <2>2, <2>3, <2>4 DEF SeenIsTail
<1> QED
  BY <1>4, <1>5

\* An attempt that is not in the window was labelled longer than a window ago.
LEMMA LabelOnce ==
  ASSUME SeenIsTail, LabelledOnce, NEW l \in Labels, ~Contains(seen, l.attempt),
         labels' = Append(labels, l)
  PROVE  LabelledOnce'
<1>0. Len(seen) \in Nat /\ Len(labels) \in Nat /\ Window \in Nat \ {0}
  BY LenProperties, MemoryAssumption DEF SeenIsTail
<1>1. /\ Len(labels') = Len(labels) + 1 /\ DOMAIN labels' = 1..(Len(labels) + 1)
      /\ labels'[Len(labels) + 1] = l
      /\ \A i \in 1..Len(labels) : labels'[i] = labels[i]
  BY <1>0, AppendProperties, LenProperties DEF SeenIsTail
<1>2. DOMAIN labels = 1..Len(labels)
  BY LenProperties DEF SeenIsTail
<1> SUFFICES ASSUME NEW i \in DOMAIN labels', NEW j \in DOMAIN labels',
                    i < j, labels'[i].attempt = labels'[j].attempt
             PROVE  j - i > Window
  BY DEF LabelledOnce
<1>3. i \in 1..Len(labels) /\ j \in 1..(Len(labels) + 1)
  BY <1>0, <1>1
<1>4. CASE j \in 1..Len(labels)
  BY <1>1, <1>2, <1>3, <1>4 DEF LabelledOnce
<1>5. CASE j = Len(labels) + 1
  <2> SUFFICES ASSUME Len(labels) + 1 - i <= Window PROVE FALSE
    BY <1>0, <1>3, <1>5
  <2> DEFINE z == i - Len(labels) + Len(seen)
  <2>1. z \in 1..Len(seen)
    BY <1>0, <1>3 DEF SeenIsTail
  <2>2. Len(labels) - Len(seen) + z = i
    BY <1>0, <1>3
  <2>3. seen[z] = labels[Len(labels) - Len(seen) + z].attempt
    BY <2>1 DEF SeenIsTail
  <2>4. seen[z] = l.attempt
    BY <1>1, <1>3, <1>5, <2>2, <2>3
  <2> QED
    BY <2>1, <2>4 DEF Contains
<1> QED
  BY <1>0, <1>3, <1>4, <1>5

LEMMA MemoryStep == MemoryInv /\ [RuntimeNext]_allvars => MemoryInv'
<1> SUFFICES ASSUME MemoryInv, [RuntimeNext]_allvars PROVE MemoryInv'
  OBVIOUS
<1>1. CASE UNCHANGED <<memory, ended>>
  BY <1>1 DEF MemoryInv, memory, SeenIsTail, LabelledOnce
<1>2. CASE Note
  BY <1>2 DEF Note, Outcome, MemoryInv, memory, SeenIsTail, LabelledOnce
<1>3. CASE Reset
  <2>1. seen' = <<>> /\ labels' = <<>> /\ ended' = ended
    BY <1>3 DEF Reset, Forget
  <2>2. SeenIsTail' /\ LabelledOnce'
    BY <2>1, EmptySeq, MemoryAssumption DEF SeenIsTail, LabelledOnce
  <2> QED
    BY <2>1, <2>2 DEF MemoryInv
<1>4. ASSUME NEW c \in Contexts, NEW a \in Attempts, Report(c, a) PROVE MemoryInv'
  <2> DEFINE l == [context |-> c, attempt |-> a, outcome |-> ended[a]]
  <2>1. l \in Labels
    BY <1>4 DEF Report, MemoryInv, Labels
  <2>2. /\ ~Contains(seen, l.attempt) /\ seen' = Remembered(l.attempt)
        /\ labels' = Append(labels, l) /\ ended' = ended
    BY <1>4 DEF Report, Label, Duplicate
  <2>3. SeenIsTail'
    BY <2>1, <2>2, RememberedTail DEF MemoryInv
  <2>4. LabelledOnce'
    BY <2>1, <2>2, LabelOnce DEF MemoryInv
  <2> QED
    BY <2>2, <2>3, <2>4 DEF MemoryInv
<1> QED
  BY <1>1, <1>2, <1>3, <1>4 DEF RuntimeNext, allvars

LEMMA MemoryBegins == RuntimeInit => MemoryInv
<1> SUFFICES ASSUME RuntimeInit PROVE MemoryInv
  OBVIOUS
<1>1. seen = <<>> /\ labels = <<>> /\ ended = <<>>
  BY DEF RuntimeInit, MemoryInit
<1>2. SeenIsTail /\ LabelledOnce
  BY <1>1, EmptySeq, MemoryAssumption DEF SeenIsTail, LabelledOnce
<1>3. \A a \in DOMAIN ended : FALSE
  BY <1>1
<1> QED
  BY <1>2, <1>3 DEF MemoryInv

\* One attempt contributes at most one label within the window, whatever contexts it is
\* reported under: experience.hpp:97-113.
THEOREM Labelled == RuntimeSpec => []LabelledOnce
<1>1. RuntimeInit => MemoryInv
  BY MemoryBegins
<1>2. MemoryInv /\ [RuntimeNext]_allvars => MemoryInv'
  BY MemoryStep
<1>3. MemoryInv => LabelledOnce
  BY DEF MemoryInv
<1> QED
  BY <1>1, <1>2, <1>3, PTL DEF RuntimeSpec

-----------------------------------------------------------------------------
(* The evidence of a context *)

\* The labels of a context from the i-th on, and those of them with an outcome.
From(ls, c, i) == {j \in i..Len(ls) : ls[j].context = c}
FromWith(ls, c, i, o) == {j \in From(ls, c, i) : ls[j].outcome = o}

OrderKept ==
  /\ insertion_order \in Seq(Contexts) /\ IsInjective(insertion_order)
  /\ ToSet(insertion_order) = DOMAIN records
  /\ IsFiniteSet(DOMAIN records) /\ Cardinality(DOMAIN records) <= Capacity
  /\ \A c \in DOMAIN records : records[c] \in [Outcome -> Nat]

\* s[c] is the label c was inserted with, and what is counted is counted since.
Since(s) ==
  /\ \A c \in DOMAIN records :
       /\ labels[s[c]].context = c
       /\ \A o \in Outcome : records[c][o] = Cardinality(FromWith(labels, c, s[c], o))
  /\ \A z, m \in 1..Len(insertion_order) :
       z < m => s[insertion_order[z]] < s[insertion_order[m]]

RecordsInv ==
  /\ OrderKept /\ labels \in Seq(Labels)
  /\ \E s \in [DOMAIN records -> 1..Len(labels)] : Since(s)

LEMMA Finite ==
  ASSUME labels \in Seq(Labels), NEW c, NEW i \in Nat, NEW S \in SUBSET From(labels, c, i)
  PROVE  /\ IsFiniteSet(From(labels, c, i)) /\ Cardinality(From(labels, c, i)) \in Nat
         /\ IsFiniteSet(S) /\ Cardinality(S) \in Nat
         /\ Cardinality(S) <= Cardinality(From(labels, c, i))
<1>1. Len(labels) \in Nat
  BY LenProperties
<1>2. IsFiniteSet(i..Len(labels))
  BY <1>1, FS_Interval
<1>3. IsFiniteSet(From(labels, c, i))
  BY <1>2, FS_Subset DEF From
<1> QED
  BY <1>3, FS_Subset, FS_CardinalityType

\* Making room takes the first context, and the others keep their order.
LEMMA Room ==
  ASSUME OrderKept
  PROVE  LET full == Cardinality(DOMAIN records) >= Capacity
             base == IF full THEN Tail(insertion_order) ELSE insertion_order
             d == IF full THEN 1 ELSE 0
         IN  /\ base \in Seq(Contexts) /\ Len(base) = Len(insertion_order) - d
             /\ Len(base) \in Nat
             /\ \A i \in 1..Len(base) : /\ base[i] = insertion_order[i + d]
                                        /\ i + d \in 1..Len(insertion_order)
             /\ ToSet(base) \subseteq DOMAIN records
             /\ IsFiniteSet(ToSet(base)) /\ Cardinality(ToSet(base)) < Capacity
<1> DEFINE q == insertion_order
           full == Cardinality(DOMAIN records) >= Capacity
           R == DOMAIN records
<1>1. /\ Len(q) \in Nat /\ DOMAIN q = 1..Len(q) /\ q \in Seq(Contexts)
      /\ ToSet(q) = {q[i] : i \in 1..Len(q)}
  BY LenProperties DEF OrderKept, ToSet
<1>2. /\ IsFiniteSet(R) /\ Cardinality(R) \in Nat /\ Cardinality(R) <= Capacity
      /\ Capacity \in Nat \ {0} /\ ToSet(q) = R
  BY FS_CardinalityType, MemoryAssumption DEF OrderKept
<1>3. CASE ~full
  BY <1>1, <1>2, <1>3
<1>4. CASE full
  <2> DEFINE base == Tail(q)
  <2>1. R # {}
    BY <1>2, <1>4, FS_EmptySet
  <2>2. q # <<>>
    BY <1>1, <1>2, <2>1
  <2>3. /\ base \in Seq(Contexts) /\ Len(base) = Len(q) - 1
        /\ \A i \in 1..Len(base) : base[i] = q[i + 1]
    BY <1>1, <2>2, HeadTailProperties
  <2>4. Len(q) >= 1 /\ 1 \in 1..Len(q) /\ Len(base) \in Nat
    BY <1>1, <2>2, <2>3, EmptySeq
  <2>5. \A i \in 1..Len(base) : i + 1 \in 1..Len(q) /\ i + 1 # 1
    BY <1>1, <2>3, <2>4
  <2>6. DOMAIN base = 1..Len(base)
    BY <2>3, LenProperties
  <2>7. ToSet(base) \subseteq R \ {q[1]}
    <3> SUFFICES ASSUME NEW i \in 1..Len(base) PROVE base[i] \in R \ {q[1]}
      BY <2>6 DEF ToSet
    <3>1. base[i] = q[i + 1] /\ i + 1 \in 1..Len(q) /\ i + 1 # 1
      BY <2>3, <2>5
    <3>2. q[i + 1] # q[1]
      BY <1>1, <2>4, <3>1 DEF OrderKept, IsInjective
    <3> QED
      BY <1>1, <1>2, <3>1, <3>2
  <2>8. IsFiniteSet(R \ {q[1]}) /\ Cardinality(R \ {q[1]}) = Cardinality(R) - 1
    <3>1. q[1] \in R /\ IsFiniteSet(R)
      BY <1>1, <1>2, <2>4
    <3> HIDE DEF q, R
    <3> QED
      BY <3>1, FS_RemoveElement
  <2>9. /\ IsFiniteSet(ToSet(base)) /\ Cardinality(ToSet(base)) \in Nat
        /\ Cardinality(ToSet(base)) <= Cardinality(R \ {q[1]})
    BY <2>7, <2>8, FS_Subset, FS_CardinalityType
  <2>10. Cardinality(ToSet(base)) < Capacity
    BY <1>2, <2>8, <2>9
  <2> HIDE DEF q, base
  <2>11. ToSet(base) \subseteq R
    BY <2>7
  <2> QED
    BY <1>4, <2>3, <2>4, <2>5, <2>9, <2>10, <2>11 DEF q, base
<1> QED
  BY <1>3, <1>4

\* The order after a label: c is in it, and comes last unless it was there.
LEMMA OrderStep ==
  ASSUME OrderKept, NEW c \in Contexts
  PROVE  LET q == Order(c)
         IN  /\ q \in Seq(Contexts) /\ IsInjective(q) /\ Len(q) \in Nat
             /\ ToSet(q) \subseteq DOMAIN records \cup {c} /\ c \in ToSet(q)
             /\ IsFiniteSet(ToSet(q)) /\ Cardinality(ToSet(q)) <= Capacity
             /\ \A i \in 1..Len(q) : q[i] \in ToSet(q)
             /\ \A z, m \in 1..Len(q) : z < m =>
                  \/ /\ q[z] \in DOMAIN records /\ q[z] # c
                     /\ q[m] = c /\ c \notin DOMAIN records
                  \/ \E i, j \in 1..Len(insertion_order) :
                       i < j /\ q[z] = insertion_order[i] /\ q[m] = insertion_order[j]
<1> DEFINE full == Cardinality(DOMAIN records) >= Capacity
           base == IF full THEN Tail(insertion_order) ELSE insertion_order
           d == IF full THEN 1 ELSE 0
           q == Append(base, c)
<1>1. CASE c \in DOMAIN records
  <2>1. Order(c) = insertion_order
    BY <1>1 DEF Order
  <2>2. /\ Len(insertion_order) \in Nat /\ DOMAIN insertion_order = 1..Len(insertion_order)
    BY LenProperties DEF OrderKept
  <2> QED
    BY <1>1, <2>1, <2>2 DEF OrderKept, ToSet
<1>2. CASE c \notin DOMAIN records
  <2>1. Order(c) = q
    BY <1>2 DEF Order
  <2>2. /\ base \in Seq(Contexts) /\ Len(base) \in Nat
        /\ \A i \in 1..Len(base) : /\ base[i] = insertion_order[i + d]
                                   /\ i + d \in 1..Len(insertion_order)
        /\ ToSet(base) \subseteq DOMAIN records
        /\ IsFiniteSet(ToSet(base)) /\ Cardinality(ToSet(base)) < Capacity
    BY Room
  <2>3. d \in Nat /\ DOMAIN insertion_order = 1..Len(insertion_order)
    BY LenProperties DEF OrderKept
  <2> HIDE DEF base, d
  <2>4. /\ q \in Seq(Contexts) /\ Len(q) = Len(base) + 1 /\ q[Len(base) + 1] = c
        /\ \A i \in 1..Len(base) : q[i] = base[i]
        /\ DOMAIN q = 1..(Len(base) + 1) /\ DOMAIN base = 1..Len(base)
    BY <2>2, AppendProperties, LenProperties
  <2> HIDE DEF q
  <2>5. \A i \in 1..Len(base) : base[i] \in ToSet(base)
    BY <2>4 DEF ToSet
  <2>6. \A i \in 1..(Len(base) + 1) : i \in 1..Len(base) \/ i = Len(base) + 1
    BY <2>2
  <2>7. ToSet(q) = ToSet(base) \cup {c}
    <3>1. Len(base) + 1 \in 1..(Len(base) + 1)
          /\ \A i \in 1..Len(base) : i \in 1..(Len(base) + 1)
      BY <2>2
    <3>2. ToSet(q) = {q[i] : i \in 1..(Len(base) + 1)}
          /\ ToSet(base) = {base[i] : i \in 1..Len(base)}
      BY <2>4 DEF ToSet
    <3> QED
      BY <2>4, <2>6, <3>1, <3>2
  <2>8. c \notin ToSet(base)
    BY <1>2, <2>2
  <2>9. IsInjective(q)
    <3> SUFFICES ASSUME NEW i \in 1..(Len(base) + 1), NEW j \in 1..(Len(base) + 1),
                        q[i] = q[j]
                 PROVE  i = j
      BY <2>4 DEF IsInjective
    <3>1. CASE i \in 1..Len(base) /\ j \in 1..Len(base)
      <4>1. insertion_order[i + d] = insertion_order[j + d]
        BY <2>2, <2>4, <3>1
      <4>2. i + d = j + d
        BY <2>2, <2>3, <3>1, <4>1 DEF OrderKept, IsInjective
      <4> QED
        BY <2>3, <3>1, <4>2
    <3>2. CASE i = Len(base) + 1 \/ j = Len(base) + 1
      BY <2>4, <2>5, <2>6, <2>8, <3>2
    <3> QED
      BY <2>6, <3>1, <3>2
  <2>10. IsFiniteSet(ToSet(q)) /\ Cardinality(ToSet(q)) <= Capacity
    <3>1. /\ IsFiniteSet(ToSet(base) \cup {c})
          /\ Cardinality(ToSet(base) \cup {c}) = Cardinality(ToSet(base)) + 1
      BY <2>2, <2>8, FS_AddElement
    <3>2. Cardinality(ToSet(base)) \in Nat /\ Capacity \in Nat
      BY <2>2, FS_CardinalityType, MemoryAssumption
    <3> QED
      BY <2>2, <2>7, <3>1, <3>2
  <2>11. ASSUME NEW z \in 1..(Len(base) + 1), NEW m \in 1..(Len(base) + 1), z < m
         PROVE  \/ q[z] \in DOMAIN records /\ q[z] # c /\ q[m] = c
                \/ \E i, j \in 1..Len(insertion_order) :
                     i < j /\ q[z] = insertion_order[i] /\ q[m] = insertion_order[j]
    <3>1. z \in 1..Len(base)
      BY <2>2, <2>11
    <3>2. CASE m = Len(base) + 1
      BY <1>2, <2>2, <2>4, <2>5, <3>1, <3>2
    <3>3. CASE m \in 1..Len(base)
      <4>1. z + d < m + d
        BY <2>2, <2>3, <2>11
      <4>2. /\ z + d \in 1..Len(insertion_order) /\ m + d \in 1..Len(insertion_order)
            /\ q[z] = insertion_order[z + d] /\ q[m] = insertion_order[m + d]
        BY <2>2, <2>4, <3>1, <3>3
      <4> QED
        BY <4>1, <4>2
    <3> QED
      BY <2>6, <3>2, <3>3
  <2>12. \A i \in 1..(Len(base) + 1) : q[i] \in ToSet(q)
    BY <2>4 DEF ToSet
  <2> QED
    BY <1>2, <2>1, <2>2, <2>4, <2>7, <2>9, <2>10, <2>11, <2>12
<1> QED
  BY <1>1, <1>2

\* The new label counts for its context and its outcome, and for nothing else.
LEMMA Counting ==
  ASSUME NEW ls \in Seq(Labels), NEW l \in Labels, NEW c, NEW i \in 1..(Len(ls) + 1), NEW o
  PROVE  /\ FromWith(Append(ls, l), c, i, o)
              = FromWith(ls, c, i, o)
                  \cup (IF l.context = c /\ l.outcome = o THEN {Len(ls) + 1} ELSE {})
         /\ Len(ls) + 1 \notin FromWith(ls, c, i, o)
         /\ i = Len(ls) + 1 => FromWith(ls, c, i, o) = {}
<1> DEFINE n == Len(ls)
           longer == Append(ls, l)
<1>1. /\ n \in Nat /\ Len(longer) = n + 1 /\ longer[n + 1] = l
      /\ \A j \in 1..n : longer[j] = ls[j]
  BY LenProperties, AppendProperties
<1>2. i..(n + 1) = (i..n) \cup {n + 1} /\ i..n \subseteq 1..n /\ n + 1 \notin i..n
  BY <1>1
<1>3. i = n + 1 => i..n = {}
  BY <1>1
<1> HIDE DEF n, longer
<1>4. FromWith(longer, c, i, o)
        = {j \in i..(n + 1) : longer[j].context = c /\ longer[j].outcome = o}
  BY <1>1 DEF FromWith, From
<1>5. FromWith(ls, c, i, o) = {j \in i..n : ls[j].context = c /\ ls[j].outcome = o}
  BY DEF FromWith, From, n
<1>6. {j \in i..(n + 1) : longer[j].context = c /\ longer[j].outcome = o}
        = {j \in i..n : ls[j].context = c /\ ls[j].outcome = o}
            \cup (IF l.context = c /\ l.outcome = o THEN {n + 1} ELSE {})
  BY <1>1, <1>2
<1>7. FromWith(ls, c, i, o) \subseteq i..n
  BY <1>5
<1> QED
  BY <1>2, <1>3, <1>4, <1>5, <1>6, <1>7 DEF n, longer

LEMMA LabelCounts ==
  ASSUME RecordsInv, NEW c \in Contexts, NEW a \in Attempts, NEW o \in Outcome, Label(c, a, o)
  PROVE  RecordsInv'
<1> DEFINE R == DOMAIN records
           Q == ToSet(Order(c))
           n == Len(labels)
           l == [context |-> c, attempt |-> a, outcome |-> o]
<1>1. /\ insertion_order' = Order(c) /\ labels' = Append(labels, l) /\ l \in Labels
      /\ DOMAIN records' = Q /\ labels \in Seq(Labels)
  BY DEF Label, Labels, RecordsInv
<1>2. \A x \in Q : records'[x] =
        LET kept == IF x \in DOMAIN records THEN records[x] ELSE NoEvidenceYet
        IN  IF x = c THEN [kept EXCEPT ![o] = @ + 1] ELSE kept
  BY DEF Label
<1>3. /\ n \in Nat /\ labels' \in Seq(Labels) /\ Len(labels') = n + 1
      /\ labels'[n + 1] = l /\ \A i \in 1..n : labels'[i] = labels[i]
  BY <1>1, LenProperties, AppendProperties
<1>4. OrderKept'
  <2>1. /\ insertion_order' \in Seq(Contexts) /\ IsInjective(insertion_order')
        /\ ToSet(insertion_order') = DOMAIN records' /\ IsFiniteSet(DOMAIN records')
        /\ Cardinality(DOMAIN records') <= Capacity
    BY <1>1, OrderStep DEF RecordsInv
  <2>2. ASSUME NEW x \in Q PROVE records'[x] \in [Outcome -> Nat]
    <3> DEFINE kept == IF x \in DOMAIN records THEN records[x] ELSE NoEvidenceYet
    <3>1. kept \in [Outcome -> Nat]
      BY DEF RecordsInv, OrderKept, NoEvidenceYet
    <3>2. records'[x] = IF x = c THEN [kept EXCEPT ![o] = @ + 1] ELSE kept
      BY <1>2
    <3> HIDE DEF kept
    <3> QED
      BY <3>1, <3>2
  <2> QED
    BY <1>1, <2>1, <2>2 DEF OrderKept
<1>5. PICK s \in [R -> 1..n] : Since(s)
  BY DEF RecordsInv
<1>6. /\ Q \subseteq R \cup {c} /\ \A i \in 1..Len(Order(c)) : Order(c)[i] \in Q
  BY OrderStep DEF RecordsInv
<1>7. [x \in Q |-> IF x \in R THEN s[x] ELSE n + 1] \in [Q -> 1..(n + 1)]
  BY <1>3
<1> HIDE DEF n, l, Q
<1>8. PICK t \in [Q -> 1..(n + 1)] : \A x \in Q : t[x] = IF x \in R THEN s[x] ELSE n + 1
  BY <1>7
<1>9. ASSUME NEW x \in Q PROVE labels'[t[x]].context = x
  <2>1. CASE x \in R
    BY <1>3, <1>5, <1>8, <2>1 DEF Since
  <2>2. CASE x \notin R
    BY <1>3, <1>6, <1>8, <2>2 DEF l
  <2> QED
    BY <2>1, <2>2
<1>10. ASSUME NEW x \in Q, NEW p \in Outcome
       PROVE  records'[x][p] = Cardinality(FromWith(labels', x, t[x], p))
  <2> DEFINE F == FromWith(labels, x, t[x], p)
             kept == IF x \in R THEN records[x] ELSE NoEvidenceYet
             here == x = c /\ p = o
  <2>1. t[x] \in 1..(n + 1) /\ t[x] \in Nat /\ (x \notin R => t[x] = n + 1)
    BY <1>3, <1>8
  <2>2. FromWith(labels', x, t[x], p) = IF here THEN F \cup {n + 1} ELSE F
    <3>1. FromWith(Append(labels, l), x, t[x], p)
            = F \cup (IF l.context = x /\ l.outcome = p THEN {n + 1} ELSE {})
      BY <1>1, <2>1, Counting DEF n
    <3>2. l.context = c /\ l.outcome = o
      BY DEF l
    <3> HIDE DEF F
    <3> QED
      BY <1>1, <3>1, <3>2
  <2>3. n + 1 \notin F /\ (t[x] = n + 1 => F = {})
    BY <1>1, <2>1, Counting DEF n
  <2>4. IsFiniteSet(F) /\ Cardinality(F) \in Nat
    BY <1>1, <2>1, Finite DEF FromWith
  <2>5. kept \in [Outcome -> Nat] /\ kept[p] = Cardinality(F)
    <3>1. CASE x \in R
      BY <1>5, <1>8, <3>1 DEF Since, RecordsInv, OrderKept
    <3>2. CASE x \notin R
      BY <2>1, <2>3, <3>2, FS_EmptySet DEF NoEvidenceYet
    <3> QED
      BY <3>1, <3>2
  <2>6. records'[x] = IF x = c THEN [kept EXCEPT ![o] = @ + 1] ELSE kept
    BY <1>2
  <2>7. records'[x][p] = IF here THEN Cardinality(F) + 1 ELSE Cardinality(F)
    <3> HIDE DEF kept, F
    <3> QED
      BY <2>5, <2>6
  <2>8. Cardinality(F \cup {n + 1}) = Cardinality(F) + 1
    BY <2>3, <2>4, FS_AddElement
  <2> QED
    BY <2>2, <2>7, <2>8
<1>11. ASSUME NEW z \in 1..Len(Order(c)), NEW m \in 1..Len(Order(c)), z < m
       PROVE  t[Order(c)[z]] < t[Order(c)[m]]
  <2> DEFINE x == Order(c)[z]
             y == Order(c)[m]
  <2>1. x \in Q /\ y \in Q
    BY <1>6
  <2>2. CASE x \in R /\ y = c /\ c \notin R
    <3>1. t[x] = s[x] /\ s[x] \in 1..n /\ t[y] = n + 1
      BY <1>5, <1>8, <2>1, <2>2
    <3> QED
      BY <1>3, <3>1
  <2>3. ASSUME NEW i \in 1..Len(insertion_order), NEW j \in 1..Len(insertion_order),
               i < j, x = insertion_order[i], y = insertion_order[j]
        PROVE  t[x] < t[y]
    <3>1. DOMAIN insertion_order = 1..Len(insertion_order)
      BY LenProperties DEF RecordsInv, OrderKept
    <3>2. x \in R /\ y \in R
      BY <2>3, <3>1 DEF RecordsInv, OrderKept, ToSet
    <3>3. s[x] < s[y]
      BY <1>5, <2>3 DEF Since
    <3> QED
      BY <1>8, <2>1, <3>2, <3>3
  <2>4. \/ x \in R /\ y = c /\ c \notin R
        \/ \E i, j \in 1..Len(insertion_order) :
             i < j /\ x = insertion_order[i] /\ y = insertion_order[j]
    BY <1>11, OrderStep DEF RecordsInv
  <2> QED
    BY <2>2, <2>3, <2>4
<1>12. t \in [DOMAIN records' -> 1..Len(labels')] /\ labels' \in Seq(Labels)
  BY <1>1, <1>3, <1>8
<1>13. Since(t)'
  BY <1>1, <1>9, <1>10, <1>11 DEF Since
<1> QED
  BY <1>4, <1>12, <1>13 DEF RecordsInv

LEMMA NothingRecorded ==
  records = <<>> /\ insertion_order = <<>> /\ labels = <<>> => RecordsInv
<1> SUFFICES ASSUME records = <<>>, insertion_order = <<>>, labels = <<>>
             PROVE  RecordsInv
  OBVIOUS
<1>1. DOMAIN records = {} /\ ToSet(insertion_order) = {}
  BY DEF ToSet
<1>2. IsFiniteSet({}) /\ Cardinality({}) = 0 /\ 0 <= Capacity
  BY FS_EmptySet, MemoryAssumption
<1>3. OrderKept
  BY <1>1, <1>2, EmptySeq DEF OrderKept, IsInjective
<1>4. [x \in {} |-> 0] \in [DOMAIN records -> 1..Len(labels)] /\ Since([x \in {} |-> 0])
  BY <1>1, EmptySeq DEF Since
<1> QED
  BY <1>3, <1>4, EmptySeq DEF RecordsInv

LEMMA RecordsStep == MemoryInv /\ RecordsInv /\ [RuntimeNext]_allvars => RecordsInv'
<1> SUFFICES ASSUME MemoryInv, RecordsInv, [RuntimeNext]_allvars PROVE RecordsInv'
  OBVIOUS
<1>1. CASE UNCHANGED memory
  <2>1. UNCHANGED <<records, insertion_order, labels>>
    BY <1>1 DEF memory
  <2>2. OrderKept'
    BY <2>1 DEF RecordsInv, OrderKept
  <2>3. PICK s \in [DOMAIN records -> 1..Len(labels)] : Since(s)
    BY DEF RecordsInv
  <2>4. Since(s)' /\ s \in [DOMAIN records' -> 1..Len(labels')]
    BY <2>1, <2>3 DEF Since, FromWith, From
  <2> QED
    BY <2>1, <2>2, <2>4 DEF RecordsInv
<1>2. CASE Reset
  <2>1. records' = <<>> /\ insertion_order' = <<>> /\ labels' = <<>>
    BY <1>2 DEF Reset, Forget
  <2> QED
    <3>1. (records = <<>> /\ insertion_order = <<>> /\ labels = <<>>)' => RecordsInv'
      BY NothingRecorded, PTL
    <3> QED
      BY <2>1, <3>1
<1>3. ASSUME NEW c \in Contexts, NEW a \in Attempts, Report(c, a) PROVE RecordsInv'
  BY <1>3, LabelCounts DEF Report, MemoryInv
<1> QED
  BY <1>1, <1>2, <1>3 DEF RuntimeNext, allvars, Note

\* The operators of RecordsAgree.
Total(c) == records[c]["succeeded"] + records[c]["failed"] + records[c]["unknown"]
OfContext(c) == {i \in DOMAIN labels : labels[i].context = c}
Latest(c) == {i \in OfContext(c) : Cardinality({j \in OfContext(c) : j >= i}) <= Total(c)}

\* Each label has one outcome.
LEMMA Totals ==
  ASSUME labels \in Seq(Labels), NEW c, NEW i \in 1..Len(labels)
  PROVE  Cardinality(From(labels, c, i))
           = Cardinality(FromWith(labels, c, i, "succeeded"))
               + Cardinality(FromWith(labels, c, i, "failed"))
               + Cardinality(FromWith(labels, c, i, "unknown"))
<1> DEFINE S == FromWith(labels, c, i, "succeeded")
           F == FromWith(labels, c, i, "failed")
           U == FromWith(labels, c, i, "unknown")
           all == From(labels, c, i)
<1>1. \A j \in i..Len(labels) : labels[j].outcome \in {"succeeded", "failed", "unknown"}
  <2>1. Len(labels) \in Nat
    BY LenProperties
  <2>2. \A j \in i..Len(labels) : j \in 1..Len(labels)
    BY <2>1
  <2>3. \A j \in 1..Len(labels) : labels[j] \in Labels
    BY ElementOfSeq
  <2> QED
    BY <2>2, <2>3 DEF Labels, Outcome
<1>2. all = (S \cup F) \cup U
  BY <1>1 DEF FromWith, From
<1>3. S \cap F = {} /\ (S \cup F) \cap U = {}
  BY DEF FromWith
<1>4. /\ IsFiniteSet(S) /\ IsFiniteSet(F) /\ IsFiniteSet(U)
      /\ Cardinality(S) \in Nat /\ Cardinality(F) \in Nat /\ Cardinality(U) \in Nat
  <2>1. S \in SUBSET all /\ F \in SUBSET all /\ U \in SUBSET all /\ i \in Nat
    BY DEF FromWith
  <2> HIDE DEF S, F, U
  <2> QED
    BY <2>1, Finite
<1> HIDE DEF S, F, U, all
<1>5. IsFiniteSet(S \cup F) /\ Cardinality(S \cup F) = Cardinality(S) + Cardinality(F)
  <2>1. /\ IsFiniteSet(S \cup F)
        /\ Cardinality(S \cup F) = Cardinality(S) + Cardinality(F) - Cardinality(S \cap F)
    BY <1>4, FS_Union
  <2>2. Cardinality(S \cap F) = 0
    BY <1>3, FS_EmptySet
  <2> QED
    BY <1>4, <2>1, <2>2
<1>6. Cardinality((S \cup F) \cup U) = Cardinality(S \cup F) + Cardinality(U)
  <2>1. Cardinality((S \cup F) \cup U)
          = Cardinality(S \cup F) + Cardinality(U) - Cardinality((S \cup F) \cap U)
    BY <1>4, <1>5, FS_Union
  <2>2. Cardinality((S \cup F) \cap U) = 0
    BY <1>3, FS_EmptySet
  <2> QED
    BY <1>4, <1>5, <2>1, <2>2
<1> QED
  BY <1>2, <1>5, <1>6 DEF S, F, U, all

\* The labels counted for a context are those since it was inserted.
LEMMA CountedSince ==
  ASSUME RecordsInv, NEW s \in [DOMAIN records -> 1..Len(labels)], Since(s),
         NEW c \in DOMAIN records
  PROVE  /\ Latest(c) = From(labels, c, s[c]) /\ Min(Latest(c)) = s[c]
         /\ Total(c) \in 1..Cardinality(OfContext(c))
<1> DEFINE all == OfContext(c)
           since == From(labels, c, s[c])
<1>1. /\ Len(labels) \in Nat /\ DOMAIN labels = 1..Len(labels) /\ labels \in Seq(Labels)
      /\ s[c] \in 1..Len(labels) /\ labels[s[c]].context = c
  BY LenProperties DEF RecordsInv, Since
<1>2. all = From(labels, c, 1)
  BY <1>1 DEF OfContext, From
<1>3. since = {j \in all : j >= s[c]}
  BY <1>1 DEF From, OfContext
<1>4. s[c] \in since /\ since \subseteq all /\ all \subseteq 1..Len(labels)
  BY <1>1 DEF From, OfContext
<1>5. \A T \in SUBSET all : /\ IsFiniteSet(T) /\ Cardinality(T) \in Nat
                            /\ Cardinality(T) <= Cardinality(all)
  BY <1>1, <1>2, Finite
<1>6. IsFiniteSet(all) /\ Cardinality(all) \in Nat
  BY <1>5
<1>7. Total(c) = Cardinality(since)
  BY <1>1, Totals DEF Total, Since, Outcome
<1> HIDE DEF all, since
<1>8. IsFiniteSet(since) /\ Cardinality(since) \in Nat /\ Cardinality(since) <= Cardinality(all)
  BY <1>4, <1>5
<1>9. Cardinality(since) # 0
  BY <1>4, <1>8, FS_EmptySet
<1>10. ASSUME NEW i \in all
       PROVE  Cardinality({j \in all : j >= i}) <= Cardinality(since) <=> i >= s[c]
  <2> DEFINE T == {j \in all : j >= i}
  <2>1. i \in Nat /\ s[c] \in Nat /\ \A j \in all : j \in Nat
    BY <1>1, <1>4
  <2>2. T \subseteq all /\ IsFiniteSet(T) /\ Cardinality(T) \in Nat
    BY <1>5
  <2>3. CASE i >= s[c]
    <3>1. \A j \in all : j >= i => j >= s[c]
      BY <2>1, <2>3
    <3>2. T \subseteq since
      BY <1>3, <3>1
    <3> HIDE DEF T
    <3>3. Cardinality(T) <= Cardinality(since)
      BY <1>8, <3>2, FS_Subset
    <3> QED
      BY <2>3, <3>3 DEF T
  <2>4. CASE ~(i >= s[c])
    <3>0. i >= i /\ \A j \in all : j >= s[c] => j >= i
      BY <2>1, <2>4
    <3>1. since \cup {i} \subseteq T /\ i \notin since
      BY <1>3, <2>4, <3>0
    <3>2. /\ IsFiniteSet(since \cup {i})
          /\ Cardinality(since \cup {i}) = Cardinality(since) + 1
      BY <1>8, <3>1, FS_AddElement
    <3> HIDE DEF T
    <3>3. Cardinality(since \cup {i}) <= Cardinality(T)
      BY <2>2, <3>1, FS_Subset
    <3> QED
      BY <1>8, <2>2, <2>4, <3>2, <3>3 DEF T
  <2> QED
    BY <2>3, <2>4
<1>11. Latest(c) = since
  BY <1>3, <1>7, <1>10 DEF Latest, all
<1>12. \A j \in since : s[c] <= j
  BY <1>1, <1>3, <1>4
<1>13. Min(since) = s[c]
  <2>1. \A x \in since : (\A j \in since : x <= j) => x = s[c]
    BY <1>1, <1>4, <1>12
  <2> QED
    BY <1>4, <1>12, <2>1 DEF Min
<1> QED
  BY <1>6, <1>7, <1>8, <1>9, <1>11, <1>13 DEF all, since

LEMMA Agreement == RecordsInv => RecordsAgree
<1> SUFFICES ASSUME RecordsInv PROVE RecordsAgree
  OBVIOUS
<1>1. PICK s \in [DOMAIN records -> 1..Len(labels)] : Since(s)
  BY DEF RecordsInv
<1>2. /\ IsInjective(insertion_order) /\ ToSet(insertion_order) = DOMAIN records
      /\ Cardinality(DOMAIN records) <= Capacity
  BY DEF RecordsInv, OrderKept
<1>3. ASSUME NEW c \in DOMAIN records
      PROVE  /\ Total(c) \in 1..Cardinality(OfContext(c))
             /\ \A o \in Outcome :
                  records[c][o] = Cardinality({i \in Latest(c) : labels[i].outcome = o})
  <2>1. Latest(c) = From(labels, c, s[c]) /\ Total(c) \in 1..Cardinality(OfContext(c))
    BY <1>1, CountedSince
  <2>2. \A o \in Outcome : records[c][o] = Cardinality(FromWith(labels, c, s[c], o))
    BY <1>1 DEF Since
  <2> QED
    BY <2>1, <2>2 DEF FromWith
<1>4. ASSUME NEW z \in 1..(Len(insertion_order) - 1)
      PROVE  Min(Latest(insertion_order[z])) < Min(Latest(insertion_order[z + 1]))
  <2>1. /\ Len(insertion_order) \in Nat /\ DOMAIN insertion_order = 1..Len(insertion_order)
    BY LenProperties DEF RecordsInv, OrderKept
  <2>2. z \in 1..Len(insertion_order) /\ z + 1 \in 1..Len(insertion_order) /\ z < z + 1
    BY <2>1
  <2>3. insertion_order[z] \in DOMAIN records /\ insertion_order[z + 1] \in DOMAIN records
    BY <1>2, <2>1, <2>2 DEF ToSet
  <2>4. s[insertion_order[z]] < s[insertion_order[z + 1]]
    BY <1>1, <2>2 DEF Since
  <2> QED
    BY <1>1, <2>3, <2>4, CountedSince
<1> QED
  BY <1>2, <1>3, <1>4 DEF RecordsAgree, Total, OfContext, Latest

\* What a context is remembered with is made of its latest labels, no label is counted
\* twice or for another context, and the context that gives way to a new one is that of
\* the oldest label counted: experience.hpp:97-136.
THEOREM Recorded == RuntimeSpec => []RecordsAgree
<1>1. RuntimeInit => MemoryInv /\ RecordsInv
  BY NothingRecorded, MemoryBegins DEF RuntimeInit, MemoryInit
<1>2. MemoryInv /\ RecordsInv /\ [RuntimeNext]_allvars => MemoryInv' /\ RecordsInv'
  BY MemoryStep, RecordsStep
<1> QED
  BY <1>1, <1>2, Agreement, PTL DEF RuntimeSpec

\* Proposals and their arbitration change nothing of this: an adapter that dispatches what
\* arbitrate() selects is one that starts attempts (skill.hpp:77-132).
THEOREM Dispatched ==
  DispatchSpec => [](OutcomeSupported /\ LabelledOnce /\ RecordsAgree) /\ AttemptForward
<1>1. DispatchInit => RuntimeInit
  BY DEF DispatchInit
<1>2. [DispatchNext]_dispatchVars => [RuntimeNext]_allvars
  <2> SUFFICES ASSUME [DispatchNext]_dispatchVars PROVE [RuntimeNext]_allvars
    OBVIOUS
  <2>1. CASE \/ UNCHANGED dispatchVars \/ Decide \/ \E o \in Offers : Propose(o)
             \/ \E v \in DOMAIN versions : Changes(v)
    BY <2>1 DEF dispatchVars, Decide, Propose, Changes
  <2>2. CASE Dispatch
    BY <2>2 DEF Dispatch, RuntimeNext, Next
  <2>3. CASE World
    BY <2>3 DEF World, RuntimeNext, Next
  <2>4. CASE RuntimeNext
    BY <2>4
  <2> QED
    BY <2>1, <2>2, <2>3, <2>4 DEF DispatchNext
<1>3. DispatchSpec => RuntimeSpec
  BY <1>1, <1>2, PTL DEF DispatchSpec, RuntimeSpec
<1> QED
  BY <1>3, Supported, Labelled, Recorded, Forward, PTL

-----------------------------------------------------------------------------
(* arbitrate *)

Proposal ==
  [valid : BOOLEAN, max_age : Nat, priority : Int, utility : Int, emergency : BOOLEAN,
   conditions : SUBSET Truth, age : Nat, replaced : BOOLEAN,
   at : [run : Nat, frame : Nat, context : Nat, candidates : Nat]]

Admissible(now, ps, i) == Status(ps[i], now) = "admissible"

\* w is what the first z proposals should select.
Winner(now, ps, z, w) ==
  IF w = 0 THEN \A i \in 1..z : ~Admissible(now, ps, i)
  ELSE /\ w \in 1..z /\ Admissible(now, ps, w)
       /\ \A i \in 1..z : Admissible(now, ps, i) =>
            /\ ~Above(Standing(ps[i]), Standing(ps[w]))
            /\ Standing(ps[i]) = Standing(ps[w]) => i >= w

LEMMA BeatsIsAbove ==
  ASSUME NEW p \in Proposal, NEW q \in Proposal
  PROVE  Beats(p, q) <=> Above(Standing(p), Standing(q))
<1>1. /\ p.emergency \in BOOLEAN /\ q.emergency \in BOOLEAN
      /\ p.priority \in Int /\ q.priority \in Int /\ p.utility \in Int /\ q.utility \in Int
  BY DEF Proposal
<1> QED
  BY <1>1 DEF Beats, Above, Standing

\* Ranking is a strict order on standings, of which any two are comparable or equal.
LEMMA Ranking ==
  ASSUME NEW p \in Proposal, NEW q \in Proposal, NEW r \in Proposal
  PROVE  /\ ~Above(Standing(p), Standing(p))
         /\ Above(Standing(p), Standing(q)) \/ Above(Standing(q), Standing(p))
            \/ Standing(p) = Standing(q)
         /\ Above(Standing(p), Standing(q)) /\ ~Above(Standing(r), Standing(q))
              => ~Above(Standing(r), Standing(p)) /\ Standing(r) # Standing(p)
<1>1. /\ p.emergency \in BOOLEAN /\ q.emergency \in BOOLEAN /\ r.emergency \in BOOLEAN
      /\ p.priority \in Int /\ q.priority \in Int /\ r.priority \in Int
      /\ p.utility \in Int /\ q.utility \in Int /\ r.utility \in Int
  BY DEF Proposal
<1> QED
  BY <1>1 DEF Above, Standing

\* A round of the loop.
LEMMA Round ==
  ASSUME NEW now, NEW ps \in Seq(Proposal), NEW z \in 1..Len(ps), NEW w,
         Winner(now, ps, z - 1, w)
  PROVE  Winner(now, ps, z, Better(now, ps, w, z))
<1>1. \A i \in 1..Len(ps) : ps[i] \in Proposal
  OBVIOUS
<1>2. PICK n \in Nat : n = Len(ps)
  OBVIOUS
<1>3. z \in 1..n /\ \A i \in 1..z : i \in 1..(z - 1) \/ i = z
  BY <1>2
<1>4. CASE ~Admissible(now, ps, z)
  <2>1. Better(now, ps, w, z) = w
    BY <1>4 DEF Better, Admissible
  <2>2. w \in 1..(z - 1) => w \in 1..z
    BY <1>3
  <2> QED
    BY <1>3, <1>4, <2>1, <2>2 DEF Winner
<1>5. CASE Admissible(now, ps, z) /\ w = 0
  <2>1. Better(now, ps, w, z) = z
    BY <1>5 DEF Better, Admissible
  <2>2. \A i \in 1..z : Admissible(now, ps, i) => i = z
    BY <1>3, <1>5 DEF Winner
  <2>3. ~Above(Standing(ps[z]), Standing(ps[z]))
    BY <1>1, Ranking
  <2> QED
    BY <1>3, <1>5, <2>1, <2>2, <2>3 DEF Winner
<1>6. CASE Admissible(now, ps, z) /\ w # 0
  <2>1. w \in 1..(z - 1) /\ Admissible(now, ps, w) /\ w \in 1..z /\ w \in 1..n /\ z # 0
    BY <1>3, <1>6 DEF Winner
  <2>2. ps[z] \in Proposal /\ ps[w] \in Proposal
    BY <1>1, <1>2, <1>3, <2>1
  <2>3. \A i \in 1..(z - 1) : Admissible(now, ps, i) =>
          /\ ps[i] \in Proposal /\ ~Above(Standing(ps[i]), Standing(ps[w]))
          /\ Standing(ps[i]) = Standing(ps[w]) => i >= w
    BY <1>1, <1>2, <1>3, <1>6 DEF Winner
  <2>4. CASE Beats(ps[z], ps[w])
    <3>1. Better(now, ps, w, z) = z
      BY <1>6, <2>4 DEF Better, Admissible
    <3>2. Above(Standing(ps[z]), Standing(ps[w]))
      BY <2>2, <2>4, BeatsIsAbove
    <3>3. ASSUME NEW i \in 1..(z - 1), Admissible(now, ps, i)
          PROVE  /\ ~Above(Standing(ps[i]), Standing(ps[z]))
                 /\ Standing(ps[i]) # Standing(ps[z])
      BY <2>2, <2>3, <3>2, <3>3, Ranking
    <3>4. ~Above(Standing(ps[z]), Standing(ps[z]))
      BY <2>2, Ranking
    <3> QED
      BY <1>3, <1>6, <2>1, <3>1, <3>3, <3>4 DEF Winner
  <2>5. CASE ~Beats(ps[z], ps[w])
    <3>1. Better(now, ps, w, z) = w
      BY <1>6, <2>5 DEF Better, Admissible
    <3>2. ~Above(Standing(ps[z]), Standing(ps[w]))
      BY <2>2, <2>5, BeatsIsAbove
    <3>3. z >= w
      BY <1>3, <2>1
    <3> QED
      BY <1>3, <1>6, <2>1, <2>3, <3>1, <3>2, <3>3 DEF Winner
  <2> QED
    BY <2>4, <2>5
<1> QED
  BY <1>4, <1>5, <1>6

\* The rounds follow one another: the function that the loop defines exists.
LEMMA RoundsFollow ==
  ASSUME NEW now, NEW ps, NEW n \in Nat, n = Len(ps)
  PROVE  Rounds(now, ps) =
           [i \in 0..n |-> IF i = 0 THEN 0 ELSE Better(now, ps, Rounds(now, ps)[i - 1], i)]
<1> DEFINE Runs(g, z) ==
      g = [i \in 0..z |-> IF i = 0 THEN 0 ELSE Better(now, ps, g[i - 1], i)]
<1> DEFINE Missing == {z \in Nat : ~\E g : Runs(g, z)}
<1>1. ASSUME NEW z \in Nat, NEW g, Runs(g, z) PROVE \E h : Runs(h, z + 1)
  <2> DEFINE h == [i \in 0..(z + 1) |-> IF i <= z THEN g[i] ELSE Better(now, ps, g[z], i)]
  <2>1. \A i \in 0..(z + 1) : i \in 0..z \/ i = z + 1
    OBVIOUS
  <2>2. \A i \in 0..z : h[i] = g[i]
    OBVIOUS
  <2>3. \A i \in 0..z : g[i] = IF i = 0 THEN 0 ELSE Better(now, ps, g[i - 1], i)
    BY <1>1
  <2>4. ASSUME NEW i \in 0..(z + 1)
        PROVE  h[i] = IF i = 0 THEN 0 ELSE Better(now, ps, h[i - 1], i)
    <3>1. CASE i = z + 1
      <4>1. h[i] = Better(now, ps, g[z], i) /\ i # 0 /\ i - 1 = z /\ z \in 0..z
        BY <3>1
      <4> HIDE DEF h
      <4> QED
        BY <2>2, <4>1
    <3>2. CASE i \in 0..z
      <4>1. i # 0 => i - 1 \in 0..z
        BY <3>2
      <4> HIDE DEF h
      <4> QED
        BY <2>2, <2>3, <3>2, <4>1
    <3> QED
      BY <2>1, <3>1, <3>2
  <2>5. h = [i \in 0..(z + 1) |-> h[i]]
    OBVIOUS
  <2> HIDE DEF h
  <2>6. h = [i \in 0..(z + 1) |-> IF i = 0 THEN 0 ELSE Better(now, ps, h[i - 1], i)]
    BY <2>4, <2>5
  <2> QED
    BY <2>6
<1>2. \E g : Runs(g, 0)
  <2>1. Runs([i \in 0..0 |-> 0], 0)
    OBVIOUS
  <2> QED
    BY <2>1
<1> HIDE DEF Runs
<1>3. Missing = {}
  <2> SUFFICES ASSUME Missing # {} PROVE FALSE
    OBVIOUS
  <2>1. Missing \subseteq Nat
    OBVIOUS
  <2>2. PICK z \in Missing : \A y \in Missing : ~(<<y, z>> \in OpToRel(<, Nat))
    <3> HIDE DEF Missing
    <3> QED
      BY <2>1, NatLessThanWellFounded, WFMin
  <2>3. \A y \in Missing : ~(y < z)
    BY <2>1, <2>2, Zenon DEF OpToRel
  <2>4. z \in Nat /\ z # 0
    BY <1>2
  <2>5. z - 1 \in Nat /\ z - 1 < z /\ z - 1 + 1 = z
    BY <2>4
  <2>6. PICK g : Runs(g, z - 1)
    BY <2>3, <2>5
  <2>7. \E h : Runs(h, z - 1 + 1)
    BY <1>1, <2>5, <2>6
  <2> QED
    BY <2>5, <2>7
<1>4. \E g : Runs(g, n)
  BY <1>3
<1>5. Rounds(now, ps) = CHOOSE g : Runs(g, n)
  BY DEF Rounds, Runs
<1>6. Runs(Rounds(now, ps), n)
  BY <1>4, <1>5
<1> QED
  BY <1>6 DEF Runs

\* arbitrate() selects what it should of any proposals.
LEMMA Arbitrating ==
  ASSUME NEW now, NEW ps \in Seq(Proposal)
  PROVE  Winner(now, ps, Len(ps), Arbitrate(now, ps))
<1>1. PICK n \in Nat : n = Len(ps)
  OBVIOUS
<1>2. PICK f : f = Rounds(now, ps)
  OBVIOUS
<1>3. f = [i \in 0..n |-> IF i = 0 THEN 0 ELSE Better(now, ps, f[i - 1], i)]
  BY <1>1, <1>2, RoundsFollow
<1> DEFINE Wrong == {z \in 0..n : ~Winner(now, ps, z, f[z])}
<1>4. Wrong = {}
  <2> SUFFICES ASSUME Wrong # {} PROVE FALSE
    OBVIOUS
  <2>1. Wrong \subseteq Nat
    OBVIOUS
  <2>2. PICK z \in Wrong : \A y \in Wrong : ~(<<y, z>> \in OpToRel(<, Nat))
    <3> HIDE DEF Wrong
    <3> QED
      BY <2>1, NatLessThanWellFounded, WFMin
  <2>3. \A y \in Wrong : ~(y < z)
    BY <2>1, <2>2, Zenon DEF OpToRel
  <2>4. z # 0
    <3>1. f[0] = 0
      BY <1>3
    <3>2. Winner(now, ps, 0, f[0])
      BY <3>1 DEF Winner
    <3> QED
      BY <3>2
  <2>5. z \in 1..n /\ z - 1 \in 0..n /\ z - 1 < z
    BY <2>4
  <2>6. Winner(now, ps, z - 1, f[z - 1])
    BY <2>3, <2>5
  <2>7. f[z] = Better(now, ps, f[z - 1], z)
    BY <1>3, <2>4, <2>5
  <2>8. Winner(now, ps, z, f[z])
    <3>1. PICK w : w = f[z - 1]
      OBVIOUS
    <3>2. z \in 1..Len(ps)
      BY <1>1, <2>5
    <3>3. Winner(now, ps, z, Better(now, ps, w, z))
      BY <2>6, <3>1, <3>2, Round
    <3> QED
      BY <2>7, <3>1, <3>3
  <2> QED
    BY <2>8
<1>5. Winner(now, ps, n, f[n])
  BY <1>4
<1> QED
  BY <1>1, <1>2, <1>5 DEF Arbitrate

-----------------------------------------------------------------------------
(* Proposals *)

\* What a proposal's provenance says of the versions it was made for.
Traced(p) ==
  /\ p \in Proposal
  /\ p.at.run <= run /\ p.at.context <= versions.context
  /\ p.at.candidates <= versions.candidates
  /\ p.replaced <=> ~SameVersions(p, Snapshot)
  /\ ~p.replaced => frames[run] = p.at.frame + p.age

ProposalInv ==
  /\ versions \in [context : Nat, candidates : Nat] /\ behind \in Nat
  /\ proposals \in Seq(Proposal)
  /\ \A i \in 1..Len(proposals) : Traced(proposals[i])
  /\ used # {} => proposals = <<>>

\* The provenance of a proposal tells exactly when it may be executed.
LEMMA AdmissibleIsAdmitted ==
  ASSUME ExecutionInv, ProposalInv, NEW i \in 1..Len(proposals)
  PROVE  Admissible(Basis, proposals, i) <=> Admitted(proposals[i])
<1>1. PICK p : p = proposals[i]
  OBVIOUS
<1>2. Traced(p) /\ p \in Proposal
  BY <1>1 DEF ProposalInv, Traced
<1>3. /\ p.valid \in BOOLEAN /\ p.replaced \in BOOLEAN /\ p.conditions \subseteq Truth
      /\ p.max_age \in Nat /\ p.age \in Nat /\ p.at.frame \in Nat
  BY <1>2 DEF Proposal
<1>4. PICK now : now = Basis
  OBVIOUS
<1>5. now.frame = frames[run] - behind /\ frames[run] \in Nat /\ behind \in Nat
  BY <1>4 DEF Basis, Snapshot, ProposalInv, ExecutionInv, OutcomeSupported, TypeOK
<1>6. p.replaced <=> ~SameVersions(p, now)
  BY <1>2, <1>4 DEF Traced, SameVersions, Basis, Snapshot
<1>7. ~p.replaced => (Stale(p, now) <=> p.age < behind \/ p.age - behind > p.max_age)
  BY <1>2, <1>3, <1>5, <1>6 DEF Traced, Stale
<1>8. p.replaced => Stale(p, now)
  BY <1>6 DEF Stale
<1>9. Stale(p, now) <=> p.replaced \/ ~(p.age >= behind /\ p.age - behind <= p.max_age)
  BY <1>3, <1>5, <1>7, <1>8
<1>10. p.conditions \subseteq {"true"} <=> "false" \notin p.conditions /\ "unknown" \notin p.conditions
  BY <1>3 DEF Truth
<1>11. Status(p, now) = "admissible" <=> Admitted(p)
  <2>1. CASE ~p.valid
    BY <2>1 DEF Status, Admitted
  <2>2. CASE p.valid /\ Stale(p, now)
    BY <1>9, <2>2 DEF Status, Admitted
  <2>3. CASE p.valid /\ ~Stale(p, now)
    BY <1>9, <1>10, <2>3 DEF Status, Admitted
  <2> QED
    BY <1>3, <2>1, <2>2, <2>3
<1> QED
  BY <1>1, <1>4, <1>11 DEF Admissible

LEMMA ProposeKeeps ==
  ASSUME ExecutionInv, ProposalInv, NEW o \in Offers, Propose(o)
  PROVE  ProposalInv'
<1>1. UNCHANGED <<run, frames, versions, behind, used>>
  BY DEF Propose, allvars, vars, world
<1>2. PICK p : p = [valid |-> o.valid, max_age |-> o.max_age, priority |-> o.priority,
        utility |-> o.utility, emergency |-> o.emergency, conditions |-> o.conditions,
        at |-> Snapshot, age |-> 0, replaced |-> FALSE]
  OBVIOUS
<1>3. /\ o.valid \in BOOLEAN /\ o.max_age \in Nat /\ o.priority \in Int
      /\ o.utility \in Int /\ o.emergency \in BOOLEAN /\ o.conditions \in SUBSET Truth
  BY DispatchAssumption
<1>4. run \in Nat /\ frames[run] \in Nat
  BY SkillAssumption DEF ExecutionInv, OutcomeSupported, TypeOK
<1>5. versions.context \in Nat /\ versions.candidates \in Nat
  BY DEF ProposalInv
<1>6. Snapshot \in [run : Nat, frame : Nat, context : Nat, candidates : Nat]
  BY <1>4, <1>5 DEF Snapshot
<1>7. p \in Proposal
  BY <1>2, <1>3, <1>6 DEF Proposal
<1>8. Traced(p)
  <2>1. p.at = Snapshot /\ p.age = 0 /\ p.replaced = FALSE
    BY <1>2
  <2> QED
    BY <1>4, <1>5, <1>7, <2>1 DEF Traced, SameVersions, Snapshot
<1>9. proposals' = Append(proposals, p)
  BY <1>2 DEF Propose
<1>10. PICK n \in Nat : n = Len(proposals)
  BY DEF ProposalInv
<1>11. /\ proposals' \in Seq(Proposal) /\ Len(proposals') = n + 1
       /\ proposals'[n + 1] = p /\ \A i \in 1..n : proposals'[i] = proposals[i]
  BY <1>7, <1>9, <1>10 DEF ProposalInv
<1>12. \A i \in 1..(n + 1) : i \in 1..n \/ i = n + 1
  OBVIOUS
<1>13. \A i \in 1..(n + 1) : Traced(proposals'[i])
  BY <1>8, <1>10, <1>11, <1>12 DEF ProposalInv
<1>14. \A q : Traced(q) => Traced(q)'
  BY <1>1 DEF Traced, Snapshot
<1> QED
  BY <1>1, <1>11, <1>13, <1>14 DEF ProposalInv, Propose

\* Facts or candidates change, or a new run begins.
LEMMA ReplacedKeeps ==
  ASSUME ExecutionInv, ProposalInv, proposals' = Replaced,
         \/ UNCHANGED <<run, frames>> /\ \E v \in DOMAIN versions :
              versions' = [versions EXCEPT ![v] = @ + 1]
         \/ run' = run + 1 /\ UNCHANGED versions,
         behind' \in Nat, UNCHANGED used
  PROVE  ProposalInv'
<1>1. run \in Nat /\ versions.context \in Nat /\ versions.candidates \in Nat
  BY SkillAssumption DEF ExecutionInv, OutcomeSupported, TypeOK, ProposalInv
<1>2. DOMAIN versions = {"context", "candidates"}
  BY DEF ProposalInv
<1>3. /\ versions' \in [context : Nat, candidates : Nat]
      /\ run' >= run /\ run' \in Nat /\ versions'.context >= versions.context
      /\ versions'.candidates >= versions.candidates
      /\ \/ run' > run \/ versions'.context > versions.context
         \/ versions'.candidates > versions.candidates
  <2>1. CASE run' = run + 1 /\ UNCHANGED versions
    BY <1>1, <2>1 DEF ProposalInv
  <2>2. CASE run' = run /\ versions' = [versions EXCEPT !["context"] = @ + 1]
    BY <1>1, <2>2 DEF ProposalInv
  <2>3. CASE run' = run /\ versions' = [versions EXCEPT !["candidates"] = @ + 1]
    BY <1>1, <2>3 DEF ProposalInv
  <2> QED
    BY <1>2, <2>1, <2>2, <2>3
<1>4. PICK n \in Nat : n = Len(proposals)
  BY DEF ProposalInv
<1>5. DOMAIN proposals = 1..n /\ \A i \in 1..n : proposals[i] \in Proposal
  BY <1>4 DEF ProposalInv
<1>6. proposals' = [i \in 1..n |-> [proposals[i] EXCEPT !.replaced = TRUE]]
  BY <1>5 DEF Replaced
<1>7. \A p \in Proposal : [p EXCEPT !.replaced = TRUE] \in Proposal
  BY DEF Proposal
<1>8. proposals' \in Seq(Proposal) /\ Len(proposals') = n
  BY <1>5, <1>6, <1>7
<1>9. ASSUME NEW i \in 1..n PROVE Traced(proposals[i])'
  <2>1. PICK p \in Proposal : p = proposals[i]
    BY <1>5
  <2>2. PICK q : q = proposals'[i]
    OBVIOUS
  <2>3. q = [p EXCEPT !.replaced = TRUE]
    BY <1>6, <2>1, <2>2
  <2>4. q \in Proposal /\ q.at = p.at /\ q.replaced = TRUE
    BY <1>7, <2>3 DEF Proposal
  <2>5. /\ p.at.run <= run /\ p.at.context <= versions.context
        /\ p.at.candidates <= versions.candidates
    BY <1>4, <2>1 DEF ProposalInv, Traced
  <2>6. p.at.run \in Nat /\ p.at.context \in Nat /\ p.at.candidates \in Nat
    BY DEF Proposal
  <2>7. /\ q.at.run <= run' /\ q.at.context <= versions'.context
        /\ q.at.candidates <= versions'.candidates
    BY <1>1, <1>3, <2>4, <2>5, <2>6
  <2>8. ~SameVersions(q, Snapshot')
    BY <1>1, <1>3, <2>4, <2>5, <2>6 DEF SameVersions, Snapshot
  <2> QED
    BY <2>2, <2>4, <2>7, <2>8 DEF Traced
<1> QED
  BY <1>3, <1>4, <1>8, <1>9 DEF ProposalInv

\* A frame passes for every proposal.
LEMMA AgedKeeps ==
  ASSUME ExecutionInv, ProposalInv, proposals' = Aged, Frame, UNCHANGED versions,
         behind' \in Nat
  PROVE  ProposalInv'
<1>1. run \in 1..MaxRun /\ frames \in [1..MaxRun -> 0..MaxFrame] /\ frames[run] \in Nat
  BY SkillAssumption DEF ExecutionInv, OutcomeSupported, TypeOK
<1>2. frames'[run] = frames[run] + 1 /\ run' = run /\ UNCHANGED used
  BY <1>1 DEF Frame
<1>3. PICK n \in Nat : n = Len(proposals)
  BY DEF ProposalInv
<1>4. DOMAIN proposals = 1..n /\ \A i \in 1..n : proposals[i] \in Proposal
  BY <1>3 DEF ProposalInv
<1>5. proposals' = [i \in 1..n |-> [proposals[i] EXCEPT !.age = @ + 1]]
  BY <1>4 DEF Aged
<1>6. \A p \in Proposal : [p EXCEPT !.age = @ + 1] \in Proposal
  BY DEF Proposal
<1>7. proposals' \in Seq(Proposal) /\ Len(proposals') = n
  BY <1>4, <1>5, <1>6
<1>8. ASSUME NEW i \in 1..n PROVE Traced(proposals[i])'
  <2>1. PICK p \in Proposal : p = proposals[i]
    BY <1>4
  <2>2. PICK q : q = proposals'[i]
    OBVIOUS
  <2>3. q = [p EXCEPT !.age = @ + 1]
    BY <1>5, <2>1, <2>2
  <2>4. q \in Proposal /\ q.at = p.at /\ q.replaced = p.replaced /\ q.age = p.age + 1
    BY <1>6, <2>3 DEF Proposal
  <2>5. Traced(p)
    BY <1>3, <2>1 DEF ProposalInv
  <2>6. SameVersions(q, Snapshot') <=> SameVersions(p, Snapshot)
    BY <1>2, <2>4 DEF SameVersions, Snapshot
  <2>7. ~q.replaced => frames'[run'] = q.at.frame + q.age
    <3>1. p.at.frame \in Nat /\ p.age \in Nat
      BY DEF Proposal
    <3> QED
      BY <1>1, <1>2, <2>4, <2>5, <3>1 DEF Traced
  <2> QED
    BY <1>2, <2>2, <2>4, <2>5, <2>6, <2>7 DEF Traced
<1> QED
  BY <1>2, <1>3, <1>7, <1>8 DEF ProposalInv

LEMMA NothingProposed ==
  ASSUME versions' \in [context : Nat, candidates : Nat], behind' \in Nat,
         proposals' = <<>>
  PROVE  ProposalInv'
BY DEF ProposalInv

LEMMA DispatchStep ==
  ExecutionInv /\ ProposalInv /\ [DispatchNext]_dispatchVars => ProposalInv'
<1> SUFFICES ASSUME ExecutionInv, ProposalInv, [DispatchNext]_dispatchVars
             PROVE  ProposalInv'
  OBVIOUS
<1>1. CASE Decide \/ UNCHANGED dispatchVars
  <2>1. UNCHANGED <<run, frames, used, versions, behind, proposals>>
    BY <1>1 DEF Decide, dispatchVars, dispatch, allvars, vars, world
  <2>2. \A q : Traced(q) => Traced(q)'
    BY <2>1 DEF Traced, Snapshot
  <2> QED
    BY <2>1, <2>2 DEF ProposalInv
<1>2. ASSUME NEW o \in Offers, Propose(o) PROVE ProposalInv'
  BY <1>2, ProposeKeeps
<1>3. ASSUME NEW v \in DOMAIN versions, Changes(v) PROVE ProposalInv'
  BY <1>3, ReplacedKeeps DEF Changes, ProposalInv, allvars, vars, world
<1>4. CASE Dispatch
  <2>1. versions' \in [context : Nat, candidates : Nat] /\ behind' = 0 /\ proposals' = <<>>
    BY <1>4 DEF Dispatch, NoVersions
  <2> QED
    BY <2>1, NothingProposed
<1>5. CASE World
  <2>1. behind' \in Nat
    BY <1>5 DEF World, ProposalInv
  <2>2. CASE Frame /\ proposals' = Aged
    BY <1>5, <2>1, <2>2, AgedKeeps DEF World
  <2>3. CASE NewRun /\ proposals' = Replaced
    BY <1>5, <2>1, <2>3, ReplacedKeeps DEF World, NewRun
  <2> QED
    BY <1>5, <2>2, <2>3 DEF World
<1>6. CASE used # {} /\ RuntimeNext /\ UNCHANGED dispatch
  <2>1. /\ versions' \in [context : Nat, candidates : Nat] /\ behind' \in Nat
        /\ proposals' = <<>>
    BY <1>6 DEF ProposalInv, dispatch
  <2> QED
    BY <2>1, NothingProposed
<1> QED
  BY <1>1, <1>2, <1>3, <1>4, <1>5, <1>6 DEF DispatchNext

\* arbitrate() selects, of all that was ever proposed and whatever has changed since, the
\* first of the best that may be executed, or nothing if none may: skill.hpp:77-137.
THEOREM Arbitrated == DispatchSpec => Arbitration
<1> DEFINE Chosen ==
      selected' # NotYet /\ selected = NotYet =>
       LET admitted == {i \in DOMAIN proposals : Admitted(proposals[i])}
           S(i) == Standing(proposals[i])
       IN  IF selected' = 0 THEN admitted = {}
           ELSE /\ selected' \in admitted
                /\ \A i \in admitted : /\ ~Above(S(i), S(selected'))
                                       /\ S(i) = S(selected') => i >= selected'
<1>1. DispatchInit => ExecutionInv /\ ProposalInv
  <2> SUFFICES ASSUME DispatchInit PROVE ExecutionInv /\ ProposalInv
    OBVIOUS
  <2>1. ExecutionInv
    BY ExecutionInit DEF DispatchInit, RuntimeInit
  <2>2. versions \in [context : Nat, candidates : Nat] /\ behind = 0 /\ proposals = <<>>
    BY DEF DispatchInit, NoVersions
  <2> QED
    BY <2>1, <2>2 DEF ProposalInv
<1>2. ExecutionInv /\ [DispatchNext]_dispatchVars => ExecutionInv'
  <2>1. [DispatchNext]_dispatchVars => [Next]_vars
    <3> SUFFICES ASSUME [DispatchNext]_dispatchVars PROVE [Next]_vars
      OBVIOUS
    <3>1. CASE \/ UNCHANGED dispatchVars \/ Decide \/ \E o \in Offers : Propose(o)
               \/ \E v \in DOMAIN versions : Changes(v)
      BY <3>1 DEF dispatchVars, allvars, Decide, Propose, Changes
    <3>2. CASE Dispatch
      BY <3>2 DEF Dispatch, Next, allvars
    <3>3. CASE World
      BY <3>3 DEF World, Next
    <3>4. CASE RuntimeNext
      BY <3>4, RuntimeSteps
    <3> QED
      BY <3>1, <3>2, <3>3, <3>4 DEF DispatchNext
  <2> QED
    BY <2>1, ExecutionStep
<1>3. ExecutionInv /\ ProposalInv /\ [DispatchNext]_dispatchVars => ProposalInv'
  BY DispatchStep
<1>4. ExecutionInv /\ ProposalInv /\ [DispatchNext]_dispatchVars => [Chosen]_dispatchVars
  <2> SUFFICES ASSUME ExecutionInv, ProposalInv, DispatchNext,
                      selected' # NotYet, selected = NotYet
               PROVE  Chosen
    OBVIOUS
  <2>1. selected' = Arbitrate(Basis, proposals)
    BY DEF DispatchNext, Propose, Changes, Decide, Dispatch, World, dispatch, NotYet
  <2>2. PICK now, ps, w : now = Basis /\ ps = proposals /\ w = selected'
    OBVIOUS
  <2>3. ps \in Seq(Proposal) /\ DOMAIN ps = 1..Len(ps)
    BY <2>2 DEF ProposalInv
  <2>4. Winner(now, ps, Len(ps), w)
    BY <2>1, <2>2, <2>3, Arbitrating
  <2>5. \A i \in 1..Len(ps) : Admissible(now, ps, i) <=> Admitted(ps[i])
    BY <2>2, AdmissibleIsAdmitted
  <2> QED
    BY <2>2, <2>3, <2>4, <2>5 DEF Winner
<1> QED
  BY <1>1, <1>2, <1>3, <1>4, PTL DEF DispatchSpec, Arbitration

-----------------------------------------------------------------------------
(* The judgment of a plan *)

Place == <<game.run, game.life, game.place>>

GameOK ==
  /\ DOMAIN game = {"run", "life", "place", "frame", "action", "dying", "over"}
  /\ game.run \in Nat /\ game.life \in Nat /\ game.place \in Nat /\ game.frame \in Nat
  /\ game.dying \in BOOLEAN /\ game.over \in BOOLEAN

\* What a judgment is: a score for each of the plans of its facts, or of the goals.
Judgment(j) ==
  /\ j.kind \in {"plan", "goal"} /\ j.frame \in Nat
  /\ j.kind = "plan" => /\ DOMAIN j.scores = DOMAIN j.facts.targets
                        /\ \A i \in DOMAIN j.scores : j.scores[i] \in 0..MaxScore

RequestFields ==
  {"kind", "epoch", "frame", "mode", "facts", "ids", "answer", "generation", "place"}

\* The request in flight, of this epoch or an earlier one, and what it has come to.
Requested(r) ==
  /\ DOMAIN r = RequestFields
  /\ r.kind \in {"plan", "goal"} /\ r.frame \in Nat
  /\ r.epoch \in Nat /\ r.epoch <= epoch /\ (r.epoch = epoch => r.place = Place)
  /\ ToSet(r.ids) = DOMAIN r.facts.targets
  /\ \/ r.answer \in {Pending, Failed}
     \/ /\ Judgment(r.answer)
        /\ r.answer.epoch = r.epoch /\ r.answer.place = r.place /\ r.answer.mode = r.mode
        /\ r.answer.generation = r.generation

\* The latest judgment is of this epoch, place and model.
Held(j) ==
  /\ Judgment(j) /\ j.epoch = epoch /\ j.place = Place /\ j.generation = generation

JudgmentInv ==
  /\ GameOK /\ epoch \in Nat /\ family \in DOMAIN Scenes /\ policy \in {"plan", "goal"}
  /\ ~Asks => future = NoRequest /\ latest = NoJudgment
  /\ future = NoRequest \/ Requested(future)
  /\ latest = NoJudgment \/ Held(latest)

LEMMA JudgedBegins == JudgedInit => JudgmentInv
  BY DEF JudgedInit, AgentInit, JudgmentInv, GameOK, NoRequest, NoJudgment

LEMMA Advancing ==
  ASSUME GameOK, NEW turn \in Turns
  PROVE  /\ DOMAIN Advance(turn) = DOMAIN game
         /\ Advance(turn).frame = game.frame + 1
         /\ Advance(turn).run = game.run
         /\ Advance(turn).life = IF turn = "life" THEN game.life + 1 ELSE game.life
         /\ Advance(turn).place = IF turn = "stage" THEN game.place + 1 ELSE game.place
         /\ Advance(turn).dying = game.dying /\ Advance(turn).over = game.over
         /\ Advance(turn).action = game.action
<1>1. PICK f \in Nat, l \in Nat, p \in Nat : f = game.frame /\ l = game.life /\ p = game.place
  BY DEF GameOK
<1> QED
  BY <1>1 DEF GameOK, Advance

\* What a frame does to the game.
Played(turn) ==
  /\ game'.frame = game.frame + 1 /\ game'.run = game.run
  /\ game'.life = IF turn = "life" THEN game.life + 1 ELSE game.life
  /\ game'.place = IF turn = "stage" THEN game.place + 1 ELSE game.place
  /\ game'.over = game.over /\ game'.action = k'.plan[2]

\* What of a scene the proofs need: it is kept when a judgment shapes the scene.
SceneFields ==
  {"ground", "rise", "steady", "dead", "contact", "low", "reached", "foes", "gone", "mode", "x",
   "pose", "base", "nav", "moving", "pair", "plan", "support", "stage", "star", "climb", "under",
   "ceiling", "turns", "facts", "goals", "plans", "run", "life", "place", "frame", "lost",
   "moved", "over", "terminal", "input"}

Staged(s) ==
  /\ DOMAIN s = SceneFields
  /\ s.ground \in BOOLEAN /\ s.steady \in BOOLEAN /\ s.dead \in BOOLEAN
  /\ s.foes \in Seq(Enemy) /\ s.gone \in Seq(Enemy) /\ s.x \in Int

LEMMA Playing ==
  ASSUME GameOK, NEW turn \in Turns, NEW s, Staged(s), Show(turn, s)
  PROVE  GameOK' /\ Played(turn) /\ game'.dying = s.dead /\ turn \in s.turns
         /\ family' = family /\ ~game.over
<1>1. PICK g : g = Advance(turn)
  OBVIOUS
<1>2. game' = [g EXCEPT !.action = k'.plan[2], !.dying = s.dead]
      /\ family' = family /\ turn \in s.turns /\ ~game.over
  BY <1>1 DEF Show
<1>3. DOMAIN g = DOMAIN game /\ g.frame = game.frame + 1 /\ g.run = game.run
      /\ g.life = (IF turn = "life" THEN game.life + 1 ELSE game.life)
      /\ g.place = (IF turn = "stage" THEN game.place + 1 ELSE game.place)
      /\ g.over = game.over
  BY <1>1, Advancing
<1>4. /\ DOMAIN game' = DOMAIN g /\ game'.frame = g.frame /\ game'.run = g.run
      /\ game'.life = g.life /\ game'.place = g.place /\ game'.over = g.over
      /\ game'.dying = s.dead /\ game'.action = k'.plan[2]
  BY <1>2, <1>3 DEF GameOK
<1>5. s.dead \in BOOLEAN
  BY DEF Staged
<1>6. GameOK'
  BY <1>3, <1>4, <1>5 DEF GameOK
<1> QED
  BY <1>2, <1>3, <1>4, <1>6 DEF Played

LEMMA SceneOf ==
  ASSUME family \in DOMAIN Scenes, NEW s \in Scenes[family]
  PROVE  s \in Scene /\ Staged(s)
<1>1. s \in Scene
  BY SceneAssumption
<1> QED
  BY <1>1 DEF Scene, Staged, SceneFields

\* The request and the judgment stay what they were while no epoch ends.
LEMMA StillRequested ==
  ASSUME NEW r, Requested(r), epoch \in Nat, epoch' \in Nat,
         \/ epoch' = epoch /\ Place' = Place
         \/ epoch' = epoch + 1
  PROVE  Requested(r)'
  BY DEF Requested, Judgment

\* A request made in this line.
LEMMA Requesting ==
  ASSUME NEW s, NEW r, r = Request(game', s), GameOK', epoch' \in Nat,
         policy \in {"plan", "goal"}
  PROVE  Requested(r)'
<1>2. PICK offered : offered = Offered(s)
  OBVIOUS
<1>3. /\ r.kind = policy /\ r.epoch = epoch' /\ r.frame = game'.frame /\ r.place = Place'
      /\ r.answer = Pending /\ DOMAIN r = RequestFields
      /\ r.facts = Facts(s) /\ r.ids = [i \in DOMAIN offered |-> offered[i].id]
  BY <1>2 DEF Request, Place, RequestFields
<1>4. DOMAIN r.facts.targets = Ids(offered)
  BY <1>2, <1>3 DEF Facts
<1>5. ToSet(r.ids) = Ids(offered)
  BY <1>3 DEF ToSet, Ids
<1> QED
  BY <1>3, <1>4, <1>5 DEF Requested, GameOK

\* Judgments() answers a request.
LEMMA Answering ==
  ASSUME NEW r, NEW j \in Judgments(r), Requested(r)
  PROVE  \/ j = Failed
         \/ /\ Judgment(j) /\ j.epoch = r.epoch /\ j.place = r.place /\ j.mode = r.mode
            /\ j.generation = r.generation
<1> SUFFICES ASSUME j # Failed
             PROVE  /\ Judgment(j) /\ j.epoch = r.epoch /\ j.place = r.place
                    /\ j.mode = r.mode /\ j.generation = r.generation
  OBVIOUS
<1> DEFINE options == IF r.kind = "plan" THEN ToSet(r.ids) ELSE Goals
<1>1. PICK scores \in [options -> 0..MaxScore] :
        j = [kind |-> r.kind, epoch |-> r.epoch, frame |-> r.frame, mode |-> r.mode,
             facts |-> r.facts, scores |-> scores, place |-> r.place,
             generation |-> r.generation,
             selected |-> IF r.kind = "plan" THEN Selected(r.ids, scores) ELSE "none"]
  BY DEF Judgments
<1>2. /\ j.kind = r.kind /\ j.epoch = r.epoch /\ j.frame = r.frame /\ j.mode = r.mode
      /\ j.facts = r.facts /\ j.scores = scores /\ j.place = r.place
      /\ j.generation = r.generation
  BY <1>1
<1>3. DOMAIN scores = options /\ \A i \in options : scores[i] \in 0..MaxScore
  OBVIOUS
<1>4. r.kind = "plan" => options = DOMAIN r.facts.targets
  BY DEF Requested
<1> HIDE DEF options
<1> QED
  BY <1>2, <1>3, <1>4 DEF Judgment, Requested

\* What the loop has after it polled is a judgment of this epoch, place and model.
LEMMA Polling ==
  ASSUME JudgmentInv, GameOK', NEW turn \in Turns, Played(turn), Skipped(turn),
         family' = family, UNCHANGED generation, latest' = Polled(turn)
  PROVE  (latest = NoJudgment \/ Held(latest))'
<1>1. turn = "on" => epoch' = epoch /\ Place' = Place
  BY DEF Skipped, Played, Place
<1>2. turn # "on" => epoch' = IF Asks THEN epoch + 1 ELSE epoch
  BY DEF Skipped, Turned
<1>3. CASE Done /\ Mine /\ future.answer # Failed
  <2>1. latest' = future.answer
    BY <1>3 DEF Polled
  <2>2. future # NoRequest /\ Asks /\ Requested(future)
    BY <1>3 DEF Done, NoRequest, JudgmentInv
  <2>3. /\ Judgment(future.answer) /\ future.epoch = epoch' /\ future.generation = generation
        /\ future.answer.epoch = future.epoch /\ future.answer.place = future.place
        /\ future.answer.generation = future.generation
    BY <1>3, <2>2 DEF Requested, Done, Mine
  <2>4. epoch' = epoch /\ Place' = Place
    BY <1>1, <1>2, <2>2, <2>3 DEF Requested, JudgmentInv
  <2>5. future.place = Place
    BY <2>2, <2>3, <2>4 DEF Requested
  <2>6. Judgment(latest')
    BY <2>1, <2>3
  <2>7. Held(latest)'
    BY <2>1, <2>3, <2>4, <2>5, <2>6 DEF Held, Judgment
  <2> QED
    BY <2>7
<1>4. CASE ~(Done /\ Mine /\ future.answer # Failed)
  <2>1. latest' = IF turn = "on" THEN latest ELSE NoJudgment
    BY <1>4 DEF Polled, Forgotten
  <2>2. CASE turn = "on" /\ latest # NoJudgment
    <3>1. latest' = latest /\ Held(latest) /\ epoch' = epoch /\ Place' = Place
      BY <1>1, <2>1, <2>2 DEF JudgmentInv
    <3> QED
      BY <3>1 DEF Held, Judgment
  <2> QED
    BY <2>1, <2>2
<1> QED
  BY <1>3, <1>4

-----------------------------------------------------------------------------
(* What a judgment shapes *)

LEMMA LeastIn ==
  ASSUME NEW S \in SUBSET Nat, S # {}
  PROVE  Least(S) \in S /\ \A m \in S : Least(S) <= m
<1>1. PICK n \in S : \A y \in S : ~(<<y, n>> \in OpToRel(<, Nat))
  BY NatLessThanWellFounded, WFMin
<1>2. \A y \in S : ~(y < n)
  BY <1>1, Zenon DEF OpToRel
<1>3. \A y \in S : n <= y
  <2>1. n \in Nat /\ \A y \in S : y \in Nat
    OBVIOUS
  <2> QED
    BY <1>2, <2>1
<1> QED
  BY <1>3 DEF Least

\* Of the plans whose scores are compared, one scores highest.
LEMMA Highest ==
  ASSUME NEW S, S # {}, NEW v, \A x \in S : v[x] \in 0..MaxScore
  PROVE  \E x \in S : \A y \in S : v[y] <= v[x]
<1> DEFINE Short == {MaxScore - v[x] : x \in S}
<1>1. Short \in SUBSET Nat /\ Short # {}
  BY JudgmentAssumption
<1> HIDE DEF Short
<1>2. Least(Short) \in Short /\ \A m \in Short : Least(Short) <= m
  BY <1>1, LeastIn
<1>3. PICK x \in S : Least(Short) = MaxScore - v[x]
  BY <1>2 DEF Short
<1>4. ASSUME NEW y \in S PROVE v[y] <= v[x]
  <2>1. MaxScore - v[y] \in Short
    BY DEF Short
  <2>2. MaxScore - v[x] <= MaxScore - v[y]
    BY <1>2, <1>3, <2>1
  <2> QED
    BY <2>2, JudgmentAssumption
<1> QED
  BY <1>4

\* A plan that is ranked is one the judgment scored, sound and within the budget now, and
\* the one it selected lands where it did.
LEMMA RankedPlan ==
  ASSUME NEW j, NEW s \in Scene, NEW frame, NEW terminal, Judgment(j),
         Ranked(j, s, frame, terminal) # 0
  PROVE  /\ Current(j, "plan", frame, PlanAge)
         /\ Ranked(j, s, frame, terminal) \in DOMAIN s.plans
         /\ Sound(s.plans[Ranked(j, s, frame, terminal)])
         /\ s.plans[Ranked(j, s, frame, terminal)].fits
         /\ s.plans[Ranked(j, s, frame, terminal)].id \in DOMAIN j.facts.targets
         /\ j.selected \in DOMAIN Facts(s).targets
         /\ Facts(s).targets[j.selected] = j.facts.targets[j.selected]
<1> DEFINE live == {i \in DOMAIN s.plans : /\ Sound(s.plans[i]) /\ s.plans[i].fits
                                           /\ s.plans[i].id \in DOMAIN j.scores}
           best == {i \in live : \A l \in live :
                      j.scores[s.plans[l].id] <= j.scores[s.plans[i].id]}
<1>1. /\ Validated(j, s, frame) /\ live # {}
      /\ Ranked(j, s, frame, terminal) = Least(best)
  BY DEF Ranked
<1>2. Current(j, "plan", frame, PlanAge) /\ j.selected \in DOMAIN Facts(s).targets
      /\ (j.facts = Facts(s) \/ SameTarget(j, Facts(s)))
  BY <1>1 DEF Validated
<1>3. Facts(s).targets[j.selected] = j.facts.targets[j.selected]
  BY <1>2 DEF SameTarget
<1>4. DOMAIN j.scores = DOMAIN j.facts.targets
      /\ \A i \in DOMAIN j.scores : j.scores[i] \in 0..MaxScore
  BY <1>2 DEF Current, Judgment
<1>5. DOMAIN s.plans \in SUBSET Nat
  <2>1. PICK T : s.plans \in Seq(T)
    BY DEF Scene
  <2> QED
    BY <2>1
<1> DEFINE v == [i \in live |-> j.scores[s.plans[i].id]]
<1>6. \A i \in live : v[i] \in 0..MaxScore
  BY <1>4
<1>7. best \in SUBSET Nat /\ best # {} /\ best \subseteq live
  <2>1. live \subseteq DOMAIN s.plans /\ best \subseteq live
    OBVIOUS
  <2>2. \E i \in live : \A l \in live : v[l] <= v[i]
    <3> HIDE DEF live, v
    <3> QED
      BY <1>1, <1>6, Highest
  <2>3. best # {}
    BY <2>2
  <2> QED
    BY <1>5, <2>1, <2>3
<1>8. Least(best) \in live
  <2> HIDE DEF best, live
  <2> QED
    BY <1>7, LeastIn
<1> QED
  BY <1>1, <1>2, <1>3, <1>4, <1>8

\* What shapes a line.
ShapedWell ==
  LET j == shaping'.by
  IN  shaping' # shaping /\ (shaping'.plan # NoJudgment \/ shaping'.goal # "none") =>
        /\ j.place = <<game'.run, game'.life, game'.place>>
        /\ j.mode = mode' /\ j.generation = generation'
        /\ game'.frame - j.frame \in 0..(IF j.kind = "plan" THEN PlanAge ELSE GoalAge)
        /\ shaping'.plan # NoJudgment =>
             LET p == shaping'.plan.of
             IN  /\ Sound(p) /\ p.fits /\ p.id \in DOMAIN j.facts.targets
                 /\ j.selected \in DOMAIN shaping'.plan.now.targets
                 /\ shaping'.plan.now.targets[j.selected] = j.facts.targets[j.selected]

LEMMA Using ==
  ASSUME NEW j, NEW s \in Scene, NEW terminal, GameOK, GameOK', game'.frame = game.frame + 1,
         generation' = generation, j = latest', (latest = NoJudgment \/ Held(latest))',
         Use(j, s, game.frame + 1, terminal)
  PROVE  ShapedWell
<1>1. PICK i, goal : i = Ranked(j, s, game.frame + 1, terminal)
                     /\ goal = Intent(j, s, game.frame + 1)
  OBVIOUS
<1>2. /\ shaping'.by = j /\ shaping'.goal = goal
      /\ shaping'.plan = IF i = 0 THEN NoJudgment
                         ELSE [kind |-> "plan", of |-> s.plans[i], now |-> Facts(s)]
  BY <1>1 DEF Use
<1>3. goal # "none" => Current(j, "goal", game.frame + 1, GoalAge)
  BY <1>1 DEF Intent
<1>4. Current(j, "plan", game.frame + 1, PlanAge) \/ Current(j, "goal", game.frame + 1, GoalAge)
        => j # NoJudgment /\ Judgment(j) /\ j.generation = generation'
           /\ j.place = <<game'.run, game'.life, game'.place>>
  <2>1. NoJudgment.kind = "none"
    BY DEF NoJudgment
  <2>2. j # NoJudgment => Held(latest)'
    OBVIOUS
  <2>3. Held(latest)' => Judgment(j) /\ j.generation = generation'
                         /\ j.place = <<game'.run, game'.life, game'.place>>
    BY DEF Held, Judgment, Place
  <2> QED
    BY <2>1, <2>2, <2>3 DEF Current
<1>5. j # NoJudgment => Judgment(j)
  <2>1. j # NoJudgment => Held(latest)'
    OBVIOUS
  <2> QED
    BY <2>1 DEF Held, Judgment
<1>6. i # 0 => /\ Current(j, "plan", game.frame + 1, PlanAge)
               /\ Sound(s.plans[i]) /\ s.plans[i].fits
               /\ s.plans[i].id \in DOMAIN j.facts.targets
               /\ j.selected \in DOMAIN Facts(s).targets
               /\ Facts(s).targets[j.selected] = j.facts.targets[j.selected]
  <2> SUFFICES ASSUME i # 0 PROVE Current(j, "plan", game.frame + 1, PlanAge)
               /\ Sound(s.plans[i]) /\ s.plans[i].fits
               /\ s.plans[i].id \in DOMAIN j.facts.targets
               /\ j.selected \in DOMAIN Facts(s).targets
               /\ Facts(s).targets[j.selected] = j.facts.targets[j.selected]
    OBVIOUS
  <2>1. Validated(j, s, game.frame + 1)
    BY <1>1 DEF Ranked
  <2>2. Current(j, "plan", game.frame + 1, PlanAge)
    BY <2>1 DEF Validated
  <2>3. Judgment(j)
    BY <1>4, <2>2
  <2> QED
    BY <1>1, <2>3, RankedPlan
<1>7. ASSUME NEW kind \in {"plan", "goal"}, NEW age \in Nat, Judgment(j),
             Current(j, kind, game.frame + 1, age)
      PROVE  j.kind = kind /\ j.mode = mode' /\ game'.frame - j.frame \in 0..age
  <2>1. j.frame \in Nat /\ game.frame \in Nat /\ j.frame <= game.frame + 1
        /\ game.frame + 1 - j.frame <= age /\ j.kind = kind /\ j.mode = mode'
    BY <1>7 DEF Judgment, Current, GameOK
  <2> QED
    BY <2>1
<1>8. PlanAge \in Nat /\ GoalAge \in Nat
  BY JudgmentAssumption
<1>9. ASSUME shaping'.plan # NoJudgment \/ goal # "none"
      PROVE  /\ j.place = <<game'.run, game'.life, game'.place>>
             /\ j.mode = mode' /\ j.generation = generation'
             /\ game'.frame - j.frame \in 0..(IF j.kind = "plan" THEN PlanAge ELSE GoalAge)
  <2>1. CASE i # 0
    BY <1>4, <1>6, <1>7, <1>8, <2>1
  <2>2. CASE goal # "none"
    BY <1>3, <1>4, <1>7, <1>8, <2>2
  <2> QED
    BY <1>2, <1>9, <2>1, <2>2
<1>10. ASSUME shaping'.plan # NoJudgment
       PROVE  LET p == shaping'.plan.of
              IN  /\ Sound(p) /\ p.fits /\ p.id \in DOMAIN j.facts.targets
                  /\ j.selected \in DOMAIN shaping'.plan.now.targets
                  /\ shaping'.plan.now.targets[j.selected] = j.facts.targets[j.selected]
  <2>1. i # 0 /\ shaping'.plan.of = s.plans[i] /\ shaping'.plan.now = Facts(s)
    BY <1>2, <1>10
  <2> QED
    BY <1>6, <2>1
<1> QED
  BY <1>2, <1>9, <1>10 DEF ShapedWell

-----------------------------------------------------------------------------
(* The steps of the loop and of the commands *)

LEMMA Shaping ==
  ASSUME NEW j, NEW s, Staged(s), NEW frame, NEW terminal
  PROVE  Staged(Shaped(j, s, frame, terminal))
<1>1. PICK plan, base :
        /\ plan = (IF Ranked(j, s, frame, terminal) = 0 THEN s.plan
                  ELSE s.plans[Ranked(j, s, frame, terminal)].plan)
        /\ base = (IF Intent(j, s, frame) = "stomp_enemy" THEN "jump" ELSE s.base)
  BY Zenon
<1>2. PICK q : q = [s EXCEPT !.plan = plan, !.base = base]
  OBVIOUS
<1>3. Shaped(j, s, frame, terminal) = q
  BY <1>1, <1>2 DEF Shaped
<1>4. Staged(q)
  BY <1>2 DEF Staged, SceneFields
<1> QED
  BY <1>3, <1>4

\* What a step of the loop or a command is to the game and the agent.
PlayStep ==
  \/ \E s, turn : Staged(s) /\ turn \in Turns /\ Show(turn, s)
  \/ \E s : Staged(s) /\ GameOver(s)
  \/ Restart \/ MemoryReset
  \/ UNCHANGED play

LEMMA Turning ==
  ASSUME JudgmentInv, NEW s \in Scenes[family], NEW turn \in Turns, NEW submit \in BOOLEAN,
         Turn(turn, s, submit)
  PROVE  JudgmentInv' /\ ShapedWell /\ PlayStep
<1>1. s \in Scene /\ Staged(s)
  BY SceneOf DEF JudgmentInv
<1>2. PICK t : t = IF Asks THEN Shaped(latest', s, game.frame + 1, s.dead \/ turn # "on")
                   ELSE s
  OBVIOUS
<1>3. Show(turn, t)
  BY <1>2 DEF Turn
<1>4. Skipped(turn) /\ UNCHANGED <<mode, generation, policy>> /\ latest' = Polled(turn)
  BY DEF Turn
<1>5. family' = family
  BY <1>3 DEF Show
<1>7. Staged(t)
  BY <1>1, <1>2, Shaping
<1>8. GameOK' /\ Played(turn)
  BY <1>3, <1>7, Playing DEF JudgmentInv
<1>9. (latest = NoJudgment \/ Held(latest))'
  BY <1>4, <1>5, <1>8, Polling
<1>10. ShapedWell
  <2>1. CASE Asks
    <3>1. Use(latest', s, game.frame + 1, s.dead \/ turn # "on")
      BY <2>1 DEF Turn
    <3>2. game'.frame = game.frame + 1 /\ generation' = generation /\ GameOK
      BY <1>4, <1>8 DEF Played, JudgmentInv
    <3>3. PICK j, b : j = latest' /\ b = (s.dead \/ turn # "on")
      OBVIOUS
    <3> QED
      BY <1>1, <1>8, <1>9, <3>1, <3>2, <3>3, Using
  <2>2. CASE ~Asks
    <3>1. shaping' = shaping
      BY <2>2 DEF Turn
    <3> QED
      BY <3>1 DEF ShapedWell
  <2> QED
    BY <2>1, <2>2
<1>11. epoch' \in Nat /\ (epoch' = epoch + 1 \/ (epoch' = epoch /\ (Asks => Place' = Place)))
  BY <1>4, <1>8 DEF Skipped, Turned, Played, Place, JudgmentInv
<1>12. (future = NoRequest \/ Requested(future))'
  <2> DEFINE free == Done \/ future = NoRequest
             asked == submit /\ free /\ Asks /\ (policy = "plan" => Offered(s) # <<>>)
  <2>1. future' = IF asked THEN Request(game', s) ELSE IF free THEN NoRequest ELSE future
    BY DEF Turn
  <2>2. CASE asked
    <3>1. PICK r : r = Request(game', s)
      OBVIOUS
    <3>2. Requested(r)'
      BY <1>8, <1>11, <3>1, Requesting DEF JudgmentInv
    <3>3. future' = r
      BY <2>1, <2>2, <3>1
    <3> QED
      BY <3>2, <3>3 DEF Requested
  <2>3. CASE ~asked /\ ~free
    <3>1. PICK r : r = future
      OBVIOUS
    <3>2. future' = r /\ Requested(r) /\ Asks
      BY <2>1, <2>3, <3>1 DEF JudgmentInv
    <3>3. Requested(r)'
      BY <1>11, <3>2, StillRequested DEF JudgmentInv
    <3> QED
      BY <3>2, <3>3 DEF Requested
  <2>4. CASE ~asked /\ free
    BY <2>1, <2>4
  <2> QED
    BY <2>2, <2>3, <2>4
<1>13. (~Asks => future = NoRequest /\ latest = NoJudgment)'
  <2> SUFFICES ASSUME ~Asks PROVE future' = NoRequest /\ latest' = NoJudgment
    BY <1>5 DEF Asks
  <2>1. future = NoRequest /\ latest = NoJudgment
    BY DEF JudgmentInv
  <2>2. ~Done
    BY <2>1 DEF Done, NoRequest
  <2> QED
    BY <2>1, <2>2 DEF Turn, Polled, Forgotten
<1>14. PlayStep
  BY <1>3, <1>7 DEF PlayStep
<1> QED
  BY <1>4, <1>5, <1>8, <1>9, <1>10, <1>11, <1>12, <1>13, <1>14 DEF JudgmentInv

LEMMA LastShown ==
  ASSUME JudgmentInv, NEW s \in Scenes[family], LastLine(s)
  PROVE  JudgmentInv' /\ ShapedWell /\ PlayStep
<1>1. s \in Scene /\ Staged(s)
  BY SceneOf DEF JudgmentInv
<1>2. PICK t : t = IF Asks THEN Shaped(latest, s, game.frame + 1, TRUE) ELSE s
  OBVIOUS
<1>3. GameOver(t) /\ UNCHANGED desk
  BY <1>2 DEF LastLine
<1>5. Staged(t)
  BY <1>1, <1>2, Shaping
<1>6. game' = [game EXCEPT !.over = TRUE] /\ family' = family
  BY <1>3 DEF GameOver
<1>7. GameOK' /\ Place' = Place
  BY <1>6 DEF JudgmentInv, GameOK, Place
<1>8. Asks' = Asks
  BY <1>6 DEF Asks
<1>9. JudgmentInv'
  BY <1>3, <1>6, <1>7, <1>8 DEF desk, JudgmentInv, Held, Judgment, Requested
<1> QED
  BY <1>3, <1>5, <1>9 DEF desk, ShapedWell, PlayStep

LEMMA Answered ==
  ASSUME JudgmentInv, Answer, Asks
  PROVE  JudgmentInv' /\ ShapedWell /\ PlayStep
<1>1. PICK j \in Judgments(future) : future' = [future EXCEPT !.answer = j]
  BY DEF Answer
<1>2. UNCHANGED <<play, epoch, mode, generation, policy, latest, shaping>>
  BY DEF Answer
<1>3. Requested(future)
  <2>1. future # NoRequest
    BY DEF Answer, NoRequest, Pending, NoJudgment
  <2> QED
    BY <2>1 DEF JudgmentInv
<1>4. PICK r : r = future
  OBVIOUS
<1>5. \/ j = Failed
      \/ /\ Judgment(j) /\ j.epoch = r.epoch /\ j.place = r.place /\ j.mode = r.mode
         /\ j.generation = r.generation
  BY <1>1, <1>3, <1>4, Answering
<1>6. /\ DOMAIN future' = RequestFields /\ future'.answer = j
      /\ future'.kind = r.kind /\ future'.frame = r.frame /\ future'.epoch = r.epoch
      /\ future'.place = r.place /\ future'.ids = r.ids /\ future'.facts = r.facts
      /\ future'.mode = r.mode /\ future'.generation = r.generation
  BY <1>1, <1>3, <1>4 DEF Requested, RequestFields
<1>7. epoch' = epoch /\ Place' = Place /\ GameOK'
  BY <1>2 DEF play, Place, JudgmentInv, GameOK
<1>8. Requested(future)'
  BY <1>3, <1>4, <1>5, <1>6, <1>7 DEF Requested, Judgment
<1>9. Asks'
  BY <1>2 DEF play, Asks
<1>10. JudgmentInv'
  BY <1>2, <1>7, <1>8, <1>9 DEF play, JudgmentInv, Held, Judgment
<1> QED
  BY <1>2, <1>10 DEF ShapedWell, PlayStep

\* Every command but a last line ends the epoch, or leaves the game where it is.
LEMMA Commanded ==
  ASSUME JudgmentInv, UNCHANGED <<family, policy, future, shaping>>, GameOK',
         \/ Turned /\ latest' = Forgotten
         \/ UNCHANGED <<epoch, latest, generation>> /\ Place' = Place
  PROVE  JudgmentInv' /\ ShapedWell
<1>1. Asks' = Asks
  BY DEF Asks
<1>2. epoch' \in Nat
  BY DEF Turned, JudgmentInv
<1>3. (future = NoRequest \/ Requested(future))'
  <2>1. PICK r : r = future
    OBVIOUS
  <2>2. CASE r # NoRequest
    <3>1. Requested(r) /\ Asks
      BY <2>1, <2>2 DEF JudgmentInv
    <3>2. Requested(r)'
      BY <1>2, <3>1, StillRequested DEF Turned, JudgmentInv
    <3> QED
      BY <2>1, <3>2 DEF Requested
  <2> QED
    BY <2>1, <2>2
<1>4. (latest = NoJudgment \/ Held(latest))'
  <2>1. CASE latest' = Forgotten
    BY <2>1 DEF Forgotten
  <2>2. CASE UNCHANGED <<epoch, latest, generation>> /\ Place' = Place
    BY <2>2 DEF JudgmentInv, Held, Judgment
  <2> QED
    BY <2>1, <2>2
<1>5. (~Asks => future = NoRequest /\ latest = NoJudgment)'
  BY <1>1 DEF JudgmentInv, Forgotten
<1>6. JudgmentInv'
  BY <1>2, <1>3, <1>4, <1>5 DEF JudgmentInv
<1> QED
  BY <1>6 DEF ShapedWell

LEMMA JudgedStep ==
  JudgmentInv /\ [JudgedNext]_judgedVars => JudgmentInv' /\ ShapedWell /\ PlayStep
<1> SUFFICES ASSUME JudgmentInv, [JudgedNext]_judgedVars
             PROVE  JudgmentInv' /\ ShapedWell /\ PlayStep
  OBVIOUS
<1>1. CASE UNCHANGED judgedVars
  <2>1. UNCHANGED <<k, game, family, told, epoch, mode, generation, policy, future, latest,
                    shaping>>
    BY <1>1 DEF judgedVars, agentVars, desk
  <2> QED
    BY <2>1 DEF JudgmentInv, GameOK, Asks, Requested, Held, Judgment, Place, ShapedWell,
                PlayStep, play
<1>2. CASE \E s \in Scenes[family] :
             LastLine(s) \/ \E turn \in Turns, submit \in BOOLEAN : Turn(turn, s, submit)
  BY <1>2, LastShown, Turning
<1>3. CASE GiveUp
  <2>1. UNCHANGED <<game, family, policy, future, shaping, generation, mode>>
    BY <1>3 DEF GiveUp, MemoryReset
  <2>2. GameOK' /\ Place' = Place
    BY <2>1 DEF JudgmentInv, GameOK, Place
  <2>3. \/ Turned /\ latest' = Forgotten
        \/ UNCHANGED <<epoch, latest, generation>> /\ Place' = Place
    BY <1>3, <2>1, <2>2 DEF GiveUp
  <2>4. JudgmentInv' /\ ShapedWell
    BY <2>1, <2>2, <2>3, Commanded
  <2> QED
    BY <1>3, <2>4 DEF GiveUp, PlayStep
<1>4. ASSUME NEW m \in Modes, StartAgain(m) PROVE JudgmentInv' /\ ShapedWell /\ PlayStep
  <2>1. UNCHANGED <<family, policy, future, shaping>> /\ Turned /\ latest' = Forgotten /\ Restart
    BY <1>4 DEF StartAgain, Restart
  <2>2. PICK r \in Nat : r = game.run + 1
    BY DEF JudgmentInv, GameOK
  <2>3. game' = [game EXCEPT !.run = r, !.life = 0, !.place = 1, !.frame = 0,
                          !.action = "noop", !.dying = FALSE, !.over = FALSE]
    BY <2>1, <2>2 DEF Restart
  <2>4. GameOK'
    BY <2>3 DEF GameOK, JudgmentInv
  <2> QED
    BY <2>1, <2>4, Commanded DEF PlayStep
<1>5. CASE Asks /\ Answer
  BY <1>5, Answered
<1>6. CASE SwitchModel \/ \E m \in Modes : SetMode(m)
  <2>1. UNCHANGED <<play, policy, future, shaping>> /\ Turned /\ latest' = Forgotten
    BY <1>6 DEF SwitchModel, SetMode
  <2>2. GameOK' /\ UNCHANGED <<family>>
    BY <2>1 DEF JudgmentInv, GameOK, play
  <2> QED
    BY <2>1, <2>2, Commanded DEF PlayStep, play
<1> QED
  BY <1>1, <1>2, <1>3, <1>4, <1>5, <1>6 DEF JudgedNext

\* Whatever was switched, lost or started again while the model was thinking, what shapes a
\* line was asked for where, in the mode and of the model it is used.
THEOREM JudgedNow == JudgedSpec => JudgmentCurrent
<1>1. JudgedInit => JudgmentInv
  BY JudgedBegins
<1>2. JudgmentInv /\ [JudgedNext]_judgedVars => JudgmentInv'
  BY JudgedStep
<1>3. JudgmentInv /\ [JudgedNext]_judgedVars => [ShapedWell]_judgedVars
  BY JudgedStep
<1> QED
  BY <1>1, <1>2, <1>3, PTL DEF JudgedSpec, JudgmentCurrent, ShapedWell

-----------------------------------------------------------------------------
(* What the agent learns from a frame *)

AgentFields ==
  {"run", "life", "place", "frame", "prev", "flight", "cut", "forecasts", "deaths", "ids",
   "labels", "holds", "tracks", "next", "archived", "confirmed", "target", "status", "task",
   "attack", "combat", "phase", "crossing", "landing", "skill", "plan", "report"}
FlightFields == {"start", "context", "confirmed", "contact", "airborne", "held", "low"}

IsAgent(a) == DOMAIN a = AgentFields

\* The fields by the part of the agent that sets them.
SameSight(b, a) ==
  b.tracks = a.tracks /\ b.next = a.next /\ b.archived = a.archived
  /\ b.confirmed = a.confirmed /\ b.target = a.target
SamePlace(b, a) == b.run = a.run /\ b.life = a.life /\ b.place = a.place /\ b.frame = a.frame
SameLessons(b, a) ==
  b.deaths = a.deaths /\ b.ids = a.ids /\ b.labels = a.labels /\ b.report = a.report
SameExperience(b, a) ==
  /\ SamePlace(b, a) /\ SameLessons(b, a) /\ b.prev = a.prev /\ b.forecasts = a.forecasts
SamePursuit(b, a) ==
  b.status = a.status /\ b.task = a.task /\ b.attack = a.attack /\ b.combat = a.combat
  /\ b.phase = a.phase
SameCourse(b, a) ==
  b.crossing = a.crossing /\ b.landing = a.landing /\ b.skill = a.skill /\ b.plan = a.plan

\* A frame that is shown after the agent came to what it knows now.
Outcomes == {"succeeded", "failed", "unknown"}
Flown(f) ==
  \/ f = NoFlight
  \/ DOMAIN f = FlightFields /\ f.start \in Nat

\* What a death does to the agent.
Credits(b, a, o) ==
  /\ IsAgent(b) /\ SameSight(b, a) /\ SamePlace(b, a) /\ SamePursuit(b, a)
  /\ SameCourse(b, a) /\ b.prev = a.prev /\ b.forecasts = a.forecasts
  /\ b.flight \in {a.flight, NoFlight}
  /\ ~Fatal(a, o) => b = a
  /\ Fatal(a, o) /\ <<o.run, o.frame>> \notin a.ids =>
       /\ b.deaths = a.deaths + 1 /\ b.ids = a.ids \cup {<<o.run, o.frame>>}
       /\ b.labels = [a.labels EXCEPT !["failed"] = @ + 1]
       /\ b.report.credit = "death" /\ b.report.scored = {}
  /\ DOMAIN b.report = {"credit", "scored"}

LEMMA Creditings ==
  ASSUME NEW a, NEW o, IsAgent(a), a.report = Silent, a.deaths \in Nat,
         a.labels \in [Outcomes -> Nat], Flown(a.flight), NEW b, b = Credit(a, o)
  PROVE  Credits(b, a, o)
<1>1. CASE ~Fatal(a, o)
  BY <1>1 DEF Credit, SameSight, SamePlace, SamePursuit, SameCourse, Silent, Credits
<1>2. CASE Fatal(a, o)
  <2>1. PICK id : id = <<o.run, o.frame>>
    OBVIOUS
  <2>2. PICK d \in Nat : d = a.deaths + 1
    OBVIOUS
  <2>3. PICK c : c = [a EXCEPT !.deaths = d, !.report.credit = "death"]
    OBVIOUS
  <2>4. /\ IsAgent(c) /\ SameSight(c, a) /\ SamePlace(c, a) /\ SamePursuit(c, a)
        /\ SameCourse(c, a) /\ c.prev = a.prev /\ c.forecasts = a.forecasts
        /\ c.flight = a.flight /\ c.ids = a.ids /\ c.labels = a.labels /\ c.holds = a.holds
        /\ c.deaths = d
    BY <2>3 DEF IsAgent, AgentFields, SameSight, SamePlace, SamePursuit, SameCourse
  <2>5. c.report.credit = "death" /\ c.report.scored = {}
        /\ DOMAIN c.report = {"credit", "scored"}
    BY <2>3 DEF IsAgent, AgentFields, Silent
  <2>6. PICK f : f = Record(c, id, "failed")
    OBVIOUS
  <2>7. /\ IsAgent(f) /\ SameSight(f, c) /\ SamePlace(f, c) /\ SamePursuit(f, c)
        /\ SameCourse(f, c) /\ f.prev = c.prev /\ f.forecasts = c.forecasts
        /\ f.flight = c.flight /\ f.deaths = c.deaths /\ f.report = c.report
        /\ id \notin c.ids => f.ids = c.ids \cup {id}
    BY <2>4, <2>6
       DEF Record, IsAgent, AgentFields, SameSight, SamePlace, SamePursuit, SameCourse
  <2>8. id \notin c.ids => f.labels = [c.labels EXCEPT !["failed"] = @ + 1]
    BY <2>4, <2>6 DEF Record, IsAgent, AgentFields
  <2>9. PICK h : h = IF Undershot(a.flight) THEN Lengthened(a) ELSE f.holds
    OBVIOUS
  <2>10. b = IF ~Flying(a) THEN f
             ELSE [f EXCEPT !.flight = NoFlight,
                            !.holds = IF Undershot(a.flight) THEN Lengthened(a) ELSE @]
    BY <1>2, <2>1, <2>2, <2>3, <2>6 DEF Credit
  <2>11. b = f \/ b = [f EXCEPT !.flight = NoFlight, !.holds = h]
    BY <2>9, <2>10
  <2>12. /\ IsAgent(b) /\ SameSight(b, f) /\ SamePlace(b, f) /\ SamePursuit(b, f)
         /\ SameCourse(b, f) /\ b.prev = f.prev /\ b.forecasts = f.forecasts
         /\ b.flight \in {f.flight, NoFlight}
         /\ b.deaths = f.deaths /\ b.report = f.report /\ b.ids = f.ids /\ b.labels = f.labels
    <3>1. CASE b = f
      BY <2>7, <3>1 DEF SameSight, SamePlace, SamePursuit, SameCourse
    <3>2. CASE b = [f EXCEPT !.flight = NoFlight, !.holds = h]
      BY <2>7, <3>2 DEF IsAgent, AgentFields, SameSight, SamePlace, SamePursuit, SameCourse
    <3> QED
      BY <2>11, <3>1, <3>2
  <2>13. b.flight \in {a.flight, NoFlight}
    BY <2>4, <2>7, <2>12
  <2>14. /\ SameSight(b, a) /\ SamePlace(b, a) /\ SamePursuit(b, a) /\ SameCourse(b, a)
         /\ b.prev = a.prev /\ b.forecasts = a.forecasts
    BY <2>4, <2>7, <2>12 DEF SameSight, SamePlace, SamePursuit, SameCourse
  <2>15. id \notin a.ids =>
              /\ b.deaths = a.deaths + 1 /\ b.ids = a.ids \cup {id}
              /\ b.labels = [a.labels EXCEPT !["failed"] = @ + 1]
              /\ b.report.credit = "death" /\ b.report.scored = {}
    BY <2>2, <2>4, <2>5, <2>7, <2>8, <2>12
  <2>16. DOMAIN b.report = {"credit", "scored"}
    BY <2>5, <2>7, <2>12
  <2> QED
    BY <1>2, <2>1, <2>12, <2>13, <2>14, <2>15, <2>16 DEF Credits
<1> QED
  BY <1>1, <1>2 DEF Credits

\* What another place does to it.
CrossedTo(b, a, o) ==
  /\ IsAgent(b) /\ SamePlace(b, a) /\ SameLessons(b, a)
  /\ b.skill = a.skill /\ b.plan = a.plan /\ b.crossing = a.crossing /\ b.task = a.task
  /\ ~Boundary(a, o) => b = a
  /\ Boundary(a, o) =>
       /\ b.prev = Nothing /\ b.flight = NoFlight /\ b.forecasts = {}
       /\ b.landing = NoLanding /\ b.cut = FALSE
       /\ b.archived = a.archived + Cardinality(Live(a)) /\ b.tracks = Nothing
       /\ b.target = None /\ b.next = a.next /\ b.confirmed = a.confirmed

LEMMA Crossed ==
  ASSUME NEW a, NEW o, IsAgent(a), NEW b, b = Cross(a, o)
  PROVE  CrossedTo(b, a, o)
<1>1. CASE ~Boundary(a, o)
  BY <1>1 DEF Cross, SamePlace, SameLessons, CrossedTo
<1>2. CASE Boundary(a, o)
  <2>1. PICK n : n = a.archived + Cardinality(Live(a))
    OBVIOUS
  <2>2. PICK c : c = [a EXCEPT !.archived = n, !.tracks = Nothing, !.target = None,
                               !.attack = NoAttack]
    OBVIOUS
  <2>3. /\ IsAgent(c) /\ SamePlace(c, a) /\ SameLessons(c, a)
        /\ c.skill = a.skill /\ c.plan = a.plan /\ c.crossing = a.crossing
        /\ c.task = a.task
        /\ c.archived = n /\ c.tracks = Nothing
        /\ c.target = None /\ c.next = a.next /\ c.confirmed = a.confirmed
    BY <2>2 DEF IsAgent, AgentFields, SamePlace, SameLessons
  <2>4. c = Archive(a)
    BY <2>1, <2>2 DEF Archive
  <2>5. b = [c EXCEPT !.prev = Nothing, !.flight = NoFlight, !.forecasts = {},
                          !.cut = FALSE, !.landing = NoLanding]
    BY <1>2, <2>4 DEF Cross
  <2>6. /\ IsAgent(b) /\ SamePlace(b, c) /\ SameLessons(b, c)
        /\ b.skill = c.skill /\ b.plan = c.plan /\ b.crossing = c.crossing
        /\ b.task = c.task
        /\ b.archived = n /\ b.tracks = Nothing
        /\ b.target = None /\ b.next = c.next /\ b.confirmed = c.confirmed
        /\ b.prev = Nothing /\ b.flight = NoFlight /\ b.forecasts = {}
        /\ b.landing = NoLanding /\ b.cut = FALSE
    BY <2>3, <2>5 DEF IsAgent, AgentFields, SamePlace, SameLessons
  <2>7. SamePlace(b, a) /\ SameLessons(b, a)
    BY <2>3, <2>6 DEF SamePlace, SameLessons
  <2> QED
    BY <1>2, <2>1, <2>3, <2>6, <2>7 DEF CrossedTo
<1> QED
  BY <1>1, <1>2 DEF CrossedTo

\* What a frame in the air does to a flight.
FlownTo(b, a, o) ==
  /\ IsAgent(b) /\ SameSight(b, a) /\ SameExperience(b, a) /\ SamePursuit(b, a)
  /\ SameCourse(b, a)
  /\ Flown(b.flight) /\ b.flight.start = a.flight.start
  /\ (b.flight = NoFlight <=> a.flight = NoFlight)
  /\ b.cut = (IF o.ground THEN FALSE ELSE a.cut \/ ~Jumping(a.prev.input))
  /\ o.ground => b.flight = a.flight
  /\ ~o.ground /\ a.flight # NoFlight =>
       /\ b.flight.airborne
       /\ b.flight.confirmed = (a.flight.confirmed
                                  \/ (o.rise /\ o.frame - a.flight.start <= TakeoffWindow))

\* What a frame in the air makes of a flight.
LEMMA FlightLearnt ==
  ASSUME NEW a, NEW o, IsAgent(a), Flown(a.flight), NEW b, b = Airborne(a, o)
  PROVE  FlownTo(b, a, o)
<1>1. PICK cut : cut = IF o.ground THEN FALSE ELSE a.cut \/ ~Jumping(a.prev.input)
  OBVIOUS
<1>2. PICK f : f = a.flight
  OBVIOUS
<1>3. PICK confirmed, contact, held :
        /\ confirmed = (f.confirmed \/ (o.rise /\ o.frame - f.start <= TakeoffWindow))
        /\ contact = (f.contact \/ o.contact)
        /\ held = IF Jumping(a.prev.input) /\ ~cut THEN f.held + 1 ELSE f.held
  OBVIOUS
<1>4. PICK g : g = [f EXCEPT !.confirmed = confirmed, !.contact = contact, !.held = held,
                             !.airborne = TRUE, !.low = o.low]
  OBVIOUS
<1>5. f # NoFlight => /\ DOMAIN g = FlightFields /\ g.start = f.start /\ f.start \in Nat
                      /\ g.airborne /\ g.confirmed = confirmed
  BY <1>2, <1>4 DEF Flown, FlightFields
<1>6. NoFlight.start \notin Nat
  BY DEF NoFlight, None
<1>7. f # NoFlight => g # NoFlight
  BY <1>5, <1>6
<1>8. PICK h : h = IF f = NoFlight \/ o.ground THEN f ELSE g
  OBVIOUS
<1>9. b = [a EXCEPT !.cut = cut, !.flight = h]
  BY <1>1, <1>2, <1>3, <1>4, <1>8 DEF Airborne, Flying
<1>10. /\ IsAgent(b) /\ SameSight(b, a) /\ SameExperience(b, a) /\ SamePursuit(b, a)
       /\ SameCourse(b, a) /\ b.flight = h /\ b.cut = cut
  BY <1>9 DEF IsAgent, AgentFields, SameSight, SameExperience, SamePursuit, SameCourse,
              SamePlace, SameLessons
<1>11. Flown(h) /\ h.start = f.start /\ (h = NoFlight <=> f = NoFlight)
  BY <1>2, <1>5, <1>7, <1>8 DEF Flown
<1> QED
  BY <1>1, <1>2, <1>3, <1>5, <1>8, <1>10, <1>11 DEF FlownTo

\* What a landing does to it.
LandedTo(b, a, o) ==
  /\ IsAgent(b) /\ SameSight(b, a) /\ SamePlace(b, a) /\ SamePursuit(b, a)
  /\ SameCourse(b, a) /\ b.prev = a.prev /\ b.forecasts = a.forecasts /\ b.cut = a.cut
  /\ b.deaths = a.deaths
  /\ \/ /\ b = a
        /\ a.prev.ground \/ ~o.ground \/ ~Flying(a)
     \/ /\ ~a.prev.ground /\ o.ground /\ Flying(a)
        /\ b.flight = NoFlight /\ b.report.credit = "landing" /\ b.report.scored = {}
        /\ <<o.run, a.flight.start>> \notin a.ids =>
             /\ b.ids = a.ids \cup {<<o.run, a.flight.start>>}
             /\ \E x \in {"succeeded", "unknown"} : b.labels = [a.labels EXCEPT ![x] = @ + 1]

\* A landing is an outcome of its flight's attempt.
LEMMA Landings ==
  ASSUME NEW a, NEW o, IsAgent(a), Flown(a.flight), a.labels \in [Outcomes -> Nat],
         a.report.scored = {}, DOMAIN a.report = {"credit", "scored"}, NEW b, b = Land(a, o)
  PROVE  LandedTo(b, a, o)
<1>1. CASE a.prev.ground \/ ~o.ground \/ ~Flying(a)
  BY <1>1 DEF Land, SameSight, SamePlace, SamePursuit, SameCourse, LandedTo
<1>2. CASE ~(a.prev.ground \/ ~o.ground \/ ~Flying(a))
  <2>1. PICK id : id = <<o.run, a.flight.start>>
    OBVIOUS
  <2>2. PICK x \in {"succeeded", "unknown"} :
          x = IF o.reached /\ a.flight.confirmed THEN "succeeded" ELSE "unknown"
    OBVIOUS
  <2>3. PICK f : f = Record(a, id, x)
    OBVIOUS
  <2>4. /\ IsAgent(f) /\ SameSight(f, a) /\ SamePlace(f, a) /\ SamePursuit(f, a)
        /\ SameCourse(f, a) /\ f.prev = a.prev /\ f.forecasts = a.forecasts /\ f.cut = a.cut
        /\ f.deaths = a.deaths /\ f.report = a.report
        /\ id \notin a.ids => f.ids = a.ids \cup {id}
    BY <2>3 DEF Record, IsAgent, AgentFields, SameSight, SamePlace, SamePursuit, SameCourse
  <2>5. id \notin a.ids => f.labels = [a.labels EXCEPT ![x] = @ + 1]
    BY <2>3 DEF Record, IsAgent, AgentFields
  <2>6. b = [f EXCEPT !.flight = NoFlight, !.report.credit = "landing"]
    BY <1>2, <2>1, <2>2, <2>3 DEF Land
  <2>7. PICK r : r = [f.report EXCEPT !.credit = "landing"]
    OBVIOUS
  <2>8. b = [f EXCEPT !.flight = NoFlight, !.report = r]
    BY <2>4, <2>6, <2>7 DEF IsAgent, AgentFields
  <2>9. /\ IsAgent(b) /\ SameSight(b, f) /\ SamePlace(b, f) /\ SamePursuit(b, f)
        /\ SameCourse(b, f) /\ b.prev = f.prev /\ b.forecasts = f.forecasts /\ b.cut = f.cut
        /\ b.deaths = f.deaths /\ b.report = r /\ b.ids = f.ids /\ b.labels = f.labels
        /\ b.flight = NoFlight
    BY <2>4, <2>8 DEF IsAgent, AgentFields, SameSight, SamePlace, SamePursuit, SameCourse
  <2>10. SameSight(b, a) /\ SamePlace(b, a) /\ SamePursuit(b, a) /\ SameCourse(b, a)
    BY <2>4, <2>9 DEF SameSight, SamePlace, SamePursuit, SameCourse
  <2>11. r.scored = {} /\ r.credit = "landing"
    BY <2>4, <2>7
  <2> QED
    BY <1>2, <2>1, <2>2, <2>4, <2>5, <2>9, <2>10, <2>11 DEF LandedTo
<1> QED
  BY <1>1, <1>2 DEF LandedTo

\* What a frame does to the forecasts.
ForecastTo(b, a, o, c) ==
  /\ IsAgent(b) /\ SameSight(b, a) /\ SamePlace(b, a) /\ SamePursuit(b, a)
  /\ SameCourse(b, a) /\ b.prev = a.prev /\ b.flight = a.flight /\ b.cut = a.cut
  /\ b.deaths = a.deaths /\ b.ids = a.ids /\ b.labels = a.labels
  /\ b.report.credit = a.report.credit
  /\ \A f \in b.forecasts :
       \/ c /\ f \in a.forecasts /\ f.action = o.input
       \/ f.action = o.input /\ \E h \in Horizons : f.horizon = h /\ f.due = o.frame + h
  /\ \A h \in b.report.scored :
       c /\ \E f \in a.forecasts : f.horizon = h /\ f.action = o.input /\ f.due = o.frame

\* The action that was held all the way decides what a forecast may be compared with.
LEMMA Forecasting ==
  ASSUME NEW a, NEW o, IsAgent(a), DOMAIN a.report = {"credit", "scored"},
         NEW c \in BOOLEAN, NEW b, b = Forecast(a, o, c)
  PROVE  ForecastTo(b, a, o, c)
<1> DEFINE held == {f \in a.forecasts : c /\ Holds(f, o)}
           frozen == {[due |-> o.frame + h, horizon |-> h, action |-> o.input] : h \in Horizons}
<1>1. PICK kept : kept = IF o.frame % Period = 0 /\ ~o.dead /\ ~o.lost THEN frozen ELSE {}
  OBVIOUS
<1>2. PICK scored : scored = {f.horizon : f \in {f \in held : f.due = o.frame}}
  OBVIOUS
<1>3. PICK forecasts : forecasts = {f \in held : f.due > o.frame} \cup kept
  OBVIOUS
<1>4. PICK r : r = [a.report EXCEPT !.scored = scored]
  OBVIOUS
<1>5. b = [a EXCEPT !.report.scored = scored, !.forecasts = forecasts]
  BY <1>1, <1>2, <1>3 DEF Forecast
<1>6. b = [a EXCEPT !.report = r, !.forecasts = forecasts]
  BY <1>4, <1>5
<1>7. /\ IsAgent(b) /\ SameSight(b, a) /\ SamePlace(b, a) /\ SamePursuit(b, a)
      /\ SameCourse(b, a) /\ b.prev = a.prev /\ b.flight = a.flight /\ b.cut = a.cut
      /\ b.deaths = a.deaths /\ b.ids = a.ids /\ b.labels = a.labels
      /\ b.report = r /\ b.forecasts = forecasts
  BY <1>6 DEF IsAgent, AgentFields, SameSight, SamePlace, SamePursuit, SameCourse
<1>8. r.scored = scored /\ r.credit = a.report.credit
  BY <1>4
<1>9. \A f \in held : c /\ f \in a.forecasts /\ f.action = o.input
  BY DEF Holds
<1>10. \A f \in frozen : f.action = o.input
                         /\ \E h \in Horizons : f.horizon = h /\ f.due = o.frame + h
  OBVIOUS
<1>11. \A f \in forecasts : f \in held \/ f \in frozen
  BY <1>1, <1>3
<1>12. \A h \in scored : \E f \in held : f.horizon = h /\ f.due = o.frame
  BY <1>2
<1> HIDE DEF held, frozen
<1>13. \A f \in b.forecasts :
              \/ c /\ f \in a.forecasts /\ f.action = o.input
              \/ f.action = o.input /\ \E h \in Horizons : f.horizon = h /\ f.due = o.frame + h
  BY <1>7, <1>9, <1>10, <1>11
<1>14. \A h \in b.report.scored :
              c /\ \E f \in a.forecasts : f.horizon = h /\ f.action = o.input /\ f.due = o.frame
  BY <1>7, <1>8, <1>9, <1>12
<1> QED
  BY <1>7, <1>8, <1>13, <1>14 DEF ForecastTo

-----------------------------------------------------------------------------
(* The entities that are followed *)

Track ==
  [slot : Nat, kind : Nat, x : Int, seen : Nat, stompable : BOOLEAN, visible : BOOLEAN,
   status : {"observed", "unobserved", "confirmed"}]

\* Everything an observation of entities leaves alone.
SameButSight(b, a) ==
  /\ IsAgent(b) /\ SameExperience(b, a) /\ SamePursuit(b, a) /\ SameCourse(b, a)
  /\ b.flight = a.flight /\ b.cut = a.cut

\* Each entity has a number of its own, and they add up.
Tracked(b) ==
  /\ b.next \in Nat \ {0} /\ b.archived \in Nat /\ b.confirmed \in Nat
  /\ DOMAIN b.tracks \subseteq 1..(b.next - 1)
  /\ \A i \in DOMAIN b.tracks : b.tracks[i] \in Track
  /\ b.next - 1 = b.archived + b.confirmed + Cardinality(Live(b))

\* What is in view was seen in this frame.
InView(b, frame) == \A i \in DOMAIN b.tracks : b.tracks[i].visible => b.tracks[i].seen = frame

LEMMA LiveFinite ==
  ASSUME NEW b, Tracked(b)
  PROVE  /\ IsFiniteSet(Live(b)) /\ Cardinality(Live(b)) \in Nat
         /\ Live(b) \subseteq DOMAIN b.tracks /\ DOMAIN b.tracks \in SUBSET Nat
<1>1. PICK n \in Nat : n = b.next - 1
  BY DEF Tracked
<1>2. Live(b) \subseteq DOMAIN b.tracks /\ DOMAIN b.tracks \subseteq 1..n
  BY <1>1 DEF Live, Tracked
<1>3. IsFiniteSet(1..n) /\ 1..n \subseteq Nat
  BY FS_Interval
<1>4. IsFiniteSet(Live(b))
  BY <1>2, <1>3, FS_Subset
<1> QED
  BY <1>2, <1>3, <1>4, FS_CardinalityType

LEMMA Unsighted ==
  ASSUME NEW a, IsAgent(a), Tracked(a), NEW frame
  PROVE  SameButSight(Unseen(a), a) /\ Tracked(Unseen(a)) /\ InView(Unseen(a), frame)
<1>1. PICK f : f = [i \in DOMAIN a.tracks |->
                      IF i \in Live(a)
                      THEN [a.tracks[i] EXCEPT !.visible = FALSE, !.status = "unobserved"]
                      ELSE [a.tracks[i] EXCEPT !.visible = FALSE]]
  OBVIOUS
<1>2. PICK b : b = Unseen(a)
  OBVIOUS
<1>3. b = [a EXCEPT !.tracks = f]
  BY <1>1, <1>2 DEF Unseen
<1>4. /\ SameButSight(b, a) /\ b.tracks = f /\ b.next = a.next /\ b.archived = a.archived
      /\ b.confirmed = a.confirmed
  BY <1>3 DEF SameButSight, IsAgent, AgentFields, SameExperience, SamePlace, SameLessons,
              SamePursuit, SameCourse
<1>5. ASSUME NEW i \in DOMAIN a.tracks
      PROVE  /\ f[i] \in Track /\ ~f[i].visible
             /\ (f[i].status # "confirmed" <=> a.tracks[i].status # "confirmed")
  <2>1. PICK t \in Track : t = a.tracks[i]
    BY DEF Tracked
  <2>2. PICK s \in {"observed", "unobserved", "confirmed"} :
          s = IF i \in Live(a) THEN "unobserved" ELSE t.status
    BY DEF Track
  <2>3. f[i] = IF i \in Live(a) THEN [t EXCEPT !.visible = FALSE, !.status = "unobserved"]
              ELSE [t EXCEPT !.visible = FALSE]
    BY <1>1, <2>1
  <2>4. f[i] \in Track /\ f[i].visible = FALSE /\ f[i].status = s
    <3>1. CASE i \in Live(a)
      BY <2>2, <2>3, <3>1 DEF Track
    <3>2. CASE i \notin Live(a)
      BY <2>2, <2>3, <3>2 DEF Track
    <3> QED
      BY <3>1, <3>2
  <2>5. s # "confirmed" <=> t.status # "confirmed"
    BY <2>1, <2>2 DEF Live
  <2> QED
    BY <2>1, <2>4, <2>5
<1>6. DOMAIN f = DOMAIN a.tracks
  BY <1>1
<1>7. Live(b) = Live(a)
  BY <1>4, <1>5, <1>6 DEF Live
<1>8. Tracked(b) /\ InView(b, frame)
  BY <1>4, <1>5, <1>6, <1>7 DEF Tracked, InView
<1> QED
  BY <1>2, <1>4, <1>8

LEMMA RoomMade ==
  ASSUME NEW a, IsAgent(a), Tracked(a), NEW frame, InView(a, frame), NEW b, b = MakeRoom(a)
  PROVE  SameButSight(b, a) /\ Tracked(b) /\ InView(b, frame) /\ b.next = a.next
<1>1. PICK old : old = Least({i \in DOMAIN a.tracks :
                      \A j \in DOMAIN a.tracks : a.tracks[i].seen <= a.tracks[j].seen})
  OBVIOUS
<1>2. CASE b = a
  BY <1>2 DEF SameButSight, SameExperience, SamePlace, SameLessons, SamePursuit, SameCourse
<1>3. CASE b # a
  <2>1. PICK n, t, f : n = (IF old \in Live(a) THEN a.archived + 1 ELSE a.archived)
                       /\ t = (IF a.target = old THEN None ELSE a.target)
                       /\ f = Without(a.tracks, old)
    OBVIOUS
  <2>2. b = [a EXCEPT !.archived = n, !.target = t, !.tracks = f]
    BY <1>1, <1>3, <2>1 DEF MakeRoom
  <2>3. /\ SameButSight(b, a) /\ b.tracks = f /\ b.next = a.next /\ b.archived = n
        /\ b.confirmed = a.confirmed
    BY <2>2 DEF SameButSight, IsAgent, AgentFields, SameExperience, SamePlace, SameLessons,
                SamePursuit, SameCourse
  <2>4. DOMAIN f = DOMAIN a.tracks \ {old} /\ \A i \in DOMAIN f : f[i] = a.tracks[i]
    BY <2>1 DEF Without, Restrict
  <2>5. Live(b) = Live(a) \ {old}
    BY <2>3, <2>4 DEF Live
  <2>6. Cardinality(Live(b)) = IF old \in Live(a) THEN Cardinality(Live(a)) - 1
                                                  ELSE Cardinality(Live(a))
    <3>1. IsFiniteSet(Live(a))
      BY LiveFinite
    <3>2. CASE old \in Live(a)
      BY <2>5, <3>1, <3>2, FS_RemoveElement
    <3>3. CASE old \notin Live(a)
      <4>1. Live(b) = Live(a)
        BY <2>5, <3>3
      <4> QED
        BY <3>3, <4>1
    <3> QED
      BY <3>2, <3>3
  <2>7. Cardinality(Live(a)) \in Nat
    BY LiveFinite
  <2>8. /\ n \in Nat
        /\ a.next - 1 = n + a.confirmed + Cardinality(Live(b))
    <3>1. CASE old \in Live(a)
      BY <2>1, <2>6, <2>7, <3>1 DEF Tracked
    <3>2. CASE old \notin Live(a)
      BY <2>1, <2>6, <2>7, <3>2 DEF Tracked
    <3> QED
      BY <3>1, <3>2
  <2>9. Tracked(b)
    BY <2>3, <2>4, <2>8 DEF Tracked
  <2> QED
    BY <2>3, <2>4, <2>9 DEF InView
<1> QED
  BY <1>2, <1>3

LEMMA Followed ==
  ASSUME NEW a, IsAgent(a), Tracked(a), NEW frame \in Nat, InView(a, frame),
         NEW e \in Enemy, NEW b, b = Follow(a, e, frame)
  PROVE  SameButSight(b, a) /\ Tracked(b) /\ InView(b, frame)
<1>1. PICK known, room, id :
        /\ known = Matches(a, e, frame)
        /\ room = IF known = {} THEN MakeRoom(a) ELSE a
        /\ id = IF known = {} THEN a.next ELSE Least(known)
  OBVIOUS
<1>2. SameButSight(room, a) /\ Tracked(room) /\ InView(room, frame) /\ room.next = a.next
  <2>1. CASE known = {}
    BY <1>1, <2>1, RoomMade
  <2>2. CASE known # {}
    BY <1>1, <2>2
       DEF SameButSight, SameExperience, SamePlace, SameLessons, SamePursuit, SameCourse
  <2> QED
    BY <2>1, <2>2
<1>3. IsAgent(room)
  BY <1>2 DEF SameButSight
<1>4. PICK t \in Track :
        t = [slot |-> e.slot, kind |-> e.kind, x |-> e.x, seen |-> frame,
             stompable |-> e.stompable, visible |-> TRUE, status |-> "observed"]
  BY DEF Track, Enemy
<1>5. PICK n, f : n = (IF known = {} THEN room.next + 1 ELSE room.next)
                  /\ f = With(room.tracks, id, t)
  OBVIOUS
<1>6. b = [room EXCEPT !.next = n, !.tracks = f]
  BY <1>1, <1>4, <1>5 DEF Follow
<1>7. /\ SameButSight(b, room) /\ b.tracks = f /\ b.next = n /\ b.archived = room.archived
      /\ b.confirmed = room.confirmed
  BY <1>3, <1>6 DEF SameButSight, IsAgent, AgentFields, SameExperience, SamePlace, SameLessons,
              SamePursuit, SameCourse
<1>8. SameButSight(b, a)
  BY <1>2, <1>7 DEF SameButSight, SameExperience, SamePlace, SameLessons, SamePursuit,
                    SameCourse
<1>9. DOMAIN f = DOMAIN room.tracks \cup {id} /\ f[id] = t
      /\ \A i \in DOMAIN f : i # id => f[i] = room.tracks[i]
  BY <1>5 DEF With
<1>10. t.status = "observed" /\ t.seen = frame
  BY <1>4
<1>11. Live(b) = Live(room) \cup {id}
  BY <1>7, <1>9, <1>10 DEF Live
<1>12. IsFiniteSet(Live(room)) /\ Cardinality(Live(room)) \in Nat
  BY <1>2, LiveFinite
<1>13. CASE known = {}
  <2>1. id = room.next /\ n = room.next + 1 /\ room.next \in Nat \ {0}
    BY <1>1, <1>2, <1>5, <1>13 DEF Tracked
  <2>2. id \notin Live(room)
    BY <1>2, <2>1 DEF Tracked, Live
  <2>3. Cardinality(Live(b)) = Cardinality(Live(room)) + 1
    BY <1>11, <1>12, <2>2, FS_AddElement
  <2>4. n \in Nat \ {0} /\ DOMAIN f \subseteq 1..(n - 1)
    BY <1>2, <1>9, <2>1 DEF Tracked
  <2>5. n - 1 = b.archived + b.confirmed + Cardinality(Live(b))
    BY <1>2, <1>7, <1>12, <2>1, <2>3 DEF Tracked
  <2>6. Tracked(b)
    BY <1>2, <1>7, <1>9, <2>4, <2>5 DEF Tracked
  <2> QED
    BY <1>2, <1>7, <1>8, <1>9, <1>10, <2>6 DEF InView
<1>14. CASE known # {}
  <2>1. known \subseteq Live(room) /\ room = a /\ n = room.next
    BY <1>1, <1>5, <1>14 DEF Matches
  <2>2. known \in SUBSET Nat
    BY <2>1, LiveFinite
  <2>3. id \in Live(room)
    BY <1>1, <1>14, <2>1, <2>2, LeastIn
  <2>4. Live(b) = Live(room) /\ DOMAIN f = DOMAIN room.tracks
    BY <1>9, <1>11, <2>3 DEF Live
  <2>5. Tracked(b)
    BY <1>2, <1>7, <1>9, <2>1, <2>4 DEF Tracked
  <2> QED
    BY <1>2, <1>7, <1>8, <1>9, <1>10, <2>5 DEF InView
<1> QED
  BY <1>13, <1>14

LEMMA Confirming ==
  ASSUME NEW a, IsAgent(a), Tracked(a), NEW frame, InView(a, frame), NEW e,
         NEW b, b = Confirm(a, e, frame)
  PROVE  SameButSight(b, a) /\ Tracked(b) /\ InView(b, frame)
<1>1. PICK gone : gone = Eliminated(a, e, frame)
  OBVIOUS
<1>2. gone \subseteq Live(a) /\ IsFiniteSet(Live(a)) /\ Live(a) \subseteq DOMAIN a.tracks
  BY <1>1, LiveFinite DEF Eliminated
<1>3. PICK n, f : n = a.confirmed + Cardinality(gone)
                  /\ f = [i \in DOMAIN a.tracks |->
                              IF i \in gone
                              THEN [a.tracks[i] EXCEPT !.status = "confirmed", !.visible = FALSE]
                              ELSE a.tracks[i]]
  OBVIOUS
<1>4. b = [a EXCEPT !.confirmed = n, !.tracks = f]
  BY <1>1, <1>3 DEF Confirm
<1>5. /\ SameButSight(b, a) /\ b.tracks = f /\ b.next = a.next /\ b.archived = a.archived
      /\ b.confirmed = n
  BY <1>4 DEF SameButSight, IsAgent, AgentFields, SameExperience, SamePlace, SameLessons,
              SamePursuit, SameCourse
<1>6. ASSUME NEW i \in DOMAIN a.tracks
      PROVE  /\ f[i] \in Track /\ (f[i].visible => f[i].seen = frame)
             /\ (f[i].status # "confirmed" <=> a.tracks[i].status # "confirmed" /\ i \notin gone)
  <2>1. PICK t \in Track : t = a.tracks[i]
    BY DEF Tracked
  <2>2. CASE i \in gone
    <3>1. f[i] = [t EXCEPT !.status = "confirmed", !.visible = FALSE]
      BY <1>3, <2>1, <2>2
    <3>2. f[i] \in Track /\ f[i].status = "confirmed" /\ f[i].visible = FALSE
      BY <3>1 DEF Track
    <3> QED
      BY <2>2, <3>2
  <2>3. CASE i \notin gone
    BY <1>3, <2>1, <2>3 DEF InView
  <2> QED
    BY <2>2, <2>3
<1>7. DOMAIN f = DOMAIN a.tracks
  BY <1>3
<1>8. Live(b) = Live(a) \ gone
  BY <1>5, <1>6, <1>7 DEF Live
<1>9. Cardinality(Live(b)) + Cardinality(gone) = Cardinality(Live(a))
      /\ Cardinality(gone) \in Nat /\ Cardinality(Live(b)) \in Nat
  <2>1. IsFiniteSet(gone) /\ IsFiniteSet(Live(b))
    BY <1>2, <1>8, FS_Subset
  <2>2. Cardinality(Live(a) \ gone) = Cardinality(Live(a)) - Cardinality(Live(a) \cap gone)
    BY <1>2, FS_Difference
  <2>3. Live(a) \cap gone = gone
    BY <1>2
  <2>4. Cardinality(gone) \in Nat /\ Cardinality(Live(b)) \in Nat /\ Cardinality(Live(a)) \in Nat
    BY <1>2, <2>1, FS_CardinalityType
  <2>5. Cardinality(Live(b)) = Cardinality(Live(a)) - Cardinality(gone)
    BY <1>8, <2>2, <2>3
  <2> QED
    BY <2>4, <2>5
<1>10. n \in Nat /\ b.next - 1 = b.archived + n + Cardinality(Live(b))
  <2>1. PICK p, q, r, x : p = Cardinality(Live(b)) /\ q = Cardinality(gone)
                          /\ r = Cardinality(Live(a)) /\ x = a.confirmed
    OBVIOUS
  <2>2. p + q = r /\ p \in Nat /\ q \in Nat /\ n = x + q /\ x \in Nat
        /\ a.next - 1 = a.archived + x + r /\ a.archived \in Nat /\ a.next \in Nat
    BY <1>3, <1>9, <2>1 DEF Tracked
  <2>3. n \in Nat /\ a.next - 1 = a.archived + n + p
    BY <2>2
  <2> QED
    BY <1>5, <2>1, <2>3
<1>11. Tracked(b)
  BY <1>5, <1>6, <1>7, <1>10 DEF Tracked
<1> QED
  BY <1>5, <1>6, <1>7, <1>11 DEF InView

\* What fails somewhere fails first somewhere.
LEMMA NoFirst ==
  ASSUME NEW S \in SUBSET Nat, 0 \notin S, \A n \in Nat : n + 1 \in S => n \in S
  PROVE  S = {}
<1> SUFFICES ASSUME S # {} PROVE FALSE
  OBVIOUS
<1>1. PICK n \in S : n = Least(S)
  BY LeastIn
<1>2. \A y \in S : n <= y
  BY <1>1, LeastIn
<1>3. n \in Nat /\ n # 0
  OBVIOUS
<1>4. n - 1 \in Nat /\ ~(n <= n - 1) /\ n - 1 + 1 = n
  BY <1>3
<1> QED
  BY <1>2, <1>4

\* The loops over the enemies in view and over the eliminations, as one.
Sighting(view, a, e, frame) == IF view THEN Follow(a, e, frame) ELSE Confirm(a, e, frame)
Sightings(view, a, es, frame, n, g) ==
  g = [i \in 0..n |-> IF i = 0 THEN a ELSE Sighting(view, g[i - 1], es[i], frame)]

LEMMA SightingsExist ==
  ASSUME NEW view, NEW a, NEW es, NEW frame, NEW n \in Nat
  PROVE  \E g : Sightings(view, a, es, frame, n, g)
<1> DEFINE Missing == {j \in Nat : ~\E g : Sightings(view, a, es, frame, j, g)}
           Look(t, i) == Sighting(view, t, es[i], frame)
           Follows(g, j) == g = [i \in 0..j |-> IF i = 0 THEN a ELSE Look(g[i - 1], i)]
<1>1. \A g, j : Sightings(view, a, es, frame, j, g) <=> Follows(g, j)
  BY DEF Sightings
<1> HIDE DEF Look
<1>2. ASSUME NEW j \in Nat, NEW g, Follows(g, j) PROVE \E h : Follows(h, j + 1)
  <2> DEFINE h == [i \in 0..(j + 1) |-> IF i <= j THEN g[i] ELSE Look(g[j], i)]
  <2>1. \A i \in 0..(j + 1) : i \in 0..j \/ i = j + 1
    OBVIOUS
  <2>2. \A i \in 0..j : h[i] = g[i]
    OBVIOUS
  <2>3. \A i \in 0..j : g[i] = IF i = 0 THEN a ELSE Look(g[i - 1], i)
    BY <1>2
  <2>4. ASSUME NEW i \in 0..(j + 1)
        PROVE  h[i] = IF i = 0 THEN a ELSE Look(h[i - 1], i)
    <3>1. CASE i = j + 1
      <4>1. h[i] = Look(g[j], i) /\ i # 0 /\ i - 1 = j /\ j \in 0..j
        BY <3>1
      <4> HIDE DEF h
      <4> QED
        BY <2>2, <4>1
    <3>2. CASE i \in 0..j
      <4>1. i # 0 => i - 1 \in 0..j
        BY <3>2
      <4> HIDE DEF h
      <4> QED
        BY <2>2, <2>3, <3>2, <4>1
    <3> QED
      BY <2>1, <3>1, <3>2
  <2>5. h = [i \in 0..(j + 1) |-> h[i]]
    OBVIOUS
  <2> HIDE DEF h
  <2>6. h = [i \in 0..(j + 1) |-> IF i = 0 THEN a ELSE Look(h[i - 1], i)]
    BY <2>4, <2>5
  <2> QED
    BY <2>6
<1>3. \E g : Follows(g, 0)
  <2>1. Follows([i \in 0..0 |-> a], 0)
    OBVIOUS
  <2> QED
    BY <2>1
<1> HIDE DEF Follows
<1>4. Missing = {}
  <2>1. 0 \notin Missing
    BY <1>1, <1>3
  <2>2. ASSUME NEW j \in Nat, j + 1 \in Missing PROVE j \in Missing
    BY <1>1, <1>2, <2>2
  <2>3. Missing \in SUBSET Nat
    OBVIOUS
  <2> HIDE DEF Missing
  <2> QED
    BY <2>1, <2>2, <2>3, NoFirst
<1> QED
  BY <1>4

\* An agent that has seen some of the frame's entities, and one that has seen more.
Sees(b, a, frame) == SameButSight(b, a) /\ Tracked(b) /\ InView(b, frame)

LEMMA SeesMore ==
  ASSUME NEW a, NEW b, NEW c, NEW frame, Sees(b, a, frame), Sees(c, b, frame)
  PROVE  Sees(c, a, frame)
  BY DEF Sees, SameButSight, SameExperience, SamePlace, SameLessons, SamePursuit, SameCourse

LEMMA SightingsSee ==
  ASSUME NEW view \in BOOLEAN, NEW a, NEW es \in Seq(Enemy), NEW frame \in Nat, NEW n \in Nat,
         n = Len(es), NEW g, Sightings(view, a, es, frame, n, g), Sees(a, a, frame)
  PROVE  Sees(g[n], a, frame)
<1> DEFINE Wrong == {i \in 0..n : ~Sees(g[i], a, frame)}
<1>1. /\ g[0] = a
      /\ \A i \in 0..n : i # 0 => g[i] = Sighting(view, g[i - 1], es[i], frame)
  BY DEF Sightings
<1>2. Wrong \in SUBSET Nat /\ 0 \notin Wrong
  BY <1>1
<1>3. ASSUME NEW i \in Nat, i + 1 \in Wrong PROVE i \in Wrong
  <2> SUFFICES ASSUME i \notin Wrong PROVE FALSE
    OBVIOUS
  <2>1. i + 1 \in 0..n /\ i + 1 # 0 /\ i + 1 - 1 = i /\ i \in 0..n /\ i + 1 \in 1..n
    BY <1>3
  <2>2. PICK b, e, c : b = g[i] /\ e = es[i + 1] /\ c = g[i + 1]
    OBVIOUS
  <2>3. Sees(b, a, frame) /\ c = Sighting(view, b, e, frame)
    BY <1>1, <2>1, <2>2
  <2>4. e \in Enemy
    BY <2>1, <2>2
  <2>5. IsAgent(b) /\ Tracked(b) /\ InView(b, frame)
    BY <2>3 DEF Sees, SameButSight
  <2>6. Sees(c, b, frame)
    <3>1. CASE view
      <4>1. c = Follow(b, e, frame)
        BY <2>3, <3>1 DEF Sighting
      <4> QED
        BY <2>4, <2>5, <4>1, Followed DEF Sees
    <3>2. CASE ~view
      <4>1. c = Confirm(b, e, frame)
        BY <2>3, <3>2 DEF Sighting
      <4> QED
        BY <2>5, <4>1, Confirming DEF Sees
    <3> QED
      BY <3>1, <3>2
  <2>7. Sees(c, a, frame)
    BY <2>3, <2>6, SeesMore
  <2> QED
    BY <1>3, <2>2, <2>7
<1>4. Wrong = {}
  <2> HIDE DEF Wrong
  <2> QED
    BY <1>2, <1>3, NoFirst
<1> QED
  BY <1>4

LEMMA Seen ==
  ASSUME NEW a, NEW o, IsAgent(a), Tracked(a), o.foes \in Seq(Enemy), o.gone \in Seq(Enemy),
         o.frame \in Nat
  PROVE  Sees(See(a, o), a, o.frame)
<1>0. PICK foes \in Seq(Enemy), gone \in Seq(Enemy) : foes = o.foes /\ gone = o.gone
  OBVIOUS
<1>1. PICK m, n, frame, b :
        /\ m = Len(foes) /\ n = Len(gone) /\ frame = o.frame /\ b = Unseen(a)
        /\ m \in Nat /\ n \in Nat /\ frame \in Nat
  <2>1. Len(foes) \in Nat /\ Len(gone) \in Nat
    OBVIOUS
  <2> QED
    BY <2>1, Zenon
<1>2. PICK met : met = CHOOSE g : Sightings(TRUE, b, foes, frame, m, g)
  OBVIOUS
<1>3. PICK struck : struck = CHOOSE g : Sightings(FALSE, met[m], gone, frame, n, g)
  OBVIOUS
<1>4. See(a, o) = struck[n]
  BY <1>0, <1>1, <1>2, <1>3 DEF See, Sightings, Sighting
<1>5. Sightings(TRUE, b, foes, frame, m, met)
  BY <1>1, <1>2, SightingsExist
<1>6. Sightings(FALSE, met[m], gone, frame, n, struck)
  BY <1>1, <1>3, SightingsExist
<1>7. Sees(b, a, frame)
  BY <1>1, Unsighted DEF Sees
<1>8. \A x, y : Sees(x, y, frame) => Sees(x, x, frame)
  BY DEF Sees, SameButSight, SameExperience, SamePlace, SameLessons, SamePursuit, SameCourse
<1>9. Sees(met[m], b, frame)
  BY <1>1, <1>5, <1>7, <1>8, SightingsSee
<1>10. PICK c : c = met[m]
  OBVIOUS
<1>11. Sees(struck[n], c, frame)
  BY <1>1, <1>6, <1>8, <1>9, <1>10, SightingsSee
<1> QED
  BY <1>1, <1>4, <1>7, <1>9, <1>10, <1>11, SeesMore

-----------------------------------------------------------------------------
(* The target and the attack *)

LEMMA Distances ==
  ASSUME NEW t \in Track, NEW o, o.x \in Int
  PROVE  Distance(t, o) \in Nat
<1>1. t.x \in Int
  BY DEF Track
<1>2. PICK d \in Int : d = t.x - o.x
  BY <1>1
<1> QED
  BY <1>2 DEF Distance, Abs

LEMMA Chosen ==
  ASSUME NEW a, Tracked(a), NEW o, o.x \in Int
  PROVE  Choose(a, o) \in Live(a) \cup {None}
<1>1. Kept(a, o) \in Live(a) \cup {None}
  BY DEF Kept
<1>2. PICK near : near = {i \in Live(a) : /\ a.tracks[i].visible
                                          /\ Distance(a.tracks[i], o) < Reach
                                          /\ i # a.target}
  OBVIOUS
<1>3. PICK first : first = {i \in near : \A j \in near :
                              Distance(a.tracks[i], o) <= Distance(a.tracks[j], o)}
  OBVIOUS
<1>4. Choose(a, o) = IF ~OnHunt(o) \/ Kept(a, o) # None THEN Kept(a, o)
                     ELSE IF near = {} THEN None ELSE Least(first)
  BY <1>2, <1>3 DEF Choose
<1>5. near \subseteq Live(a) /\ near \in SUBSET Nat /\ near \subseteq DOMAIN a.tracks
  BY <1>2, LiveFinite
<1>6. \A i \in near : Distance(a.tracks[i], o) \in Nat
  BY <1>5, Distances DEF Tracked
<1>7. ASSUME near # {} PROVE first # {}
  <2> DEFINE far == {Distance(a.tracks[i], o) : i \in near}
  <2>1. far \in SUBSET Nat /\ far # {}
    BY <1>6, <1>7
  <2> HIDE DEF far
  <2>2. Least(far) \in far /\ \A d \in far : Least(far) <= d
    BY <2>1, LeastIn
  <2>3. PICK i \in near : Distance(a.tracks[i], o) = Least(far)
    BY <2>2 DEF far
  <2>4. \A j \in near : Distance(a.tracks[j], o) \in far
    BY DEF far
  <2> QED
    BY <1>3, <2>2, <2>3, <2>4
<1>8. near # {} => Least(first) \in near
  BY <1>3, <1>5, <1>7, LeastIn
<1> QED
  BY <1>1, <1>4, <1>5, <1>8

\* What a line leaves alone once the frame is observed.
SameTracks(b, a) ==
  b.tracks = a.tracks /\ b.next = a.next /\ b.archived = a.archived
  /\ b.confirmed = a.confirmed

\* What the choice of a target does to it.
TaskedTo(b, a, o) ==
  /\ IsAgent(b) /\ SameExperience(b, a) /\ SameCourse(b, a) /\ SameTracks(b, a)
  /\ b.flight = a.flight /\ b.cut = a.cut /\ b.attack = a.attack
  /\ b.target = Choose(a, o)
  /\ b.status = "active" =>
       /\ b.target # None /\ OnHunt(o) /\ b.tracks[b.target].visible
       /\ b.tracks[b.target].stompable /\ ~(b.task.frames > Budget)
  /\ a.task.frames \in Int /\ a.task.at \in Int /\ o.frame \in Int =>
       b.task.frames \in Int /\ b.task.at \in Int

LEMMA Tasked ==
  ASSUME NEW a, IsAgent(a), NEW o, NEW b, b = Tasks(a, o)
  PROVE  TaskedTo(b, a, o)
<1>1. PICK target : target = Choose(a, o)
  OBVIOUS
<1> DEFINE pursued == OnHunt(o) /\ target # None
           progress == pursued /\ (a.task.target # target \/ Closer(a, o, target))
<1>2. PICK spent : spent = IF pursued THEN Spent(a, o, target) ELSE a.task.frames
  OBVIOUS
<1>3. PICK how : how = TaskStatus(a, o, target, spent)
  OBVIOUS
<1>4. PICK task : task = [target |-> IF pursued THEN target ELSE a.task.target, frames |-> spent,
                from |-> IF progress THEN o.x ELSE a.task.from,
                left |-> IF progress THEN Distance(a.tracks[target], o) ELSE a.task.left,
                at |-> o.frame, active |-> how = "active"]
  OBVIOUS
<1>5. b = [a EXCEPT !.target = target, !.status = how, !.task = task]
  BY <1>1, <1>2, <1>3, <1>4 DEF Tasks
<1>6. /\ IsAgent(b) /\ SameExperience(b, a) /\ SameCourse(b, a) /\ SameTracks(b, a)
      /\ b.flight = a.flight /\ b.cut = a.cut /\ b.attack = a.attack
      /\ b.target = target /\ b.status = how /\ b.task = task
  BY <1>5 DEF IsAgent, AgentFields, SameTracks, SameExperience, SamePlace, SameLessons, SameCourse
<1>7. task.frames = spent /\ task.at = o.frame
  BY <1>4
<1>9. a.task.frames \in Int /\ a.task.at \in Int /\ o.frame \in Int => spent \in Int
  BY <1>2 DEF Spent
<1>8. how = "active" => target # None /\ OnHunt(o) /\ a.tracks[target].visible
                           /\ a.tracks[target].stompable /\ ~(spent > Budget)
  BY <1>3 DEF TaskStatus
<1> QED
  BY <1>1, <1>6, <1>7, <1>8, <1>9 DEF SameTracks, TaskedTo

\* What an attack may leave behind.
Engages(b, a) ==
  /\ IsAgent(b) /\ SameExperience(b, a) /\ SameCourse(b, a) /\ SameSight(b, a)
  /\ b.flight = a.flight /\ b.cut = a.cut /\ b.status = a.status /\ b.task = a.task

LEMMA EngagesMore ==
  ASSUME NEW a, NEW b, NEW c, Engages(b, a), Engages(c, b)
  PROVE  Engages(c, a)
  BY DEF Engages, SameExperience, SamePlace, SameLessons, SameCourse, SameSight

AttackIs(b, a, attack, combat, phase) ==
  b = [a EXCEPT !.attack = attack, !.combat = combat, !.phase = phase]

LEMMA AttackSet ==
  ASSUME NEW a, IsAgent(a), NEW attack, NEW combat, NEW phase, NEW b,
         AttackIs(b, a, attack, combat, phase)
  PROVE  Engages(b, a) /\ b.combat = combat
  BY DEF AttackIs, Engages, IsAgent, AgentFields, SameExperience, SamePlace, SameLessons,
         SameCourse, SameSight

LEMMA Pressing ==
  ASSUME NEW a, IsAgent(a), NEW phase, NEW spent, NEW air, NEW action
  PROVE  /\ Engages(Press(a, phase, spent, air, action), a)
         /\ Engages(Rest(a, phase), a) /\ Rest(a, phase).combat = "none"
         /\ Engages(Aimed(a), a)
<1>1. PICK x : x = [a.attack EXCEPT !.frames = spent, !.air = air]
  OBVIOUS
<1>2. PICK y : y = [a.attack EXCEPT !.frames = 0, !.air = FALSE]
  OBVIOUS
<1>3. PICK z : z = [NoAttack EXCEPT !.target = a.target]
  OBVIOUS
<1>4. PICK p : p = Press(a, phase, spent, air, action)
  OBVIOUS
<1>5. AttackIs(p, a, x, action, phase)
  BY <1>1, <1>4 DEF Press, AttackIs
<1>9. PICK r : r = Rest(a, phase)
  OBVIOUS
<1>10. AttackIs(r, a, y, "none", phase)
  BY <1>2, <1>9 DEF Rest, AttackIs
<1>6. Engages(Aimed(a), a)
  <2>1. Aimed(a) = a \/ Aimed(a) = [a EXCEPT !.attack = z]
    BY <1>3 DEF Aimed
  <2>2. Engages(a, a)
    BY DEF Engages, SameExperience, SamePlace, SameLessons, SameCourse, SameSight
  <2>3. Engages([a EXCEPT !.attack = z], a)
    BY DEF Engages, IsAgent, AgentFields, SameExperience, SamePlace, SameLessons, SameCourse,
           SameSight
  <2> QED
    BY <2>1, <2>2, <2>3
<1>7. Engages(Press(a, phase, spent, air, action), a)
  BY <1>4, <1>5, AttackSet
<1>8. Engages(Rest(a, phase), a) /\ Rest(a, phase).combat = "none"
  BY <1>9, <1>10, AttackSet
<1> QED
  BY <1>6, <1>7, <1>8

\* What an attack does to it.
EngagedTo(b, a, o) ==
  /\ Engages(b, a)
  /\ b.combat # "none" => OnHunt(o) /\ ~o.terminal /\ a.status = "active"

LEMMA Engaged ==
  ASSUME NEW a, IsAgent(a), NEW o, NEW b, b = Engage(a, o)
  PROVE  EngagedTo(b, a, o)
<1>1. PICK sees : sees = (a.target # None /\ a.tracks[a.target].visible)
  OBVIOUS
<1>2. CASE o.mode # "hunter" \/ o.terminal
  <2>1. b = [a EXCEPT !.combat = "none", !.phase = "navigation"]
    BY <1>2 DEF Engage
  <2>2. Engages(b, a) /\ b.combat = "none"
    BY <2>1 DEF Engages, IsAgent, AgentFields, SameExperience, SamePlace, SameLessons,
                SameCourse, SameSight
  <2> QED
    BY <2>2 DEF EngagedTo
<1>3. CASE o.mode = "hunter" /\ ~o.terminal /\ ~sees
  <2>1. PICK phase : phase = IF a.attack.target \in DOMAIN a.tracks \ Live(a)
                             THEN "verified" ELSE "navigation"
    OBVIOUS
  <2>2. AttackIs(b, a, NoAttack, "none", phase)
    BY <1>1, <1>3, <2>1 DEF Engage, AttackIs
  <2> QED
    BY <1>3, <2>2, AttackSet DEF EngagedTo
<1>4. CASE o.mode = "hunter" /\ ~o.terminal /\ sees
  <2>1. b = IF Vetoed(a, o) THEN Rest(a, a.status)
             ELSE IF o.ground /\ o.pose = "retreat" THEN Press(a, "retreat", 0, FALSE, "left")
             ELSE IF ~o.ground /\ o.pose = "replan" THEN Rest(a, "replan")
             ELSE IF o.pose = "gap" THEN [Aimed(a) EXCEPT !.combat = "none", !.phase = "geometry"]
             ELSE IF o.ground THEN OnGround(Aimed(a), o) ELSE InFlight(Aimed(a), o)
    BY <1>1, <1>4 DEF Engage
  <2>2. Engages(Aimed(a), a) /\ IsAgent(Aimed(a))
    BY Pressing DEF Engages
  <2>3. PICK c : c = Aimed(a)
    OBVIOUS
  <2>4. Engages(OnGround(c, o), c)
    <3>1. Engages([c EXCEPT !.combat = "none", !.phase = "wall"], c)
      BY <2>2, <2>3 DEF Engages, IsAgent, AgentFields, SameExperience, SamePlace, SameLessons,
                SameCourse, SameSight
    <3>2. PICK n : n = IF c.attack.air THEN 0 ELSE c.attack.frames
      OBVIOUS
    <3>3. \A phase, spent, air, action : Engages(Press(c, phase, spent, air, action), c)
      BY <2>2, <2>3, Pressing
    <3> HIDE DEF Press
    <3> QED
      BY <3>1, <3>3 DEF OnGround
  <2>5. Engages(InFlight(c, o), c)
    BY <2>2, <2>3, Pressing DEF InFlight
  <2>6. Engages([c EXCEPT !.combat = "none", !.phase = "geometry"], c)
    BY <2>2, <2>3 DEF Engages, IsAgent, AgentFields, SameExperience, SamePlace, SameLessons,
              SameCourse, SameSight
  <2>7. Engages(b, a)
    <3>1. \A phase, spent, air, action : Engages(Press(a, phase, spent, air, action), a)
                                          /\ Engages(Rest(a, phase), a)
      BY Pressing
    <3> QED
      BY <2>1, <2>2, <2>3, <2>4, <2>5, <2>6, <3>1, EngagesMore
  <2>8. a.status # "active" => b.combat = "none"
    BY <2>1, Pressing DEF Vetoed
  <2> QED
    BY <1>4, <2>7, <2>8 DEF EngagedTo, OnHunt
<1> QED
  BY <1>1, <1>2, <1>3, <1>4 DEF EngagedTo

-----------------------------------------------------------------------------
(* The proposal that wins *)

\* arbitrate() selects a proposal that is admissible, when one is.
LEMMA Elected ==
  ASSUME NEW now, NEW ps, NEW n \in Nat, n = Len(ps), NEW i \in 1..n,
         Status(ps[i], now) = "admissible"
  PROVE  /\ Arbitrate(now, ps) \in 1..n
         /\ Status(ps[Arbitrate(now, ps)], now) = "admissible"
<1>1. PICK f : f = Rounds(now, ps)
  OBVIOUS
<1>2. f = [j \in 0..n |-> IF j = 0 THEN 0 ELSE Better(now, ps, f[j - 1], j)]
  BY <1>1, RoundsFollow
<1> DEFINE Well(j) == /\ f[j] \in 0..j
                      /\ f[j] = 0 => j < i
                      /\ f[j] # 0 => Status(ps[f[j]], now) = "admissible"
           Wrong == {j \in 0..n : ~Well(j)}
<1>3. Wrong \in SUBSET Nat /\ 0 \notin Wrong
  BY <1>2
<1>4. ASSUME NEW j \in Nat, j + 1 \in Wrong PROVE j \in Wrong
  <2> SUFFICES ASSUME j \notin Wrong PROVE FALSE
    OBVIOUS
  <2>1. j + 1 \in 0..n /\ j + 1 # 0 /\ j + 1 - 1 = j /\ j \in 0..n
    BY <1>4
  <2>2. Well(j)
    BY <2>1
  <2>3. PICK v : v = f[j]
    OBVIOUS
  <2>4. f[j + 1] = Better(now, ps, v, j + 1)
    BY <1>2, <2>1, <2>3
  <2>5. f[j + 1] = v \/ f[j + 1] = j + 1
    BY <2>4 DEF Better
  <2>6. f[j + 1] = v /\ v = 0 => Status(ps[j + 1], now) # "admissible"
    BY <2>1, <2>4 DEF Better
  <2>7. f[j + 1] # v => Status(ps[j + 1], now) = "admissible"
    BY <2>4 DEF Better
  <2>8. Well(j + 1)
    BY <2>1, <2>2, <2>3, <2>5, <2>6, <2>7
  <2> QED
    BY <1>4, <2>8
<1>5. Wrong = {}
  <2> HIDE DEF Wrong
  <2> QED
    BY <1>3, <1>4, NoFirst
<1>6. Well(n)
  BY <1>5
<1>7. Arbitrate(now, ps) = f[n]
  BY <1>1 DEF Arbitrate
<1> QED
  BY <1>6, <1>7

\* The versions that a line's proposals are made for.
Stamp == [run |-> 0, frame |-> 0, context |-> 0, candidates |-> 0]

LEMMA Offering ==
  ASSUME NEW id, NEW action, NEW allowed \in BOOLEAN, NEW priority, NEW p,
         p = Offer(id, action, allowed, priority)
  PROVE  p.id = id /\ p.action = action /\ (Status(p, Stamp) = "admissible" <=> allowed)
<1>1. /\ p.id = id /\ p.action = action /\ p.valid = TRUE /\ p.max_age = 0
      /\ p.at = Stamp /\ p.conditions = {IF allowed THEN "true" ELSE "false"}
  BY DEF Offer, Stamp
<1>2. ~Stale(p, Stamp)
  BY <1>1 DEF Stale, SameVersions, Stamp
<1> QED
  BY <1>1, <1>2 DEF Status

\* A proposal to attack is made when there is an action for it in a calm frame, one to go on
\* with what was committed to while that holds, and the controller's own always.
LEMMA Proposed ==
  ASSUME NEW a, NEW o, NEW all, all = Proposals(a, o)
  PROVE  /\ Len(all) \in Nat \ {0} /\ Status(all[1], Stamp) = "admissible"
         /\ \A i \in 1..Len(all) :
              /\ all[i].id = "target" /\ Status(all[i], Stamp) = "admissible" =>
                   a.combat # "none" /\ ~o.terminal /\ ~o.nav
              /\ all[i].id = "rollout" /\ Status(all[i], Stamp) = "admissible" => ~o.terminal
              /\ all[i].id = "plan_commit" =>
                   /\ Committed(a, o)
                   /\ all[i].action = StepOf(a.landing.plan, o.frame - a.landing.at)
<1> DEFINE When(c, s) == IF c THEN s ELSE <<>>
           calm == ~o.terminal /\ ~o.nav
           held == StepOf(a.landing.plan, o.frame - a.landing.at)
           p1 == Offer("reactive", IF Constrained(a, o) THEN "jump" ELSE o.base, TRUE,
                       IF o.terminal THEN 1000 ELSE IF o.nav THEN 900 ELSE 100)
           p2 == Offer("moving_intercept", o.base, ~o.terminal, 760)
           p3 == Offer("moving_runup", o.base, ~o.terminal, 740)
           p4 == Offer("paired_hazard", Phased(Crossing(a, o), o).action, TRUE, 750)
           p5 == Offer("plan_commit", held, TRUE, 650)
           p6 == Offer("platform_stage", o.stage, TRUE, 720)
           p7 == Offer("rollout", StepOf(o.plan, 0), o.plan.apply /\ ~o.terminal, 400)
           p8 == Offer("target", IF a.combat = "none" THEN o.base ELSE a.combat,
                       a.combat # "none" /\ calm, IF a.phase = "release" THEN 800 ELSE 450)
           p9 == Offer("star_contact", "run", o.star /\ OnHunt(o) /\ o.ground /\ calm, 600)
           p10 == Offer("takeoff_commitment", o.input, TRUE, 700)
           p11 == Offer("platform_hold", o.input, TRUE, 700)
           q2 == When(o.moving = "intercept", <<p2>>)
           q3 == When(o.moving = "runup", <<p3>>)
           q4 == When(Crosses(a, o), <<p4>>)
           q5 == When(Committed(a, o), <<p5>>)
           q6 == When(calm /\ o.ground /\ o.stage # "none", <<p6>>)
           q7 == When(o.plan.exists, <<p7>>)
           q10 == When((a.target # None /\ OnHunt(o)) /\ o.under /\ Rising(a, o, Clearance), <<p10>>)
           q11 == When(o.climb /\ ~a.cut /\ Rising(a, o, Ascent), <<p11>>)
           S == {p1, p2, p3, p4, p6, p7, p8, p9, p10, p11}
                  \cup (IF Committed(a, o) THEN {p5} ELSE {})
<1>1. all = <<p1>> \o q2 \o q3 \o q4 \o q5 \o q6 \o q7 \o <<p8, p9>> \o q10 \o q11
  BY DEF Proposals
<1>2. /\ p1.id = "reactive" /\ p2.id = "moving_intercept" /\ p3.id = "moving_runup"
      /\ p4.id = "paired_hazard" /\ p5.id = "plan_commit" /\ p6.id = "platform_stage"
      /\ p7.id = "rollout" /\ p8.id = "target" /\ p9.id = "star_contact"
      /\ p10.id = "takeoff_commitment" /\ p11.id = "platform_hold"
      /\ p5.action = held
  BY DEF Offer
<1>3. Status(p1, Stamp) = "admissible"
  <2>1. PICK action, priority :
          /\ action = (IF Constrained(a, o) THEN "jump" ELSE o.base)
          /\ priority = (IF o.terminal THEN 1000 ELSE IF o.nav THEN 900 ELSE 100)
    OBVIOUS
  <2>2. PICK p : p = Offer("reactive", action, TRUE, priority)
    OBVIOUS
  <2>3. Status(p, Stamp) = "admissible"
    BY <2>2, Offering
  <2> QED
    BY <2>1, <2>2, <2>3
<1>4. Status(p8, Stamp) = "admissible" => a.combat # "none" /\ ~o.terminal /\ ~o.nav
  <2>1. PICK c \in BOOLEAN : c = (a.combat # "none" /\ calm)
    OBVIOUS
  <2>2. PICK action, priority :
          /\ action = (IF a.combat = "none" THEN o.base ELSE a.combat)
          /\ priority = (IF a.phase = "release" THEN 800 ELSE 450)
    OBVIOUS
  <2>3. PICK p : p = Offer("target", action, c, priority)
    OBVIOUS
  <2>4. Status(p, Stamp) = "admissible" <=> c
    BY <2>3, Offering
  <2>5. p = p8
    BY <2>1, <2>2, <2>3
  <2> QED
    BY <2>1, <2>4, <2>5
<1>10. Status(p7, Stamp) = "admissible" => ~o.terminal
  <2>1. PICK c \in BOOLEAN : c = (o.plan.apply /\ ~o.terminal)
    OBVIOUS
  <2>2. PICK p : p = Offer("rollout", StepOf(o.plan, 0), c, 400)
    OBVIOUS
  <2>3. Status(p, Stamp) = "admissible" <=> c
    BY <2>2, Offering
  <2>4. p = p7
    BY <2>1, <2>2
  <2> QED
    BY <2>1, <2>3, <2>4
<1> HIDE DEF p1, p2, p3, p4, p5, p6, p7, p8, p9, p10, p11, held
<1>5. /\ q2 \in Seq(S) /\ q3 \in Seq(S) /\ q4 \in Seq(S) /\ q5 \in Seq(S) /\ q6 \in Seq(S)
      /\ q7 \in Seq(S) /\ q10 \in Seq(S) /\ q11 \in Seq(S)
      /\ <<p1>> \in Seq(S) /\ <<p8, p9>> \in Seq(S)
  <2>1. /\ <<p2>> \in Seq(S) /\ <<p3>> \in Seq(S) /\ <<p4>> \in Seq(S) /\ <<p6>> \in Seq(S)
        /\ <<p7>> \in Seq(S) /\ <<p10>> \in Seq(S) /\ <<p11>> \in Seq(S)
        /\ <<p1>> \in Seq(S) /\ <<p8, p9>> \in Seq(S)
    OBVIOUS
  <2>2. Committed(a, o) => <<p5>> \in Seq(S)
    OBVIOUS
  <2>3. <<>> \in Seq(S)
    OBVIOUS
  <2> HIDE DEF S
  <2> QED
    BY <2>1, <2>2, <2>3
<1>6. \A p \in S : /\ p.id = "target" => p = p8
                   /\ p.id = "rollout" => p = p7
                   /\ p.id = "plan_commit" => p = p5 /\ Committed(a, o)
  BY <1>2
<1> HIDE DEF S, q2, q3, q4, q5, q6, q7, q10, q11
<1>7. /\ all \in Seq(S) /\ Len(all) \in Nat \ {0} /\ all[1] = p1
  <2>1. PICK r1 : r1 = <<p1>>
    OBVIOUS
  <2>13. r1 \in Seq(S) /\ Len(r1) \in Nat \ {0} /\ r1[1] = p1
    <3>1. Len(r1) = 1 /\ r1[1] = p1
      BY <2>1
    <3> QED
      BY <1>5, <2>1, <3>1
  <2>2. ASSUME NEW r \in Seq(S), NEW q \in Seq(S), Len(r) \in Nat \ {0}, r[1] = p1
        PROVE  r \o q \in Seq(S) /\ Len(r \o q) \in Nat \ {0} /\ (r \o q)[1] = p1
    BY <2>2
  <2>3. PICK r2 \in Seq(S) : r2 = r1 \o q2 /\ Len(r2) \in Nat \ {0} /\ r2[1] = p1
    BY <1>5, <2>13, <2>2
  <2>4. PICK r3 \in Seq(S) : r3 = r2 \o q3 /\ Len(r3) \in Nat \ {0} /\ r3[1] = p1
    BY <1>5, <2>2, <2>3
  <2>5. PICK r4 \in Seq(S) : r4 = r3 \o q4 /\ Len(r4) \in Nat \ {0} /\ r4[1] = p1
    BY <1>5, <2>2, <2>4
  <2>6. PICK r5 \in Seq(S) : r5 = r4 \o q5 /\ Len(r5) \in Nat \ {0} /\ r5[1] = p1
    BY <1>5, <2>2, <2>5
  <2>7. PICK r6 \in Seq(S) : r6 = r5 \o q6 /\ Len(r6) \in Nat \ {0} /\ r6[1] = p1
    BY <1>5, <2>2, <2>6
  <2>8. PICK r7 \in Seq(S) : r7 = r6 \o q7 /\ Len(r7) \in Nat \ {0} /\ r7[1] = p1
    BY <1>5, <2>2, <2>7
  <2>9. PICK r9 \in Seq(S) : r9 = r7 \o <<p8, p9>> /\ Len(r9) \in Nat \ {0} /\ r9[1] = p1
    BY <1>5, <2>2, <2>8
  <2>10. PICK r10 \in Seq(S) : r10 = r9 \o q10 /\ Len(r10) \in Nat \ {0} /\ r10[1] = p1
    BY <1>5, <2>2, <2>9
  <2>11. PICK r11 \in Seq(S) : r11 = r10 \o q11 /\ Len(r11) \in Nat \ {0} /\ r11[1] = p1
    BY <1>5, <2>2, <2>10
  <2>12. all = r11
    BY <1>1, <2>1, <2>3, <2>4, <2>5, <2>6, <2>7, <2>8, <2>9, <2>10, <2>11, Zenon
  <2> QED
    BY <2>11, <2>12
<1>8. \A i \in 1..Len(all) : all[i] \in S
  BY <1>7
<1>9. \A i \in 1..Len(all) :
        /\ all[i].id = "target" /\ Status(all[i], Stamp) = "admissible" =>
             a.combat # "none" /\ ~o.terminal /\ ~o.nav
        /\ all[i].id = "rollout" /\ Status(all[i], Stamp) = "admissible" => ~o.terminal
        /\ all[i].id = "plan_commit" => Committed(a, o) /\ all[i].action = held
  BY <1>2, <1>4, <1>10, <1>6, <1>8
<1> QED
  BY <1>3, <1>7, <1>9 DEF held

\* The flight that a line leaves: the one there was, unless it never took off, or another.
FlightKept(b, a, o) ==
  \/ /\ b.flight = a.flight
     /\ Flying(a) => a.flight.airborne \/ o.frame - a.flight.start <= TakeoffWindow
  \/ b.flight = NoFlight
  \/ /\ o.ground /\ ~o.dead /\ ~o.lost /\ ~Flying(a)
     /\ b.flight.start = o.frame /\ b.flight.airborne = FALSE

\* The landing committed to: the one there was, or one that a rollout reaches.
LandingKept(b, a, o) ==
  \/ b.landing = NoLanding
  \/ b.landing = a.landing /\ Committed(a, o)
  \/ b.landing.at = o.frame /\ ~o.ground /\ ~o.terminal

\* What the action that wins does to it.
ExecutedTo(b, a, o) ==
  /\ IsAgent(b) /\ SameExperience(b, a) /\ SameSight(b, a) /\ SamePursuit(b, a)
  /\ b.cut = a.cut /\ Flown(b.flight) /\ FlightKept(b, a, o) /\ LandingKept(b, a, o)
  /\ b.crossing = IF Crosses(a, o) THEN Phased(Crossing(a, o), o).next ELSE Crossing(a, o)
  /\ b.skill = "target" => a.combat # "none" /\ ~o.terminal /\ ~o.nav
  /\ b.skill = "plan_commit" =>
       /\ Committed(a, o) /\ b.landing = a.landing
       /\ b.plan[2] = StepOf(a.landing.plan, o.frame - a.landing.at)

LEMMA Executed ==
  ASSUME NEW a, IsAgent(a), Flown(a.flight), NEW o, o.frame \in Nat, NEW b, b = Execute(a, o)
  PROVE  ExecutedTo(b, a, o)
<1>1. PICK all : all = Proposals(a, o)
  OBVIOUS
<1>2. PICK w : w = Arbitrate(Stamp, all)
  OBVIOUS
<1>3. PICK won : won = all[w]
  OBVIOUS
<1>4. /\ won.id = "target" => a.combat # "none" /\ ~o.terminal /\ ~o.nav
      /\ won.id = "rollout" => ~o.terminal
      /\ won.id = "plan_commit" =>
                   /\ Committed(a, o)
                   /\ won.action = StepOf(a.landing.plan, o.frame - a.landing.at)
  <2>1. PICK n \in Nat \ {0} : n = Len(all)
    BY <1>1, Proposed
  <2>2. 1 \in 1..n /\ Status(all[1], Stamp) = "admissible"
    BY <1>1, <2>1, Proposed
  <2>3. w \in 1..n /\ Status(all[w], Stamp) = "admissible"
    BY <1>2, <2>1, <2>2, Elected
  <2> QED
    BY <1>1, <1>3, <2>1, <2>3, Proposed
<1>5. PICK kept, plan, takeoff, crossing :
        /\ kept = (IF Committed(a, o) THEN a.landing ELSE NoLanding)
        /\ plan = <<won.id, won.action>>
        /\ takeoff = [start |-> o.frame, context |-> plan, confirmed |-> FALSE, contact |-> FALSE,
                      airborne |-> FALSE, held |-> 0, low |-> FALSE]
        /\ crossing = (IF Crosses(a, o) THEN Phased(Crossing(a, o), o).next ELSE Crossing(a, o))
  BY Zenon
<1>6. PICK f : f = IF TakesOff(a, o, won.action) THEN takeoff ELSE a.flight
  OBVIOUS
<1>7. PICK c : c = [a EXCEPT !.flight = f]
  OBVIOUS
<1>8. PICK landing, g :
        /\ landing = (IF kept = NoLanding /\ Commits(a, o, won.id)
                      THEN [at |-> o.frame, plan |-> o.plan] ELSE kept)
        /\ g = IF NotTakenOff(c, o) THEN NoFlight ELSE f
  BY Zenon
<1>9. b = [c EXCEPT !.crossing = crossing, !.landing = landing, !.skill = won.id, !.plan = plan,
                    !.flight = IF NotTakenOff(c, o) THEN NoFlight ELSE @]
  BY <1>1, <1>2, <1>3, <1>5, <1>6, <1>7, <1>8 DEF Execute, Stamp
<1>10. c.flight = f /\ IsAgent(c) /\ SameExperience(c, a) /\ SameSight(c, a)
       /\ SamePursuit(c, a) /\ c.cut = a.cut
  BY <1>7 DEF IsAgent, AgentFields, SameSight, SameExperience, SamePursuit, SamePlace,
              SameLessons
<1>11. b = [c EXCEPT !.crossing = crossing, !.landing = landing, !.skill = won.id, !.plan = plan,
                     !.flight = g]
  BY <1>8, <1>9, <1>10
<1>12. /\ IsAgent(b) /\ SameExperience(b, c) /\ SameSight(b, c) /\ SamePursuit(b, c)
       /\ b.cut = c.cut /\ b.flight = g /\ b.crossing = crossing /\ b.landing = landing
       /\ b.skill = won.id /\ b.plan = plan
  BY <1>10, <1>11 DEF IsAgent, AgentFields, SameSight, SameExperience, SamePursuit, SamePlace,
              SameLessons
<1>13. /\ SameExperience(b, a) /\ SameSight(b, a) /\ SamePursuit(b, a) /\ b.cut = a.cut
  BY <1>10, <1>12 DEF SameSight, SameExperience, SamePursuit, SamePlace, SameLessons
<1>14. /\ takeoff.start = o.frame /\ takeoff.airborne = FALSE
       /\ DOMAIN takeoff = FlightFields
  BY <1>5 DEF FlightFields
<1>15. Flown(b.flight) /\ FlightKept(b, a, o)
  <2>1. CASE g = NoFlight
    BY <1>12, <2>1 DEF Flown, FlightKept
  <2>2. CASE g = f /\ TakesOff(a, o, won.action)
    BY <1>6, <1>12, <1>14, <2>2 DEF Flown, FlightKept, TakesOff
  <2>3. CASE g = f /\ ~TakesOff(a, o, won.action) /\ g # NoFlight
    <3>1. f = a.flight /\ ~NotTakenOff(c, o) /\ f # NoFlight
      BY <1>6, <1>8, <2>3
    <3>2. DOMAIN f = FlightFields /\ f.start \in Nat
      BY <3>1 DEF Flown
    <3>3. f.airborne \/ o.frame - f.start <= TakeoffWindow
      BY <1>10, <3>1, <3>2, AgentAssumption DEF NotTakenOff, Flying
    <3> QED
      BY <1>12, <2>3, <3>1, <3>3 DEF FlightKept
  <2> QED
    BY <1>8, <2>1, <2>2, <2>3
<1>16. LandingKept(b, a, o)
  <2>1. CASE kept = NoLanding /\ Commits(a, o, won.id)
    <3>1. landing.at = o.frame /\ ~o.ground /\ ~o.terminal
      BY <1>4, <1>8, <2>1 DEF Commits
    <3> QED
      BY <1>12, <3>1 DEF LandingKept
  <2>2. CASE ~(kept = NoLanding /\ Commits(a, o, won.id))
    BY <1>5, <1>8, <1>12, <2>2 DEF LandingKept
  <2> QED
    BY <2>1, <2>2
<1>17. Committed(a, o) => b.landing = a.landing
  BY <1>5, <1>8, <1>12 DEF Committed
<1>18. b.plan[2] = won.action
  BY <1>5, <1>12
<1> QED
  BY <1>4, <1>5, <1>12, <1>13, <1>15, <1>16, <1>17, <1>18 DEF ExecutedTo

-----------------------------------------------------------------------------
(* A frame that is observed *)

\* The agent's own shape.
Kinds(a) ==
  /\ IsAgent(a) /\ Flown(a.flight) /\ a.deaths \in Nat /\ a.labels \in [Outcomes -> Nat]
  /\ a.life \in Nat \cup {None} /\ a.frame \in Nat \cup {None}
  /\ a.task.frames \in Int /\ a.task.at \in Int
  /\ DOMAIN a.crossing = {"phase", "started", "jump"} /\ a.crossing.phase \in 0..4
  /\ a.prev # Nothing =>
       /\ DOMAIN a.prev = {"ground", "dead", "lost", "input"}
       /\ a.prev.ground \in BOOLEAN /\ a.prev.dead \in BOOLEAN /\ a.prev.lost \in BOOLEAN
       /\ a.life # None /\ a.frame # None

\* An agent that knows of no frame.
Blank(a) ==
  /\ a.prev = Nothing /\ a.life = None /\ a.frame = None /\ a.flight = NoFlight
  /\ a.forecasts = {} /\ a.ids = {} /\ a.landing = NoLanding /\ a.crossing.phase = 0

\* What is told is of the frames that the agent was shown.
History(t) ==
  /\ t.ended \subseteq t.alive /\ t.landings \in Nat /\ t.steps \in Nat
  /\ t.air \in Nat \cup {None} /\ t.stage \in 0..2
  /\ t.whole \in BOOLEAN /\ t.aloft \in BOOLEAN

\* The lives that were lost are the deaths, the landings the other outcomes, and no attempt
\* has an ID that was used.
Books(a, t) ==
  /\ t.alive \subseteq 0..a.life
  /\ a.deaths = Cardinality(t.ended) /\ a.labels["failed"] = a.deaths
  /\ a.labels["succeeded"] + a.labels["unknown"] = t.landings
  /\ \A id \in a.ids : id[2] \in Nat /\ id[2] <= a.frame /\ id[2] # a.flight.start
  /\ a.prev # Nothing =>
       /\ ~a.prev.dead /\ ~a.prev.lost => a.life \in t.alive \ t.ended
       /\ a.prev.dead => ~a.prev.lost /\ (a.life \in t.alive => a.life \in t.ended)
       /\ a.prev.lost => a.life \notin t.alive

\* A forecast waits for a frame that is as far off as its action was not yet held for.
Awaited(a, t) ==
  \A f \in a.forecasts :
    /\ f.due \in Nat /\ f.horizon \in Nat /\ f.action = t.input
    /\ t.steps + f.due >= f.horizon + a.frame

\* A flight that nothing hid took off within the frames it is given.
Aired(a, t) ==
  /\ a.prev # Nothing => (a.prev.ground <=> t.air = None)
  /\ Flying(a) =>
       /\ a.prev # Nothing /\ ~a.prev.dead /\ ~a.prev.lost /\ a.flight.start <= a.frame
       /\ t.whole => IF t.air = None
                     THEN ~a.flight.airborne /\ a.frame - a.flight.start <= TakeoffWindow
                     ELSE /\ a.flight.start <= t.air
                          /\ t.air <= a.flight.start + TakeoffWindow + 1

\* A crossing waits below a hazard that was seen overhead, a landing in the air.
Waited(a, t) ==
  /\ a.crossing.phase = 1 => t.stage > 0
  /\ a.crossing.phase = 2 => t.stage = 2
  /\ a.landing # NoLanding => t.aloft

\* The frame that the agent knows last is the game's, in the run it is in.
Synced(a) ==
  /\ a.run \in Nat \cup {None} /\ a.run <= game.run
  /\ a.prev = Nothing => Blank(a)
  /\ a.prev # Nothing => a.run # None
  /\ a.prev # Nothing /\ a.run = game.run =>
       /\ a.frame = game.frame /\ a.life = game.life /\ a.place = game.place
       /\ a.prev.dead = game.dying

\* What the agent still knows of the run of a frame.
Recall(a, o) == [(IF a.run \notin {None, o.run} THEN New ELSE a) EXCEPT !.report = Silent]

\* The next frame of the game, for an agent that knows the one before it or none.
NextFrame(a, o) ==
  /\ o.over = FALSE /\ o.frame \in Nat /\ o.life \in Nat
  /\ o.ground \in BOOLEAN /\ o.dead \in BOOLEAN /\ o.lost \in BOOLEAN /\ o.moved \in BOOLEAN
  /\ o.steady \in BOOLEAN /\ o.foes \in Seq(Enemy) /\ o.gone \in Seq(Enemy)
  /\ o.dead \/ o.lost \/ o.moved => o.terminal
  /\ o.lost => ~o.dead /\ ~o.moved
  /\ a.prev # Nothing =>
       /\ o.frame = a.frame + 1 /\ o.life = (IF o.lost THEN a.life + 1 ELSE a.life)
       /\ o.moved <=> o.place # a.place
       /\ a.prev.dead => o.dead \/ o.lost

\* Nothing came of the frame; or a life ended in it; or a flight landed.
Uneventful(b, a) == b.deaths = a.deaths /\ b.ids = a.ids /\ b.labels = a.labels
                  /\ b.report.credit = "none"
Died(b, a, o) ==
  /\ b.deaths = a.deaths + 1 /\ b.ids = a.ids \cup {<<o.run, o.frame>>}
  /\ b.labels = [a.labels EXCEPT !["failed"] = @ + 1] /\ b.report.credit = "death"
  /\ b.flight = NoFlight
Landed(b, a, o) ==
  /\ b.deaths = a.deaths /\ b.ids = a.ids \cup {<<o.run, a.flight.start>>}
  /\ \E x \in {"succeeded", "unknown"} : b.labels = [a.labels EXCEPT ![x] = @ + 1]
  /\ b.report.credit = "landing" /\ b.flight = NoFlight
  /\ Flying(a) /\ Contiguous(a, o) /\ ~a.prev.ground /\ o.ground

Comes(b, a, o) ==
  \/ ~Fatal(a, o) /\ Uneventful(b, a)
  \/ Fatal(a, o) /\ Died(b, a, o)
  \/ ~Fatal(a, o) /\ Landed(b, a, o)

\* The flight goes on.
FliesOn(b, a, o) ==
  /\ Flying(a) /\ ~Boundary(a, o) /\ ~Fatal(a, o) /\ b.flight.start = a.flight.start
  /\ Contiguous(a, o) /\ o.ground => b.flight = a.flight /\ a.prev.ground
  /\ Contiguous(a, o) /\ ~o.ground => b.flight.airborne

Waits(b, a, o) ==
  /\ \A f \in b.forecasts :
       \/ Contiguous(a, o) /\ f \in a.forecasts /\ f.action = o.input
       \/ f.action = o.input /\ \E h \in Horizons : f.horizon = h /\ f.due = o.frame + h
  /\ \A h \in b.report.scored :
       Contiguous(a, o) /\ \E f \in a.forecasts :
                             f.horizon = h /\ f.action = o.input /\ f.due = o.frame

Known(b, o) ==
  /\ b.run = o.run /\ b.life = o.life /\ b.place = o.place /\ b.frame = o.frame
  /\ b.prev = [ground |-> o.ground, dead |-> o.dead, lost |-> o.lost, input |-> o.input]

\* Credit, Cross and Learn: what comes of the frame.
LEMMA Learning ==
  ASSUME NEW a, Kinds(a), a.report = Silent, NEW o, NextFrame(a, o),
         \A id \in a.ids : id[2] <= a.frame /\ id[2] # a.flight.start,
         \A id \in a.ids : id[2] \in Nat,
         NEW x, x = Credit(a, o), NEW c, c = Cross(x, o), NEW b, b = Learn(c, o)
  PROVE  /\ IsAgent(b) /\ Flown(b.flight) /\ Comes(b, a, o)
         /\ b.flight = NoFlight \/ FliesOn(b, a, o)
         /\ b.crossing = a.crossing /\ b.landing \in {a.landing, NoLanding}
         /\ b.task = a.task
         /\ DOMAIN b.report = {"credit", "scored"}
         /\ Contiguous(c, o) <=> Contiguous(a, o)
         /\ b.forecasts = c.forecasts /\ (Contiguous(a, o) => c.forecasts = a.forecasts)
         /\ SameSight(b, c)
<1>0. /\ IsAgent(a) /\ Flown(a.flight) /\ a.deaths \in Nat /\ a.labels \in [Outcomes -> Nat]
  BY DEF Kinds
<1>10. Credits(x, a, o)
  BY <1>0, Creditings
<1>1. /\ IsAgent(x) /\ SameSight(x, a) /\ SamePlace(x, a) /\ SameCourse(x, a)
      /\ SamePursuit(x, a)
      /\ x.prev = a.prev /\ x.forecasts = a.forecasts /\ x.flight \in {a.flight, NoFlight}
      /\ ~Fatal(a, o) => x = a
      /\ DOMAIN x.report = {"credit", "scored"}
  BY <1>10 DEF Credits
<1>2. Fatal(a, o) => <<o.run, o.frame>> \notin a.ids
  <2> SUFFICES ASSUME Fatal(a, o), <<o.run, o.frame>> \in a.ids PROVE FALSE
    OBVIOUS
  <2>1. o.frame = a.frame + 1 /\ a.frame \in Nat
    BY DEF Fatal, NextFrame, Kinds
  <2>2. <<o.run, o.frame>>[2] <= a.frame
    OBVIOUS
  <2> QED
    BY <2>1, <2>2
<1>3. Fatal(a, o) =>
        /\ x.deaths = a.deaths + 1 /\ x.ids = a.ids \cup {<<o.run, o.frame>>}
        /\ x.labels = [a.labels EXCEPT !["failed"] = @ + 1]
        /\ x.report.credit = "death" /\ x.report.scored = {}
  BY <1>2, <1>10 DEF Credits
<1>4. Boundary(x, o) <=> Boundary(a, o)
  BY <1>1 DEF Boundary, SamePlace
<1>11. CrossedTo(c, x, o)
  BY <1>1, Crossed
<1>5. /\ IsAgent(c) /\ SamePlace(c, x) /\ SameLessons(c, x) /\ c.crossing = x.crossing
      /\ c.task = x.task
      /\ ~Boundary(x, o) => c = x
      /\ Boundary(x, o) =>
              /\ c.prev = Nothing /\ c.flight = NoFlight /\ c.forecasts = {}
              /\ c.landing = NoLanding
  BY <1>11 DEF CrossedTo
<1>6. Fatal(a, o) => ~Contiguous(c, o) /\ ~Contiguous(a, o)
  <2> SUFFICES ASSUME Fatal(a, o), ~o.dead, ~o.lost PROVE FALSE
    BY DEF Contiguous
  <2>1. a.life >= 0 /\ o.life > a.life
    BY DEF Fatal, Death
  <2>2. o.life = a.life /\ o.life \in Nat
    BY DEF Fatal, NextFrame
  <2> QED
    BY <2>1, <2>2
<1>7. CASE Fatal(a, o)
  <2>1. b = c
    BY <1>6, <1>7 DEF Learn
  <2>2. c.flight = NoFlight
    <3>1. x.flight = NoFlight
      BY <1>1, <1>7 DEF Credit, Flying, Flown
    <3> QED
      BY <1>5, <3>1
  <2>3. Died(b, a, o)
    BY <1>3, <1>5, <1>7, <2>1, <2>2 DEF Died, SameLessons
  <2>4. DOMAIN b.report = {"credit", "scored"}
    BY <1>1, <1>5, <2>1 DEF SameLessons
  <2>5. b.crossing = a.crossing /\ b.landing \in {a.landing, NoLanding} /\ b.task = a.task
    BY <1>1, <1>5, <2>1 DEF SameCourse, SamePursuit
  <2> QED
    BY <1>5, <1>6, <1>7, <2>1, <2>2, <2>3, <2>4, <2>5 DEF Comes, Flown, SameSight
<1>8. CASE ~Fatal(a, o) /\ Boundary(a, o)
  <2>1. x = a
    BY <1>1, <1>8
  <2>2. c.prev = Nothing /\ c.flight = NoFlight /\ c.landing = NoLanding /\ c.forecasts = {}
    BY <1>4, <1>5, <1>8
  <2>3. ~Contiguous(c, o) /\ b = c
    BY <2>2 DEF Contiguous, Learn
  <2>4. ~Contiguous(a, o)
    <3> SUFFICES ASSUME Contiguous(a, o) PROVE FALSE
      OBVIOUS
    <3>1. o.life = a.life /\ o.frame = a.frame + 1 /\ a.frame \in Nat
      BY DEF Contiguous, NextFrame, Kinds
    <3>2. a.place # o.place
      BY <1>8, <3>1 DEF Boundary
    <3> QED
      BY <3>2 DEF Contiguous, NextFrame
  <2>5. Uneventful(b, a) /\ b.report = Silent
    BY <1>5, <2>1, <2>3 DEF Uneventful, SameLessons, Silent
  <2> QED
    BY <1>5, <1>8, <2>1, <2>2, <2>3, <2>4, <2>5 DEF Comes, Flown, Silent, SameSight
<1>9. CASE ~Fatal(a, o) /\ ~Boundary(a, o)
  <2>1. c = a
    BY <1>1, <1>4, <1>5, <1>9
  <2>2. CASE ~Contiguous(a, o)
    <3>1. b = a
      BY <2>1, <2>2 DEF Learn
    <3>2. Comes(b, a, o)
      BY <1>9, <3>1 DEF Comes, Uneventful, Silent
    <3>3. b.flight = NoFlight \/ FliesOn(b, a, o)
      BY <1>9, <2>2, <3>1 DEF FliesOn, Flying
    <3> QED
      BY <1>1, <1>9, <2>1, <2>2, <3>1, <3>2, <3>3 DEF SameSight, Kinds
  <2>3. CASE Contiguous(a, o)
    <3>1. PICK d : d = Airborne(a, o)
      OBVIOUS
    <3>10. FlownTo(d, a, o)
      BY <1>0, <3>1, FlightLearnt
    <3>2. /\ IsAgent(d) /\ SameSight(d, a) /\ SameExperience(d, a) /\ SameCourse(d, a)
          /\ d.task = a.task
          /\ Flown(d.flight) /\ d.flight.start = a.flight.start
          /\ (d.flight = NoFlight <=> a.flight = NoFlight)
          /\ o.ground => d.flight = a.flight
          /\ ~o.ground /\ a.flight # NoFlight => d.flight.airborne
      BY <3>10 DEF FlownTo, SamePursuit
    <3>3. d.report = Silent /\ d.labels = a.labels /\ d.ids = a.ids /\ d.deaths = a.deaths
          /\ d.prev = a.prev /\ d.forecasts = a.forecasts
      BY <3>2 DEF SameExperience, SameLessons
    <3>4. b = Land(d, o)
      BY <2>1, <2>3, <3>1 DEF Learn
    <3>5. d.report.scored = {} /\ DOMAIN d.report = {"credit", "scored"}
          /\ d.report.credit = "none"
      BY <3>3 DEF Silent
    <3>11. LandedTo(b, d, o)
      BY <1>0, <3>2, <3>3, <3>4, <3>5, Landings
    <3>6. /\ IsAgent(b) /\ SameSight(b, d) /\ SameCourse(b, d) /\ b.forecasts = d.forecasts
          /\ b.task = d.task
          /\ b.deaths = d.deaths
          /\ \/ /\ b = d
                /\ d.prev.ground \/ ~o.ground \/ ~Flying(d)
             \/ /\ ~d.prev.ground /\ o.ground /\ Flying(d)
                /\ b.flight = NoFlight /\ b.report.credit = "landing" /\ b.report.scored = {}
                /\ <<o.run, d.flight.start>> \notin d.ids =>
                     /\ b.ids = d.ids \cup {<<o.run, d.flight.start>>}
                     /\ \E y \in {"succeeded", "unknown"} :
                          b.labels = [d.labels EXCEPT ![y] = @ + 1]
      BY <3>11 DEF LandedTo, SamePursuit
    <3>7. DOMAIN b.report = {"credit", "scored"}
      <4>1. b = d \/ b = [Record(d, <<o.run, d.flight.start>>,
               IF o.reached /\ d.flight.confirmed THEN "succeeded" ELSE "unknown")
          EXCEPT !.flight = NoFlight, !.report.credit = "landing"]
        BY <3>4 DEF Land
      <4>2. ASSUME NEW id, NEW y PROVE LET r == Record(d, id, y)
                                         IN  DOMAIN r = AgentFields /\ r.report = d.report
        BY <3>2 DEF Record, IsAgent, AgentFields
      <4>3. PICK r : r = Record(d, <<o.run, d.flight.start>>,
               IF o.reached /\ d.flight.confirmed THEN "succeeded" ELSE "unknown")
        OBVIOUS
      <4>4. DOMAIN r = AgentFields /\ DOMAIN r.report = {"credit", "scored"}
        BY <3>5, <4>2, <4>3
      <4>5. b # d => b = [r EXCEPT !.flight = NoFlight, !.report.credit = "landing"]
        BY <4>1, <4>3
      <4> QED
        BY <3>5, <4>4, <4>5 DEF AgentFields
    <3>8. CASE /\ b = d
               /\ d.prev.ground \/ ~o.ground \/ ~Flying(d)
      <4>1. Uneventful(b, a)
        BY <3>3, <3>5, <3>8 DEF Uneventful
      <4>2. b.flight = NoFlight \/ FliesOn(b, a, o)
        BY <1>9, <3>2, <3>3, <3>8 DEF FliesOn, Flying
      <4> QED
        BY <1>9, <2>1, <3>2, <3>3, <3>7, <3>8, <4>1, <4>2 DEF Comes, SameCourse, SameSight
    <3>9. CASE ~d.prev.ground /\ o.ground /\ Flying(d) /\ b.flight = NoFlight
      <4>1. <<o.run, d.flight.start>> \notin d.ids
        <5> SUFFICES ASSUME <<o.run, a.flight.start>> \in a.ids PROVE FALSE
          BY <3>2, <3>3
        <5>1. <<o.run, a.flight.start>>[2] # a.flight.start
          OBVIOUS
        <5> QED
          BY <5>1
      <4>2. b # d
        BY <3>9 DEF Flying
      <4>3. Landed(b, a, o)
        BY <2>3, <3>2, <3>3, <3>6, <3>9, <4>1, <4>2 DEF Landed, Flying
      <4> QED
        BY <1>9, <2>1, <3>2, <3>3, <3>6, <3>7, <3>9, <4>3
           DEF Comes, Flown, SameCourse, SameSight
    <3> QED
      BY <3>6, <3>8, <3>9
  <2> QED
    BY <2>2, <2>3
<1> QED
  BY <1>7, <1>8, <1>9

\* What is not resolved at the end of a life or a stage is archived.
LEMMA Archiving ==
  ASSUME NEW a, Tracked(a), NEW o, NEW c, CrossedTo(c, a, o)
  PROVE  Tracked(c)
<1>1. CASE ~Boundary(a, o)
  BY <1>1 DEF CrossedTo
<1>2. CASE Boundary(a, o)
  <2>1. /\ c.archived = a.archived + Cardinality(Live(a)) /\ c.tracks = Nothing
        /\ c.next = a.next /\ c.confirmed = a.confirmed
    BY <1>2 DEF CrossedTo
  <2>2. DOMAIN c.tracks = {}
    BY <2>1 DEF Nothing
  <2>3. Live(c) = {} /\ Cardinality(Live(c)) = 0
    <3>1. Live(c) = {}
      BY <2>2 DEF Live
    <3> QED
      BY <3>1, FS_EmptySet
  <2>4. Cardinality(Live(a)) \in Nat
    BY LiveFinite
  <2> QED
    BY <2>1, <2>2, <2>3, <2>4 DEF Tracked
<1> QED
  BY <1>1, <1>2

\* What a frame does to the agent.
ObservedTo(b, a, o) ==
  /\ IsAgent(b) /\ Flown(b.flight) /\ Known(b, o) /\ Comes(b, a, o) /\ Waits(b, a, o)
  /\ b.flight = NoFlight \/ FliesOn(b, a, o)
  /\ b.crossing = a.crossing /\ b.landing \in {a.landing, NoLanding} /\ b.task = a.task
  /\ Tracked(b) /\ InView(b, b.frame)

LEMMA FrameObserved ==
  ASSUME NEW m, NEW o, NEW a, a = Recall(m, o), Kinds(a), a.report = Silent, NextFrame(a, o),
         Tracked(a), a.prev = Nothing => a.life = None,
         \A id \in a.ids : id[2] <= a.frame /\ id[2] # a.flight.start,
         \A id \in a.ids : id[2] \in Nat,
         NEW b, b = Observe(m, o)
  PROVE  ObservedTo(b, a, o)
<1>1. PICK x, c, l : x = Credit(a, o) /\ c = Cross(x, o) /\ l = Learn(c, o)
  OBVIOUS
<1>2. PICK cc \in BOOLEAN : cc = Contiguous(c, o)
  BY DEF Contiguous
<1>3. PICK f : f = Forecast(l, o, cc)
  OBVIOUS
<1>4. PICK q : q = See(f, o)
  OBVIOUS
<1>5. Boundary(a, o) \/ o.frame # a.frame
  <2>1. CASE a.prev = Nothing
    BY <2>1 DEF NextFrame, Boundary, None
  <2>2. CASE a.prev # Nothing
    <3>1. o.frame = a.frame + 1 /\ a.frame \in Nat
      BY <2>2 DEF NextFrame, Kinds
    <3> QED
      BY <3>1
  <2> QED
    BY <2>1, <2>2
<1>6. b = Remember(q, o)
  BY <1>1, <1>2, <1>3, <1>4, <1>5 DEF Observe, Recall, NextFrame
<1>7. /\ IsAgent(l) /\ Flown(l.flight) /\ Comes(l, a, o)
      /\ l.flight = NoFlight \/ FliesOn(l, a, o)
      /\ l.crossing = a.crossing /\ l.landing \in {a.landing, NoLanding} /\ l.task = a.task
      /\ DOMAIN l.report = {"credit", "scored"}
      /\ Contiguous(c, o) <=> Contiguous(a, o)
      /\ l.forecasts = c.forecasts /\ (Contiguous(a, o) => c.forecasts = a.forecasts)
      /\ SameSight(l, c)
  BY <1>1, Learning
<1>8. ForecastTo(f, l, o, cc)
  BY <1>3, <1>7, Forecasting
<1>9. Tracked(c)
  <2>1. IsAgent(a) /\ Flown(a.flight) /\ a.deaths \in Nat /\ a.labels \in [Outcomes -> Nat]
    BY DEF Kinds
  <2>2. Credits(x, a, o)
    BY <1>1, <2>1, Creditings
  <2>3. IsAgent(x) /\ SameSight(x, a)
    BY <2>2 DEF Credits
  <2>4. CrossedTo(c, x, o)
    BY <1>1, <2>3, Crossed
  <2>5. Tracked(x)
    BY <2>3 DEF SameSight, Tracked, Live
  <2> QED
    BY <2>4, <2>5, Archiving
<1>10. IsAgent(f) /\ Tracked(f)
  <2>1. IsAgent(f) /\ SameSight(f, l)
    BY <1>8 DEF ForecastTo
  <2>2. f.tracks = c.tracks /\ f.next = c.next /\ f.archived = c.archived
        /\ f.confirmed = c.confirmed
    BY <1>7, <2>1 DEF SameSight
  <2> QED
    BY <1>9, <2>1, <2>2 DEF Tracked, Live
<1>11. Sees(q, f, o.frame)
  BY <1>4, <1>10, Seen DEF NextFrame
<1>12. /\ IsAgent(q) /\ SameExperience(q, f) /\ SameCourse(q, f) /\ q.flight = f.flight
       /\ q.task = f.task
       /\ Tracked(q) /\ InView(q, o.frame)
  BY <1>11 DEF Sees, SameButSight, SamePursuit
<1>13. PICK p : p = [ground |-> o.ground, dead |-> o.dead, lost |-> o.lost, input |-> o.input]
  OBVIOUS
<1>14. b = [q EXCEPT !.run = o.run, !.life = o.life, !.place = o.place, !.frame = o.frame,
                     !.prev = p]
  BY <1>6, <1>13 DEF Remember
<1>15. /\ IsAgent(b) /\ b.run = o.run /\ b.life = o.life /\ b.place = o.place
       /\ b.frame = o.frame /\ b.prev = p /\ SameLessons(b, q) /\ b.forecasts = q.forecasts
       /\ SameCourse(b, q) /\ b.flight = q.flight /\ b.tracks = q.tracks /\ b.next = q.next
       /\ b.archived = q.archived /\ b.confirmed = q.confirmed /\ b.task = q.task
  BY <1>12, <1>14 DEF IsAgent, AgentFields, SameLessons, SameCourse
<1>16. Known(b, o)
  BY <1>13, <1>15 DEF Known
<1>17. Tracked(b) /\ InView(b, b.frame)
  BY <1>12, <1>15 DEF Tracked, Live, InView
<1>22. b.task = l.task
  BY <1>8, <1>12, <1>15 DEF ForecastTo, SamePursuit
<1>18. /\ b.flight = l.flight /\ b.crossing = l.crossing /\ b.landing = l.landing
       /\ b.deaths = l.deaths /\ b.ids = l.ids /\ b.labels = l.labels
       /\ b.report.credit = l.report.credit
       /\ b.report.scored = f.report.scored /\ b.forecasts = f.forecasts
  <2>1. /\ f.flight = l.flight /\ f.crossing = l.crossing /\ f.landing = l.landing
        /\ f.deaths = l.deaths /\ f.ids = l.ids /\ f.labels = l.labels
        /\ f.report.credit = l.report.credit
    BY <1>8 DEF ForecastTo, SameCourse
  <2>2. /\ q.flight = f.flight /\ q.crossing = f.crossing /\ q.landing = f.landing
        /\ q.deaths = f.deaths /\ q.ids = f.ids /\ q.labels = f.labels /\ q.report = f.report
        /\ q.forecasts = f.forecasts
    BY <1>12 DEF SameExperience, SameLessons, SameCourse
  <2>3. /\ b.flight = q.flight /\ b.crossing = q.crossing /\ b.landing = q.landing
        /\ b.deaths = q.deaths /\ b.ids = q.ids /\ b.labels = q.labels /\ b.report = q.report
        /\ b.forecasts = q.forecasts
    BY <1>15 DEF SameLessons, SameCourse
  <2> QED
    BY <2>1, <2>2, <2>3
<1>19. Comes(b, a, o)
  BY <1>7, <1>18 DEF Comes, Uneventful, Died, Landed
<1>20. b.flight = NoFlight \/ FliesOn(b, a, o)
  BY <1>7, <1>18 DEF FliesOn
<1>21. Waits(b, a, o)
  <2>1. /\ \A g \in f.forecasts :
              \/ cc /\ g \in l.forecasts /\ g.action = o.input
              \/ g.action = o.input /\ \E h \in Horizons : g.horizon = h /\ g.due = o.frame + h
        /\ \A h \in f.report.scored :
              cc /\ \E g \in l.forecasts : g.horizon = h /\ g.action = o.input /\ g.due = o.frame
    BY <1>8 DEF ForecastTo
  <2>2. cc => Contiguous(a, o) /\ l.forecasts = a.forecasts
    BY <1>2, <1>7
  <2> QED
    BY <1>18, <2>1, <2>2 DEF Waits
<1> QED
  BY <1>7, <1>15, <1>16, <1>17, <1>18, <1>19, <1>20, <1>21, <1>22
     DEF ObservedTo

-----------------------------------------------------------------------------
(* A line: what is done in a frame that was observed *)

\* An attack goes on against an enemy in view.
Warranted(d) ==
  d.skill = "target" =>
    d.target \in Live(d) /\ d.tracks[d.target].seen = d.frame
    /\ d.tracks[d.target].stompable /\ d.task.frames <= Budget

\* What tasks, engage and execute do after a frame is observed.
DoneTo(d, b, o) ==
  /\ IsAgent(d) /\ SameExperience(d, b) /\ Flown(d.flight)
  /\ FlightKept(d, b, o) /\ LandingKept(d, b, o)
  /\ d.crossing = IF Crosses(b, o) THEN Phased(Crossing(b, o), o).next ELSE Crossing(b, o)
  /\ d.skill = "plan_commit" =>
       /\ Committed(b, o) /\ d.landing = b.landing
       /\ d.plan[2] = StepOf(b.landing.plan, o.frame - b.landing.at)
  /\ Tracked(d) /\ InView(d, d.frame) /\ d.target \in Live(d) \cup {None} /\ Warranted(d)
  /\ d.task.frames \in Int /\ d.task.at \in Int

LEMMA Doing ==
  ASSUME NEW b, IsAgent(b), Flown(b.flight), Tracked(b), InView(b, b.frame),
         b.task.frames \in Int, b.task.at \in Int,
         NEW o, o.frame \in Nat, o.x \in Int,
         NEW d, d = Execute(Engage(Tasks(b, o), o), o)
  PROVE  DoneTo(d, b, o)
<1>1. PICK t, g : t = Tasks(b, o) /\ g = Engage(t, o)
  OBVIOUS
<1>2. TaskedTo(t, b, o)
  BY <1>1, Tasked
<1>3. IsAgent(t) /\ SameExperience(t, b) /\ SameCourse(t, b) /\ SameTracks(t, b)
      /\ t.flight = b.flight /\ t.target = Choose(b, o)
  BY <1>2 DEF TaskedTo
<1>4. EngagedTo(g, t, o)
  BY <1>1, <1>3, Engaged
<1>5. /\ IsAgent(g) /\ SameExperience(g, t) /\ SameCourse(g, t) /\ SameSight(g, t)
      /\ g.flight = t.flight /\ g.task = t.task
      /\ g.combat # "none" => t.status = "active"
  BY <1>4 DEF EngagedTo, Engages
<1>6. d = Execute(g, o)
  BY <1>1
<1>7. g.flight = b.flight
  BY <1>3, <1>5
<1>8. ExecutedTo(d, g, o)
  BY <1>5, <1>6, <1>7, Executed
<1>9. /\ IsAgent(d) /\ SameExperience(d, g) /\ SameSight(d, g) /\ SamePursuit(d, g)
      /\ Flown(d.flight) /\ FlightKept(d, g, o) /\ LandingKept(d, g, o)
      /\ d.crossing = IF Crosses(g, o) THEN Phased(Crossing(g, o), o).next ELSE Crossing(g, o)
      /\ d.skill = "target" => g.combat # "none" /\ ~o.terminal /\ ~o.nav
      /\ d.skill = "plan_commit" =>
           /\ Committed(g, o) /\ d.landing = g.landing
           /\ d.plan[2] = StepOf(g.landing.plan, o.frame - g.landing.at)
  BY <1>8 DEF ExecutedTo
<1>10. SameExperience(d, b)
  BY <1>3, <1>5, <1>9 DEF SameExperience, SamePlace, SameLessons
<1>11. g.crossing = b.crossing /\ g.landing = b.landing
  BY <1>3, <1>5 DEF SameCourse
<1>12. FlightKept(d, b, o) /\ LandingKept(d, b, o)
  <2>1. FlightKept(d, b, o)
    BY <1>7, <1>9 DEF FlightKept, Flying
  <2>2. Committed(g, o) <=> Committed(b, o)
    BY <1>11 DEF Committed
  <2> QED
    BY <1>9, <1>11, <2>1, <2>2 DEF LandingKept
<1>13. d.crossing = IF Crosses(b, o) THEN Phased(Crossing(b, o), o).next ELSE Crossing(b, o)
  BY <1>9, <1>11 DEF Crosses, Crossing
<1>14. d.skill = "plan_commit" =>
           /\ Committed(b, o) /\ d.landing = b.landing
           /\ d.plan[2] = StepOf(b.landing.plan, o.frame - b.landing.at)
  BY <1>9, <1>11 DEF Committed
<1>15. /\ d.tracks = b.tracks /\ d.next = b.next /\ d.archived = b.archived
       /\ d.confirmed = b.confirmed /\ d.target = t.target /\ d.task = t.task
       /\ d.frame = b.frame
  BY <1>3, <1>5, <1>9, <1>10 DEF SameTracks, SameSight, SamePursuit, SameExperience, SamePlace
<1>16. Live(d) = Live(b) /\ Tracked(d) /\ InView(d, d.frame)
  BY <1>15 DEF Tracked, Live, InView
<1>17. d.target \in Live(d) \cup {None}
  BY <1>3, <1>15, <1>16, Chosen
<1>18. Warranted(d)
  <2> SUFFICES ASSUME d.skill = "target"
               PROVE  d.target \in Live(d) /\ d.tracks[d.target].seen = d.frame
                      /\ d.tracks[d.target].stompable /\ d.task.frames <= Budget
    BY DEF Warranted
  <2>1. t.status = "active"
    BY <1>5, <1>9
  <2>2. /\ t.target # None /\ t.tracks[t.target].visible
        /\ t.tracks[t.target].stompable /\ ~(t.task.frames > Budget)
        /\ t.task.frames \in Int
    BY <1>2, <2>1 DEF TaskedTo
  <2>3. d.target \in Live(d) /\ d.target \in DOMAIN d.tracks
    BY <1>15, <1>17, <2>2 DEF Live
  <2>4. t.tracks = d.tracks
    BY <1>3, <1>15 DEF SameTracks
  <2>5. d.tracks[d.target].seen = d.frame /\ d.tracks[d.target].stompable
    BY <1>15, <1>16, <2>2, <2>3, <2>4 DEF InView
  <2>6. d.task.frames <= Budget
    BY <1>15, <2>2, TracksAssumption
  <2> QED
    BY <2>3, <2>5, <2>6
<1>19. d.task.frames \in Int /\ d.task.at \in Int
  BY <1>2, <1>15 DEF TaskedTo
<1> QED
  BY <1>9, <1>10, <1>12, <1>13, <1>14, <1>16, <1>17, <1>18, <1>19 DEF DoneTo

-----------------------------------------------------------------------------
(* The frame that is shown *)

\* A scene at a place of the game, as the turn makes it.
ShownAs(o, g, turn, s) ==
  /\ o.run = g.run /\ o.life = g.life /\ o.place = g.place /\ o.frame = g.frame
  /\ o.lost = (turn = "life") /\ o.moved = (turn = "stage")
  /\ o.terminal = (s.dead \/ turn # "on")
  /\ o.ground = s.ground /\ o.steady = s.steady /\ o.dead = s.dead /\ o.pair = s.pair
  /\ o.foes = s.foes /\ o.gone = s.gone /\ o.x = s.x

LEMMA Showing ==
  ASSUME NEW g, NEW turn, NEW s, Staged(s), NEW o, o = Shown(g, turn, s)
  PROVE  /\ ShownAs(o, g, turn, s) /\ o.over = FALSE
         /\ ShownAs([o EXCEPT !.over = TRUE], g, turn, s) /\ [o EXCEPT !.over = TRUE].over = TRUE
<1>1. PICK lost, moved, terminal, input :
        /\ lost = (turn = "life") /\ moved = (turn = "stage")
        /\ terminal = (s.dead \/ turn # "on")
        /\ input = (IF turn = "on" THEN g.action ELSE "noop")
  BY Zenon
<1>2. o = [s EXCEPT !.run = g.run, !.life = g.life, !.place = g.place, !.frame = g.frame,
                    !.lost = lost, !.moved = moved, !.over = FALSE, !.terminal = terminal,
                    !.input = input]
  BY <1>1 DEF Shown
<1>3. DOMAIN s = SceneFields
  BY DEF Staged
<1>4. PICK q : q = [s EXCEPT !.run = g.run, !.life = g.life, !.place = g.place, !.frame = g.frame]
  OBVIOUS
<1>5. /\ q.ground = s.ground /\ q.steady = s.steady /\ q.dead = s.dead /\ q.pair = s.pair
      /\ q.foes = s.foes /\ q.gone = s.gone /\ q.x = s.x
      /\ q.run = g.run /\ q.life = g.life /\ q.place = g.place /\ q.frame = g.frame
      /\ DOMAIN q = SceneFields
  BY <1>3, <1>4 DEF SceneFields
<1>6. o = [q EXCEPT !.lost = lost, !.moved = moved, !.over = FALSE, !.terminal = terminal,
                    !.input = input]
  BY <1>2, <1>4
<1>7. DOMAIN o = SceneFields
  BY <1>5, <1>6
<1>8. /\ o.ground = q.ground /\ o.steady = q.steady /\ o.dead = q.dead /\ o.pair = q.pair
      /\ o.foes = q.foes /\ o.gone = q.gone /\ o.x = q.x
      /\ o.run = q.run /\ o.life = q.life /\ o.place = q.place /\ o.frame = q.frame
  BY <1>5, <1>6
<1>14. o.lost = lost /\ o.moved = moved /\ o.over = FALSE /\ o.terminal = terminal
  BY <1>5, <1>6 DEF SceneFields
<1>9. /\ o.ground = s.ground /\ o.steady = s.steady /\ o.dead = s.dead /\ o.pair = s.pair
      /\ o.foes = s.foes /\ o.gone = s.gone /\ o.x = s.x
      /\ o.run = g.run /\ o.life = g.life /\ o.place = g.place /\ o.frame = g.frame
      /\ o.lost = lost /\ o.moved = moved /\ o.over = FALSE /\ o.terminal = terminal
      /\ DOMAIN o = SceneFields
  BY <1>5, <1>7, <1>8, <1>14
<1>10. ShownAs(o, g, turn, s) /\ o.over = FALSE
  BY <1>1, <1>9 DEF ShownAs
<1>11. PICK p : p = [o EXCEPT !.over = TRUE]
  OBVIOUS
<1>12. /\ p.over = TRUE /\ p.run = o.run /\ p.life = o.life /\ p.place = o.place
       /\ p.frame = o.frame /\ p.lost = o.lost /\ p.moved = o.moved /\ p.terminal = o.terminal
       /\ p.ground = o.ground /\ p.steady = o.steady /\ p.dead = o.dead /\ p.pair = o.pair
       /\ p.foes = o.foes /\ p.gone = o.gone /\ p.x = o.x
  BY <1>9, <1>11 DEF SceneFields
<1>13. ShownAs(p, g, turn, s)
  BY <1>10, <1>12 DEF ShownAs
<1> QED
  BY <1>10, <1>11, <1>12, <1>13

-----------------------------------------------------------------------------
(* What is told of a frame *)

\* The history n that follows t when the agent d was shown o.
ToldTo(n, t, o, d) ==
  /\ n.alive = (IF o.dead \/ o.lost THEN t.alive ELSE t.alive \cup {o.life})
  /\ n.ended = t.ended \cup (((IF o.dead THEN {o.life} ELSE {})
                                \cup (IF o.lost THEN {o.life - 1} ELSE {})) \cap t.alive)
  /\ n.landings = t.landings + (IF d.report.credit = "landing" THEN 1 ELSE 0)
  /\ n.air = (IF o.ground THEN None ELSE IF t.air = None THEN o.frame ELSE t.air)
  /\ n.whole = (d.flight.start = o.frame \/ (t.whole /\ o.steady))
  /\ n.steps = (IF (o.steady /\ ~o.lost /\ ~o.moved /\ ~o.dead) /\ o.input = t.input
                THEN t.steps + 1 ELSE 0)
  /\ n.input = o.input
  /\ n.stage = (IF o.terminal \/ o.pair = {} THEN 0
                ELSE IF "low" \in o.pair /\ (t.stage > 0 \/ "window" \in o.pair) THEN 2
                ELSE IF "window" \in o.pair /\ t.stage = 0 THEN 1 ELSE t.stage)
  /\ n.aloft = (~o.ground /\ ~o.terminal /\ ((t.aloft /\ o.support) \/ d.landing.at = o.frame))

\* What the agent is and what is told, before a frame and after it.
Before(a, t, o) ==
  /\ Kinds(a) /\ History(t) /\ Books(a, t) /\ Awaited(a, t) /\ Aired(a, t) /\ Waited(a, t)
  /\ a.prev = Nothing => Blank(a) /\ t = Untold
  /\ NextFrame(a, o)
After(d, n, a, t, o) ==
  /\ ToldTo(n, t, o, d)
  /\ \E b : ObservedTo(b, a, o) /\ DoneTo(d, b, o)

\* A frame is fatal when a life that was seen alive is lost in it.
LEMMA Losing ==
  ASSUME NEW a, NEW t, NEW o, Before(a, t, o), NEW d, NEW n, ToldTo(n, t, o, d)
  PROVE  /\ Fatal(a, o) => o.dead \/ o.lost
         /\ Fatal(a, o) => \E x : x \notin t.ended /\ n.ended = t.ended \cup {x}
         /\ ~Fatal(a, o) => n.ended = t.ended
<1> USE DEF Before
<1>1. Fatal(a, o) => (o.dead \/ o.lost) /\ a.prev # Nothing /\ ~a.prev.dead /\ ~a.prev.lost
  <2> SUFFICES ASSUME Fatal(a, o), ~o.dead, ~o.lost PROVE FALSE
    BY DEF Fatal
  <2>1. a.life >= 0 /\ o.life > a.life
    BY DEF Fatal, Death
  <2>2. o.life = a.life /\ o.life \in Nat
    BY DEF Fatal, NextFrame
  <2> QED
    BY <2>1, <2>2
<1>2. PICK life : life = IF o.dead THEN o.life ELSE o.life - 1
  OBVIOUS
<1>3. o.dead \/ o.lost => n.ended = t.ended \cup ({life} \cap t.alive)
  BY <1>2 DEF ToldTo, NextFrame
<1>4. ~o.dead /\ ~o.lost => n.ended = t.ended
  BY DEF ToldTo
<1>5. a.prev # Nothing /\ (o.dead \/ o.lost) => life = a.life
  <2> SUFFICES ASSUME a.prev # Nothing, o.dead \/ o.lost PROVE life = a.life
    OBVIOUS
  <2>1. o.life = IF o.lost THEN a.life + 1 ELSE a.life
    BY DEF NextFrame
  <2>2. a.life \in Nat /\ (o.lost => ~o.dead)
    BY DEF NextFrame, Kinds
  <2> QED
    BY <1>2, <2>1, <2>2
<1>6. Fatal(a, o) => a.life \in t.alive \ t.ended
  BY <1>1 DEF Books
<1>7. Fatal(a, o) => \E x : x \notin t.ended /\ n.ended = t.ended \cup {x}
  <2> SUFFICES ASSUME Fatal(a, o) PROVE \E x : x \notin t.ended /\ n.ended = t.ended \cup {x}
    OBVIOUS
  <2>1. life \notin t.ended /\ n.ended = t.ended \cup {life}
    BY <1>1, <1>3, <1>5, <1>6
  <2> QED
    BY <2>1
<1>8. ~Fatal(a, o) => n.ended = t.ended
  <2> SUFFICES ASSUME ~Fatal(a, o), o.dead \/ o.lost PROVE n.ended = t.ended
    BY <1>4
  <2>1. CASE a.prev = Nothing
    <3>1. t.alive = {}
      BY <2>1 DEF Untold
    <3> QED
      BY <1>3, <3>1
  <2>2. CASE a.prev # Nothing
    <3>1. a.prev.dead \/ a.prev.lost
      BY <2>2 DEF Fatal, Death
    <3>2. a.life \in t.alive => a.life \in t.ended
      BY <2>2, <3>1 DEF Books
    <3> QED
      BY <1>3, <1>5, <2>2, <3>2
  <2> QED
    BY <2>1, <2>2
<1> QED
  BY <1>1, <1>7, <1>8

\* The books balance.
LEMMA BooksKept ==
  ASSUME NEW a, NEW t, NEW o, Before(a, t, o), NEW d, NEW n, After(d, n, a, t, o)
  PROVE  Books(d, n)
<1>1. PICK b : ObservedTo(b, a, o) /\ DoneTo(d, b, o)
  BY DEF After
<1>2. ToldTo(n, t, o, d)
  BY DEF After
<1>3. /\ Kinds(a) /\ History(t) /\ Books(a, t) /\ Aired(a, t) /\ NextFrame(a, o)
      /\ a.prev = Nothing => Blank(a) /\ t = Untold
  BY DEF Before
<1>4. /\ d.deaths = b.deaths /\ d.ids = b.ids /\ d.labels = b.labels /\ d.report = b.report
      /\ d.life = o.life /\ d.frame = o.frame
      /\ d.prev = [ground |-> o.ground, dead |-> o.dead, lost |-> o.lost, input |-> o.input]
      /\ Comes(b, a, o) /\ FlightKept(d, b, o)
      /\ b.flight = NoFlight \/ FliesOn(b, a, o)
  BY <1>1 DEF ObservedTo, DoneTo, Known, SameExperience, SamePlace, SameLessons
<1>5. /\ Fatal(a, o) => o.dead \/ o.lost
      /\ Fatal(a, o) => \E x : x \notin t.ended /\ n.ended = t.ended \cup {x}
      /\ ~Fatal(a, o) => n.ended = t.ended
  BY <1>2, Losing
<1>6. a.prev # Nothing => /\ a.frame \in Nat /\ o.frame = a.frame + 1 /\ a.life \in Nat
                          /\ o.life = (IF o.lost THEN a.life + 1 ELSE a.life)
  BY <1>3 DEF NextFrame, Kinds
<1>7. n.alive \subseteq 0..d.life
  <2>1. t.alive \subseteq 0..o.life
    <3>1. CASE a.prev = Nothing
      BY <1>3, <3>1 DEF Untold
    <3>2. CASE a.prev # Nothing
      BY <1>3, <1>6, <3>2 DEF Books
    <3> QED
      BY <3>1, <3>2
  <2>2. o.life \in 0..o.life
    BY <1>3 DEF NextFrame
  <2> QED
    BY <1>2, <1>4, <2>1, <2>2 DEF ToldTo
<1>8. IsFiniteSet(t.ended) /\ Cardinality(t.ended) \in Nat
  <2>1. IsFiniteSet(0..a.life)
    <3>1. PICK v \in Int : v = a.life
      BY <1>3 DEF Kinds, None
    <3> QED
      BY <3>1, FS_Interval
  <2>2. t.ended \subseteq 0..a.life
    BY <1>3 DEF Books, History
  <2>3. IsFiniteSet(t.ended)
    BY <2>1, <2>2, FS_Subset
  <2> QED
    BY <2>3, FS_CardinalityType
<1>9. /\ a.deaths = Cardinality(t.ended) /\ a.labels["failed"] = a.deaths
      /\ a.labels["succeeded"] + a.labels["unknown"] = t.landings
      /\ a.labels \in [Outcomes -> Nat] /\ a.deaths \in Nat
      /\ \A id \in a.ids : id[2] \in Nat /\ id[2] <= a.frame /\ id[2] # a.flight.start
  BY <1>3 DEF Books, Kinds
<1>10. /\ d.deaths = Cardinality(n.ended) /\ d.labels["failed"] = d.deaths
       /\ d.labels["succeeded"] + d.labels["unknown"] = n.landings
  <2>1. CASE ~Fatal(a, o) /\ Uneventful(b, a)
    <3>1. n.landings = t.landings
      BY <1>2, <1>3, <1>4, <2>1 DEF Uneventful, ToldTo, History
    <3> QED
      BY <1>4, <1>5, <1>9, <2>1, <3>1 DEF Uneventful
  <2>2. CASE Fatal(a, o) /\ Died(b, a, o)
    <3>1. n.landings = t.landings
      BY <1>2, <1>3, <1>4, <2>2 DEF Died, ToldTo, History
    <3>2. Cardinality(n.ended) = Cardinality(t.ended) + 1
      BY <1>5, <1>8, <2>2, FS_AddElement
    <3>3. /\ d.deaths = a.deaths + 1 /\ d.labels = [a.labels EXCEPT !["failed"] = @ + 1]
      BY <1>4, <2>2 DEF Died
    <3>4. d.labels["failed"] = a.labels["failed"] + 1
          /\ d.labels["succeeded"] = a.labels["succeeded"]
          /\ d.labels["unknown"] = a.labels["unknown"]
      BY <1>9, <3>3 DEF Outcomes
    <3> QED
      BY <1>9, <3>1, <3>2, <3>3, <3>4
  <2>3. CASE ~Fatal(a, o) /\ Landed(b, a, o)
    <3>1. n.landings = t.landings + 1
      BY <1>2, <1>4, <2>3 DEF Landed, ToldTo
    <3>2. PICK x \in {"succeeded", "unknown"} : d.labels = [a.labels EXCEPT ![x] = @ + 1]
      BY <1>4, <2>3 DEF Landed
    <3>3. d.deaths = a.deaths /\ n.ended = t.ended
      BY <1>4, <1>5, <2>3 DEF Landed
    <3>4. /\ a.labels["failed"] \in Nat /\ a.labels["succeeded"] \in Nat
          /\ a.labels["unknown"] \in Nat
      BY <1>9 DEF Outcomes
    <3>5. CASE x = "succeeded"
      <4>1. d.labels["failed"] = a.labels["failed"]
            /\ d.labels["succeeded"] = a.labels["succeeded"] + 1
            /\ d.labels["unknown"] = a.labels["unknown"]
        BY <1>9, <3>2, <3>5 DEF Outcomes
      <4> QED
        BY <1>9, <3>1, <3>3, <3>4, <4>1
    <3>6. CASE x = "unknown"
      <4>1. d.labels["failed"] = a.labels["failed"]
            /\ d.labels["succeeded"] = a.labels["succeeded"]
            /\ d.labels["unknown"] = a.labels["unknown"] + 1
        BY <1>9, <3>2, <3>6 DEF Outcomes
      <4> QED
        BY <1>9, <3>1, <3>3, <3>4, <4>1
    <3> QED
      BY <3>2, <3>5, <3>6
  <2> QED
    BY <1>4, <2>1, <2>2, <2>3 DEF Comes
<1>11. NoFlight.start = None /\ None \notin Nat
  BY DEF NoFlight, None
<1>12. \A id \in a.ids : a.prev # Nothing /\ id[2] \in Nat /\ id[2] <= a.frame
                         /\ id[2] # a.flight.start
  BY <1>3, <1>9 DEF Blank
<1>13. \A id \in a.ids : id[2] \in Nat /\ id[2] < o.frame /\ id[2] # a.flight.start
  BY <1>6, <1>12
<1>14. Flying(a) => a.prev # Nothing /\ a.flight.start \in Nat /\ a.flight.start < o.frame
  BY <1>3, <1>6 DEF Aired, Kinds, Flown, Flying
<1>15. \/ d.flight.start = o.frame /\ ~o.dead /\ ~o.lost
       \/ d.flight.start = None
       \/ d.flight.start = a.flight.start /\ Flying(a) /\ b.flight # NoFlight
  BY <1>4, <1>11 DEF FlightKept, FliesOn
<1>16. \A id \in d.ids : id[2] \in Nat /\ id[2] <= d.frame /\ id[2] # d.flight.start
  <2> SUFFICES ASSUME NEW id \in d.ids
               PROVE  id[2] \in Nat /\ id[2] <= o.frame /\ id[2] # d.flight.start
    BY <1>4
  <2>1. CASE id \in a.ids
    <3>1. id[2] \in Nat /\ id[2] < o.frame /\ id[2] # a.flight.start
      BY <1>13, <2>1
    <3> QED
      BY <1>3, <1>11, <1>15, <3>1 DEF NextFrame
  <2>2. CASE Fatal(a, o) /\ id = <<o.run, o.frame>> /\ b.flight = NoFlight
    <3>1. id[2] = o.frame /\ o.frame \in Nat
      BY <1>3, <2>2 DEF NextFrame
    <3>2. o.dead \/ o.lost
      BY <1>5, <2>2
    <3> QED
      BY <1>11, <1>15, <2>2, <3>1, <3>2
  <2>3. CASE Landed(b, a, o) /\ id = <<o.run, a.flight.start>>
    <3>1. id[2] = a.flight.start /\ id[2] \in Nat /\ id[2] < o.frame
      BY <1>14, <2>3 DEF Landed
    <3>2. b.flight = NoFlight
      BY <2>3 DEF Landed
    <3> QED
      BY <1>3, <1>11, <1>15, <3>1, <3>2 DEF NextFrame
  <2>4. id \in a.ids \/ (Fatal(a, o) /\ id = <<o.run, o.frame>> /\ b.flight = NoFlight)
        \/ (Landed(b, a, o) /\ id = <<o.run, a.flight.start>>)
    BY <1>4 DEF Comes, Uneventful, Died, Landed
  <2> QED
    BY <2>1, <2>2, <2>3, <2>4
<1>17. ~d.prev.dead /\ ~d.prev.lost => d.life \in n.alive \ n.ended
  <2> SUFFICES ASSUME ~o.dead, ~o.lost PROVE o.life \in n.alive \ n.ended
    BY <1>4
  <2>1. o.life \in n.alive /\ n.ended = t.ended
    BY <1>2 DEF ToldTo
  <2>2. o.life \notin t.ended
    <3>1. CASE a.prev = Nothing
      BY <1>3, <3>1 DEF Untold
    <3>2. CASE a.prev # Nothing
      BY <1>3, <1>6, <3>2 DEF NextFrame, Books, History
    <3> QED
      BY <3>1, <3>2
  <2> QED
    BY <2>1, <2>2
<1>18. d.prev.dead => ~d.prev.lost /\ (d.life \in n.alive => d.life \in n.ended)
  <2> SUFFICES ASSUME o.dead PROVE ~o.lost /\ (o.life \in n.alive => o.life \in n.ended)
    BY <1>4
  <2> QED
    BY <1>2, <1>3 DEF ToldTo, NextFrame
<1>19. d.prev.lost => d.life \notin n.alive
  <2> SUFFICES ASSUME o.lost PROVE o.life \notin t.alive
    BY <1>2, <1>4 DEF ToldTo
  <2>1. CASE a.prev = Nothing
    BY <1>3, <2>1 DEF Untold
  <2>2. CASE a.prev # Nothing
    <3>1. o.life = a.life + 1 /\ a.life \in Nat /\ t.alive \subseteq 0..a.life
      BY <1>3, <1>6, <2>2 DEF Books
    <3> QED
      BY <3>1
  <2> QED
    BY <2>1, <2>2
<1> QED
  BY <1>7, <1>10, <1>16, <1>17, <1>18, <1>19 DEF Books

\* What of an agent and of a frame the lemmas below share.
Shares(d, b, a, o) ==
  /\ d.prev = [ground |-> o.ground, dead |-> o.dead, lost |-> o.lost, input |-> o.input]
  /\ d.run = o.run /\ d.life = o.life /\ d.place = o.place /\ d.frame = o.frame
  /\ d.deaths = b.deaths /\ d.labels = b.labels /\ d.ids = b.ids /\ d.report = b.report
  /\ d.forecasts = b.forecasts
  /\ b.crossing = a.crossing /\ b.landing \in {a.landing, NoLanding} /\ b.task = a.task

LEMMA Sharing ==
  ASSUME NEW a, NEW o, NEW b, NEW d, ObservedTo(b, a, o), DoneTo(d, b, o)
  PROVE  Shares(d, b, a, o)
  BY DEF ObservedTo, DoneTo, Known, SameExperience, SamePlace, SameLessons, Shares

\* What is waited for, and what an error is of.
LEMMA AwaitedKept ==
  ASSUME NEW a, NEW t, NEW o, Before(a, t, o), NEW d, NEW n, After(d, n, a, t, o)
  PROVE  Awaited(d, n) /\ \A h \in d.report.scored : n.steps >= h
<1>1. PICK b : ObservedTo(b, a, o) /\ DoneTo(d, b, o)
  BY DEF After
<1>2. Shares(d, b, a, o)
  BY <1>1, Sharing
<1>3. Waits(b, a, o)
  BY <1>1 DEF ObservedTo
<1>4. /\ Awaited(a, t) /\ o.frame \in Nat /\ t.steps \in Nat
      /\ a.prev # Nothing => o.frame = a.frame + 1 /\ a.frame \in Nat
  BY DEF Before, History, NextFrame, Kinds
<1>5. /\ n.input = o.input
      /\ n.steps = (IF (o.steady /\ ~o.lost /\ ~o.moved /\ ~o.dead) /\ o.input = t.input
                    THEN t.steps + 1 ELSE 0)
  BY DEF After, ToldTo
<1>6. n.steps \in Nat
  BY <1>4, <1>5
<1>7. ASSUME NEW f \in a.forecasts, Contiguous(a, o), f.action = o.input
      PROVE  /\ f.due \in Nat /\ f.horizon \in Nat /\ f.action = n.input
             /\ n.steps + f.due >= f.horizon + o.frame
  <2>1. /\ f.due \in Nat /\ f.horizon \in Nat /\ f.action = t.input
        /\ t.steps + f.due >= f.horizon + a.frame
    BY <1>4 DEF Awaited
  <2>2. o.steady /\ ~o.lost /\ ~o.moved /\ ~o.dead /\ a.prev # Nothing
    BY <1>7 DEF Contiguous
  <2>3. n.steps = t.steps + 1 /\ o.frame = a.frame + 1 /\ a.frame \in Nat
    BY <1>4, <1>5, <1>7, <2>1, <2>2
  <2> QED
    BY <1>4, <1>5, <1>7, <2>1, <2>3
<1>8. ASSUME NEW f \in d.forecasts
      PROVE  /\ f.due \in Nat /\ f.horizon \in Nat /\ f.action = n.input
             /\ n.steps + f.due >= f.horizon + d.frame
  <2>1. d.frame = o.frame /\ f \in b.forecasts
    BY <1>2 DEF Shares
  <2>2. CASE Contiguous(a, o) /\ f \in a.forecasts /\ f.action = o.input
    BY <1>7, <2>1, <2>2
  <2>3. CASE f.action = o.input /\ \E h \in Horizons : f.horizon = h /\ f.due = o.frame + h
    <3>1. PICK h \in Nat : f.horizon = h /\ f.due = o.frame + h
      BY <2>3, AgentAssumption
    <3> QED
      BY <1>4, <1>5, <1>6, <2>1, <2>3, <3>1
  <2> QED
    BY <1>3, <2>1, <2>2, <2>3 DEF Waits
<1>9. ASSUME NEW h \in d.report.scored PROVE n.steps >= h
  <2>1. h \in b.report.scored
    BY <1>2 DEF Shares
  <2>2. PICK f \in a.forecasts :
          Contiguous(a, o) /\ f.horizon = h /\ f.action = o.input /\ f.due = o.frame
    BY <1>3, <2>1 DEF Waits
  <2>3. f.due \in Nat /\ f.horizon \in Nat /\ n.steps + f.due >= f.horizon + o.frame
    BY <1>7, <2>2
  <2> QED
    BY <1>4, <1>6, <2>2, <2>3
<1> QED
  BY <1>8, <1>9 DEF Awaited

\* A flight that goes on, or one that takes off.
LEMMA AiredKept ==
  ASSUME NEW a, NEW t, NEW o, Before(a, t, o), NEW d, NEW n, After(d, n, a, t, o)
  PROVE  Aired(d, n)
<1>1. PICK b : ObservedTo(b, a, o) /\ DoneTo(d, b, o)
  BY DEF After
<1>2. Shares(d, b, a, o)
  BY <1>1, Sharing
<1>3. FlightKept(d, b, o) /\ (b.flight = NoFlight \/ FliesOn(b, a, o))
  BY <1>1 DEF ObservedTo, DoneTo
<1>4. /\ Aired(a, t) /\ o.frame \in Nat /\ t.air \in Nat \cup {None} /\ o.ground \in BOOLEAN
      /\ t.whole \in BOOLEAN
      /\ Flown(a.flight)
      /\ a.prev # Nothing => o.frame = a.frame + 1 /\ a.frame \in Nat
  BY DEF Before, History, NextFrame, Kinds
<1>5. /\ n.air = (IF o.ground THEN None ELSE IF t.air = None THEN o.frame ELSE t.air)
      /\ n.whole = (d.flight.start = o.frame \/ (t.whole /\ o.steady))
  BY DEF After, ToldTo
<1>6. None \notin Nat
  BY DEF None
<1>7. d.prev.ground <=> n.air = None
  BY <1>2, <1>4, <1>5, <1>6 DEF Shares
<1>8. d.prev # Nothing /\ d.prev.dead = o.dead /\ d.prev.lost = o.lost /\ d.frame = o.frame
  <2>1. d.prev = [ground |-> o.ground, dead |-> o.dead, lost |-> o.lost, input |-> o.input]
        /\ d.frame = o.frame
    BY <1>2 DEF Shares
  <2>2. DOMAIN Nothing = {}
    BY DEF Nothing
  <2> QED
    BY <2>1, <2>2
<1>9. TakeoffWindow \in Nat
  BY AgentAssumption
<1>10. CASE o.ground /\ ~o.dead /\ ~o.lost /\ d.flight.start = o.frame
            /\ d.flight.airborne = FALSE
  <2>1. n.air = None /\ o.frame - o.frame <= TakeoffWindow
    BY <1>4, <1>5, <1>9, <1>10
  <2> QED
    BY <1>4, <1>7, <1>8, <1>10, <2>1 DEF Aired
<1>11. CASE Flying(d) /\ d.flight = b.flight /\ Flying(b)
            /\ (b.flight.airborne \/ o.frame - b.flight.start <= TakeoffWindow)
  <2>1. FliesOn(b, a, o) /\ Flying(a) /\ b.flight.start = a.flight.start
    BY <1>3, <1>11 DEF FliesOn, Flying
  <2>2. /\ a.prev # Nothing /\ ~a.prev.dead /\ ~a.prev.lost /\ a.flight.start <= a.frame
        /\ t.whole => IF t.air = None
                      THEN ~a.flight.airborne /\ a.frame - a.flight.start <= TakeoffWindow
                      ELSE /\ a.flight.start <= t.air
                           /\ t.air <= a.flight.start + TakeoffWindow + 1
        /\ a.prev.ground <=> t.air = None
    BY <1>4, <2>1 DEF Aired
  <2>3. a.flight.start \in Nat /\ o.frame = a.frame + 1 /\ a.frame \in Nat
    BY <1>4, <2>1, <2>2 DEF Flown, Flying
  <2>4. ~o.dead /\ ~o.lost /\ a.place = o.place
    BY <2>1, <2>2 DEF FliesOn, Fatal, Death, Boundary
  <2>5. ~o.moved
    BY <2>2, <2>4 DEF Before, NextFrame
  <2>6. d.flight.start = a.flight.start /\ d.flight.start <= o.frame
        /\ d.flight.start # o.frame
    BY <1>11, <2>1, <2>2, <2>3
  <2>7. ASSUME n.whole
        PROVE  IF n.air = None
               THEN ~d.flight.airborne /\ o.frame - d.flight.start <= TakeoffWindow
               ELSE /\ d.flight.start <= n.air
                    /\ n.air <= d.flight.start + TakeoffWindow + 1
    <3>1. t.whole /\ o.steady
      BY <1>5, <2>6, <2>7
    <3>2. Contiguous(a, o)
      BY <2>2, <2>3, <2>4, <2>5, <3>1 DEF Contiguous
    <3>3. CASE o.ground
      <4>1. b.flight = a.flight /\ a.prev.ground
        BY <2>1, <3>2, <3>3 DEF FliesOn
      <4>2. n.air = None /\ ~d.flight.airborne
        BY <1>5, <1>11, <2>2, <3>1, <3>3, <4>1
      <4>3. o.frame - d.flight.start <= TakeoffWindow
        BY <1>11, <4>2
      <4> QED
        BY <4>2, <4>3
    <3>4. CASE ~o.ground /\ t.air = None
      <4>1. a.frame - a.flight.start <= TakeoffWindow
        BY <2>2, <3>1, <3>4
      <4>2. n.air = o.frame /\ n.air # None
        BY <1>4, <1>5, <1>6, <3>4
      <4>3. o.frame <= a.flight.start + TakeoffWindow + 1
        BY <1>9, <2>3, <4>1
      <4> QED
        BY <2>6, <4>2, <4>3
    <3>5. CASE ~o.ground /\ t.air # None
      BY <1>5, <2>2, <2>6, <3>1, <3>5
    <3> QED
      BY <3>3, <3>4, <3>5
  <2> QED
    BY <1>7, <1>8, <2>4, <2>6, <2>7 DEF Aired
<1>12. CASE ~Flying(d)
  BY <1>7, <1>12 DEF Aired
<1> QED
  BY <1>3, <1>10, <1>11, <1>12 DEF FlightKept, Flying

IsCrossing(c) == DOMAIN c = {"phase", "started", "jump"} /\ c.phase \in 0..4

\* A crossing that was begun, or goes on, in a frame.
LEMMA CrossingOf ==
  ASSUME NEW b, NEW o, IsCrossing(b.crossing), o.terminal \in BOOLEAN,
         NEW c, c = Crossing(b, o)
  PROVE  /\ IsCrossing(c)
         /\ c.phase # 0 => ~o.terminal
         /\ c.phase \in {1, 2} => o.pair # {}
         /\ c.phase # 0 => c.phase = b.crossing.phase
                           \/ (c.phase = 1 /\ b.crossing.phase = 0 /\ "window" \in o.pair)
<1>1. PICK r : r = IF o.terminal THEN [b.crossing EXCEPT !.phase = 0] ELSE b.crossing
  OBVIOUS
<1>2. IsCrossing(r) /\ (o.terminal => r.phase = 0) /\ (~o.terminal => r = b.crossing)
  BY <1>1 DEF IsCrossing
<1>3. PICK e : e = Begun(r, o)
  OBVIOUS
<1>4. \/ e = r
      \/ /\ e = [phase |-> 1, started |-> o.frame, jump |-> 0] /\ r.phase = 0
         /\ ~o.terminal /\ "window" \in o.pair
  BY <1>3 DEF Begun
<1>5. IsCrossing(e) /\ (e.phase # 0 => ~o.terminal)
      /\ (e.phase # 0 => e.phase = b.crossing.phase
                         \/ (e.phase = 1 /\ b.crossing.phase = 0 /\ "window" \in o.pair))
  <2>1. CASE e = r
    BY <1>2, <2>1
  <2>2. CASE /\ e = [phase |-> 1, started |-> o.frame, jump |-> 0] /\ r.phase = 0
             /\ ~o.terminal /\ "window" \in o.pair
    BY <1>2, <2>2 DEF IsCrossing
  <2> QED
    BY <1>4, <2>1, <2>2
<1>6. c = IF e.phase # 0 /\ Expired(e, o) THEN [e EXCEPT !.phase = 0] ELSE e
  BY <1>1, <1>3 DEF Crossing
<1>7. CASE e.phase # 0 /\ Expired(e, o)
  BY <1>5, <1>6, <1>7 DEF IsCrossing
<1>8. CASE ~(e.phase # 0 /\ Expired(e, o))
  <2>1. c = e
    BY <1>6, <1>8
  <2>2. c.phase \in {1, 2} => o.pair # {}
    BY <1>8, <2>1 DEF Expired
  <2> QED
    BY <1>5, <2>1, <2>2
<1> QED
  BY <1>7, <1>8

\* What the phase of a crossing becomes.
LEMMA Phasing ==
  ASSUME NEW c, NEW o, IsCrossing(c), c.phase # 0, NEW m, m = Phased(c, o).next
  PROVE  /\ IsCrossing(m)
         /\ m.phase = 1 => c.phase = 1
         /\ m.phase = 2 => c.phase = 2 \/ (c.phase = 1 /\ "low" \in o.pair)
         /\ m.phase >= 3 => c.phase >= 2 \/ (c.phase = 1 /\ "low" \in o.pair)
<1>1. PICK low : low = IF c.phase = 1 /\ "low" \in o.pair THEN 2 ELSE c.phase
  OBVIOUS
<1>2. PICK p : p = IF low = 2 /\ "close" \in o.pair THEN 3 ELSE low
  OBVIOUS
<1>3. PICK jump : jump = IF p = 3 THEN c.jump + 1 ELSE c.jump
  OBVIOUS
<1>4. PICK q : q = (CASE p = 3 -> IF jump >= CrossJump THEN 4 ELSE 3
                      [] p = 4 -> IF o.pair = {} \/ "passed" \in o.pair THEN 0 ELSE 4
                      [] OTHER -> p)
  OBVIOUS
<1>5. m = [c EXCEPT !.jump = jump, !.phase = q]
  BY <1>1, <1>2, <1>3, <1>4 DEF Phased
<1>6. IsCrossing(m) <=> q \in 0..4
  BY <1>5 DEF IsCrossing
<1>7. m.phase = q
  BY <1>5 DEF IsCrossing
<1>8. p \in 1..4 /\ (p = 1 => c.phase = 1)
      /\ (p = 2 => c.phase = 2 \/ (c.phase = 1 /\ "low" \in o.pair))
      /\ (p >= 3 => c.phase >= 2 \/ (c.phase = 1 /\ "low" \in o.pair))
  BY <1>1, <1>2 DEF IsCrossing
<1>9. /\ p = 1 => q = 1
      /\ p = 2 => q = 2
      /\ p = 3 => q \in {3, 4}
      /\ p = 4 => q \in {0, 4}
  BY <1>4
<1> QED
  BY <1>6, <1>7, <1>8, <1>9

\* A crossing waits below what was seen overhead, and a landing that is flown is aloft.
LEMMA WaitedKept ==
  ASSUME NEW a, NEW t, NEW o, Before(a, t, o), o.terminal \in BOOLEAN,
         NEW d, NEW n, After(d, n, a, t, o)
  PROVE  /\ Waited(d, n) /\ IsCrossing(d.crossing)
         /\ d.crossing.phase >= 3 /\ a.crossing.phase < 3 => n.stage = 2
         /\ d.skill = "plan_commit" =>
              n.aloft /\ a.landing # NoLanding
              /\ d.plan[2] = StepOf(a.landing.plan, d.frame - a.landing.at)
<1>1. PICK b : ObservedTo(b, a, o) /\ DoneTo(d, b, o)
  BY DEF After
<1>2. Shares(d, b, a, o)
  BY <1>1, Sharing
<1>3. b.crossing = a.crossing /\ b.landing \in {a.landing, NoLanding} /\ d.frame = o.frame
  BY <1>2 DEF Shares
<1>4. /\ d.crossing = IF Crosses(b, o) THEN Phased(Crossing(b, o), o).next ELSE Crossing(b, o)
      /\ LandingKept(d, b, o)
      /\ d.skill = "plan_commit" =>
           /\ Committed(b, o) /\ d.landing = b.landing
           /\ d.plan[2] = StepOf(b.landing.plan, o.frame - b.landing.at)
  BY <1>1 DEF DoneTo
<1>5. /\ n.stage = (IF o.terminal \/ o.pair = {} THEN 0
                    ELSE IF "low" \in o.pair /\ (t.stage > 0 \/ "window" \in o.pair) THEN 2
                    ELSE IF "window" \in o.pair /\ t.stage = 0 THEN 1 ELSE t.stage)
      /\ n.aloft = (~o.ground /\ ~o.terminal /\ ((t.aloft /\ o.support) \/ d.landing.at = o.frame))
  BY DEF After, ToldTo
<1>6. Waited(a, t) /\ IsCrossing(a.crossing) /\ t.stage \in 0..2
  BY DEF Before, Kinds, IsCrossing, History
<1>7. PICK c : c = Crossing(b, o)
  OBVIOUS
<1>8. /\ IsCrossing(c)
      /\ c.phase # 0 => ~o.terminal
      /\ c.phase \in {1, 2} => o.pair # {}
      /\ c.phase # 0 => c.phase = a.crossing.phase
                        \/ (c.phase = 1 /\ a.crossing.phase = 0 /\ "window" \in o.pair)
  BY <1>3, <1>6, <1>7, CrossingOf
<1>9. /\ c.phase = 1 => n.stage > 0
      /\ c.phase = 2 => n.stage = 2
      /\ c.phase = 1 /\ "low" \in o.pair => n.stage = 2
      /\ c.phase >= 2 /\ a.crossing.phase < 3 => n.stage = 2
  <2>1. c.phase \in 0..4 /\ a.crossing.phase \in 0..4
    BY <1>6, <1>8 DEF IsCrossing
  <2>2. c.phase = 1 => t.stage > 0 \/ "window" \in o.pair
    BY <1>6, <1>8 DEF Waited
  <2>3. c.phase = 2 => t.stage = 2
    BY <1>6, <1>8 DEF Waited
  <2>4. c.phase \in {1, 2} => ~o.terminal /\ o.pair # {}
    BY <1>8
  <2>5. c.phase = 1 => n.stage > 0
    BY <1>5, <1>6, <2>2, <2>4
  <2>6. c.phase = 2 => n.stage = 2
    BY <1>5, <1>6, <2>3, <2>4
  <2>7. c.phase = 1 /\ "low" \in o.pair => n.stage = 2
    BY <1>5, <2>2, <2>4
  <2>8. c.phase >= 2 /\ a.crossing.phase < 3 => c.phase = 2
    BY <1>8, <2>1
  <2> QED
    BY <2>5, <2>6, <2>7, <2>8
<1>10. /\ IsCrossing(d.crossing)
       /\ d.crossing.phase = 1 => n.stage > 0
       /\ d.crossing.phase = 2 => n.stage = 2
       /\ d.crossing.phase >= 3 /\ a.crossing.phase < 3 => n.stage = 2
  <2>1. CASE Crosses(b, o)
    <3>1. c.phase # 0
      BY <1>7, <2>1 DEF Crosses
    <3>2. PICK m : m = Phased(c, o).next
      OBVIOUS
    <3>3. /\ IsCrossing(m)
          /\ m.phase = 1 => c.phase = 1
          /\ m.phase = 2 => c.phase = 2 \/ (c.phase = 1 /\ "low" \in o.pair)
          /\ m.phase >= 3 => c.phase >= 2 \/ (c.phase = 1 /\ "low" \in o.pair)
      BY <1>8, <3>1, <3>2, Phasing
    <3>4. d.crossing = m
      BY <1>4, <1>7, <2>1, <3>2
    <3> QED
      BY <1>9, <3>3, <3>4
  <2>2. CASE ~Crosses(b, o)
    <3>1. d.crossing = c
      BY <1>4, <1>7, <2>2
    <3>2. d.crossing.phase >= 3 => d.crossing.phase >= 2
      BY <1>8, <3>1 DEF IsCrossing
    <3> QED
      BY <1>8, <1>9, <3>1, <3>2
  <2> QED
    BY <2>1, <2>2
<1>11. Committed(b, o) => /\ b.landing # NoLanding /\ b.landing = a.landing /\ t.aloft
                          /\ ~o.terminal /\ ~o.ground /\ o.support
  BY <1>3, <1>6 DEF Committed, Waited
<1>12. d.landing # NoLanding => n.aloft
  BY <1>4, <1>5, <1>11 DEF LandingKept
<1>13. d.skill = "plan_commit" =>
              n.aloft /\ a.landing # NoLanding
              /\ d.plan[2] = StepOf(a.landing.plan, d.frame - a.landing.at)
  BY <1>3, <1>4, <1>11, <1>12
<1> QED
  BY <1>10, <1>12, <1>13 DEF Waited

\* What is told stays of its kind.
LEMMA HistoryKept ==
  ASSUME NEW a, NEW t, NEW o, Before(a, t, o), o.terminal \in BOOLEAN,
         NEW d, NEW n, After(d, n, a, t, o)
  PROVE  History(n)
<1>1. ToldTo(n, t, o, d)
  BY DEF After
<1>2. History(t) /\ o.frame \in Nat /\ o.ground \in BOOLEAN /\ o.steady \in BOOLEAN
  BY DEF Before, NextFrame
<1>3. n.ended \subseteq n.alive
  <2>1. t.ended \subseteq t.alive /\ t.alive \subseteq n.alive
    BY <1>1, <1>2 DEF ToldTo, History
  <2> QED
    BY <1>1, <2>1 DEF ToldTo
<1>4. n.landings \in Nat /\ n.steps \in Nat
  BY <1>1, <1>2 DEF ToldTo, History
<1>5. n.air \in Nat \cup {None}
  BY <1>1, <1>2 DEF ToldTo, History
<1>6. n.stage \in 0..2
  BY <1>1, <1>2 DEF ToldTo, History
<1>7. n.whole \in BOOLEAN /\ n.aloft \in BOOLEAN
  <2>1. n.whole = (d.flight.start = o.frame \/ (t.whole /\ o.steady))
        /\ n.aloft = (/\ ~o.ground /\ ~o.terminal
                      /\ (t.aloft /\ o.support) \/ d.landing.at = o.frame)
    BY <1>1 DEF ToldTo
  <2> QED
    BY <2>1, Zenon
<1> QED
  BY <1>3, <1>4, <1>5, <1>6, <1>7 DEF History

\* The agent keeps its shape.
LEMMA KindsKept ==
  ASSUME NEW a, NEW t, NEW o, Before(a, t, o), o.terminal \in BOOLEAN,
         NEW d, NEW n, After(d, n, a, t, o)
  PROVE  Kinds(d)
<1>1. PICK b : ObservedTo(b, a, o) /\ DoneTo(d, b, o)
  BY DEF After
<1>2. Shares(d, b, a, o)
  BY <1>1, Sharing
<1>3. /\ IsAgent(d) /\ Flown(d.flight) /\ d.task.frames \in Int /\ d.task.at \in Int
      /\ Comes(b, a, o)
  BY <1>1 DEF ObservedTo, DoneTo
<1>4. IsCrossing(d.crossing)
  BY WaitedKept
<1>5. a.deaths \in Nat /\ a.labels \in [Outcomes -> Nat]
  BY DEF Before, Kinds
<1>6. b.deaths \in Nat /\ b.labels \in [Outcomes -> Nat]
  <2>1. b.deaths \in Nat
    BY <1>3, <1>5 DEF Comes, Uneventful, Died, Landed
  <2>2. b.labels = a.labels \/ \E x \in Outcomes : b.labels = [a.labels EXCEPT ![x] = @ + 1]
    BY <1>3 DEF Comes, Uneventful, Died, Landed, Outcomes
  <2>3. CASE b.labels = a.labels
    BY <1>5, <2>1, <2>3
  <2>4. ASSUME NEW x \in Outcomes, b.labels = [a.labels EXCEPT ![x] = @ + 1]
        PROVE  b.labels \in [Outcomes -> Nat]
    <3>1. PICK v \in Nat : v = a.labels[x] + 1
      BY <1>5
    <3>2. b.labels = [a.labels EXCEPT ![x] = v]
      BY <2>4, <3>1
    <3> QED
      BY <1>5, <3>2
  <2> QED
    BY <2>1, <2>2, <2>3, <2>4
<1>7. /\ o.life \in Nat /\ o.frame \in Nat /\ None \notin Nat
      /\ o.ground \in BOOLEAN /\ o.dead \in BOOLEAN /\ o.lost \in BOOLEAN
  BY DEF Before, NextFrame, None
<1>8. /\ DOMAIN d.prev = {"ground", "dead", "lost", "input"}
      /\ d.prev.ground = o.ground /\ d.prev.dead = o.dead /\ d.prev.lost = o.lost
      /\ d.life = o.life /\ d.frame = o.frame /\ d.deaths = b.deaths /\ d.labels = b.labels
  BY <1>2 DEF Shares
<1> QED
  BY <1>3, <1>4, <1>6, <1>7, <1>8 DEF Kinds, IsCrossing

\* An agent and what was told of the frames it was shown.
Learned(a, t) ==
  /\ Kinds(a) /\ History(t) /\ Books(a, t) /\ Awaited(a, t) /\ Aired(a, t) /\ Waited(a, t)
  /\ Tracked(a) /\ InView(a, a.frame)
  /\ a.prev = Nothing => Blank(a) /\ t = Untold

Honest(d, n) == \A h \in d.report.scored : n.steps >= h

\* What a line is to the properties of a step: the agent was a, and is d; what is told was
\* t, and is n.
Stepped(d, n, a, t) ==
  /\ d.report.credit = "landing" =>
       /\ a.prev # Nothing
       /\ t.whole => a.flight.start <= t.air /\ t.air <= a.flight.start + TakeoffWindow + 1
  /\ d.crossing.phase >= 3 /\ a.crossing.phase < 3 => n.stage = 2
  /\ d.skill = "plan_commit" =>
       n.aloft /\ a.landing # NoLanding
       /\ d.plan[2] = StepOf(a.landing.plan, d.frame - a.landing.at)

LEMMA NewLearned == Learned(New, Untold) /\ Honest(New, Untold) /\ Warranted(New)
                    /\ New.target = None /\ New.report = Silent
<1>1. PICK zeros \in [Outcomes -> Nat] : zeros = [o \in {"succeeded", "failed", "unknown"} |-> 0]
  BY DEF Outcomes
<1>2. /\ IsAgent(New) /\ New.run = None /\ New.life = None /\ New.frame = None
      /\ New.prev = Nothing /\ New.flight = NoFlight /\ New.forecasts = {} /\ New.deaths = 0
      /\ New.ids = {} /\ New.labels = zeros /\ New.tracks = Nothing /\ New.next = 1
      /\ New.archived = 0 /\ New.confirmed = 0 /\ New.target = None /\ New.task = NoTask
      /\ New.landing = NoLanding /\ New.skill = "none" /\ New.report = Silent
      /\ New.crossing = [phase |-> 0, started |-> None, jump |-> 0]
  BY <1>1 DEF New, IsAgent, AgentFields
<1>3. zeros["failed"] = 0 /\ zeros["succeeded"] = 0 /\ zeros["unknown"] = 0
  BY <1>1
<1>4. NoTask.frames = 0 /\ NoTask.at \in Int
  BY DEF NoTask, None
<1>5. Kinds(New)
  BY <1>2, <1>4 DEF Kinds, Flown
<1>6. /\ Untold.alive = {} /\ Untold.ended = {} /\ Untold.landings = 0 /\ Untold.air = None
      /\ Untold.whole = TRUE /\ Untold.steps = 0 /\ Untold.stage = 0 /\ Untold.aloft = FALSE
  BY DEF Untold
<1>7. History(Untold)
  <2>1. Untold.ended \subseteq Untold.alive /\ Untold.landings \in Nat /\ Untold.steps \in Nat
    BY <1>6
  <2>2. Untold.air \in Nat \cup {None} /\ Untold.stage \in 0..2
    BY <1>6
  <2>3. Untold.whole \in BOOLEAN /\ Untold.aloft \in BOOLEAN
    BY <1>6, Zenon
  <2> QED
    BY <2>1, <2>2, <2>3 DEF History
<1>8. Cardinality({}) = 0
  BY FS_EmptySet
<1>9. Books(New, Untold)
  BY <1>2, <1>3, <1>6, <1>8 DEF Books
<1>10. Awaited(New, Untold) /\ Aired(New, Untold) /\ Waited(New, Untold) /\ Blank(New)
  BY <1>2, <1>6 DEF Awaited, Aired, Waited, Blank, Flying
<1>11. Tracked(New) /\ InView(New, New.frame)
  <2>1. DOMAIN New.tracks = {}
    BY <1>2 DEF Nothing
  <2>2. Live(New) = {}
    BY <2>1 DEF Live
  <2> QED
    BY <1>2, <1>8, <2>1, <2>2 DEF Tracked, InView
<1>12. Honest(New, Untold) /\ Warranted(New)
  BY <1>2 DEF Honest, Warranted, Silent
<1> QED
  BY <1>2, <1>5, <1>7, <1>9, <1>10, <1>11, <1>12 DEF Learned

\* What is learnt does not lie in the report of a line.
LEMMA Silenced ==
  ASSUME NEW m, NEW t, Learned(m, t), NEW a, a = [m EXCEPT !.report = Silent]
  PROVE  Learned(a, t) /\ a.report = Silent /\ a.prev = m.prev /\ a.flight = m.flight
         /\ a.crossing = m.crossing /\ a.landing = m.landing /\ a.life = m.life
         /\ a.frame = m.frame /\ a.place = m.place
<1>1. IsAgent(m)
  BY DEF Learned, Kinds
<1>2. /\ IsAgent(a) /\ SamePlace(a, m) /\ a.prev = m.prev /\ a.flight = m.flight
      /\ a.forecasts = m.forecasts /\ a.deaths = m.deaths /\ a.ids = m.ids
      /\ a.labels = m.labels /\ a.crossing = m.crossing /\ a.landing = m.landing
      /\ a.task = m.task /\ a.report = Silent
      /\ SameSight(a, m)
  BY <1>1 DEF IsAgent, AgentFields, SamePlace, SameSight
<1>3. Kinds(a)
  <2>1. Kinds(m)
    BY DEF Learned
  <2> QED
    BY <1>2, <2>1 DEF Kinds, SamePlace
<1>4. Books(a, t)
  BY <1>2 DEF Learned, Books, SamePlace
<1>5. Awaited(a, t) /\ Aired(a, t) /\ Waited(a, t)
  BY <1>2 DEF Learned, Awaited, Aired, Waited, SamePlace, Flying
<1>6. Tracked(a) /\ InView(a, a.frame)
  BY <1>2 DEF Learned, Tracked, Live, InView, SamePlace, SameSight
<1>7. a.prev = Nothing => Blank(a)
  BY <1>2 DEF Learned, Blank, SamePlace
<1> QED
  BY <1>2, <1>3, <1>4, <1>5, <1>6, <1>7 DEF Learned, SamePlace

\* A line with a frame of the game.
LEMMA LineLearned ==
  ASSUME NEW a, NEW t, Learned(a, t), a.report = Silent, NEW o, NextFrame(a, o),
         o.terminal \in BOOLEAN, o.x \in Int, NEW m, a = Recall(m, o),
         NEW d, d = Execute(Engage(Tasks(Observe(m, o), o), o), o), NEW n, ToldTo(n, t, o, d)
  PROVE  /\ Learned(d, n) /\ Honest(d, n) /\ d.target \in Live(d) \cup {None} /\ Warranted(d)
         /\ Stepped(d, n, a, t)
         /\ d.run = o.run /\ d.life = o.life /\ d.place = o.place /\ d.frame = o.frame
         /\ d.prev # Nothing /\ d.prev.dead = o.dead
<1>1. PICK b : b = Observe(m, o)
  OBVIOUS
<1>2. /\ Kinds(a) /\ Tracked(a) /\ (a.prev = Nothing => a.life = None)
      /\ \A id \in a.ids : id[2] \in Nat /\ id[2] <= a.frame /\ id[2] # a.flight.start
  BY DEF Learned, Blank, Books
<1>3. ObservedTo(b, a, o)
  BY <1>1, <1>2, FrameObserved
<1>4. /\ IsAgent(b) /\ Flown(b.flight) /\ Tracked(b) /\ InView(b, b.frame) /\ b.task = a.task
      /\ Comes(b, a, o)
  BY <1>3 DEF ObservedTo
<1>5. b.task.frames \in Int /\ b.task.at \in Int /\ o.frame \in Nat
  BY <1>2, <1>4 DEF Kinds, NextFrame
<1>6. d = Execute(Engage(Tasks(b, o), o), o)
  BY <1>1
<1>7. DoneTo(d, b, o)
  BY <1>4, <1>5, <1>6, Doing
<1>8. After(d, n, a, t, o)
  BY <1>3, <1>7 DEF After
<1>9. Before(a, t, o)
  BY DEF Learned, Before
<1>10. Shares(d, b, a, o)
  BY <1>3, <1>7, Sharing
<1>11. Tracked(d) /\ InView(d, d.frame) /\ d.target \in Live(d) \cup {None} /\ Warranted(d)
  BY <1>7 DEF DoneTo
<1>12. /\ Waited(d, n)
       /\ d.crossing.phase >= 3 /\ a.crossing.phase < 3 => n.stage = 2
       /\ d.skill = "plan_commit" =>
            n.aloft /\ a.landing # NoLanding
            /\ d.plan[2] = StepOf(a.landing.plan, d.frame - a.landing.at)
  BY <1>8, <1>9, WaitedKept
<1>13. Awaited(d, n) /\ Honest(d, n)
  BY <1>8, <1>9, AwaitedKept DEF Honest
<1>14. d.prev # Nothing /\ d.prev.dead = o.dead /\ d.run = o.run /\ d.life = o.life
       /\ d.place = o.place /\ d.frame = o.frame
  <2>1. DOMAIN Nothing = {}
    BY DEF Nothing
  <2> QED
    BY <1>10, <2>1 DEF Shares
<1>15. Learned(d, n)
  <2>1. Kinds(d)
    BY <1>8, <1>9, KindsKept
  <2>2. History(n)
    BY <1>8, <1>9, HistoryKept
  <2>3. Books(d, n)
    BY <1>8, <1>9, BooksKept
  <2>4. Aired(d, n)
    BY <1>8, <1>9, AiredKept
  <2> QED
    BY <1>11, <1>12, <1>13, <1>14, <2>1, <2>2, <2>3, <2>4 DEF Learned
<1>16. d.report.credit = "landing" =>
         /\ a.prev # Nothing
         /\ t.whole => a.flight.start <= t.air /\ t.air <= a.flight.start + TakeoffWindow + 1
  <2> SUFFICES ASSUME d.report.credit = "landing"
               PROVE  /\ a.prev # Nothing
                      /\ t.whole => a.flight.start <= t.air
                                    /\ t.air <= a.flight.start + TakeoffWindow + 1
    OBVIOUS
  <2>1. b.report.credit = "landing"
    BY <1>10 DEF Shares
  <2>2. Flying(a) /\ ~a.prev.ground
    BY <1>4, <2>1 DEF Comes, Uneventful, Died, Landed
  <2>3. Aired(a, t)
    BY DEF Learned
  <2> QED
    BY <2>2, <2>3 DEF Aired
<1> QED
  BY <1>11, <1>12, <1>13, <1>14, <1>15, <1>16 DEF Stepped

\* The last line of a run: the agent that is left knows of no frame.
LastOf(d, r) ==
  /\ Learned(d, Untold) /\ Honest(d, Untold) /\ d.target \in Live(d) \cup {None}
  /\ Warranted(d) /\ d.run = r /\ d.prev = Nothing
  /\ d.report.credit = "none" /\ d.crossing.phase = 0 /\ d.skill # "plan_commit"

LEMMA LastLearned ==
  ASSUME NEW r, NEW b, b = [New EXCEPT !.run = r], NEW o, o.terminal = TRUE, o.lost = TRUE,
         o.frame \in Nat, o.x \in Int, NEW d, d = Execute(Engage(Tasks(b, o), o), o)
  PROVE  LastOf(d, r)
<1>1. Learned(New, Untold) /\ New.report = Silent
  BY NewLearned
<1>2. Kinds(New) /\ Blank(New) /\ Tracked(New) /\ InView(New, New.frame) /\ Books(New, Untold)
      /\ History(Untold)
  <2>1. New.prev = Nothing
    BY DEF New
  <2> QED
    BY <1>1, <2>1 DEF Learned
<1>3. IsAgent(New)
  BY <1>2 DEF Kinds
<1>4. /\ IsAgent(b) /\ b.run = r /\ b.life = New.life /\ b.place = New.place
      /\ b.frame = New.frame /\ SameLessons(b, New) /\ b.prev = New.prev
      /\ b.forecasts = New.forecasts /\ b.crossing = New.crossing /\ b.landing = New.landing
      /\ b.task = New.task /\ b.flight = New.flight /\ SameSight(b, New)
  BY <1>3 DEF IsAgent, AgentFields, SameSight, SameLessons
<1>5. Flown(b.flight) /\ b.task.frames \in Int /\ b.task.at \in Int /\ IsCrossing(b.crossing)
  BY <1>2, <1>4 DEF Kinds, IsCrossing
<1>6. Tracked(b) /\ InView(b, b.frame)
  BY <1>2, <1>4 DEF Tracked, Live, InView, SameSight
<1>7. DoneTo(d, b, o)
  BY <1>4, <1>5, <1>6, Doing
<1>8. /\ IsAgent(d) /\ SameExperience(d, b) /\ Flown(d.flight)
      /\ FlightKept(d, b, o) /\ LandingKept(d, b, o)
      /\ d.task.frames \in Int /\ d.task.at \in Int
      /\ Tracked(d) /\ InView(d, d.frame) /\ d.target \in Live(d) \cup {None} /\ Warranted(d)
      /\ d.crossing = IF Crosses(b, o) THEN Phased(Crossing(b, o), o).next ELSE Crossing(b, o)
      /\ d.skill = "plan_commit" => Committed(b, o)
  BY <1>7 DEF DoneTo
<1>9. /\ d.run = r /\ d.life = New.life /\ d.frame = New.frame
      /\ d.deaths = New.deaths /\ d.ids = New.ids /\ d.labels = New.labels
      /\ d.report = Silent /\ d.prev = New.prev /\ d.forecasts = New.forecasts
  BY <1>1, <1>4, <1>8 DEF SameExperience, SamePlace, SameLessons
<1>10. /\ New.prev = Nothing /\ New.life = None /\ New.frame = None /\ New.flight = NoFlight
       /\ New.forecasts = {} /\ New.ids = {} /\ New.landing = NoLanding
       /\ New.crossing.phase = 0
  BY <1>2 DEF Blank
<1>11. d.flight = NoFlight
  BY <1>4, <1>8, <1>10 DEF FlightKept
<1>12. ~Committed(b, o)
  BY DEF Committed
<1>13. d.landing = NoLanding
  BY <1>8, <1>12 DEF LandingKept
<1>14. IsCrossing(d.crossing) /\ d.crossing.phase = 0
  <2>1. PICK c : c = Crossing(b, o)
    OBVIOUS
  <2>2. IsCrossing(c) /\ c.phase = 0
    BY <1>5, <2>1, CrossingOf
  <2>3. d.crossing = c
    BY <1>8, <2>1 DEF Crosses
  <2> QED
    BY <2>2, <2>3
<1>15. Blank(d)
  BY <1>9, <1>10, <1>11, <1>13, <1>14 DEF Blank
<1>16. Kinds(d)
  BY <1>2, <1>8, <1>9, <1>10, <1>14 DEF Kinds, IsCrossing
<1>17. Books(d, Untold)
  BY <1>2, <1>9, <1>10 DEF Books
<1>18. Awaited(d, Untold) /\ Aired(d, Untold) /\ Waited(d, Untold)
  BY <1>9, <1>10, <1>11, <1>13, <1>14 DEF Awaited, Aired, Waited, Flying
<1>19. Honest(d, Untold) /\ d.report.credit = "none"
  BY <1>9 DEF Honest, Silent
<1> QED
  BY <1>2, <1>8, <1>9, <1>10, <1>12, <1>14, <1>15, <1>16, <1>17, <1>18, <1>19
     DEF Learned, LastOf

-----------------------------------------------------------------------------
(* The steps of the game *)

AgentInv ==
  /\ Learned(k, told) /\ Synced(k) /\ Honest(k, told)
  /\ k.target \in Live(k) \cup {None} /\ Warranted(k)

\* What CreditIsOwn and PhasesInOrder say of a step.
CreditedOwn ==
  k'.report.credit = "landing" /\ k # k' /\ told.whole =>
    k.flight.start <= told.air /\ told.air <= k.flight.start + TakeoffWindow + 1
PhasedInOrder ==
  /\ k'.crossing.phase >= 3 /\ k.crossing.phase < 3 => told'.stage = 2
  /\ k'.skill = "plan_commit" /\ k' # k =>
       told'.aloft /\ k'.plan[2] = StepOf(k.landing.plan, k'.frame - k.landing.at)

\* An agent that comes to know what it is to know of a run.
LEMMA NowKnown ==
  ASSUME NEW d, NEW n, Learned(d, n), Honest(d, n), d.target \in Live(d) \cup {None},
         Warranted(d), Synced(d)', k' = d, told' = n
  PROVE  AgentInv'
  BY DEF AgentInv, Learned, Honest, Warranted, Synced

LEMMA FrameShown ==
  ASSUME GameOK, AgentInv, NEW turn \in Turns, NEW s, Staged(s), Show(turn, s)
  PROVE  AgentInv' /\ CreditedOwn /\ PhasedInOrder
<1>1. PICK g : g = Advance(turn)
  OBVIOUS
<1>2. PICK o : o = Shown(g, turn, s)
  OBVIOUS
<1>3. /\ ~game.over /\ turn \in s.turns
      /\ IF turn = "on" THEN game.dying => s.dead ELSE ~s.dead
      /\ turn = "stage" => ~game.dying
      /\ k' = Line(o) /\ Tell(o, k')
  BY <1>1, <1>2 DEF Show
<1>4. ShownAs(o, g, turn, s) /\ o.over = FALSE
  BY <1>2, Showing
<1>5. /\ g.frame = game.frame + 1 /\ g.run = game.run
      /\ g.life = IF turn = "life" THEN game.life + 1 ELSE game.life
      /\ g.place = IF turn = "stage" THEN game.place + 1 ELSE game.place
  BY <1>1, Advancing
<1>6. PICK m, t : /\ m = (IF k.run \notin {None, o.run} THEN New ELSE k)
                  /\ t = (IF k.run \in {None, o.run} THEN told ELSE Untold)
  BY Zenon
<1>7. PICK a : a = [m EXCEPT !.report = Silent]
  OBVIOUS
<1>8. Learned(m, t)
  BY <1>6, NewLearned DEF AgentInv
<1>9. Learned(a, t) /\ a.report = Silent /\ a.prev = m.prev /\ a.flight = m.flight
      /\ a.crossing = m.crossing /\ a.landing = m.landing /\ a.life = m.life
      /\ a.frame = m.frame /\ a.place = m.place
  BY <1>7, <1>8, Silenced
<1>10. a = Recall(k, o)
  BY <1>6, <1>7 DEF Recall
<1>11. /\ game.run \in Nat /\ game.life \in Nat /\ game.place \in Nat /\ game.frame \in Nat
       /\ game.dying \in BOOLEAN
  BY DEF GameOK
<1>12. /\ o.run = game.run /\ o.frame = game.frame + 1
       /\ o.life = (IF turn = "life" THEN game.life + 1 ELSE game.life)
       /\ o.place = (IF turn = "stage" THEN game.place + 1 ELSE game.place)
       /\ o.lost = (turn = "life") /\ o.moved = (turn = "stage")
       /\ o.terminal = (s.dead \/ turn # "on") /\ o.dead = s.dead
  BY <1>4, <1>5 DEF ShownAs
<1>13. /\ o.ground \in BOOLEAN /\ o.steady \in BOOLEAN /\ o.dead \in BOOLEAN
       /\ o.foes \in Seq(Enemy) /\ o.gone \in Seq(Enemy) /\ o.x \in Int
  BY <1>4 DEF ShownAs, Staged
<1>14. New.prev = Nothing
  BY DEF New
<1>15. m.prev # Nothing => m = k /\ t = told
                           /\ m.frame = game.frame /\ m.life = game.life
                           /\ m.place = game.place /\ m.prev.dead = game.dying
  <2> SUFFICES ASSUME m.prev # Nothing
               PROVE  m = k /\ t = told /\ m.frame = game.frame /\ m.life = game.life
                      /\ m.place = game.place /\ m.prev.dead = game.dying
    OBVIOUS
  <2>1. m = k /\ k.run \in {None, o.run}
    BY <1>6, <1>14
  <2>2. t = told
    BY <1>6, <2>1
  <2>3. k.run = game.run
    BY <1>12, <2>1 DEF AgentInv, Synced
  <2> QED
    BY <2>1, <2>2, <2>3 DEF AgentInv, Synced
<1>26. /\ o.lost \in BOOLEAN /\ o.moved \in BOOLEAN
       /\ o.lost <=> turn = "life"
       /\ o.moved <=> turn = "stage"
       /\ o.terminal <=> (s.dead \/ turn # "on")
  BY <1>12, Zenon
<1>16. NextFrame(a, o)
  <2>1. /\ o.frame \in Nat /\ o.life \in Nat
        /\ o.lost \in BOOLEAN /\ o.moved \in BOOLEAN
        /\ o.dead \/ o.lost \/ o.moved => o.terminal
        /\ o.lost => ~o.dead /\ ~o.moved
    <3>1. o.frame \in Nat /\ o.life \in Nat
      BY <1>11, <1>12
    <3>2. o.dead = s.dead
      BY <1>12
    <3> QED
      BY <1>3, <1>26, <3>1, <3>2
  <2>2. a.prev # Nothing =>
          /\ o.frame = a.frame + 1 /\ o.life = (IF o.lost THEN a.life + 1 ELSE a.life)
          /\ o.moved <=> o.place # a.place
    <3>1. o.frame = game.frame + 1
          /\ o.life = (IF turn = "life" THEN game.life + 1 ELSE game.life)
          /\ o.place = (IF turn = "stage" THEN game.place + 1 ELSE game.place)
      BY <1>12
    <3> QED
      BY <1>9, <1>11, <1>15, <1>26, <3>1
  <2>3. a.prev # Nothing => (a.prev.dead => o.dead \/ o.lost)
    <3>1. game.dying => s.dead \/ turn = "life"
      BY <1>3 DEF Turns
    <3>2. o.dead = s.dead
      BY <1>12
    <3> QED
      BY <1>9, <1>15, <1>26, <3>1, <3>2
  <2> QED
    BY <1>4, <1>13, <2>1, <2>2, <2>3 DEF NextFrame
<1>17. PICK d, n : d = k' /\ n = told'
  OBVIOUS
<1>18. ToldTo(n, t, o, d)
  <2>1. PICK whole, aloft, stage, steps :
          /\ whole = (d.flight.start = o.frame \/ (t.whole /\ o.steady))
          /\ aloft = (/\ ~o.ground /\ ~o.terminal
                      /\ (t.aloft /\ o.support) \/ d.landing.at = o.frame)
          /\ stage = (IF o.terminal \/ o.pair = {} THEN 0
                      ELSE IF "low" \in o.pair /\ (t.stage > 0 \/ "window" \in o.pair) THEN 2
                      ELSE IF "window" \in o.pair /\ t.stage = 0 THEN 1 ELSE t.stage)
          /\ steps = (IF (o.steady /\ ~o.lost /\ ~o.moved /\ ~o.dead) /\ o.input = t.input
                      THEN t.steps + 1 ELSE 0)
    BY Zenon
  <2>2. PICK alive, over, landings, air :
          /\ alive = (IF o.dead \/ o.lost THEN t.alive ELSE t.alive \cup {o.life})
          /\ over = (t.ended \cup (((IF o.dead THEN {o.life} ELSE {})
                                     \cup (IF o.lost THEN {o.life - 1} ELSE {})) \cap t.alive))
          /\ landings = t.landings + (IF d.report.credit = "landing" THEN 1 ELSE 0)
          /\ air = (IF o.ground THEN None ELSE IF t.air = None THEN o.frame ELSE t.air)
    BY Zenon
  <2>3. n = [alive |-> alive, ended |-> over, landings |-> landings, air |-> air,
             whole |-> whole, steps |-> steps, input |-> o.input, stage |-> stage,
             aloft |-> aloft]
    BY <1>3, <1>6, <1>17, <2>1, <2>2 DEF Tell
  <2> QED
    BY <2>1, <2>2, <2>3 DEF ToldTo
<1>19. o.terminal \in BOOLEAN
  BY <1>12
<1>20. d = Execute(Engage(Tasks(Observe(k, o), o), o), o)
  BY <1>3, <1>17 DEF Line
<1>21. /\ Learned(d, n) /\ Honest(d, n) /\ d.target \in Live(d) \cup {None} /\ Warranted(d)
       /\ Stepped(d, n, a, t)
       /\ d.run = o.run /\ d.life = o.life /\ d.place = o.place /\ d.frame = o.frame
       /\ d.prev # Nothing /\ d.prev.dead = o.dead
  BY <1>9, <1>10, <1>13, <1>16, <1>18, <1>19, <1>20, LineLearned
<1>22. Synced(d)'
  <2>1. Played(turn) /\ game'.dying = s.dead
    BY Playing
  <2>2. /\ game'.run = o.run /\ game'.frame = o.frame /\ game'.life = o.life
        /\ game'.place = o.place /\ game'.dying = o.dead
    BY <1>12, <2>1 DEF Played
  <2>3. o.run \in Nat
    BY <1>11, <1>12
  <2> QED
    BY <1>21, <2>2, <2>3 DEF Synced, None
<1>23. AgentInv'
  BY <1>17, <1>21, <1>22, NowKnown
<1>24. CreditedOwn
  BY <1>9, <1>15, <1>17, <1>21 DEF Stepped, CreditedOwn
<1>25. PhasedInOrder
  <2>1. New.crossing.phase = 0 /\ New.landing = NoLanding
    BY DEF New
  <2>2. m = k \/ m = New
    BY <1>6
  <2>3. k.crossing.phase < 3 => a.crossing.phase < 3
    BY <1>9, <2>1, <2>2
  <2>4. a.landing # NoLanding => a.landing = k.landing
    BY <1>9, <2>1, <2>2
  <2> QED
    BY <1>17, <1>21, <2>3, <2>4 DEF Stepped, PhasedInOrder
<1> QED
  BY <1>23, <1>24, <1>25

LEMMA RunLost ==
  ASSUME GameOK, AgentInv, NEW s, Staged(s), GameOver(s)
  PROVE  AgentInv' /\ CreditedOwn /\ PhasedInOrder
<1>1. PICK g : g = Advance("life")
  OBVIOUS
<1>2. PICK o : o = [Shown(g, "life", s) EXCEPT !.over = TRUE]
  OBVIOUS
<1>3. ShownAs(o, g, "life", s) /\ o.over = TRUE
  BY <1>2, Showing
<1>4. g.frame = game.frame + 1 /\ g.run = game.run
  BY <1>1, Advancing DEF Turns
<1>5. game.run \in Nat /\ game.frame \in Nat
  BY DEF GameOK
<1>6. /\ o.terminal = TRUE /\ o.lost = TRUE /\ o.frame \in Nat /\ o.x \in Int
      /\ o.run = game.run
  <2>1. /\ o.terminal = (s.dead \/ "life" # "on") /\ o.lost = ("life" = "life")
        /\ o.frame = g.frame /\ o.x = s.x /\ o.run = g.run
    BY <1>3 DEF ShownAs
  <2>2. o.terminal = TRUE /\ o.lost = TRUE
    <3>1. (s.dead \/ "life" # "on") = TRUE /\ ("life" = "life") = TRUE
      OBVIOUS
    <3> QED
      BY <2>1, <3>1
  <2>3. s.x \in Int
    BY DEF Staged
  <2> QED
    BY <1>4, <1>5, <2>1, <2>2, <2>3
<1>7. PICK b : b = [New EXCEPT !.run = o.run]
  OBVIOUS
<1>8. PICK d : d = k'
  OBVIOUS
<1>9. k' = Line(o) /\ told' = Untold /\ game' = [game EXCEPT !.over = TRUE]
  BY <1>1, <1>2 DEF GameOver
<1>10. d = Execute(Engage(Tasks(b, o), o), o)
  BY <1>3, <1>7, <1>8, <1>9 DEF Line, Observe
<1>15. PICK r : r = o.run
  OBVIOUS
<1>16. LastOf(d, r)
  BY <1>6, <1>7, <1>10, <1>15, LastLearned
<1>11. /\ Learned(d, Untold) /\ Honest(d, Untold) /\ d.target \in Live(d) \cup {None}
       /\ Warranted(d) /\ d.run = o.run /\ d.prev = Nothing
       /\ d.report.credit = "none" /\ d.crossing.phase = 0 /\ d.skill # "plan_commit"
  BY <1>15, <1>16 DEF LastOf
<1>12. Synced(d)'
  <2>1. game'.run = game.run
    BY <1>9 DEF GameOK
  <2>2. Blank(d)
    BY <1>11 DEF Learned
  <2> QED
    BY <1>5, <1>6, <1>11, <2>1, <2>2 DEF Synced
<1>13. AgentInv'
  BY <1>8, <1>9, <1>11, <1>12, NowKnown
<1>14. CreditedOwn /\ PhasedInOrder
  BY <1>8, <1>11 DEF CreditedOwn, PhasedInOrder
<1> QED
  BY <1>13, <1>14

LEMMA AgentStep ==
  ASSUME GameOK, AgentInv, PlayStep
  PROVE  AgentInv' /\ CreditedOwn /\ PhasedInOrder
<1>1. CASE \E s, turn : Staged(s) /\ turn \in Turns /\ Show(turn, s)
  BY <1>1, FrameShown
<1>2. CASE \E s : Staged(s) /\ GameOver(s)
  BY <1>2, RunLost
<1>3. PICK d, n : d = k /\ n = told
  OBVIOUS
<1>4. Learned(d, n) /\ Honest(d, n) /\ d.target \in Live(d) \cup {None} /\ Warranted(d)
      /\ Synced(d)
  BY <1>3 DEF AgentInv
<1>8. k.crossing.phase \in Int
  BY <1>3, <1>4 DEF Learned, Kinds
<1>5. CASE Restart
  <2>1. k' = d /\ told' = n
    BY <1>3, <1>5 DEF Restart
  <2>2. game.run \in Nat /\ game'.run = game.run + 1
    BY <1>5 DEF Restart, GameOK
  <2>3. Synced(d)'
    BY <1>4, <2>2 DEF Synced, None
  <2>4. AgentInv'
    BY <1>4, <2>1, <2>3, NowKnown
  <2>5. k' = k /\ told' = told
    BY <1>3, <2>1
  <2> QED
    BY <1>8, <2>4, <2>5 DEF CreditedOwn, PhasedInOrder
<1>6. CASE MemoryReset
  <2>1. PICK e : e = New
    OBVIOUS
  <2>2. k' = e /\ told' = Untold /\ game' = game
    BY <1>6, <2>1 DEF MemoryReset
  <2>3. Learned(e, Untold) /\ Honest(e, Untold) /\ Warranted(e) /\ e.target = None
        /\ e.report = Silent
    BY <2>1, NewLearned
  <2>4. e.run = None /\ e.prev = Nothing /\ e.crossing.phase = 0 /\ e.skill = "none"
    BY <2>1 DEF New
  <2>5. Synced(e)'
    <3>1. Blank(e)
      BY <2>3, <2>4 DEF Learned
    <3> QED
      BY <2>2, <2>4, <3>1 DEF Synced, GameOK, None
  <2>6. AgentInv'
    BY <2>2, <2>3, <2>5, NowKnown
  <2>7. k'.report.credit = "none" /\ k'.crossing.phase = 0 /\ k'.skill = "none"
    BY <2>2, <2>3, <2>4 DEF Silent
  <2> QED
    BY <2>6, <2>7 DEF CreditedOwn, PhasedInOrder
<1>7. CASE UNCHANGED play
  <2>1. k' = d /\ told' = n /\ game' = game /\ k' = k
    BY <1>3, <1>7 DEF play
  <2>2. Synced(d)'
    BY <1>4, <2>1 DEF Synced
  <2>3. AgentInv'
    BY <1>4, <2>1, <2>2, NowKnown
  <2> QED
    BY <1>8, <2>1, <2>3 DEF CreditedOwn, PhasedInOrder
<1> QED
  BY <1>1, <1>2, <1>5, <1>6, <1>7 DEF PlayStep

LEMMA AgentBegins == JudgedInit => JudgmentInv /\ AgentInv
<1> SUFFICES ASSUME JudgedInit PROVE JudgmentInv /\ AgentInv
  OBVIOUS
<1>1. JudgmentInv
  BY JudgedBegins
<1>2. k = New /\ told = Untold /\ game.run = 1
  BY DEF JudgedInit, AgentInit
<1>3. Learned(New, Untold) /\ Honest(New, Untold) /\ Warranted(New) /\ New.target = None
  BY NewLearned
<1>4. New.run = None /\ New.prev = Nothing
  BY DEF New
<1>5. Synced(New)
  BY <1>2, <1>3, <1>4 DEF Synced, Learned, None
<1> QED
  BY <1>1, <1>2, <1>3, <1>5 DEF AgentInv

LEMMA AgentKept ==
  JudgmentInv /\ AgentInv /\ [JudgedNext]_judgedVars =>
    JudgmentInv' /\ AgentInv' /\ CreditedOwn /\ PhasedInOrder
<1> SUFFICES ASSUME JudgmentInv, AgentInv, [JudgedNext]_judgedVars
             PROVE  JudgmentInv' /\ AgentInv' /\ CreditedOwn /\ PhasedInOrder
  OBVIOUS
<1>1. JudgmentInv' /\ PlayStep
  BY JudgedStep
<1>2. GameOK
  BY DEF JudgmentInv
<1> QED
  BY <1>1, <1>2, AgentStep

LEMMA AgentSound == AgentInv => LearningHonest /\ HuntSound
<1> SUFFICES ASSUME AgentInv PROVE LearningHonest /\ HuntSound
  OBVIOUS
<1>1. LearningHonest
  BY DEF AgentInv, Learned, Books, Honest, LearningHonest, CreditedOnce, ForecastsHonest
<1>2. HuntSound
  BY DEF AgentInv, Learned, Tracked, Warranted, HuntSound, TracksConserved, AttackSupported
<1> QED
  BY <1>1, <1>2

\* Nothing is learnt twice from one death, or from a forecast whose action was not held to
\* its end: Credit, Learn, Forecast.
THEOREM LearnsHonestly == JudgedSpec => []LearningHonest
  BY AgentBegins, AgentKept, AgentSound, PTL DEF JudgedSpec

\* Every entity that was met is tracked, confirmed or archived, one of them, and an attack
\* goes on only against one that is alive, in view and can be stomped, within its budget:
\* See, Tasks, Engage.
THEOREM HuntsSoundly == JudgedSpec => []HuntSound
  BY AgentBegins, AgentKept, AgentSound, PTL DEF JudgedSpec

\* A landing is credited to the flight that took off for it, in the frames a takeoff is
\* given: Airborne, Land, TakesOff, NotTakenOff.
THEOREM CreditsItsOwn == JudgedSpec => CreditIsOwn
<1>1. JudgmentInv /\ AgentInv /\ [JudgedNext]_judgedVars => [CreditedOwn]_agentVars
  BY AgentKept
<1> QED
  BY <1>1, AgentBegins, AgentKept, PTL DEF JudgedSpec, CreditIsOwn, CreditedOwn

\* A crossing jumps only below a hazard that was seen overhead and then down, and a landing
\* that was committed to is flown in the air, step by step: Crossing, Phased, Execute.
THEOREM GoesInOrder == JudgedSpec => PhasesInOrder
<1>1. JudgmentInv /\ AgentInv /\ [JudgedNext]_judgedVars => [PhasedInOrder]_agentVars
  BY AgentKept
<1> QED
  BY <1>1, AgentBegins, AgentKept, PTL DEF JudgedSpec, PhasesInOrder, PhasedInOrder
==============================================================================
