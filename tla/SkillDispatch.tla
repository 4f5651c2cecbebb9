---------------------------- MODULE SkillDispatch ----------------------------
(***************************************************************************)
(* The arbiter of skill.hpp in front of SkillRuntime, the way              *)
(* docs/SKILLS.md has an adapter use it: sources propose actions for the   *)
(* snapshot they saw, the adapter counts the versions of its facts and of  *)
(* its candidates, arbitrates over what has been proposed, for a snapshot  *)
(* that may be behind the frames some sources have seen, and starts an     *)
(* attempt of what was selected.  arbitrate() keeps nothing from one call  *)
(* to the next, so the first attempt only is started through it here.      *)
(***************************************************************************)
EXTENDS SkillRuntime, SkillArbitration

CONSTANTS
  Offers,      \* what may be proposed: proposals without their provenance
  MaxOffers,   \* bound: proposals at one time
  MaxBehind,   \* bound: how many frames the adapter's snapshot may be behind
  MaxVersion   \* bound: how often facts or candidates change

ASSUME DispatchAssumption ==
  /\ Offers \subseteq [valid : BOOLEAN, max_age : Nat, priority : Int, utility : Int,
                       emergency : BOOLEAN, conditions : SUBSET Truth]
  /\ MaxOffers \in Nat /\ MaxBehind \in Nat /\ MaxVersion \in Nat

VARIABLES
  versions,    \* the adapter's context_version and candidates_version
  behind,      \* the frames that passed since the one in the adapter's snapshot
  proposals,   \* with their provenance, and history: frames since, and whether a run,
               \* the facts or the candidates have changed since
  selected     \* what arbitrate() returned: the index of a proposal, 0 for no action

dispatch == <<versions, behind, proposals, selected>>
dispatchVars == <<allvars, dispatch>>

NotYet == -1
NoVersions == [context |-> 0, candidates |-> 0]

DispatchInit ==
  /\ RuntimeInit
  /\ versions = NoVersions /\ behind = 0 /\ proposals = <<>> /\ selected = NotYet

Snapshot == [run |-> run, frame |-> frames[run],
             context |-> versions.context, candidates |-> versions.candidates]

\* The snapshot the adapter arbitrates for: a source may know a newer frame.
Basis == [Snapshot EXCEPT !.frame = @ - behind]

\* Provenance is captured when inference starts.
Propose(o) ==
  /\ used = {} /\ selected = NotYet /\ Len(proposals) < MaxOffers
  /\ proposals' = Append(proposals,
       [valid |-> o.valid, max_age |-> o.max_age, priority |-> o.priority,
        utility |-> o.utility, emergency |-> o.emergency, conditions |-> o.conditions,
        at |-> Snapshot, age |-> 0, replaced |-> FALSE])
  /\ UNCHANGED <<allvars, versions, behind, selected>>

Aged == [i \in DOMAIN proposals |-> [proposals[i] EXCEPT !.age = @ + 1]]
Replaced == [i \in DOMAIN proposals |-> [proposals[i] EXCEPT !.replaced = TRUE]]

\* Relevant facts change, or the candidates are replaced.
Changes(version) ==
  /\ used = {} /\ versions[version] < MaxVersion
  /\ versions' = [versions EXCEPT ![version] = @ + 1]
  /\ proposals' = Replaced
  /\ UNCHANGED <<allvars, behind, selected>>

Decide ==
  /\ used = {} /\ proposals # <<>> /\ selected = NotYet
  /\ selected' = Arbitrate(Basis, proposals)
  /\ UNCHANGED <<allvars, versions, behind, proposals>>

\* The adapter starts what was selected, or does nothing.
Dispatch ==
  /\ selected # NotYet
  /\ IF selected = 0 THEN UNCHANGED allvars
     ELSE /\ \E a \in Attempts, initiation \in SUBSET Truth : Start(a, initiation)
          /\ UNCHANGED <<memory, ended>>
  /\ versions' = NoVersions /\ behind' = 0 /\ proposals' = <<>> /\ selected' = NotYet

\* A frame passes, and the adapter's snapshot is of it or stays behind; or a run begins.
World ==
  /\ used = {}
  /\ \/ /\ Frame /\ proposals' = Aged
        /\ \/ behind' = 0
           \/ behind < MaxBehind /\ behind' = behind + 1
     \/ NewRun /\ proposals' = Replaced /\ behind' = 0
  /\ UNCHANGED <<memory, ended, versions, selected>>

DispatchNext ==
  \/ (\E o \in Offers : Propose(o)) \/ (\E v \in DOMAIN versions : Changes(v))
  \/ Decide \/ Dispatch \/ World
  \/ /\ used # {} /\ RuntimeNext /\ UNCHANGED dispatch

DispatchSpec == DispatchInit /\ [][DispatchNext]_dispatchVars

-----------------------------------------------------------------------------
(* Properties *)

\* What may be executed: well formed, every condition known to hold, made for a frame
\* that the adapter knows and that is no older for it than the proposal allows, and
\* nothing it rests on has changed since.
Admitted(p) ==
  /\ p.valid /\ p.conditions \subseteq {"true"} /\ ~p.replaced
  /\ p.age >= behind /\ p.age - behind <= p.max_age

\* How a proposal stands, an emergency below every regular one.
Standing(p) == <<IF p.emergency THEN 0 ELSE 1, p.priority, p.utility>>
Above(s, t) ==
  \/ s[1] > t[1]
  \/ s[1] = t[1] /\ s[2] > t[2]
  \/ s[1] = t[1] /\ s[2] = t[2] /\ s[3] > t[3]

\* "Admission precedes ranking", "Emergency proposals are considered only when no regular
\* proposal is admitted" (docs/SKILLS.md): whatever happened between a proposal and the
\* decision, the one selected is admitted, none admitted stands above it and none that
\* stands equal came before it; no action means that none was admitted.
Arbitration ==
  [][selected' # NotYet /\ selected = NotYet =>
       LET admitted == {i \in DOMAIN proposals : Admitted(proposals[i])}
           S(i) == Standing(proposals[i])
       IN  IF selected' = 0 THEN admitted = {}
           ELSE /\ selected' \in admitted
                /\ \A i \in admitted : /\ ~Above(S(i), S(selected'))
                                       /\ S(i) = S(selected') => i >= selected']_dispatchVars
=============================================================================
