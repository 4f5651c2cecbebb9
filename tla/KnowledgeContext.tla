---------------------------- MODULE KnowledgeContext ----------------------------
(***************************************************************************)
(* What is read out of a knowledge_graph for a model                       *)
(* (src/include/jevt/knowledge.hpp): query(), and                          *)
(* compile_knowledge_context(), which puts as many facts beside the        *)
(* observation as the model's token budget has room for.                   *)
(*                                                                         *)
(* Both are const and see one state of the graph.  Facts are their         *)
(* versions; the text a fact is rendered to is its number of tokens, and   *)
(* the tokens of an input, counted one by one, are those of its parts.     *)
(* Priorities and the lifetime of observations are those of their ids.     *)
(* Filters, digests and the checks of the request's fields are left out.   *)
(***************************************************************************)
EXTENDS KnowledgeGraph

CONSTANTS
  Priority,  \* the priority of an id
  Life,      \* expires_at - tick, of an observation
  Cost,      \* the tokens of a version
  Prompt     \* the tokens of question, schema and observation

ASSUME ContextAssumption ==
  /\ Priority \in [Ids -> Nat] /\ Life \in [Ids -> Nat]
  /\ Cost \in [Versions -> Nat] /\ Prompt \in Nat

Expired(v, now) == Scope[v[2]] = "observation" /\ now > record[v].tick + Life[v[2]]

\* What std::stable_sort puts first.
Before(u, v) ==
  \/ Priority[u[2]] > Priority[v[2]]
  \/ /\ Priority[u[2]] = Priority[v[2]]
     /\ \/ record[u].tick > record[v].tick
        \/ record[u].tick = record[v].tick /\ <<u, v>> \in older

\* The facts of S in that order.
Ranked(S) ==
  [i \in 1..Cardinality(S) |->
     CHOOSE v \in S : Cardinality({u \in S : Before(u, v)}) = i - 1]

\* query(now, limit) of the graph as it is.
Query(now, limit) ==
  LET ranked == Ranked({v \in Current : ~Expired(v, now)})
  IN  SubSeq(ranked, 1, IF limit < Len(ranked) THEN limit ELSE Len(ranked))

TokensOf(facts) == Prompt + Cardinality(UNION {{v} \X (1..Cost[v]) : v \in facts})

\* Mutant: the first fact that does not fit ends the context.
AdmitInOrder(context, v, budget) ==
  IF context.omitted # <<>> \/ TokensOf(ToSet(context.admitted) \cup {v}) > budget
  THEN [context EXCEPT !.omitted = Append(@, v)]
  ELSE [context EXCEPT !.admitted = Append(@, v)]

\* A fact is admitted whole, or omitted and the next one is tried.
Admit(context, v, budget) ==
  IF TokensOf(ToSet(context.admitted) \cup {v}) > budget
  THEN [context EXCEPT !.omitted = Append(@, v)]
  ELSE [context EXCEPT !.admitted = Append(@, v)]

\* What is admitted and omitted after each of the facts of S.
Rounds(S, budget) ==
  LET context[i \in 0..Cardinality(S)] ==
        IF i = 0 THEN [admitted |-> <<>>, omitted |-> <<>>]
        ELSE Admit(context[i - 1], Ranked(S)[i], budget)
  IN  context

\* compile_knowledge_context over the facts of S, in any order; it throws when the
\* mandatory part alone exceeds the budget.
Compile(S, budget) == Rounds(S, budget)[Cardinality(S)]

-----------------------------------------------------------------------------
(* Properties *)

\* "Queries return owned copies of current, unexpired facts ordered by priority and
\* recency" (docs/KNOWLEDGE_API.md): a query of any tick and limit shows, of every
\* proposition, the newest value or none, and leaves out only what ranks below all
\* it shows.
QuerySound ==
  \A now \in 0..(MaxTick + 1), limit \in 1..MaxFacts :
    LET shown == ToSet(Query(now, limit))
    IN  /\ Cardinality(shown) = Len(Query(now, limit))
        /\ \A v \in shown : \A u \in SameIdentity(v) \ {v} :
             u \notin shown /\ record[u].tick <= record[v].tick
        /\ \A v \in shown, u \in stored \ shown :
             \/ u \in superseded \/ Expired(u, now)
             \/ Len(Query(now, limit)) = limit /\ Before(v, u)

\* "It admits whole facts within the budget and reports included and omitted IDs":
\* the context fits, every fact is reported once, and one is left out only if there
\* was no room for it beside those that rank before it.
ContextFits ==
  \A now \in 0..(MaxTick + 1), room \in 0..(MaxFacts * 2) :
    LET facts == ToSet(Query(now, MaxFacts))
        context == Compile(facts, Prompt + room)
        admitted == ToSet(context.admitted)
    IN  /\ TokensOf(admitted) <= Prompt + room
        /\ admitted \cup ToSet(context.omitted) = facts
        /\ Len(context.admitted \o context.omitted) = Cardinality(facts)
        /\ \A v \in ToSet(context.omitted) :
             TokensOf({u \in admitted : Before(u, v)}) + Cost[v] > Prompt + room

\* What a model is shown is current, newest first, and as much of it as fits.
ContextSound == QuerySound /\ ContextFits
=============================================================================
