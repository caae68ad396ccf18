---------------------------- MODULE RewardTracker ----------------------------
(***************************************************************************)
(* The reward tracker: which past decisions of the agents get credit for    *)
(* the edges AFL++ finds (src/src/mutation/recipe_reward_tracker.cpp), fed  *)
(* by the sampling loop and by the agent rounds of run_mvp, and read when   *)
(* the few-shot block of the next prompt is built                           *)
(* (src/src/controller/run.cpp).  Around it: the wall clock and an AFL++    *)
(* whose fuzzer_stats lags behind it and restarts from a low edge count.    *)
(* Credit is a double in the code; here every edge is worth Unit, which     *)
(* any possible number of sharers divides.                                  *)
(***************************************************************************)
EXTENDS Integers, Sequences, FiniteSets

CONSTANTS
  Decisions,          \* ids of agent decisions
  Window,             \* credit_window_sec
  Unit,               \* the credit of one edge
  K,                  \* length of the GOOD and BAD lists (5 in the code)
  MaxClock,           \* bounds: seconds and edges explored
  MaxEdges

ASSUME RewardAssumption ==
  /\ Window \in Nat
  /\ K \in Nat
  /\ Unit \in Nat \ {0}
  /\ IsFiniteSet(Decisions)
  /\ \A n \in 1 .. Cardinality(Decisions) : Unit % n = 0
  /\ MaxClock \in Nat
  /\ MaxEdges \in Nat

VARIABLES
  decisions,          \* decisions_: [id, ts, credit, applied], oldest first
  haveBaseline,       \* have_baseline_
  lastEdges,          \* last_edges_
  prompt,             \* the ids listed as good and bad in the last prompt
  clock,              \* wall-clock seconds
  file,               \* fuzzer_stats: edges_found and last_update
  climbed,            \* history: growth of edges_found, in every AFL++ anew
  paid                \* history: who was credited by a sample of which time

trackerVars == <<decisions, haveBaseline, lastEdges, paid>>
aflVars == <<file, climbed>>
vars == <<trackerVars, prompt, clock, aflVars>>

Init ==
  /\ decisions = <<>>
  /\ haveBaseline = FALSE
  /\ lastEdges = 0
  /\ prompt = [good |-> {}, bad |-> {}]
  /\ clock = 1
  /\ file = [edges |-> 0, ts |-> 1]
  /\ climbed = 0
  /\ paid = {}

Known == {decisions[i].id : i \in DOMAIN decisions}

IsNew(d) == d \notin Known

\* record_deploy: a decision is recorded once, however often it is called.
RecordDeploy(d) ==
  /\ decisions' = IF IsNew(d)
                    THEN Append(decisions, [id |-> d, ts |-> clock,
                                            credit |-> 0, applied |-> 0])
                    ELSE decisions
  /\ UNCHANGED <<haveBaseline, lastEdges, paid, prompt, clock, aflVars>>

\* The oldest deployment that may be credited at ts.
Lower(ts) == IF ts > Window THEN ts - Window ELSE 0

\* Mutant: the walk starts one short of the newest decision.
EligibleButNewest(ts) ==
  {i \in 1 .. Len(decisions) - 1 :
     \A j \in i .. Len(decisions) : decisions[j].ts >= Lower(ts)}

\* Walk back from the newest decision until one is too old.
Eligible(ts) ==
  {i \in DOMAIN decisions :
     \A j \in i .. Len(decisions) : decisions[j].ts >= Lower(ts)}

\* Mutant: everybody gets the whole delta.
WholeDelta(delta, n) == delta * Unit

Share(delta, n) == (delta * Unit) \div n

\* observe_edges(edges, ts): the first call seeds, a call without growth
\* follows the counter down, growth is shared.
Observe(edges, ts) ==
  /\ haveBaseline' = TRUE
  /\ lastEdges' = edges
  /\ IF haveBaseline /\ edges > lastEdges
       THEN LET delta == edges - lastEdges
                sharers == Eligible(ts)
                share == Share(delta, Cardinality(sharers))
            IN  /\ decisions' =
                     [i \in DOMAIN decisions |->
                        IF i \in sharers
                          THEN [decisions[i] EXCEPT !.credit = @ + share,
                                                    !.applied = @ + 1]
                          ELSE decisions[i]]
                /\ paid' = paid \cup
                     {[id |-> decisions[i].id, at |-> ts] : i \in sharers}
       ELSE UNCHANGED <<decisions, paid>>

\* process_stats: the sample carries AFL's own last_update.
Sample ==
  /\ Observe(file.edges, file.ts)
  /\ UNCHANGED <<prompt, clock, aflVars>>

-----------------------------------------------------------------------------
(* The few-shot block *)

\* The first k of S in the order in which nobody outside beats a member; ties
\* may be broken either way.
FirstOf(S, k, Beats(_, _)) ==
  {T \in SUBSET S :
     /\ Cardinality(T) = (IF Cardinality(S) < k THEN Cardinality(S) ELSE k)
     /\ \A i \in T, j \in S \ T : ~ Beats(j, i)}

Newer(i, j) == decisions[i].ts > decisions[j].ts

\* Mutant: the newest first, whatever they earned.
NewestFirst(i, j) == Newer(i, j)

MoreCredit(i, j) ==
  \/ decisions[i].credit > decisions[j].credit
  \/ decisions[i].credit = decisions[j].credit /\ Newer(i, j)

TopK(k) == FirstOf(DOMAIN decisions, k, MoreCredit)

Applied == {i \in DOMAIN decisions : decisions[i].applied > 0}

LessCredit(i, j) ==
  \/ decisions[i].credit < decisions[j].credit
  \/ decisions[i].credit = decisions[j].credit /\ Newer(i, j)

BottomK(k) == FirstOf(Applied, k, LessCredit)

Ids(I) == {decisions[i].id : i \in I}

\* format_few_shot_block: nothing is listed when no top decision has credit.
BuildPrompt ==
  /\ \E top \in TopK(K), bottom \in BottomK(K) :
       prompt' = IF top \cap Applied = {}
                   THEN [good |-> {}, bad |-> {}]
                   ELSE [good |-> Ids(top \cap Applied), bad |-> Ids(bottom)]
  /\ UNCHANGED <<trackerVars, clock, aflVars>>

-----------------------------------------------------------------------------
(* The environment *)

Tick ==
  /\ clock < MaxClock
  /\ clock' = clock + 1
  /\ UNCHANGED <<trackerVars, prompt, aflVars>>

\* AFL rewrites fuzzer_stats, with or without new edges.
AflWrites ==
  /\ file.ts < clock
  /\ \E edges \in file.edges .. MaxEdges :
       /\ file' = [edges |-> edges, ts |-> clock]
       /\ climbed' = climbed + (edges - file.edges)
  /\ UNCHANGED <<trackerVars, prompt, clock>>

\* The controller restarts AFL in a fresh directory: edges_found starts over.
AflRestarts ==
  /\ file.ts < clock
  /\ file' = [edges |-> 0, ts |-> clock]
  /\ UNCHANGED <<trackerVars, prompt, clock, climbed>>

Next ==
  \/ \E d \in Decisions : RecordDeploy(d)
  \/ Sample
  \/ BuildPrompt
  \/ Tick
  \/ AflWrites
  \/ AflRestarts

Spec == Init /\ [][Next]_vars

-----------------------------------------------------------------------------
(* Properties *)

TotalCredit ==
  LET earned[i \in 0 .. Len(decisions)] ==
        IF i = 0 THEN 0 ELSE earned[i - 1] + decisions[i].credit
  IN  earned[Len(decisions)]

DeployTs(d) == decisions[CHOOSE i \in DOMAIN decisions : decisions[i].id = d].ts

\* All credit together is no more than the growth of edges_found that AFL++
\* processes reported, through re-read statistics, missed rewrites, falls of the
\* counter, several sharers and decisions recorded by two rounds; and no growth
\* seen after "the 10 minutes after deployment" is credited.  The bound is on
\* growth and not on edges: what a restarted AFL++ replays from its corpus it
\* reports again, and the code pays for it again once the fall of the counter
\* has been seen, although "counter resets / corpus replays shouldn't credit
\* anyone".  Nor is there a bound from below: a sample older than a deployment
\* may credit it.
CreditBounded ==
  /\ TotalCredit <= Unit * climbed
  /\ \A p \in paid : p.at <= DeployTs(p.id) + Window
  /\ Cardinality(Known) = Len(decisions)

\* Growth that is sampled is credited to every decision deployed in the window
\* before the sample: the walk from the back that stops at the first decision
\* that is too old misses none.
NoOneSkipped ==
  [][haveBaseline /\ lastEdges' > lastEdges =>
       \A i \in DOMAIN decisions :
         decisions[i].ts \in file.ts - Window .. file.ts =>
           decisions'[i].credit > decisions[i].credit]_vars

\* Once a prompt shows the model what its decisions earned, every later prompt
\* does, however many new decisions without any credit have been recorded
\* since: the top of the list is never filled with them.
HistoryStays ==
  [][prompt.good # {} => prompt'.good # {}]_vars

=============================================================================
