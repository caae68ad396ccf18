----------------------------- MODULE MicroRound -----------------------------
(***************************************************************************)
(* A run's rounds of micro-campaigns and what becomes of the corpus: the    *)
(* inline spiral of trigger_inline_agent, the restart of the main AFL++ and *)
(* the final round of run_mvp (src/src/controller/run.cpp), with the corpus *)
(* snapshots (src/src/micro/manager.cpp), the planner, the rewards and the  *)
(* rows of the database.  WinnerSelection collects the results; its phases  *)
(* inline and final are this module's.                                      *)
(* A queue is the set of seeds it has files of.  An AFL++ keeps every file  *)
(* of its input directory.  A step writes to the database at most once, so  *)
(* that every state is one a crash may leave behind; copying files may lose *)
(* any of them without a word, and any call of a round may throw.           *)
(***************************************************************************)
EXTENDS WinnerSelection, MicroPlanner

CONSTANTS
  Seeds,              \* seeds there are; each reaches an edge of its own
  FirstSeeds,         \* the seeds of target.input_dir
  Answers,            \* what the agents of a round may answer
  EdgeWeight,         \* the reward of an edge
  Extras,             \* what crashes and recipe counts may add to a reward
  MaxRounds,          \* bounds: inline rounds,
  MaxOdd              \* failures of any kind and rewards with an extra

ASSUME RoundAssumption ==
  /\ FirstSeeds \subseteq Seeds /\ FirstSeeds # {}
  /\ IsFiniteSet(Seeds)
  /\ EdgeWeight \in Nat
  /\ Extras \subseteq Int
  /\ \A answer \in Answers : IsFiniteSet(DOMAIN answer)
  /\ {MaxRounds, MaxOdd} \subseteq Nat

VARIABLES
  pc,                 \* where the controller is
  rewardMode,         \* options.reward_mode
  round,              \* rounds of micro-campaigns begun
  mainUp,             \* the main AFL++ is running
  queue,              \* the queue under active_main_output_dir
  answer,             \* decisions: what the agents of the round answered
  unsaved,            \* the decisions, then the interventions, not yet saved
  snapshot,           \* the snapshot of the round
  specs,              \* the specs of the round
  todo,               \* the stages not over yet
  launched,           \* stages of the final round whose process was spawned
  work,               \* the queue of the stage under way, first its input
  previous,           \* previous_spiral_queue
  decisions,          \* table agent_decisions
  interventions,      \* table interventions
  campaigns,          \* table campaigns, the micro-campaigns
  rows,               \* table micro_results
  ids,                \* the campaign ids of WinnerSelection's campaigns
  saved,              \* results of the final report already written
  odd,                \* bounded: failures and extras so far
  considered,         \* history: the proposals the specs were made from,
  found,              \* seeds the queues of the round's stages added,
  kept,               \* seeds the main AFL++ had or a result was counted for,
  lost                \* and those of them an accident has taken since

corpusVars == <<mainUp, queue, kept, lost>>
planVars == <<answer, unsaved, snapshot, specs, considered>>
spiralVars == <<todo, work, previous, found>>
tableVars == <<decisions, interventions, campaigns, rows>>
vars == <<pc, rewardMode, round, launched, ids, saved, odd, corpusVars,
          planVars, spiralVars, tableVars, selectionVars>>

Id(stage) == <<round, stage>>
Lowest(stages) == CHOOSE s \in stages : \A t \in stages : s <= t

Init ==
  /\ SelectionInit
  /\ pc = "sampling"
  /\ rewardMode \in {"edges_only", "edge_weighted"}
  /\ round = 0 /\ odd = 0
  /\ mainUp = TRUE
  /\ queue = FirstSeeds /\ kept = FirstSeeds /\ lost = {}
  /\ answer = <<>> /\ unsaved = {} /\ snapshot = {}
  /\ specs = <<>> /\ todo = {} /\ work = {} /\ previous = {}
  /\ considered = {} /\ found = {}
  /\ decisions = {} /\ interventions = {} /\ campaigns = {} /\ rows = {}
  /\ launched = {} /\ ids = <<>> /\ saved = 0

\* What belongs to an intervention goes out of scope with it.
OutOfScope ==
  /\ answer' = <<>> /\ unsaved' = {} /\ snapshot' = {}
  /\ specs' = <<>> /\ todo' = {} /\ work' = {} /\ previous' = {}
  /\ considered' = {} /\ found' = {}

-----------------------------------------------------------------------------
(* The parts a round is made of *)

\* One more failure or extra.
Odd == odd < MaxOdd /\ odd' = odd + 1
OddIf(strange) == IF strange THEN Odd ELSE UNCHANGED odd

\* What snapshot_corpus may leave out of a queue, and merge_micro_queue_to_main
\* too: files that are too large, cannot be read or copied, or come after the
\* first kMaxSnapshotFiles.  A snapshot with no file at all throws.
SkippedBySnapshot(q) == (SUBSET q) \ {q}
SkippedByMerge(q) == SUBSET q

\* What is in the queue once more is not lost any more.
Losing(seeds) == lost' = (lost \cup seeds) \ queue'

\* Mutant: the micro-campaigns' queues are not merged into the main one.
NotMerged(main, files) == main

\* merge_micro_queue_to_main
Merged(main, files) == main \cup files

\* Mutant: the main AFL++ restarts from the snapshot of before the spiral.
OldSnapshot(main) == snapshot

RestartInput(main) == main

\* A campaign on the queue q leaves it with a seed it did not have, or as it was.
AfterCampaign(q) == {q} \cup {q \cup {s} : s \in Seeds \ q}

\* evaluate_micro_result against a parent that has nothing; extra is what
\* crashes and recipe counts add.
RewardOn(q, extra) ==
  EdgeWeight * Cardinality(q) + IF rewardMode = "edges_only" THEN 0 ELSE extra

\* The extra of a campaign.
Extra(x) == (x # 0 => rewardMode = "edge_weighted") /\ OddIf(x # 0)

TokensOf(decided) ==
  UNION {UNION {decided[i].proposals[j].tokens : j \in DOMAIN decided[i].proposals} :
           i \in DOMAIN decided}

\* persist_agent_decision
WithDecision(i) ==
  InsertOrReplace(decisions, {DecisionRow(<<round, i>>, round, answer[i])})

\* Mutant: interventions are saved only when agents proposed them.
SavedIfProposed(stage) ==
  IF considered = {} THEN interventions
  ELSE InsertOrReplace(interventions, {InterventionRow(Id(stage), specs[stage].tokens)})

\* insert_intervention
WithIntervention(stage) ==
  InsertOrReplace(interventions, {InterventionRow(Id(stage), specs[stage].tokens)})

\* plan_micro_campaigns and prepare_micro_campaigns on the snapshot; what is
\* planned is saved next.
Planning ==
  \E read \in RecentAgentDecisions(decisions, Recent) :
    LET proposals == Considered(read)
        whole == \A other \in RecentAgentDecisions(decisions, Recent) : Len(other) <= Len(read)
    IN  /\ OddIf(~ whole)
        /\ specs' = Planned(proposals, round, TokensOf(answer), snapshot)
        /\ todo' = DOMAIN specs'
        /\ unsaved' = DOMAIN specs'
        /\ considered' = proposals
        /\ pc' = "planning"

-----------------------------------------------------------------------------
(* Sampling, and the agents' part of a round *)

\* The main AFL++ goes on while the agents think.
MainFinds ==
  /\ pc \in {"sampling", "agents", "plan", "planning"}
  /\ mainUp
  /\ queue' \in AfterCampaign(queue) \ {queue}
  /\ kept' = kept \cup queue'
  /\ Losing({})
  /\ UNCHANGED <<pc, rewardMode, round, launched, ids, saved, odd, mainUp,
                 planVars, spiralVars, tableVars, selectionVars>>

InlineAgents(reply) ==
  /\ pc = "sampling"
  /\ round < MaxRounds
  /\ round' = round + 1
  /\ answer' = reply
  /\ unsaved' = DOMAIN reply
  /\ pc' = "agents"
  /\ UNCHANGED <<rewardMode, launched, ids, saved, odd, corpusVars, snapshot,
                 specs, considered, spiralVars, tableVars, selectionVars>>

\* The decisions of a round are saved one after the other.
SaveDecision ==
  /\ pc \in {"agents", "finalAgents"}
  /\ unsaved # {}
  /\ decisions' = WithDecision(Lowest(unsaved))
  /\ unsaved' = unsaved \ {Lowest(unsaved)}
  /\ UNCHANGED <<pc, rewardMode, round, launched, ids, saved, odd, corpusVars,
                 answer, snapshot, specs, considered, spiralVars,
                 interventions, campaigns, rows, selectionVars>>

\* Without a decision, or when the snapshot throws, there is no spiral.
InlineSnapshot ==
  /\ pc = "agents"
  /\ unsaved = {}
  /\ \/ \E skipped \in SkippedBySnapshot(queue) :
          /\ answer # <<>>
          /\ snapshot' = queue \ skipped
          /\ OddIf(skipped # {})
          /\ pc' = "plan"
          /\ UNCHANGED <<answer, unsaved, specs, considered, spiralVars>>
     \/ /\ OddIf(answer # <<>> /\ queue # {})
        /\ pc' = "sampling"
        /\ OutOfScope
  /\ UNCHANGED <<rewardMode, round, launched, ids, saved, corpusVars,
                 tableVars, selectionVars>>

PlanInline ==
  /\ pc = "plan"
  /\ Planning
  /\ UNCHANGED <<rewardMode, round, launched, ids, saved, corpusVars, answer,
                 snapshot, work, previous, found, tableVars, selectionVars>>

\* The interventions of a plan are saved one after the other.
SaveIntervention ==
  /\ pc = "planning"
  /\ unsaved # {}
  /\ interventions' = WithIntervention(Lowest(unsaved))
  /\ unsaved' = unsaved \ {Lowest(unsaved)}
  /\ UNCHANGED <<pc, rewardMode, round, launched, ids, saved, odd, corpusVars,
                 answer, snapshot, specs, considered, spiralVars,
                 decisions, campaigns, rows, selectionVars>>

\* The main AFL++ is stopped and the campaigns may start.
StopMain ==
  /\ pc = "planning"
  /\ unsaved = {}
  /\ mainUp' = FALSE
  /\ pc' = IF phase = "inline" THEN "spiral" ELSE "spawn"
  /\ UNCHANGED <<rewardMode, round, launched, ids, saved, odd, queue, kept, lost,
                 planVars, spiralVars, tableVars, selectionVars>>

-----------------------------------------------------------------------------
(* The spiral *)

\* The next stage is recorded,
RecordStage ==
  /\ pc = "spiral"
  /\ todo # {}
  /\ campaigns' = InsertCampaign(campaigns, Id(Lowest(todo)), "micro_inline",
                                 Id(Lowest(todo)))
  /\ pc' = "launch"
  /\ UNCHANGED <<rewardMode, round, launched, ids, saved, odd, corpusVars,
                 planVars, spiralVars, decisions, interventions, rows,
                 selectionVars>>

\* Mutant: every stage starts from the snapshot.
InputAlwaysSnapshot == snapshot

\* The queue of the last stage that left one, or the snapshot.
StageInput == IF previous = {} THEN snapshot ELSE previous

\* and launched.
LaunchStage ==
  /\ pc = "launch"
  /\ work' = StageInput
  /\ pc' = "stage"
  /\ UNCHANGED <<rewardMode, round, launched, ids, saved, odd, corpusVars,
                 planVars, todo, previous, found, tableVars, selectionVars>>

\* It cannot be spawned, or ends without readable statistics.
StageFails ==
  /\ pc \in {"launch", "stage"}
  /\ campaigns' = FinishCampaign(campaigns, Id(Lowest(todo)), "failed")
  /\ todo' = todo \ {Lowest(todo)}
  /\ Odd
  /\ pc' = "spiral"
  /\ UNCHANGED <<rewardMode, round, launched, ids, saved, corpusVars, planVars,
                 work, previous, found, decisions, interventions, rows,
                 selectionVars>>

\* Readable statistics: the row of the campaign is closed,
StageEnds ==
  /\ pc = "stage"
  /\ work' \in AfterCampaign(work)
  /\ campaigns' = FinishCampaign(campaigns, Id(Lowest(todo)), "completed")
  /\ pc' = "result"
  /\ UNCHANGED <<rewardMode, round, launched, ids, saved, odd, corpusVars,
                 planVars, todo, previous, found, decisions, interventions,
                 rows, selectionVars>>

\* the result is saved and counts from now on,
StageResult ==
  /\ pc = "result"
  /\ LET id == Id(Lowest(todo))
         arm == IF Lowest(todo) = 0 THEN "default_control" ELSE "probe"
     IN  \E x \in Extras :
           /\ Extra(x)
           /\ rows' = InsertMicroResult(rows, id, id, RewardOn(work, x), FALSE)
           /\ InlineResult(arm, RewardOn(work, x))
           /\ ids' = Append(ids, id)
  /\ kept' = kept \cup work
  /\ pc' = "merge"
  /\ UNCHANGED <<rewardMode, round, launched, saved, mainUp, queue, lost,
                 planVars, spiralVars, decisions, interventions, campaigns>>

\* and the queue, unless it is missing, is merged into the main one and handed
\* to the next stage.
MergeStage ==
  /\ pc = "merge"
  /\ \E skipped \in SkippedByMerge(work) :
       /\ queue' = Merged(queue, work \ skipped)
       /\ Losing(skipped)
       /\ \/ /\ OddIf(skipped # {})
             /\ previous' = work
             /\ found' = found \cup (work \ snapshot)
          \/ /\ skipped = work /\ Odd
             /\ UNCHANGED <<previous, found>>
  /\ todo' = todo \ {Lowest(todo)}
  /\ pc' = "spiral"
  /\ UNCHANGED <<rewardMode, round, launched, ids, saved, mainUp, kept, planVars,
                 work, tableVars, selectionVars>>

\* An exception ends the intervention where it is; nothing is restarted.
Interrupted ==
  /\ phase = "inline"
  /\ pc \in {"agents", "plan", "planning", "spiral", "launch", "stage", "result", "merge"}
  /\ lost' = IF pc = "merge" THEN (lost \cup work) \ queue ELSE lost
  /\ pc' = "sampling"
  /\ Odd
  /\ OutOfScope
  /\ UNCHANGED <<rewardMode, round, launched, ids, saved, mainUp, queue, kept,
                 tableVars, selectionVars>>

\* A fresh main AFL++ on a snapshot of the merged queue; without one it starts
\* from target.input_dir again.
Restart ==
  /\ pc = "spiral"
  /\ todo = {}
  /\ \/ \E skipped \in SkippedBySnapshot(queue) :
          /\ queue' = RestartInput(queue) \ skipped
          /\ Losing(skipped)
          /\ OddIf(skipped # {})
     \/ /\ queue' = FirstSeeds
        /\ Losing(queue)
        /\ Odd
  /\ mainUp' = TRUE
  /\ pc' = "sampling"
  /\ OutOfScope
  /\ UNCHANGED <<rewardMode, round, launched, ids, saved, kept, tableVars,
                 selectionVars>>

\* The restart exits at once, its own queue still empty, or does not start and
\* the former directory stays the active one: the loop ends.
RestartFails ==
  /\ pc = "spiral"
  /\ todo = {}
  /\ queue' \in {{}, queue}
  /\ Losing(queue)
  /\ pc' = "stopping"
  /\ Odd
  /\ OutOfScope
  /\ UNCHANGED <<rewardMode, round, launched, ids, saved, mainUp, kept,
                 tableVars, selectionVars>>

-----------------------------------------------------------------------------
(* The final round *)

\* The main AFL++ is stopped and its corpus copied.
FinalSnapshot ==
  /\ pc \in {"sampling", "stopping"}
  /\ \E skipped \in SkippedBySnapshot(queue) :
       /\ snapshot' = queue \ skipped
       /\ lost' = lost \cup skipped
       /\ OddIf(skipped # {})
  /\ mainUp' = FALSE
  /\ round' = round + 1
  /\ pc' = "snapshot"
  /\ UNCHANGED <<rewardMode, launched, ids, saved, queue, kept, answer, unsaved,
                 specs, considered, spiralVars, tableVars, selectionVars>>

\* There is nothing to copy, or a call throws: nobody catches it here.
Throws ==
  /\ \/ pc \in {"sampling", "stopping"} /\ queue = {} /\ UNCHANGED odd
     \/ pc \in {"stopping", "snapshot", "finalAgents", "spawn", "await", "save", "close"} /\ Odd
     \/ pc = "planning" /\ phase = "final" /\ Odd
  /\ pc' = "threw"
  /\ UNCHANGED <<rewardMode, round, launched, ids, saved, corpusVars, planVars,
                 spiralVars, tableVars, selectionVars>>

FinalAgents(reply) ==
  /\ pc = "snapshot"
  /\ answer' = reply
  /\ unsaved' = DOMAIN reply
  /\ pc' = "finalAgents"
  /\ UNCHANGED <<rewardMode, round, launched, ids, saved, odd, corpusVars,
                 snapshot, specs, considered, spiralVars, tableVars,
                 selectionVars>>

PlanFinalRound ==
  /\ pc = "finalAgents"
  /\ unsaved = {}
  /\ Planning
  /\ PlanFinal(Cardinality(todo') - 1)
  /\ UNCHANGED <<rewardMode, round, launched, ids, saved, corpusVars, answer,
                 snapshot, work, previous, found, tableVars>>

\* Loop 1: every stage is recorded and launched on the snapshot.
SpawnFinal ==
  /\ pc = "spawn"
  /\ LET stage == Lowest(todo)
     IN  /\ campaigns' = InsertCampaign(campaigns, Id(stage), "micro", Id(stage))
         /\ \/ launched' = launched \cup {stage} /\ UNCHANGED odd
            \/ Odd /\ UNCHANGED launched
         /\ ids' = Append(ids, Id(stage))
         /\ todo' = todo \ {stage}
         /\ pc' = IF todo' = {} THEN "await" ELSE pc
  /\ UNCHANGED <<rewardMode, round, saved, corpusVars, planVars, work, previous,
                 found, decisions, interventions, rows, selectionVars>>

\* Loop 2, one campaign after the other.
AwaitFinal ==
  /\ pc = "await"
  /\ Pending
  /\ LET id == ids[NextFinal]
     IN  \/ /\ id[2] \in launched
            /\ \E q \in AfterCampaign(snapshot), x \in Extras :
                 Extra(x) /\ FinalResult(RewardOn(q, x))
            /\ UNCHANGED campaigns
         \/ /\ FinalFails
            /\ OddIf(id[2] \in launched)
            /\ campaigns' = FinishCampaign(campaigns, id, "failed")
  /\ UNCHANGED <<pc, rewardMode, round, launched, ids, saved, corpusVars,
                 planVars, spiralVars, decisions, interventions, rows>>

Select ==
  /\ pc = "await"
  /\ Decide
  /\ pc' = "save"
  /\ UNCHANGED <<rewardMode, round, launched, ids, saved, odd, corpusVars,
                 planVars, spiralVars, tableVars>>

\* Mutant: a second row for a result that has one.
FreshRow(i) == <<0, results[i].campaign>>

\* result.id; the rows written inline are replaced.
RowOf(i) == ids[results[i].campaign]

\* The rows of all results, inline ones included, are written again with the
\* winner marked,
SaveResult ==
  /\ pc = "save"
  /\ saved < Len(results)
  /\ saved' = saved + 1
  /\ LET result == results[saved']
     IN  rows' = InsertMicroResult(rows, RowOf(saved'), ids[result.campaign],
                                   result.reward, result.campaign = winner)
  /\ pc' = "close"
  /\ UNCHANGED <<rewardMode, round, launched, ids, odd, corpusVars, planVars,
                 spiralVars, decisions, interventions, campaigns, selectionVars>>

\* and their campaigns closed.
CloseSaved ==
  /\ pc = "close"
  /\ LET c == results[saved].campaign
     IN  campaigns' = IF c \in failed THEN campaigns
                      ELSE FinishCampaign(campaigns, ids[c], "completed")
  /\ pc' = "save"
  /\ UNCHANGED <<rewardMode, round, launched, ids, saved, odd, corpusVars,
                 planVars, spiralVars, decisions, interventions, rows,
                 selectionVars>>

Ended ==
  /\ pc = "threw" \/ (pc = "save" /\ saved = Len(results))
  /\ UNCHANGED vars

Next ==
  \/ MainFinds
  \/ \E reply \in Answers : InlineAgents(reply) \/ FinalAgents(reply)
  \/ SaveDecision \/ InlineSnapshot \/ PlanInline \/ SaveIntervention \/ StopMain
  \/ RecordStage \/ LaunchStage \/ StageFails
  \/ StageEnds \/ StageResult \/ MergeStage
  \/ Interrupted \/ Restart \/ RestartFails
  \/ FinalSnapshot \/ Throws \/ PlanFinalRound
  \/ SpawnFinal \/ AwaitFinal \/ Select \/ SaveResult \/ CloseSaved
  \/ Ended

Spec == Init /\ [][Next]_vars

-----------------------------------------------------------------------------
(* Properties *)

\* Every proposal a round took from the database reaches a campaign of it,
\* whatever action and stage the model gave it, and the plan has no token and
\* no source of any other origin: "every useful agent contribution traceable".
ProposalsTraced ==
  /\ \A p \in considered : \E s \in DOMAIN specs :
       p.tokens \subseteq specs[s].tokens /\ p.decision \in specs[s].sources
  /\ \A s \in DOMAIN specs :
       /\ specs[s].tokens \subseteq UNION {p.tokens : p \in considered}
       /\ specs[s].sources \subseteq {d.id : d \in decisions}

\* The control arm of every round runs plain AFL++: its recipe store stays
\* empty whatever the agents propose for its stage, and a probe's never does.
ControlRunsNoRecipe ==
  \A s \in DOMAIN specs : specs[s].recipes = {} <=> s = 0

\* "Each successful stage's queue becomes the next stage's input corpus": a
\* stage of the spiral starts with the snapshot and everything the stages
\* before it left in their queues, also when stages in between failed and
\* when merging their queues into the main one lost files.
SpiralClimbs == pc = "stage" => work = snapshot \cup found

\* Only accidents take a seed from the corpus: what the main AFL++ ever had
\* and what a stage of the spiral was rewarded for is in the active queue, or
\* just about to be merged into it, unless a file was skipped by a merge or a
\* snapshot, a restart failed or fell back to target.input_dir, or an
\* exception came between a result and its merge.  Stopping, merging and
\* restarting AFL++ lose nothing else, in any order.
SeedsSurvive ==
  kept \subseteq queue \cup lost \cup (IF pc = "merge" THEN work ELSE {})

\* By coverage alone a campaign of the spiral leads the final control by no
\* more than the seeds that accidents took from the corpus after it: its finds
\* are what the final control starts from.
LeadIsLoss ==
  phase = "decided" /\ rewardMode = "edges_only" /\ ControlIds \cap failed = {} =>
    \A c \in Finished \cap (1 .. inlined) :
      RewardOf(c) - Baseline <= EdgeWeight * Cardinality(lost)

\* The decision trail holds together after every single write, so a crash
\* anywhere leaves it readable: a campaign has its intervention, a result its
\* campaign, and that one did not fail; there is one result per campaign and
\* no other than the winner is marked as promoted.
RowsTraceable ==
  /\ \A c \in campaigns : \E i \in interventions : i.id = c.intervention
  /\ \A r \in rows :
       /\ \E c \in campaigns : c.id = r.campaign /\ c.status # "failed"
       /\ \A other \in rows : other.campaign = r.campaign => other = r
       /\ r.promoted => winner # 0 /\ r.campaign = ids[winner]

=============================================================================
