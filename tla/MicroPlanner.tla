---------------------------- MODULE MicroPlanner ----------------------------
(***************************************************************************)
(* From the agents' proposals to micro-campaigns: plan_micro_campaigns and  *)
(* prepare_micro_campaigns (src/src/micro/manager.cpp) with the default     *)
(* interventions (src/src/interventions/default.cpp).  A plan has at most   *)
(* one spec per spiral stage and runs them by increasing stage, so it is a  *)
(* function of the stages it has.  With one spec per stage the priorities   *)
(* order nothing and are left out, as are names, hypotheses and JSON.       *)
(***************************************************************************)
EXTENDS Storage

CONSTANT Recent       \* decisions a plan looks at: 40

ASSUME PlannerAssumption == Recent \in Nat

Stages == 0 .. 3
NoId == <<>>          \* the empty intervention id
AnySeed == "any"      \* the seed of a recipe for all seeds
Fallback == {"FUZZ"}  \* the tokens used when there are none

\* infer_spiral_stage
InferStage(action) ==
  CASE action = "default_control" -> 0
    [] action = "dictionary_probe" -> 1
    [] action = "per_seed_recipe_probe" -> 3
    [] OTHER -> 2

\* representative_action_for_stage
ActionOf(stage) ==
  <<"default_control", "dictionary_probe", "seed_focus_probe",
    "per_seed_recipe_probe">>[stage + 1]

\* interventions_from_decision for the i-th decision read: proposals without
\* an action are skipped.  at is where a proposal stands.
Interventions(decision, i) ==
  LET proposals == decision.proposals
  IN  {[at |-> <<i, j>>, decision |-> decision.id, action |-> proposals[j].action,
        stage |-> proposals[j].stage, tokens |-> proposals[j].tokens,
        depends |-> proposals[j].depends] :
         j \in {k \in DOMAIN proposals : proposals[k].action # ""}}

\* The proposals of the decisions read.  (The key that is to drop duplicates
\* contains the decision's id and the position in it: there are none.)
Considered(decisions) ==
  UNION {Interventions(decisions[i], i) : i \in DOMAIN decisions}

\* The proposal that stands before the others.
First(inputs) ==
  CHOOSE p \in inputs : \A q \in inputs :
    p.at[1] < q.at[1] \/ (p.at[1] = q.at[1] /\ p.at[2] <= q.at[2])

\* Mutant: the stage is taken as it is.
StageAsGiven(p) == p.stage

\* A stage no campaign runs at is inferred anew, like a missing one.
StageOf(p) == IF p.stage \in Stages THEN p.stage ELSE InferStage(p.action)

\* Mutant: the control stage is made from its proposals like any other.
ActionOfFirst(inputs, stage) ==
  IF inputs = {} THEN ActionOf(stage) ELSE First(inputs).action

CoalescedAction(inputs, stage) == ActionOf(stage)

\* coalesce_stage_interventions: the control stage is a copy of the default
\* control, the others of their first proposal.
Coalesce(inputs, stage) ==
  [action |-> CoalescedAction(inputs, stage),
   tokens |-> UNION {p.tokens : p \in inputs},
   sources |-> {p.decision : p \in inputs},
   depends |-> IF stage = 0 THEN NoId ELSE First(inputs).depends]

\* default_v0_interventions
Defaults ==
  [s \in Stages |-> [action |-> ActionOf(s), tokens |-> {}, sources |-> {},
                     depends |-> NoId]]

\* Proposals coalesced by stage, with a control whether proposed or not.
Ladder(proposals) ==
  IF proposals = {} THEN Defaults
  ELSE [s \in Stages \cap ({0} \cup {StageOf(p) : p \in proposals}) |->
          Coalesce({p \in proposals : StageOf(p) = s}, s)]

\* A stage depends on what was proposed, or else on the nearest one below.
Linked(ladder, round) ==
  LET below(s) == {t \in DOMAIN ladder : t < s}
      nearest(s) == CHOOSE t \in below(s) : \A u \in below(s) : u <= t
  IN  [s \in DOMAIN ladder |->
         [ladder[s] EXCEPT !.depends =
            IF s = 0 THEN NoId
            ELSE IF @ # NoId THEN @ ELSE <<round, nearest(s)>>]]

\* What prepare_micro_campaigns writes to the spec's recipe store; new are the
\* tokens of the round's own decisions, seeds the files of the snapshot.
Recipes(spec, new, seeds) ==
  LET merged == spec.tokens \cup new
      tokens == IF merged = {} THEN Fallback ELSE merged
      for == CASE spec.action = "default_control" -> {}
               [] spec.action \in {"seed_focus_probe", "per_seed_recipe_probe"} -> seeds
               [] OTHER -> {AnySeed}
  IN  {[seed |-> s, tokens |-> tokens] : s \in for}

\* The specs of a round, their recipe stores filled.
Planned(proposals, round, new, seeds) ==
  LET ladder == Linked(Ladder(proposals), round)
  IN  [s \in DOMAIN ladder |->
         [action |-> ladder[s].action, tokens |-> ladder[s].tokens,
          sources |-> ladder[s].sources, depends |-> ladder[s].depends,
          recipes |-> Recipes(ladder[s], new, seeds)]]

=============================================================================
