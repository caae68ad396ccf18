--------------------------- MODULE WinnerSelection ---------------------------
(***************************************************************************)
(* Which micro-campaign is promoted: the results collected inline and after *)
(* the sampling loop (src/src/controller/run.cpp) and the comparison with   *)
(* the control arm, select_micro_winner_against_control                     *)
(* (src/src/micro/evaluator.cpp).  Rewards are integers here; abs_margin is *)
(* AbsMargin and rel_margin is 1 / RelParts.  MicroRound says which results *)
(* there are and when they come.                                            *)
(***************************************************************************)
EXTENDS Integers, Sequences

CONSTANTS
  AbsMargin,          \* abs_margin
  RelParts            \* 1 / rel_margin

ASSUME SelectionAssumption ==
  /\ AbsMargin \in Nat
  /\ RelParts \in Nat \ {0}

VARIABLES
  phase,              \* inline, final or decided
  arms,               \* arms[c]: what campaign c runs, inline campaigns first
  inlined,            \* how many campaigns were inline
  settled,            \* final campaigns handled by Loop 2
  results,            \* micro_results: [campaign, reward]
  failed,             \* failed_micro_campaigns
  winner,             \* summary.winner_campaign_id; 0 for none
  status              \* summary.winner_status

selectionVars == <<phase, arms, inlined, settled, results, failed, winner, status>>

SelectionInit ==
  /\ phase = "inline"
  /\ arms = <<>>
  /\ inlined = 0
  /\ settled = 0
  /\ results = <<>>
  /\ failed = {}
  /\ winner = 0
  /\ status = "no_candidates"

-----------------------------------------------------------------------------
(* select_micro_winner_against_control *)

Abs(x) == IF x < 0 THEN - x ELSE x
Larger(a, b) == IF a >= b THEN a ELSE b

\* gain > max(abs_margin, |base| * rel_margin)
Exceeds(gain, base) == RelParts * gain > Larger(RelParts * AbsMargin, Abs(base))

\* action_by_campaign: built from the final specs only.
ControlIds == {c \in inlined + 1 .. Len(arms) : arms[c] = "default_control"}

Valid(rs) == {i \in DOMAIN rs : rs[i].campaign \notin failed}
Controls(rs) == {i \in Valid(rs) : rs[i].campaign \in ControlIds}

\* The best control reward; 0 when there is no control.
ControlReward(rs) ==
  LET best == {i \in Controls(rs) :
                 \A j \in Controls(rs) : rs[j].reward <= rs[i].reward}
  IN  IF best = {} THEN 0 ELSE rs[CHOOSE i \in best : TRUE].reward

\* Mutant: the former best is forgotten when it is beaten.
BeatenForgotten(best, second) == second

\* The runner-up when a new best is found; best.index is 0 before the first.
Beaten(best, second) ==
  IF best.index = 0 THEN second ELSE Larger(second, best.reward)

\* The single pass over the results: the best candidate and the runner-up.
Scan(rs) ==
  LET scan[i \in 0 .. Len(rs)] ==
        IF i = 0
          THEN [best |-> [index |-> 0, reward |-> 0], second |-> ControlReward(rs)]
        ELSE LET before == scan[i - 1]
                 r == rs[i].reward
             IN  IF i \notin Valid(rs) \ Controls(rs) THEN before
                 ELSE IF before.best.index = 0 \/ r > before.best.reward
                   THEN [best |-> [index |-> i, reward |-> r],
                         second |-> Beaten(before.best, before.second)]
                   ELSE [before EXCEPT !.second = Larger(@, r)]
  IN  scan[Len(rs)]

\* The position of the winner in rs; 0 when nobody is selected.
Selected(rs) ==
  LET s == Scan(rs)
      control == ControlReward(rs)
  IN  IF /\ s.best.index # 0
         /\ Exceeds(s.best.reward - control, control)
         /\ Exceeds(s.best.reward - s.second, s.best.reward)
        THEN s.best.index
        ELSE 0

-----------------------------------------------------------------------------
(* Collecting the results *)

\* An inline campaign ends with readable statistics.  (One that fails is not
\* remembered anywhere but in the database.)
InlineResult(arm, r) ==
  /\ phase = "inline"
  /\ arms' = Append(arms, arm)
  /\ inlined' = inlined + 1
  /\ results' = Append(results, [campaign |-> Len(arms'), reward |-> r])
  /\ UNCHANGED <<phase, settled, failed, winner, status>>

\* plan_micro_campaigns of the final round: a control arm and n probes.
PlanFinal(n) ==
  /\ phase = "inline"
  /\ phase' = "final"
  /\ arms' = arms \o <<"default_control">> \o [i \in 1 .. n |-> "probe"]
  /\ UNCHANGED <<inlined, settled, results, failed, winner, status>>

Pending == inlined + settled < Len(arms)
NextFinal == inlined + settled + 1

\* Loop 2 finds readable statistics.
FinalResult(r) ==
  /\ phase = "final"
  /\ Pending
  /\ results' = Append(results, [campaign |-> NextFinal, reward |-> r])
  /\ settled' = settled + 1
  /\ UNCHANGED <<phase, arms, inlined, failed, winner, status>>

\* The process did not start, or its statistics are unreadable.
FinalFails ==
  /\ phase = "final"
  /\ Pending
  /\ failed' = failed \cup {NextFinal}
  /\ settled' = settled + 1
  /\ UNCHANGED <<phase, arms, inlined, results, winner, status>>

Promoted(i) == results[i].campaign

\* Winner selection.
Decide ==
  /\ phase = "final"
  /\ ~ Pending
  /\ phase' = "decided"
  /\ LET i == Selected(results)
     IN  /\ winner' = IF i = 0 THEN 0 ELSE Promoted(i)
         /\ status' = IF results = <<>> THEN "no_candidates"
                      ELSE IF Valid(results) = {} THEN "all_failed"
                      ELSE IF i # 0 THEN "selected" ELSE "no_significance"
  /\ UNCHANGED <<arms, inlined, settled, results, failed>>

-----------------------------------------------------------------------------
(* Properties *)

\* The reward of campaign c.
RewardOf(c) == (CHOOSE r \in {results[i] : i \in DOMAIN results} :
                  r.campaign = c).reward

Finished == {results[i].campaign : i \in DOMAIN results}
Contenders == Finished \ ControlIds

\* What a winner has to beat besides the other contenders: the control of the
\* final round, or nothing gained when the control has failed.
Baseline ==
  LET control == Finished \cap ControlIds
  IN  IF control = {} THEN 0 ELSE RewardOf(CHOOSE c \in control : TRUE)

\* c is clearly better than the control and than everybody else.
ClearlyBest(c) ==
  /\ Exceeds(RewardOf(c) - Baseline, Baseline)
  /\ Exceeds(RewardOf(c) - Baseline, RewardOf(c))
  /\ \A o \in Contenders \ {c} :
       Exceeds(RewardOf(c) - RewardOf(o), RewardOf(c))

\* A probe is promoted exactly when it beats the control arm and every other
\* contender by the margins, whatever the order of the results and whichever
\* campaigns failed; the final control and a campaign that failed never are.
\* Of the control arms of inline rounds, which the code counts among the
\* contenders, this says only that a probe has to beat them too.
WinnerIsClearlyBest ==
  phase = "decided" =>
    /\ \A c \in Contenders : arms[c] = "probe" => (winner = c <=> ClearlyBest(c))
    /\ winner # 0 => winner \in Contenders

\* "This prevents promoting the control campaign": no default_control is ever
\* the winner, whichever round it ran in.
ControlNeverPromoted == winner # 0 => arms[winner] # "default_control"

=============================================================================
