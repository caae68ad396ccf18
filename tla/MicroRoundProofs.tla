--------------------------- MODULE MicroRoundProofs ---------------------------
(***************************************************************************)
(* The run's rounds of micro-campaigns for every corpus, every answer of    *)
(* the agents, any number of rounds and any number of failures: what the    *)
(* snapshots, the spiral, the merges, the planner, the rows of the database *)
(* and the selection of the winner keep true together.                      *)
(***************************************************************************)
EXTENDS MicroRound, SetInduction, FiniteSetTheorems, FunctionTheorems

Ids == Nat \X Stages
Results == [campaign : Nat, reward : Int]
CampaignRows == [id : Ids, type : {"micro_inline", "micro"},
                 status : {"running", "completed", "failed"}, intervention : Ids]
ResultRows == [id : Ids, campaign : Ids, reward : Int, promoted : BOOLEAN]

\* Where no plan is at hand, where the spiral is, and the final campaigns.
Outside == {"sampling", "agents", "plan", "stopping", "snapshot", "finalAgents"}
InSpiral == {"spiral", "launch", "stage", "result", "merge"}
InFinal == {"spawn", "await", "save", "close"}

-----------------------------------------------------------------------------
(* The inductive invariant *)

SelectionTypes ==
  /\ phase \in {"inline", "final", "decided"}
  /\ arms \in Seq({"default_control", "probe"})
  /\ inlined \in Nat /\ settled \in Nat /\ winner \in Nat
  /\ results \in Seq(Results)
  /\ failed \in SUBSET Nat

\* Every campaign that is over has one result or has failed, and the control
\* arm of the final round is the first campaign after the inline ones.
Collected ==
  /\ inlined + settled <= Len(arms)
  /\ phase = "inline" => Len(arms) = inlined /\ settled = 0
  /\ phase # "inline" => inlined < Len(arms) /\ ControlIds = {inlined + 1}
  /\ Finished \cup failed = 1 .. inlined + settled
  /\ Finished \cap failed = {}
  /\ \A i, j \in DOMAIN results : results[i].campaign = results[j].campaign => i = j
  /\ phase = "decided" =>
       /\ inlined + settled = Len(arms)
       /\ winner = IF Selected(results) = 0 THEN 0 ELSE Promoted(Selected(results))

SelectionInv == SelectionTypes /\ Collected

RoundTypes ==
  /\ pc \in Outside \cup InSpiral \cup InFinal \cup {"planning", "threw"}
  /\ rewardMode \in {"edges_only", "edge_weighted"}
  /\ round \in Nat
  /\ queue \subseteq Seeds /\ kept \subseteq Seeds /\ lost \subseteq Seeds
  /\ snapshot \subseteq Seeds /\ work \subseteq Seeds /\ found \subseteq Seeds
  /\ DOMAIN specs \subseteq Stages /\ todo \subseteq DOMAIN specs
  /\ IsFiniteSet(decisions)
  /\ campaigns \subseteq CampaignRows /\ rows \subseteq ResultRows
  /\ ids \in Seq(Ids)
  /\ saved \in 0 .. Len(results)

\* Where the controller is says what the other parts are at.
Phases ==
  /\ pc \in Outside => /\ phase = "inline"
                       /\ specs = <<>> /\ todo = {} /\ considered = {}
                       /\ previous = {} /\ found = {}
  /\ pc \in {"plan", "snapshot", "finalAgents"} => snapshot # {}
  /\ pc = "planning" => /\ phase \in {"inline", "final"}
                        /\ todo = DOMAIN specs /\ unsaved \subseteq DOMAIN specs
                        /\ 0 \in DOMAIN specs /\ previous = {} /\ found = {}
  /\ pc \in InSpiral => phase = "inline"
  /\ pc \in {"spawn", "await"} => phase = "final"
  /\ pc \in {"save", "close"} => phase = "decided"
  /\ pc \in InSpiral \cup InFinal => unsaved = {}
  /\ pc \in {"launch", "stage", "result", "merge", "spawn"} => todo # {}
  /\ pc \in {"await", "save", "close"} => todo = {}
  /\ pc \in {"snapshot", "finalAgents"} \/ phase # "inline" => ~ mainUp

\* Campaigns get their ids in their order, the last ones in Loop 1.
Numbered ==
  /\ phase = "inline" => Len(ids) = Len(arms)
  /\ phase # "inline" => Len(ids) + Cardinality(todo) = Len(arms)
  /\ inlined + settled <= Len(ids)
  /\ pc \in {"planning", "spawn"} => settled = 0

\* The stages still without an id.
Upcoming == IF pc = "merge" THEN todo \ {Lowest(todo)} ELSE todo

\* No campaign has the id of another one or of one that is still to come.
IdsApart ==
  /\ \A c \in DOMAIN ids :
       /\ ids[c][1] <= round
       /\ ids[c][1] = round => ids[c][2] \notin Upcoming
       /\ pc \in {"agents", "plan", "snapshot", "finalAgents"} => ids[c][1] # round
  /\ \A c, d \in DOMAIN ids : ids[c] = ids[d] => c = d

\* The queue the next stage will start with, and what the one that runs has.
Climbing ==
  /\ pc \in InSpiral =>
       IF previous = {} THEN found = {} ELSE previous = snapshot \cup found
  /\ pc \in {"result", "merge"} => snapshot \cup found \subseteq work
  /\ SpiralClimbs

\* By coverage alone an inline campaign has at most what is kept and a final
\* one at least the snapshot, which has what is kept but for what is lost.
Rewarded ==
  /\ pc \in {"snapshot", "finalAgents"} \/ phase # "inline" =>
       kept \subseteq snapshot \cup lost
  /\ rewardMode = "edges_only" =>
       \A i \in DOMAIN results :
         /\ results[i].campaign <= inlined =>
              results[i].reward <= EdgeWeight * Cardinality(kept)
         /\ results[i].campaign > inlined =>
              results[i].reward >= EdgeWeight * Cardinality(snapshot)

\* The specs that are not waiting to be saved have an intervention.
Filed ==
  \A s \in DOMAIN specs \ unsaved : \E i \in interventions : i.id = Id(s)

\* A campaign has an intervention; every id whose campaign has not failed has
\* a row that says so, and the stage under way has a row.
Tracked ==
  /\ \A c \in campaigns : \E i \in interventions : i.id = c.intervention
  /\ \A k \in DOMAIN ids \ failed :
       \E c \in campaigns : c.id = ids[k] /\ c.status # "failed"
  /\ pc \in {"launch", "stage"} => \E c \in campaigns : c.id = Id(Lowest(todo))
  /\ pc = "result" =>
       \E c \in campaigns : c.id = Id(Lowest(todo)) /\ c.status # "failed"

\* The results' rows are those of the results collected, none of them
\* promoted too early.
Listed ==
  \A r \in rows :
    /\ r.id = r.campaign
    /\ \E i \in DOMAIN results : r.campaign = ids[results[i].campaign]
    /\ r.promoted => phase = "decided" /\ winner # 0 /\ r.campaign = ids[winner]
    /\ \A other \in rows : other.id = r.id => other = r

RoundInv ==
  /\ SelectionInv /\ RoundTypes /\ Phases /\ Numbered /\ IdsApart
  /\ SeedsSurvive /\ Climbing /\ Rewarded
  /\ Filed /\ Tracked /\ Listed
  /\ ProposalsTraced /\ ControlRunsNoRecipe

-----------------------------------------------------------------------------
(* The selection *)

(* A margin that is exceeded is exceeded by every larger gain. *)
LEMMA ExceedsGrows ==
  ASSUME NEW g \in Int, NEW h \in Int, NEW b \in Int, g <= h, Exceeds(g, b)
  PROVE  Exceeds(h, b)
<1>1. RelParts \in Nat
  BY SelectionAssumption
<1>2. h - g \in Nat /\ h = g + (h - g)
  OBVIOUS
<1>3. RelParts * (h - g) \in Nat
  BY <1>1, <1>2
<1>4. RelParts * h = RelParts * g + RelParts * (h - g)
  BY <1>1
<1>5. RelParts * g \in Int /\ RelParts * h \in Int
  BY <1>1
<1>6. RelParts * AbsMargin \in Int /\ Abs(b) \in Int
  BY SelectionAssumption DEF Abs
<1>7. RelParts * h >= RelParts * g
  BY <1>3, <1>4, <1>5
<1> QED BY <1>5, <1>6, <1>7 DEF Exceeds, Larger

(* A gain that exceeds a margin is a gain. *)
LEMMA ExceedsIsAGain ==
  ASSUME NEW g \in Int, NEW b \in Int, Exceeds(g, b)
  PROVE  g > 0
<1> SUFFICES ASSUME g <= 0 PROVE FALSE
  OBVIOUS
<1>1. RelParts \in Nat /\ RelParts * AbsMargin \in Nat
  BY SelectionAssumption
<1>2. - g \in Nat
  OBVIOUS
<1>3. RelParts * (- g) \in Nat
  BY <1>1, <1>2
<1>4. RelParts * g = - (RelParts * (- g))
  BY <1>1
<1>5. RelParts * g \in Int /\ RelParts * g <= 0
  BY <1>3, <1>4, <1>1
<1>6. Abs(b) \in Int
  BY DEF Abs
<1> QED BY <1>1, <1>5, <1>6 DEF Exceeds, Larger

Candidates(rs) == Valid(rs) \ Controls(rs)
Best == [index : Nat, reward : Int]
Scans3 == [best : Best, second : Int]

(* One step of the pass over the results. *)
Scanned(rs, i, before) ==
  LET r == rs[i].reward
  IN  IF i \notin Candidates(rs) THEN before
      ELSE IF before.best.index = 0 \/ r > before.best.reward
        THEN [best |-> [index |-> i, reward |-> r],
              second |-> Beaten(before.best, before.second)]
        ELSE [before EXCEPT !.second = Larger(@, r)]

(* The function of Scan, of any list of results. *)
Pass(rs) ==
  CHOOSE f : f = [i \in 0 .. Len(rs) |->
                    IF i = 0
                      THEN [best |-> [index |-> 0, reward |-> 0], second |-> ControlReward(rs)]
                      ELSE Scanned(rs, i, f[i - 1])]

(* A step stays within its type. *)
LEMMA ScannedType ==
  ASSUME NEW rs \in Seq(Results), NEW i \in 1 .. Len(rs), NEW x \in Scans3
  PROVE  Scanned(rs, i, x) \in Scans3
<1>1. rs[i] \in Results
  OBVIOUS
<1>2. rs[i].reward \in Int /\ i \in Nat
  BY <1>1 DEF Results
<1>3. x.best \in Best /\ x.second \in Int
  BY DEF Scans3
<1>4. x.best.index \in Nat /\ x.best.reward \in Int
  BY <1>3 DEF Best
<1>5. Beaten(x.best, x.second) \in Int
  BY <1>3, <1>4 DEF Beaten, Larger
<1>6. [index |-> i, reward |-> rs[i].reward] \in Best
  BY <1>2 DEF Best
<1>7. [best |-> [index |-> i, reward |-> rs[i].reward],
       second |-> Beaten(x.best, x.second)] \in Scans3
  BY <1>5, <1>6 DEF Scans3
<1>8. Larger(x.second, rs[i].reward) \in Int
  BY <1>2, <1>3 DEF Larger
<1>9. [x EXCEPT !.second = Larger(@, rs[i].reward)] \in Scans3
  BY <1>8 DEF Scans3
<1> QED BY <1>7, <1>9 DEF Scanned

(* The function satisfies its own equation. *)
LEMMA PassDef ==
  ASSUME NEW rs \in Seq(Results), ControlReward(rs) \in Int
  PROVE  /\ Pass(rs) \in [0 .. Len(rs) -> Scans3]
         /\ Pass(rs)[0] = [best |-> [index |-> 0, reward |-> 0], second |-> ControlReward(rs)]
         /\ \A i \in 1 .. Len(rs) : Pass(rs)[i] = Scanned(rs, i, Pass(rs)[i - 1])
<1> DEFINE n == Len(rs)
           base == [best |-> [index |-> 0, reward |-> 0], second |-> ControlReward(rs)]
           step == [i \in 1 .. n |-> [x \in Scans3 |-> Scanned(rs, i, x)]]
           body(g) == [i \in 0 .. n |-> IF i = 0 THEN base ELSE Scanned(rs, i, g[i - 1])]
<1>1. n \in Nat
  OBVIOUS
<1>2. base \in Scans3
  BY DEF Scans3, Best
<1>3. \A i \in 1 .. n, x \in Scans3 : Scanned(rs, i, x) \in Scans3
  BY ScannedType
<1> HIDE DEF n, base
<1>4. step \in [1 .. n -> [Scans3 -> Scans3]]
  BY <1>3
<1>5. PICK f : f \in Runs(Scans3, base, step, n)
  <2> HIDE DEF step
  <2>1. Runs(Scans3, base, step, n) # {}
    BY <1>1, <1>2, <1>4, Scans
  <2> QED BY <2>1
<1>6. f \in [0 .. n -> Scans3] /\ f[0] = base /\ \A i \in 1 .. n : f[i] = step[i][f[i - 1]]
  BY <1>5 DEF Runs
<1>7. ASSUME NEW i \in 1 .. n PROVE f[i] = Scanned(rs, i, f[i - 1])
  <2>1. i - 1 \in 0 .. n
    BY <1>1
  <2>2. f[i - 1] \in Scans3
    BY <1>6, <2>1
  <2> QED BY <1>6, <2>2
<1>8. f = body(f)
  BY <1>1, <1>6, <1>7
<1>9. Pass(rs) = body(Pass(rs))
  BY <1>8 DEF Pass, n, base
<1> DEFINE P == Pass(rs)
           S == {m \in 0 .. n : P[m] \in Scans3}
<1>10. P = body(P)
  BY <1>9
<1> HIDE DEF P
<1>11. P[0] = base
  BY <1>1, <1>10
<1>12. \A i \in 1 .. n : P[i] = Scanned(rs, i, P[i - 1])
  BY <1>1, <1>10
<1>13. 0 \in S
  BY <1>1, <1>2, <1>11
<1>14. ASSUME NEW m \in 1 .. n, m - 1 \in S PROVE m \in S
  BY <1>1, <1>3, <1>12, <1>14
<1>15. \A m \in 0 .. n : m \in S
  <2> HIDE DEF S
  <2> QED BY <1>1, <1>13, <1>14, UpTo
<1>16. P \in [0 .. n -> Scans3]
  BY <1>10, <1>15
<1> QED BY <1>11, <1>12, <1>16 DEF P, n, base

(* The reward a candidate is compared with as the control's. *)
LEMMA ControlRewardType ==
  ASSUME NEW rs \in Seq(Results)
  PROVE  ControlReward(rs) \in Int
<1>1. ASSUME NEW i \in Controls(rs) PROVE rs[i].reward \in Int
  <2>1. i \in 1 .. Len(rs)
    BY <1>1 DEF Controls, Valid
  <2>2. rs[i] \in Results
    BY <2>1
  <2> QED BY <2>2 DEF Results
<1> QED BY <1>1 DEF ControlReward

(* What the pass has seen of the first i results: the best candidate and the *)
(* largest of the control's reward and the other candidates'.               *)
Seen(rs, i, x) ==
  LET k == ControlReward(rs)
      C == Candidates(rs) \cap (1 .. i)
  IN  IF x.best.index = 0
        THEN C = {} /\ x.second = k
        ELSE /\ x.best.index \in C
             /\ x.best.reward = rs[x.best.index].reward
             /\ \A j \in C : rs[j].reward <= x.best.reward
             /\ \A j \in C \ {x.best.index} : rs[j].reward <= x.second
             /\ k <= x.second
             /\ \/ x.second = k
                \/ \E j \in C \ {x.best.index} : x.second = rs[j].reward

(* A step of the pass sees one more result. *)
LEMMA SeenStep ==
  ASSUME NEW rs \in Seq(Results), NEW i \in 1 .. Len(rs), NEW x \in Scans3,
         Seen(rs, i - 1, x)
  PROVE  Seen(rs, i, Scanned(rs, i, x))
<1> DEFINE k == ControlReward(rs)
           B == Candidates(rs) \cap (1 .. i - 1)
           C == Candidates(rs) \cap (1 .. i)
           y == Scanned(rs, i, x)
<1>1. \A j \in 1 .. Len(rs) : rs[j].reward \in Int
  <2>1. \A j \in 1 .. Len(rs) : rs[j] \in Results
    OBVIOUS
  <2> QED BY <2>1 DEF Results
<1>2. x.best \in Best /\ x.second \in Int /\ k \in Int
  BY ControlRewardType DEF Scans3
<1>3. x.best.index \in Nat /\ x.best.reward \in Int
  BY <1>2 DEF Best
<1>4. i \in Nat /\ i # 0 /\ Len(rs) \in Nat /\ i <= Len(rs)
  OBVIOUS
<1>5. CASE i \notin Candidates(rs)
  <2>1. C = B /\ y = x
    BY <1>4, <1>5 DEF Scanned
  <2> QED BY <2>1 DEF Seen
<1>6. CASE i \in Candidates(rs) /\ (x.best.index = 0 \/ rs[i].reward > x.best.reward)
  <2>1. y = [best |-> [index |-> i, reward |-> rs[i].reward],
             second |-> Beaten(x.best, x.second)]
    BY <1>6 DEF Scanned
  <2>2. y.best.index = i /\ y.best.reward = rs[i].reward /\ y.second = Beaten(x.best, x.second)
    BY <2>1
  <2>3. C = B \cup {i} /\ i \notin B /\ \A j \in B : j \in 1 .. Len(rs)
    BY <1>4, <1>6
  <2> HIDE DEF B, C, y
  <2>4. CASE x.best.index = 0
    <3>1. B = {} /\ x.second = k
      BY <2>4 DEF Seen, B, k
    <3>2. y.second = k
      BY <2>2, <2>4, <3>1 DEF Beaten
    <3>3. C = {i} /\ C \ {i} = {}
      BY <2>3, <3>1
    <3>4. /\ i \in C /\ k <= k
          /\ \A j \in C : rs[j].reward <= rs[i].reward
      BY <1>1, <1>2, <3>3
    <3> HIDE DEF k
    <3>5. /\ y.best.index \in C /\ y.best.index # 0
          /\ y.best.reward = rs[y.best.index].reward
          /\ \A j \in C : rs[j].reward <= y.best.reward
          /\ \A j \in C \ {y.best.index} : rs[j].reward <= y.second
          /\ k <= y.second /\ y.second = k
      BY <1>4, <2>2, <3>2, <3>3, <3>4
    <3> QED BY <3>5 DEF Seen, C, k, y
  <2>5. CASE x.best.index # 0
    <3>1. /\ x.best.index \in B /\ x.best.reward = rs[x.best.index].reward
          /\ \A j \in B : rs[j].reward <= x.best.reward
          /\ \A j \in B \ {x.best.index} : rs[j].reward <= x.second
          /\ k <= x.second
          /\ x.second = k \/ \E j \in B \ {x.best.index} : x.second = rs[j].reward
      BY <2>5 DEF Seen, B, k
    <3>2. rs[i].reward > x.best.reward
      BY <1>6, <2>5
    <3>3. y.second = Larger(x.second, x.best.reward)
      BY <2>2, <2>5 DEF Beaten
    <3>4. C \ {i} = B
      BY <2>3
    <3>5. \A j \in B : rs[j].reward \in Int
      BY <1>1, <2>3
    <3>6. \A j \in C : rs[j].reward <= rs[i].reward
      BY <1>1, <1>3, <1>4, <2>3, <3>1, <3>2, <3>5
    <3>7. \A j \in B : rs[j].reward <= y.second
      BY <1>2, <1>3, <3>1, <3>3, <3>5 DEF Larger
    <3>8. k <= y.second /\ (y.second = k \/ \E j \in B : y.second = rs[j].reward)
      BY <1>2, <1>3, <3>1, <3>3 DEF Larger
    <3>9. i \in C
      BY <2>3
    <3> HIDE DEF k
    <3>10. /\ y.best.index \in C /\ y.best.index # 0
           /\ y.best.reward = rs[y.best.index].reward
           /\ \A j \in C : rs[j].reward <= y.best.reward
           /\ \A j \in C \ {y.best.index} : rs[j].reward <= y.second
           /\ k <= y.second
           /\ y.second = k \/ \E j \in C \ {y.best.index} : y.second = rs[j].reward
      BY <1>4, <2>2, <3>4, <3>6, <3>7, <3>8, <3>9
    <3> QED BY <3>10 DEF Seen, C, k, y
  <2> QED BY <2>4, <2>5
<1>7. CASE i \in Candidates(rs) /\ x.best.index # 0 /\ ~ (rs[i].reward > x.best.reward)
  <2>1. y = [x EXCEPT !.second = Larger(@, rs[i].reward)]
    BY <1>7 DEF Scanned
  <2>2. y.best = x.best /\ y.second = Larger(x.second, rs[i].reward)
    BY <2>1 DEF Scans3
  <2>3. C = B \cup {i} /\ i \notin B /\ \A j \in B : j \in 1 .. Len(rs)
    BY <1>4, <1>7
  <2> HIDE DEF B, C, y
  <2>4. /\ x.best.index \in B /\ x.best.reward = rs[x.best.index].reward
        /\ \A j \in B : rs[j].reward <= x.best.reward
        /\ \A j \in B \ {x.best.index} : rs[j].reward <= x.second
        /\ k <= x.second
        /\ x.second = k \/ \E j \in B \ {x.best.index} : x.second = rs[j].reward
    BY <1>7 DEF Seen, B, k
  <2>5. rs[i].reward \in Int /\ rs[i].reward <= x.best.reward
    BY <1>1, <1>3, <1>7
  <2>6. \A j \in B : rs[j].reward \in Int
    BY <1>1, <2>3
  <2>7. C \ {x.best.index} = (B \ {x.best.index}) \cup {i}
    BY <2>3, <2>4
  <2>8. \A j \in C \ {x.best.index} : rs[j].reward <= y.second
    BY <1>2, <2>2, <2>4, <2>5, <2>6, <2>7 DEF Larger
  <2>9. k <= y.second /\ (y.second = k \/ \E j \in C \ {x.best.index} : y.second = rs[j].reward)
    BY <1>2, <2>2, <2>4, <2>5, <2>7 DEF Larger
  <2>10. \A j \in C : rs[j].reward <= x.best.reward
    BY <2>3, <2>4, <2>5
  <2> HIDE DEF k
  <2>11. /\ y.best.index \in C /\ y.best.index # 0
         /\ y.best.reward = rs[y.best.index].reward
         /\ \A j \in C : rs[j].reward <= y.best.reward
         /\ \A j \in C \ {y.best.index} : rs[j].reward <= y.second
         /\ k <= y.second
         /\ y.second = k \/ \E j \in C \ {y.best.index} : y.second = rs[j].reward
    BY <1>7, <2>2, <2>3, <2>4, <2>8, <2>9, <2>10
  <2> QED BY <2>11 DEF Seen, C, k, y
<1> QED BY <1>3, <1>5, <1>6, <1>7

(* The pass has seen all results. *)
LEMMA AllSeen ==
  ASSUME NEW rs \in Seq(Results)
  PROVE  /\ Scan(rs) \in Scans3
         /\ Seen(rs, Len(rs), Scan(rs))
<1> DEFINE P == Pass(rs)
           S == {m \in 0 .. Len(rs) : Seen(rs, m, P[m])}
<1>1. /\ P \in [0 .. Len(rs) -> Scans3]
      /\ P[0] = [best |-> [index |-> 0, reward |-> 0], second |-> ControlReward(rs)]
      /\ \A i \in 1 .. Len(rs) : P[i] = Scanned(rs, i, P[i - 1])
  BY ControlRewardType, PassDef
<1>2. Scan(rs) = P[Len(rs)]
  BY DEF Scan, Pass, Scanned, Candidates
<1> HIDE DEF P
<1>3. 0 \in S
  <2>1. Candidates(rs) \cap (1 .. 0) = {}
    OBVIOUS
  <2> QED BY <1>1, <2>1 DEF Seen
<1>4. ASSUME NEW m \in 1 .. Len(rs), m - 1 \in S PROVE m \in S
  <2>1. P[m - 1] \in Scans3 /\ Seen(rs, m - 1, P[m - 1])
    BY <1>1, <1>4
  <2> QED BY <1>1, <2>1, SeenStep
<1>5. \A m \in 0 .. Len(rs) : m \in S
  <2>1. Len(rs) \in Nat
    OBVIOUS
  <2> DEFINE n == Len(rs)
  <2>2. n \in Nat /\ \A m \in 1 .. n : m - 1 \in S => m \in S
    BY <1>4, <2>1
  <2> HIDE DEF S, n
  <2>3. \A m \in 0 .. n : m \in S
    BY <1>3, <2>2, UpTo
  <2> QED BY <2>3 DEF n
<1>6. Len(rs) \in 0 .. Len(rs)
  OBVIOUS
<1> QED BY <1>1, <1>2, <1>5, <1>6

(* Who has a result, by the result's position. *)
LEMMA Positions ==
  ASSUME SelectionInv, phase # "inline"
  PROVE  /\ \A i \in DOMAIN results :
              /\ results[i].campaign \in Nat \ {0} /\ results[i].reward \in Int
              /\ RewardOf(results[i].campaign) = results[i].reward
         /\ Candidates(results) = {i \in DOMAIN results : results[i].campaign # inlined + 1}
         /\ \A i \in Candidates(results) : results[i].campaign \in Contenders
         /\ \A c \in Contenders : \E i \in Candidates(results) : results[i].campaign = c
         /\ ControlReward(results) = Baseline
<1>1. /\ results \in Seq(Results) /\ inlined \in Nat /\ settled \in Nat
      /\ ControlIds = {inlined + 1}
      /\ Finished \cup failed = 1 .. inlined + settled /\ Finished \cap failed = {}
      /\ \A i, j \in DOMAIN results : results[i].campaign = results[j].campaign => i = j
  BY DEF SelectionInv, SelectionTypes, Collected
<1>2. DOMAIN results = 1 .. Len(results) /\ \A i \in DOMAIN results : results[i] \in Results
  BY <1>1
<1>3. ASSUME NEW i \in DOMAIN results
      PROVE  results[i].campaign \in Nat \ {0} /\ results[i].reward \in Int
  <2>1. results[i].campaign \in 1 .. inlined + settled
    BY <1>1 DEF Finished
  <2>2. results[i] \in Results
    BY <1>2
  <2> QED BY <1>1, <2>1, <2>2 DEF Results
<1>4. ASSUME NEW i \in DOMAIN results
      PROVE  RewardOf(results[i].campaign) = results[i].reward
  <2> DEFINE All == {results[j] : j \in DOMAIN results}
             c == results[i].campaign
             chosen == CHOOSE r \in All : r.campaign = c
  <2>1. results[i] \in All /\ results[i].campaign = c
    OBVIOUS
  <2>2. chosen \in All /\ chosen.campaign = c
    <3> HIDE DEF All, c
    <3> QED BY <2>1
  <2>3. PICK j \in DOMAIN results : chosen = results[j]
    BY <2>2
  <2>4. j = i
    BY <1>1, <2>2, <2>3
  <2> QED BY <2>3, <2>4 DEF RewardOf
<1>5. Valid(results) = DOMAIN results
  BY <1>1 DEF Valid, Finished
<1>6. Controls(results) = {i \in DOMAIN results : results[i].campaign = inlined + 1}
  BY <1>1, <1>5 DEF Controls
<1>7. Candidates(results) = {i \in DOMAIN results : results[i].campaign # inlined + 1}
  BY <1>5, <1>6 DEF Candidates
<1>8. /\ \A i \in Candidates(results) : results[i].campaign \in Contenders
      /\ \A c \in Contenders : \E i \in Candidates(results) : results[i].campaign = c
  BY <1>1, <1>7 DEF Contenders, Finished
<1>9. ControlReward(results) = Baseline
  <2>1. CASE Controls(results) = {}
    <3>1. inlined + 1 \notin Finished
      BY <1>6, <2>1 DEF Finished
    <3>2. Baseline = 0
      BY <1>1, <3>1 DEF Baseline
    <3>3. ControlReward(results) = 0
      BY <2>1 DEF ControlReward
    <3> QED BY <3>2, <3>3
  <2>2. ASSUME NEW i \in Controls(results) PROVE ControlReward(results) = Baseline
    <3>1. i \in DOMAIN results /\ results[i].campaign = inlined + 1
      BY <1>6
    <3>2. Controls(results) = {i}
      BY <1>1, <1>6, <3>1
    <3>3. {j \in Controls(results) : \A l \in Controls(results) :
             results[l].reward <= results[j].reward} = {i}
      BY <1>3, <3>1, <3>2
    <3>4. ControlReward(results) = results[i].reward
      BY <3>3, Zenon DEF ControlReward
    <3>5. Finished \cap ControlIds = {inlined + 1}
      BY <1>1, <3>1 DEF Finished
    <3>6. (CHOOSE c \in Finished \cap ControlIds : TRUE) = inlined + 1
      BY <3>5
    <3>7. Baseline = RewardOf(inlined + 1)
      BY <3>5, <3>6 DEF Baseline
    <3> QED BY <1>4, <3>1, <3>4, <3>7
  <2> QED BY <2>1, <2>2
<1> QED BY <1>3, <1>4, <1>7, <1>8, <1>9

(* The winner by position, as Decide computes it. *)
Chosen == IF Selected(results) = 0 THEN 0 ELSE Promoted(Selected(results))

(* It is the contender that is clearly better than all the others. *)
LEMMA ChosenIsClearlyBest ==
  ASSUME SelectionInv, phase # "inline", NEW c \in Contenders
  PROVE  Chosen = c <=> ClearlyBest(c)
<1> DEFINE s == Scan(results)
           k == ControlReward(results)
           C == Candidates(results)
           b == s.best.index
<1>1. PICK i \in C : results[i].campaign = c
  BY Positions
<1> DEFINE r == results[i].reward
<1>2. /\ \A j \in C : /\ j \in DOMAIN results /\ results[j].reward \in Int
                      /\ results[j].campaign \in Nat \ {0}
                      /\ results[j].campaign \in Contenders
                      /\ RewardOf(results[j].campaign) = results[j].reward
      /\ \A o \in Contenders : \E j \in C : results[j].campaign = o
      /\ Baseline = k
  BY Positions
<1>3. /\ results \in Seq(Results)
      /\ \A j, l \in DOMAIN results : results[j].campaign = results[l].campaign => j = l
  BY DEF SelectionInv, SelectionTypes, Collected
<1>4. C \cap (1 .. Len(results)) = C
  BY <1>2, <1>3
<1>5. s \in Scans3 /\ k \in Int
  BY <1>3, AllSeen, ControlRewardType
<1>6. s.best.index \in Nat /\ s.best.reward \in Int /\ s.second \in Int
  BY <1>5 DEF Scans3, Best
<1>7. /\ b # 0 /\ b \in C
      /\ s.best.reward = results[b].reward
      /\ \A j \in C : results[j].reward <= s.best.reward
      /\ \A j \in C \ {b} : results[j].reward <= s.second
      /\ k <= s.second
      /\ s.second = k \/ \E j \in C \ {b} : s.second = results[j].reward
  <2>1. Seen(results, Len(results), s)
    BY <1>3, AllSeen
  <2> HIDE DEF s, k, C
  <2>2. C # {}
    BY <1>1
  <2> QED BY <1>4, <2>1, <2>2 DEF Seen, C, k
<1>8. Selected(results) =
        IF Exceeds(s.best.reward - k, k) /\ Exceeds(s.best.reward - s.second, s.best.reward)
          THEN b ELSE 0
  BY <1>7 DEF Selected
<1>9. RewardOf(c) = r /\ r \in Int /\ c \in Nat \ {0}
  BY <1>1, <1>2
<1> HIDE DEF s, k, C, r
<1>10. ASSUME Chosen = c PROVE ClearlyBest(c)
  <2>1. Selected(results) = b /\ results[b].campaign = c
    BY <1>7, <1>8, <1>9, <1>10 DEF Chosen, Promoted
  <2>2. b = i
    BY <1>1, <1>2, <1>3, <1>7, <2>1
  <2>3. s.best.reward = r
    BY <1>7, <2>2 DEF r
  <2>4. Exceeds(r - k, k) /\ Exceeds(r - s.second, r)
    BY <1>7, <1>8, <2>1, <2>3
  <2>5. Exceeds(r - k, r)
    <3>1. r - s.second \in Int /\ r - k \in Int /\ r - s.second <= r - k
      BY <1>5, <1>6, <1>7, <1>9
    <3> QED BY <1>9, <2>4, <3>1, ExceedsGrows
  <2>6. ASSUME NEW o \in Contenders \ {c} PROVE Exceeds(r - RewardOf(o), r)
    <3>1. PICK j \in C : results[j].campaign = o
      BY <1>2
    <3>2. j # b
      BY <2>1, <2>6, <3>1
    <3>3. RewardOf(o) = results[j].reward /\ results[j].reward \in Int
      BY <1>2, <3>1
    <3>4. results[j].reward <= s.second
      BY <1>7, <3>2
    <3>5. r - s.second \in Int /\ r - RewardOf(o) \in Int /\ r - s.second <= r - RewardOf(o)
      BY <1>6, <1>9, <3>3, <3>4
    <3> QED BY <1>9, <2>4, <3>5, ExceedsGrows
  <2> QED BY <1>2, <1>9, <2>4, <2>5, <2>6 DEF ClearlyBest
<1>11. ASSUME ClearlyBest(c) PROVE Chosen = c
  <2>1. Exceeds(r - k, k) /\ Exceeds(r - k, r)
    BY <1>2, <1>9, <1>11 DEF ClearlyBest
  <2>2. ASSUME NEW j \in C, j # i
        PROVE  Exceeds(r - results[j].reward, r) /\ r > results[j].reward
    <3>1. results[j].campaign \in Contenders \ {c}
      BY <1>1, <1>2, <1>3, <2>2
    <3>2. Exceeds(r - RewardOf(results[j].campaign), r)
      BY <1>9, <1>11, <3>1 DEF ClearlyBest
    <3>3. results[j].reward \in Int /\ RewardOf(results[j].campaign) = results[j].reward
      BY <1>2, <2>2
    <3>4. r - results[j].reward \in Int
      BY <1>9, <3>3
    <3>5. r - results[j].reward > 0
      BY <1>9, <3>2, <3>3, <3>4, ExceedsIsAGain
    <3> QED BY <1>9, <3>2, <3>3, <3>5
  <2>3. b = i
    <3> SUFFICES ASSUME b # i PROVE FALSE
      OBVIOUS
    <3>1. r > results[b].reward
      BY <1>7, <2>2
    <3>2. r <= results[b].reward
      BY <1>1, <1>7 DEF r
    <3> QED BY <1>6, <1>7, <1>9, <3>1, <3>2
  <2>4. s.best.reward = r
    BY <1>7, <2>3 DEF r
  <2>5. Exceeds(r - s.second, r)
    BY <1>7, <2>1, <2>2, <2>3
  <2>6. Selected(results) = i /\ i # 0
    BY <1>7, <1>8, <2>1, <2>3, <2>4, <2>5
  <2> QED BY <1>1, <2>6 DEF Chosen, Promoted
<1> QED BY <1>10, <1>11

(* One more result. *)
LEMMA OneMoreResult ==
  ASSUME results \in Seq(Results), NEW x \in Results, results' = Append(results, x)
  PROVE  /\ results' \in Seq(Results)
         /\ DOMAIN results' = 1 .. Len(results) + 1
         /\ \A i \in DOMAIN results : results'[i] = results[i]
         /\ results'[Len(results) + 1] = x
         /\ Finished' = Finished \cup {x.campaign}
<1>1. /\ results' \in Seq(Results)
      /\ DOMAIN results' = 1 .. Len(results) + 1
      /\ DOMAIN results = 1 .. Len(results) /\ Len(results) \in Nat
      /\ \A i \in DOMAIN results : results'[i] = results[i]
      /\ results'[Len(results) + 1] = x
  OBVIOUS
<1>2. DOMAIN results' = DOMAIN results \cup {Len(results) + 1}
  BY <1>1
<1>3. Finished' = {results'[i].campaign : i \in DOMAIN results'}
  BY DEF Finished
<1>4. Finished' = Finished \cup {x.campaign}
  BY <1>1, <1>2, <1>3 DEF Finished
<1> QED BY <1>1, <1>4

(* The results stay apart when one of a campaign that has none is added. *)
LEMMA NewResultApart ==
  ASSUME results \in Seq(Results), NEW x \in Results, results' = Append(results, x),
         x.campaign \notin Finished,
         \A i, j \in DOMAIN results : results[i].campaign = results[j].campaign => i = j
  PROVE  \A i, j \in DOMAIN results' : results'[i].campaign = results'[j].campaign => i = j
<1>1. /\ DOMAIN results' = 1 .. Len(results) + 1
      /\ \A i \in DOMAIN results : results'[i] = results[i]
      /\ results'[Len(results) + 1] = x
  BY OneMoreResult
<1>2. DOMAIN results' = DOMAIN results \cup {Len(results) + 1}
  BY <1>1
<1>3. \A i \in DOMAIN results : results'[i].campaign # x.campaign
  BY <1>1 DEF Finished
<1> QED BY <1>1, <1>2, <1>3

(* Collecting a result, or a failure, and deciding keep the invariant. *)
LEMMA SelectionStutters ==
  ASSUME SelectionInv, UNCHANGED selectionVars
  PROVE  SelectionInv'
<1>1. /\ phase' = phase /\ arms' = arms /\ inlined' = inlined /\ settled' = settled
      /\ results' = results /\ failed' = failed /\ winner' = winner
  BY DEF selectionVars
<1>2. SelectionTypes'
  BY <1>1 DEF SelectionInv, SelectionTypes
<1>3. Finished' = Finished /\ ControlIds' = ControlIds
  BY <1>1 DEF Finished, ControlIds
<1>4. Selected(results)' = Selected(results)
  BY <1>1, <1>3 DEF Selected, Scan, Valid, Controls, ControlReward
<1>5. Promoted(Selected(results))' = Promoted(Selected(results))
  BY <1>1, <1>4 DEF Promoted
<1>6. Collected'
  BY <1>1, <1>3, <1>4, <1>5 DEF SelectionInv, Collected
<1> QED BY <1>2, <1>6 DEF SelectionInv

(* A result of an inline round joins the results of its mode. *)
LEMMA InlineResultKeeps ==
  ASSUME SelectionInv, NEW arm \in {"default_control", "probe"}, NEW r \in Int,
         InlineResult(arm, r)
  PROVE  SelectionInv'
<1>1. /\ phase = "inline" /\ arms' = Append(arms, arm) /\ inlined' = inlined + 1
      /\ results' = Append(results, [campaign |-> Len(arms'), reward |-> r])
      /\ phase' = phase /\ settled' = settled /\ failed' = failed /\ winner' = winner
  BY DEF InlineResult
<1>2. SelectionTypes /\ Collected
  BY DEF SelectionInv
<1>3. /\ arms' \in Seq({"default_control", "probe"})
      /\ Len(arms') = Len(arms) + 1 /\ Len(arms) \in Nat
  BY <1>1, <1>2 DEF SelectionTypes
<1>4. Len(arms) = inlined /\ settled = 0 /\ inlined \in Nat /\ results \in Seq(Results)
  BY <1>1, <1>2 DEF SelectionTypes, Collected
<1> DEFINE x == [campaign |-> inlined + 1, reward |-> r]
<1>5. results' = Append(results, x) /\ x \in Results /\ x.campaign = inlined + 1
  BY <1>1, <1>3, <1>4 DEF Results
<1> HIDE DEF x
<1>6. results' \in Seq(Results) /\ Finished' = Finished \cup {inlined + 1}
  BY <1>4, <1>5, OneMoreResult
<1>7. Finished \cup failed = 1 .. inlined /\ Finished \cap failed = {}
  BY <1>2, <1>4 DEF Collected
<1>8. inlined + 1 \notin Finished /\ inlined + 1 \notin failed
  BY <1>4, <1>7
<1>9. \A i, j \in DOMAIN results' : results'[i].campaign = results'[j].campaign => i = j
  BY <1>2, <1>4, <1>5, <1>8, NewResultApart DEF Collected
<1>10. SelectionTypes'
  BY <1>1, <1>2, <1>3, <1>4, <1>6 DEF SelectionTypes
<1>11. 1 .. inlined' + settled' = (1 .. inlined) \cup {inlined + 1}
  BY <1>1, <1>4
<1>12. Collected'
  BY <1>1, <1>3, <1>4, <1>6, <1>7, <1>8, <1>9, <1>11 DEF Collected
<1> QED BY <1>10, <1>12 DEF SelectionInv

(* Planning the final round adds one control and its probes, none measured yet. *)
LEMMA PlanFinalKeeps ==
  ASSUME SelectionInv, NEW n \in Nat, PlanFinal(n)
  PROVE  SelectionInv' /\ Len(arms') = Len(arms) + 1 + n
<1>1. /\ phase = "inline" /\ phase' = "final"
      /\ arms' = arms \o <<"default_control">> \o [i \in 1 .. n |-> "probe"]
      /\ inlined' = inlined /\ settled' = settled /\ results' = results
      /\ failed' = failed /\ winner' = winner
  BY DEF PlanFinal
<1>2. SelectionTypes /\ Collected
  BY DEF SelectionInv
<1>3. /\ arms \in Seq({"default_control", "probe"}) /\ inlined \in Nat
      /\ Len(arms) = inlined /\ settled = 0
  BY <1>1, <1>2 DEF SelectionTypes, Collected
<1> DEFINE probes == [i \in 1 .. n |-> "probe"]
           more == arms \o <<"default_control">>
<1>4. probes \in Seq({"default_control", "probe"}) /\ Len(probes) = n
      /\ \A i \in 1 .. n : probes[i] = "probe"
  OBVIOUS
<1>5. /\ more \in Seq({"default_control", "probe"}) /\ Len(more) = inlined + 1
      /\ more[inlined + 1] = "default_control"
  BY <1>3
<1>6. arms' = more \o probes
  BY <1>1
<1> HIDE DEF more, probes
<1>7. arms' \in Seq({"default_control", "probe"}) /\ Len(arms') = inlined + 1 + n
  <2> DEFINE T == {"default_control", "probe"}
  <2>1. more \in Seq(T) /\ probes \in Seq(T)
    BY <1>4, <1>5
  <2> HIDE DEF T
  <2>2. arms' \in Seq(T) /\ Len(arms') = Len(more) + Len(probes)
    BY <1>6, <2>1
  <2> QED BY <1>4, <1>5, <2>2 DEF T
<1>8. arms'[inlined + 1] = "default_control"
  BY <1>3, <1>4, <1>5, <1>6
<1>9. ASSUME NEW c \in inlined + 2 .. Len(arms') PROVE arms'[c] = "probe"
  <2>1. c - (inlined + 1) \in 1 .. n /\ c \in Int /\ c > inlined + 1 /\ c <= Len(more) + Len(probes)
    BY <1>3, <1>4, <1>5, <1>7
  <2>2. arms'[c] = probes[c - (inlined + 1)]
    BY <1>3, <1>4, <1>5, <1>6, <2>1
  <2> QED BY <1>4, <2>1, <2>2
<1>10. ControlIds' = {inlined + 1}
  <2>1. ControlIds' = {c \in inlined + 1 .. Len(arms') : arms'[c] = "default_control"}
    BY <1>1 DEF ControlIds
  <2>2. inlined + 1 .. Len(arms') = {inlined + 1} \cup (inlined + 2 .. Len(arms'))
    BY <1>3, <1>7
  <2> QED BY <1>8, <1>9, <2>1, <2>2
<1>11. Finished' = Finished
  BY <1>1 DEF Finished
<1>12. SelectionTypes'
  BY <1>1, <1>2, <1>7 DEF SelectionTypes
<1>13. Collected'
  BY <1>1, <1>2, <1>3, <1>7, <1>10, <1>11 DEF Collected
<1> QED BY <1>3, <1>7, <1>12, <1>13 DEF SelectionInv

(* What a step of the second loop finds. *)
LEMMA NextIsNew ==
  ASSUME SelectionInv, phase = "final", Pending
  PROVE  /\ NextFinal \in Nat /\ NextFinal = inlined + settled + 1
         /\ NextFinal <= Len(arms) /\ NextFinal \notin Finished /\ NextFinal \notin failed
         /\ 1 .. inlined + (settled + 1) = (1 .. inlined + settled) \cup {NextFinal}
<1>1. SelectionTypes /\ Collected
  BY DEF SelectionInv
<1>2. inlined \in Nat /\ settled \in Nat /\ Len(arms) \in Nat
  BY <1>1 DEF SelectionTypes
<1>3. Finished \cup failed = 1 .. inlined + settled
  BY <1>1 DEF Collected
<1> QED BY <1>2, <1>3 DEF NextFinal, Pending

(* A result of the final round is that of the next campaign without one. *)
LEMMA FinalResultKeeps ==
  ASSUME SelectionInv, NEW r \in Int, FinalResult(r)
  PROVE  SelectionInv'
<1>1. /\ phase = "final" /\ Pending
      /\ results' = Append(results, [campaign |-> NextFinal, reward |-> r])
      /\ settled' = settled + 1 /\ phase' = phase /\ arms' = arms
      /\ inlined' = inlined /\ failed' = failed /\ winner' = winner
  BY DEF FinalResult
<1>2. SelectionTypes /\ Collected
  BY DEF SelectionInv
<1>3. /\ NextFinal \in Nat /\ NextFinal = inlined + settled + 1
      /\ NextFinal <= Len(arms) /\ NextFinal \notin Finished /\ NextFinal \notin failed
      /\ 1 .. inlined + (settled + 1) = (1 .. inlined + settled) \cup {NextFinal}
  BY <1>1, NextIsNew
<1> DEFINE x == [campaign |-> NextFinal, reward |-> r]
<1>4. results \in Seq(Results) /\ results' = Append(results, x) /\ x \in Results
      /\ x.campaign = NextFinal
  BY <1>1, <1>2, <1>3 DEF SelectionTypes, Results
<1> HIDE DEF x
<1>5. results' \in Seq(Results) /\ Finished' = Finished \cup {NextFinal}
  BY <1>4, OneMoreResult
<1>6. \A i, j \in DOMAIN results' : results'[i].campaign = results'[j].campaign => i = j
  BY <1>2, <1>3, <1>4, NewResultApart DEF Collected
<1>7. SelectionTypes'
  BY <1>1, <1>2, <1>5 DEF SelectionTypes
<1>8. ControlIds' = ControlIds
  BY <1>1 DEF ControlIds
<1>9. inlined \in Nat /\ settled \in Nat
  BY <1>2 DEF SelectionTypes
<1>10. Collected'
  BY <1>1, <1>2, <1>3, <1>5, <1>6, <1>8, <1>9 DEF Collected
<1> QED BY <1>7, <1>10 DEF SelectionInv

(* A campaign that fails leaves no result and will get none. *)
LEMMA FinalFailsKeeps ==
  ASSUME SelectionInv, FinalFails
  PROVE  SelectionInv'
<1>1. /\ phase = "final" /\ Pending
      /\ failed' = failed \cup {NextFinal}
      /\ settled' = settled + 1 /\ phase' = phase /\ arms' = arms
      /\ inlined' = inlined /\ results' = results /\ winner' = winner
  BY DEF FinalFails
<1>2. SelectionTypes /\ Collected
  BY DEF SelectionInv
<1>3. /\ NextFinal \in Nat /\ NextFinal = inlined + settled + 1
      /\ NextFinal <= Len(arms) /\ NextFinal \notin Finished /\ NextFinal \notin failed
      /\ 1 .. inlined + (settled + 1) = (1 .. inlined + settled) \cup {NextFinal}
  BY <1>1, NextIsNew
<1>4. SelectionTypes'
  BY <1>1, <1>2, <1>3 DEF SelectionTypes
<1>5. ControlIds' = ControlIds /\ Finished' = Finished
  BY <1>1 DEF ControlIds, Finished
<1>6. inlined \in Nat /\ settled \in Nat
  BY <1>2 DEF SelectionTypes
<1>7. Collected'
  BY <1>1, <1>2, <1>3, <1>5, <1>6 DEF Collected
<1> QED BY <1>4, <1>7 DEF SelectionInv

(* The decision is drawn from the results at hand. *)
LEMMA DecideKeeps ==
  ASSUME SelectionInv, Decide
  PROVE  SelectionInv'
<1>1. /\ phase = "final" /\ ~ Pending /\ phase' = "decided"
      /\ winner' = Chosen
      /\ arms' = arms /\ inlined' = inlined /\ settled' = settled
      /\ results' = results /\ failed' = failed
  BY DEF Decide, Chosen
<1>2. SelectionTypes /\ Collected
  BY DEF SelectionInv
<1>3. ControlIds' = ControlIds /\ Finished' = Finished
  BY <1>1 DEF ControlIds, Finished
<1>4. Selected(results)' = Selected(results)
  BY <1>1, <1>3 DEF Selected, Scan, Valid, Controls, ControlReward
<1>5. Promoted(Selected(results))' = Promoted(Selected(results))
  BY <1>1, <1>4 DEF Promoted
<1>6. Chosen' = Chosen
  BY <1>4, <1>5 DEF Chosen
<1>7. Chosen \in Nat
  <2>1. results \in Seq(Results)
    BY <1>2 DEF SelectionTypes
  <2> DEFINE s == Scan(results)
  <2>2. s \in Scans3 /\ Seen(results, Len(results), s)
    BY <2>1, AllSeen
  <2>3. Selected(results) = 0 \/ (Selected(results) = s.best.index /\ s.best.index # 0)
    BY DEF Selected
  <2> HIDE DEF s
  <2>4. Selected(results) # 0 => Selected(results) \in DOMAIN results
    BY <2>1, <2>2, <2>3 DEF Seen
  <2>5. ASSUME NEW i \in DOMAIN results PROVE results[i].campaign \in Nat
    <3>1. results[i] \in Results
      BY <2>1
    <3> QED BY <3>1 DEF Results
  <2> QED BY <2>4, <2>5 DEF Chosen, Promoted
<1>8. SelectionTypes'
  BY <1>1, <1>2, <1>7 DEF SelectionTypes
<1>9. inlined + settled = Len(arms)
  <2>1. inlined + settled <= Len(arms) /\ inlined \in Nat /\ settled \in Nat /\ Len(arms) \in Nat
    BY <1>2 DEF SelectionTypes, Collected
  <2> QED BY <1>1, <2>1 DEF Pending
<1>10. Collected'
  BY <1>1, <1>2, <1>3, <1>6, <1>9 DEF Collected, Chosen
<1> QED BY <1>8, <1>10 DEF SelectionInv

-----------------------------------------------------------------------------
(* The corpus *)

(* A campaign keeps the seeds it was given. *)
LEMMA AfterCampaignFacts ==
  ASSUME NEW q \in SUBSET Seeds, NEW p \in AfterCampaign(q)
  PROVE  q \subseteq p /\ p \subseteq Seeds
BY DEF AfterCampaign

(* A snapshot leaves out some of the files but never all of them. *)
LEMMA SnapshotFacts ==
  ASSUME NEW q \in SUBSET Seeds, NEW skipped \in SkippedBySnapshot(q)
  PROVE  skipped \subseteq q /\ q \ skipped # {}
BY DEF SkippedBySnapshot


(* What a set of seeds is worth by coverage alone. *)
LEMMA Worth ==
  ASSUME NEW A \in SUBSET Seeds, NEW B \in SUBSET Seeds, A \subseteq B
  PROVE  /\ EdgeWeight * Cardinality(A) \in Nat /\ EdgeWeight * Cardinality(B) \in Nat
         /\ EdgeWeight * Cardinality(A) <= EdgeWeight * Cardinality(B)
<1>1. IsFiniteSet(A) /\ IsFiniteSet(B)
  BY RoundAssumption, FS_Subset
<1>2. Cardinality(A) \in Nat /\ Cardinality(B) \in Nat /\ Cardinality(A) <= Cardinality(B)
  BY <1>1, FS_CardinalityType, FS_Subset
<1> DEFINE a == Cardinality(A)
           b == Cardinality(B)
<1>3. a \in Nat /\ b \in Nat /\ a <= b /\ EdgeWeight \in Nat
  BY <1>2, RoundAssumption
<1> HIDE DEF a, b
<1>4. a * EdgeWeight \in Nat /\ b * EdgeWeight \in Nat /\ a * EdgeWeight <= b * EdgeWeight
  BY <1>3, ProductGrows
<1>5. EdgeWeight * a = a * EdgeWeight /\ EdgeWeight * b = b * EdgeWeight
  BY <1>3
<1> QED BY <1>4, <1>5 DEF a, b


(* What two sets of seeds are worth together. *)
LEMMA WorthOfBoth ==
  ASSUME NEW A \in SUBSET Seeds, NEW B \in SUBSET Seeds
  PROVE  /\ EdgeWeight * Cardinality(A) \in Nat /\ EdgeWeight * Cardinality(B) \in Nat
         /\ EdgeWeight * Cardinality(A \cup B)
              <= EdgeWeight * Cardinality(A) + EdgeWeight * Cardinality(B)
<1>1. IsFiniteSet(A) /\ IsFiniteSet(B) /\ IsFiniteSet(A \cap B)
  BY RoundAssumption, FS_Subset
<1>2. /\ Cardinality(A) \in Nat /\ Cardinality(B) \in Nat /\ Cardinality(A \cap B) \in Nat
      /\ Cardinality(A \cup B) = Cardinality(A) + Cardinality(B) - Cardinality(A \cap B)
      /\ IsFiniteSet(A \cup B)
  BY <1>1, FS_CardinalityType, FS_Union
<1>3. Cardinality(A \cup B) \in Nat
  BY <1>2, FS_CardinalityType
<1> DEFINE a == Cardinality(A)
           b == Cardinality(B)
           u == Cardinality(A \cup B)
<1>4. a \in Nat /\ b \in Nat /\ u \in Nat /\ u <= a + b /\ EdgeWeight \in Nat
  BY <1>2, <1>3, RoundAssumption
<1> HIDE DEF a, b, u
<1>5. u * EdgeWeight <= (a + b) * EdgeWeight
  BY <1>4, ProductGrows
<1>6. (a + b) * EdgeWeight = EdgeWeight * a + EdgeWeight * b /\ u * EdgeWeight = EdgeWeight * u
  BY <1>4
<1>7. EdgeWeight * u <= EdgeWeight * a + EdgeWeight * b
  BY <1>5, <1>6
<1> QED BY <1>7, Worth DEF a, b, u

(* The reward of a campaign is a number, and what it is by coverage alone. *)
LEMMA RewardFacts ==
  ASSUME NEW q \in SUBSET Seeds, NEW x \in Extras
  PROVE  /\ RewardOn(q, x) \in Int
         /\ rewardMode = "edges_only" => RewardOn(q, x) = EdgeWeight * Cardinality(q)
<1>1. EdgeWeight * Cardinality(q) \in Nat
  BY Worth
<1>2. x \in Int
  BY RoundAssumption
<1> DEFINE w == EdgeWeight * Cardinality(q)
<1>3. RewardOn(q, x) = w + IF rewardMode = "edges_only" THEN 0 ELSE x
  BY DEF RewardOn
<1>4. w \in Nat
  BY <1>1
<1> HIDE DEF w
<1>5. RewardOn(q, x) \in Int /\ (rewardMode = "edges_only" => RewardOn(q, x) = w)
  BY <1>2, <1>3, <1>4
<1> QED BY <1>5 DEF w


-----------------------------------------------------------------------------
(* Tables *)

(* Every id a table had it still has after an INSERT OR REPLACE. *)
LEMMA InsertKeepsIds ==
  ASSUME NEW table, NEW new
  PROVE  /\ \A r \in table : \E n \in InsertOrReplace(table, new) : n.id = r.id
         /\ \A n \in new : n \in InsertOrReplace(table, new)
         /\ \A r \in InsertOrReplace(table, new) : r \in table \/ r \in new
         /\ \A r \in table : (\A n \in new : n.id # r.id) => r \in InsertOrReplace(table, new)
BY DEF InsertOrReplace

\* new is the table with the rows of the id closed.
Closes(new, table, id, now) ==
  /\ new \subseteq CampaignRows
  /\ \A r \in table : \E n \in new :
       n.id = r.id /\ n.status = IF r.id = id THEN now ELSE r.status
  /\ \A n \in new : \E r \in table : n.id = r.id /\ n.intervention = r.intervention

(* Only the status of the rows with the id changes. *)
LEMMA FinishFacts ==
  ASSUME NEW table \in SUBSET CampaignRows, NEW id, NEW now \in {"completed", "failed"}
  PROVE  Closes(FinishCampaign(table, id, now), table, id, now)
<1> DEFINE after(r) == IF r.id = id THEN [r EXCEPT !.status = now] ELSE r
           new == FinishCampaign(table, id, now)
<1>1. new = {after(r) : r \in table}
  BY DEF FinishCampaign
<1>2. ASSUME NEW r \in table
      PROVE  /\ after(r) \in CampaignRows
             /\ after(r).id = r.id /\ after(r).intervention = r.intervention
             /\ after(r).status = IF r.id = id THEN now ELSE r.status
  <2>1. r \in CampaignRows
    OBVIOUS
  <2> QED BY <2>1 DEF CampaignRows
<1> HIDE DEF new, after
<1>3. /\ new \subseteq CampaignRows
      /\ \A r \in table : \E n \in new :
           n.id = r.id /\ n.status = IF r.id = id THEN now ELSE r.status
      /\ \A n \in new : \E r \in table : n.id = r.id /\ n.intervention = r.intervention
  BY <1>1, <1>2
<1> QED BY <1>3 DEF new, Closes

-----------------------------------------------------------------------------
(* The plan *)

(* Every proposal has a stage campaigns run at. *)
LEMMA StageType ==
  ASSUME NEW p
  PROVE  StageOf(p) \in Stages
BY DEF StageOf, InferStage, Stages

(* What the ladder has for a stage: the action of the stage, the tokens and *)
(* the sources of the proposals for it.                                     *)
LEMMA LadderFacts ==
  ASSUME NEW proposals
  PROVE  /\ DOMAIN Ladder(proposals) \subseteq Stages /\ 0 \in DOMAIN Ladder(proposals)
         /\ \A p \in proposals : StageOf(p) \in DOMAIN Ladder(proposals)
         /\ \A s \in DOMAIN Ladder(proposals) :
              LET for == {p \in proposals : StageOf(p) = s}
              IN  /\ Ladder(proposals)[s].action = ActionOf(s)
                  /\ Ladder(proposals)[s].tokens = UNION {p.tokens : p \in for}
                  /\ Ladder(proposals)[s].sources = {p.decision : p \in for}
<1>1. CASE proposals = {}
  <2>1. Ladder(proposals) = Defaults
    BY <1>1 DEF Ladder
  <2>2. DOMAIN Defaults = Stages /\ 0 \in Stages
    BY DEF Defaults, Stages
  <2>3. ASSUME NEW s \in Stages
        PROVE  Defaults[s].action = ActionOf(s) /\ Defaults[s].tokens = {} /\ Defaults[s].sources = {}
    BY DEF Defaults
  <2> QED BY <1>1, <2>1, <2>2, <2>3
<1>2. CASE proposals # {}
  <2> DEFINE D == Stages \cap ({0} \cup {StageOf(p) : p \in proposals})
             for(s) == {p \in proposals : StageOf(p) = s}
  <2>1. Ladder(proposals) = [s \in D |-> Coalesce(for(s), s)]
    BY <1>2 DEF Ladder
  <2>2. DOMAIN Ladder(proposals) = D /\ D \subseteq Stages /\ 0 \in D
    BY <2>1 DEF Stages
  <2>3. \A p \in proposals : StageOf(p) \in D
    BY StageType
  <2>4. ASSUME NEW s \in D
        PROVE  /\ Ladder(proposals)[s].action = ActionOf(s)
               /\ Ladder(proposals)[s].tokens = UNION {p.tokens : p \in for(s)}
               /\ Ladder(proposals)[s].sources = {p.decision : p \in for(s)}
    BY <2>1 DEF Coalesce, CoalescedAction
  <2> QED BY <2>2, <2>3, <2>4
<1> QED BY <1>1, <1>2

(* A store has recipes unless it is the control's. *)
LEMMA RecipesFacts ==
  ASSUME NEW spec, NEW new, NEW seeds, seeds # {}
  PROVE  /\ spec.action = "default_control" => Recipes(spec, new, seeds) = {}
         /\ spec.action \in {"dictionary_probe", "seed_focus_probe", "per_seed_recipe_probe"} =>
              Recipes(spec, new, seeds) # {}
<1> DEFINE tokens == IF spec.tokens \cup new = {} THEN Fallback ELSE spec.tokens \cup new
           a == spec.action
           for == CASE a = "default_control" -> {}
                    [] a \in {"seed_focus_probe", "per_seed_recipe_probe"} -> seeds
                    [] OTHER -> {AnySeed}
<1>1. Recipes(spec, new, seeds) = {[seed |-> s, tokens |-> tokens] : s \in for}
  BY DEF Recipes
<1> HIDE DEF a, tokens
<1>2. a = "default_control" => for = {}
  OBVIOUS
<1>3. a = "dictionary_probe" => for = {AnySeed}
  OBVIOUS
<1>4. a \in {"seed_focus_probe", "per_seed_recipe_probe"} => for = seeds
  OBVIOUS
<1> HIDE DEF for
<1>5. Recipes(spec, new, seeds) = {} <=> for = {}
  BY <1>1
<1> QED BY <1>2, <1>3, <1>4, <1>5 DEF a

(* The specs made of the ladder: the recipe store of the control is empty, *)
(* the others are not; tokens and sources are the proposals', no more.      *)
LEMMA PlannedFacts ==
  ASSUME NEW proposals, NEW now, NEW new, NEW seeds, seeds # {}
  PROVE  LET plan == Planned(proposals, now, new, seeds)
         IN  /\ DOMAIN plan \subseteq Stages /\ 0 \in DOMAIN plan
             /\ \A s \in DOMAIN plan :
                  /\ plan[s].recipes = {} <=> s = 0
                  /\ plan[s].tokens \subseteq UNION {p.tokens : p \in proposals}
                  /\ plan[s].sources \subseteq {p.decision : p \in proposals}
             /\ \A p \in proposals : \E s \in DOMAIN plan :
                  p.tokens \subseteq plan[s].tokens /\ p.decision \in plan[s].sources
<1> DEFINE base == Ladder(proposals)
           ladder == Linked(base, now)
           plan == Planned(proposals, now, new, seeds)
           for(s) == {p \in proposals : StageOf(p) = s}
<1>1. /\ DOMAIN base \subseteq Stages /\ 0 \in DOMAIN base
      /\ \A p \in proposals : StageOf(p) \in DOMAIN base
      /\ \A s \in DOMAIN base :
           /\ base[s].action = ActionOf(s)
           /\ base[s].tokens = UNION {p.tokens : p \in for(s)}
           /\ base[s].sources = {p.decision : p \in for(s)}
  BY LadderFacts
<1>2. \A s \in DOMAIN base : base[s] = [action |-> base[s].action, tokens |-> base[s].tokens,
                                         sources |-> base[s].sources, depends |-> base[s].depends]
  BY DEF Ladder, Defaults, Coalesce
<1>3. /\ DOMAIN ladder = DOMAIN base
      /\ \A s \in DOMAIN base : /\ ladder[s].action = base[s].action
                                /\ ladder[s].tokens = base[s].tokens
                                /\ ladder[s].sources = base[s].sources
  <2> HIDE DEF base
  <2> QED BY <1>2 DEF Linked
<1>4. /\ DOMAIN plan = DOMAIN base
      /\ \A s \in DOMAIN base : /\ plan[s].tokens = base[s].tokens
                                /\ plan[s].sources = base[s].sources
                                /\ plan[s].recipes = Recipes(ladder[s], new, seeds)
  <2>1. plan = [s \in DOMAIN ladder |->
                  [action |-> ladder[s].action, tokens |-> ladder[s].tokens,
                   sources |-> ladder[s].sources, depends |-> ladder[s].depends,
                   recipes |-> Recipes(ladder[s], new, seeds)]]
    BY DEF Planned
  <2> HIDE DEF plan, ladder, base
  <2> QED BY <1>3, <2>1
<1>5. ASSUME NEW s \in DOMAIN base
      PROVE  Recipes(ladder[s], new, seeds) = {} <=> s = 0
  <2>1. ladder[s].action = ActionOf(s) /\ s \in 0 .. 3
    BY <1>1, <1>3 DEF Stages
  <2> DEFINE x == ladder[s]
  <2> HIDE DEF ladder, x
  <2>2. CASE s = 0
    <3>1. x.action = "default_control"
      BY <2>1, <2>2 DEF ActionOf, x
    <3> QED BY <2>2, <3>1, RecipesFacts DEF x
  <2>3. CASE s = 1
    <3>1. x.action = "dictionary_probe"
      BY <2>1, <2>3 DEF ActionOf, x
    <3> QED BY <2>3, <3>1, RecipesFacts DEF x
  <2>4. CASE s \in {2, 3}
    <3>1. x.action \in {"seed_focus_probe", "per_seed_recipe_probe"}
      BY <2>1, <2>4 DEF ActionOf, x
    <3> QED BY <2>4, <3>1, RecipesFacts DEF x
  <2> QED BY <2>1, <2>2, <2>3, <2>4
<1> HIDE DEF base, ladder, plan
<1>6. \A s \in DOMAIN plan :
        /\ plan[s].recipes = {} <=> s = 0
        /\ plan[s].tokens \subseteq UNION {p.tokens : p \in proposals}
        /\ plan[s].sources \subseteq {p.decision : p \in proposals}
  BY <1>1, <1>4, <1>5
<1>7. ASSUME NEW p \in proposals
      PROVE  \E s \in DOMAIN plan : p.tokens \subseteq plan[s].tokens /\ p.decision \in plan[s].sources
  <2>1. StageOf(p) \in DOMAIN plan /\ p \in for(StageOf(p))
    BY <1>1, <1>4
  <2>2. p.tokens \subseteq plan[StageOf(p)].tokens /\ p.decision \in plan[StageOf(p)].sources
    BY <1>1, <1>4, <2>1
  <2> QED BY <2>1, <2>2
<1> QED BY <1>1, <1>4, <1>6, <1>7 DEF plan

(* What a plan reads are usable decisions of the table. *)
LEMMA ReadFacts ==
  ASSUME NEW table, IsFiniteSet(table), NEW read \in RecentAgentDecisions(table, Recent)
  PROVE  \A i \in DOMAIN read : read[i] \in table
<1> DEFINE usable == {d \in table : d.usable}
           N == Cardinality(usable)
           most == IF N < Recent THEN N ELSE Recent
<1>1. IsFiniteSet(usable)
  BY FS_Subset
<1>2. N \in Nat /\ most \in Nat /\ most <= N
  <2>1. N \in Nat /\ Recent \in Nat
    BY <1>1, FS_CardinalityType, PlannerAssumption
  <2> QED BY <2>1
<1>3. PICK s \in SetToSeqs(usable), n \in 0 .. most : read = SubSeq(s, 1, n)
  BY DEF RecentAgentDecisions
<1>4. s \in [1 .. N -> usable]
  BY <1>3 DEF SetToSeqs
<1> HIDE DEF N, most
<1>5. n \in Nat /\ n <= N
  BY <1>2, <1>3
<1>6. s \in Seq(usable) /\ Len(s) = N
  BY <1>2, <1>4
<1>7. DOMAIN read = 1 .. n /\ \A i \in 1 .. n : read[i] = s[i]
  BY <1>2, <1>3, <1>5, <1>6
<1>8. ASSUME NEW i \in DOMAIN read PROVE read[i] \in usable
  BY <1>2, <1>4, <1>5, <1>7
<1> QED BY <1>8

(* A proposal comes from one of the decisions read. *)
LEMMA ConsideredFacts ==
  ASSUME NEW read, NEW p \in Considered(read)
  PROVE  \E i \in DOMAIN read : p.decision = read[i].id
<1>1. PICK i \in DOMAIN read : p \in Interventions(read[i], i)
  BY DEF Considered
<1> DEFINE d == read[i]
           P == d.proposals
<1>2. PICK j \in {k \in DOMAIN P : P[k].action # ""} :
        p = [at |-> <<i, j>>, decision |-> d.id, action |-> P[j].action,
             stage |-> P[j].stage, tokens |-> P[j].tokens, depends |-> P[j].depends]
  BY <1>1, Zenon DEF Interventions
<1>3. p.decision = d.id
  <2> HIDE DEF d, P
  <2> QED BY <1>2
<1> QED BY <1>3


(* A decision is added to the finite table. *)
LEMMA DecisionsFacts ==
  ASSUME IsFiniteSet(decisions), NEW i
  PROVE  IsFiniteSet(WithDecision(i))
<1> DEFINE row == DecisionRow(<<round, i>>, round, answer[i])
           old == {r \in decisions : row.id # r.id}
<1>1. WithDecision(i) = old \cup {row}
  BY DEF WithDecision, InsertOrReplace
<1>2. IsFiniteSet(old)
  BY FS_Subset
<1> HIDE DEF row, old
<1> QED BY <1>1, <1>2, FS_AddElement

(* A plan on a snapshot that has a seed. *)
LEMMA PlanFacts ==
  ASSUME IsFiniteSet(decisions), decisions' = decisions, snapshot # {}, Planning
  PROVE  /\ DOMAIN specs' \subseteq Stages /\ 0 \in DOMAIN specs'
         /\ todo' = DOMAIN specs' /\ unsaved' = DOMAIN specs' /\ pc' = "planning"
         /\ ProposalsTraced' /\ ControlRunsNoRecipe'
<1>1. PICK read \in RecentAgentDecisions(decisions, Recent) :
        /\ specs' = Planned(Considered(read), round, TokensOf(answer), snapshot)
        /\ todo' = DOMAIN specs' /\ unsaved' = DOMAIN specs'
        /\ considered' = Considered(read) /\ pc' = "planning"
  BY Zenon DEF Planning
<1> DEFINE proposals == Considered(read)
           new == TokensOf(answer)
<1>2. /\ DOMAIN specs' \subseteq Stages /\ 0 \in DOMAIN specs'
      /\ \A s \in DOMAIN specs' :
           /\ specs'[s].recipes = {} <=> s = 0
           /\ specs'[s].tokens \subseteq UNION {p.tokens : p \in proposals}
           /\ specs'[s].sources \subseteq {p.decision : p \in proposals}
      /\ \A p \in proposals : \E s \in DOMAIN specs' :
           p.tokens \subseteq specs'[s].tokens /\ p.decision \in specs'[s].sources
  <2>1. specs' = Planned(proposals, round, new, snapshot)
    BY <1>1
  <2> HIDE DEF proposals, new
  <2> QED BY <2>1, PlannedFacts
<1>3. {p.decision : p \in proposals} \subseteq {d.id : d \in decisions'}
  <2>1. ASSUME NEW p \in proposals PROVE p.decision \in {d.id : d \in decisions'}
    <3>1. PICK i \in DOMAIN read : p.decision = read[i].id
      BY ConsideredFacts
    <3>2. read[i] \in decisions'
      BY ReadFacts
    <3> QED BY <3>1, <3>2
  <2> QED BY <2>1
<1>4. considered' = proposals
  BY <1>1
<1> HIDE DEF proposals, new
<1>5. ProposalsTraced'
  BY <1>2, <1>3, <1>4, Zenon DEF ProposalsTraced
<1>6. ControlRunsNoRecipe'
  BY <1>2 DEF ControlRunsNoRecipe
<1> QED BY <1>1, <1>2, <1>5, <1>6

-----------------------------------------------------------------------------
(* What a step leaves alone *)

(* Nothing of the numbering, the ids, the climb or the trail changes unless *)
(* one of the variables it speaks of does.                                  *)
LEMMA IdsStay ==
  ASSUME RoundInv, UNCHANGED <<ids, round>>, pc # "merge", pc' # "merge", todo' \subseteq todo,
         pc' \in {"agents", "plan", "snapshot", "finalAgents"} =>
           pc \in {"agents", "plan", "snapshot", "finalAgents"}
  PROVE  IdsApart'
<1>1. Upcoming' = todo' /\ Upcoming = todo
  BY DEF Upcoming
<1> QED BY <1>1 DEF RoundInv, IdsApart

(* The plan of a round stays the plan it is. *)
LEMMA PlanStays ==
  ASSUME RoundInv, UNCHANGED <<specs, considered, decisions, round>>, unsaved' = unsaved,
         \A i \in interventions : \E j \in interventions' : j.id = i.id
  PROVE  Filed' /\ ProposalsTraced' /\ ControlRunsNoRecipe'
<1>1. ProposalsTraced' /\ ControlRunsNoRecipe'
  BY DEF RoundInv, ProposalsTraced, ControlRunsNoRecipe
<1>2. \A s \in DOMAIN specs \ unsaved : \E i \in interventions : i.id = Id(s)
  BY DEF RoundInv, Filed
<1>3. \A s : Id(s)' = Id(s)
  BY DEF Id
<1>4. \A s \in DOMAIN specs' \ unsaved' : \E j \in interventions' : j.id = Id(s)
  BY <1>2
<1> QED BY <1>1, <1>3, <1>4 DEF Filed

(* The rows of the campaigns stay as they are. *)
LEMMA CampaignsStay ==
  ASSUME RoundInv, UNCHANGED <<campaigns, ids, failed>>,
         pc' \notin {"launch", "stage", "result"},
         \A i \in interventions : \E j \in interventions' : j.id = i.id
  PROVE  Tracked'
<1>1. Tracked
  BY DEF RoundInv
<1>2. \A c \in campaigns' : \E i \in interventions' : i.id = c.intervention
  BY <1>1 DEF Tracked
<1>3. \A k \in DOMAIN ids' \ failed' : \E c \in campaigns' : c.id = ids'[k] /\ c.status # "failed"
  BY <1>1 DEF Tracked
<1> QED BY <1>2, <1>3 DEF Tracked

(* The rows of the results stay as they are. *)
LEMMA RowsStay ==
  ASSUME RoundInv, UNCHANGED <<rows, ids, results, phase, winner>>
  PROVE  Listed'
BY DEF RoundInv, Listed

(* The parts of the selection, one by one. *)
LEMMA SelectionVars ==
  ASSUME UNCHANGED selectionVars
  PROVE  /\ phase' = phase /\ arms' = arms /\ results' = results /\ failed' = failed
         /\ winner' = winner /\ inlined' = inlined /\ settled' = settled
BY DEF selectionVars

-----------------------------------------------------------------------------
(* The steps outside of a plan *)

(* While the rounds are inline every result is an inline campaign's. *)
LEMMA InlineResultsOnly ==
  ASSUME SelectionInv, phase = "inline"
  PROVE  \A i \in DOMAIN results : /\ results[i].campaign \in Nat
                                   /\ results[i].campaign <= inlined
                                   /\ ~ results[i].campaign > inlined
                                   /\ results[i].reward \in Int
<1>1. inlined \in Nat /\ settled = 0 /\ Finished \cup failed = 1 .. inlined + settled
      /\ results \in Seq(Results)
  BY DEF SelectionInv, SelectionTypes, Collected
<1>2. \A i \in DOMAIN results : results[i].campaign \in Finished /\ results[i] \in Results
  BY <1>1 DEF Finished
<1>3. \A i \in DOMAIN results : results[i].campaign \in 1 .. inlined
  BY <1>1, <1>2
<1> QED BY <1>1, <1>2, <1>3 DEF Results

(* Seeds that are added do not make an inline reward too large. *)
LEMMA RewardedGrows ==
  ASSUME RoundInv, phase = "inline", UNCHANGED <<phase, results, inlined, rewardMode>>,
         kept \subseteq kept', kept' \subseteq Seeds,
         pc' \in {"snapshot", "finalAgents"} => kept' \subseteq snapshot' \cup lost'
  PROVE  Rewarded'
<1>1. \A i \in DOMAIN results : /\ results[i].campaign <= inlined
                                /\ ~ results[i].campaign > inlined
                                /\ results[i].reward \in Int
  BY InlineResultsOnly DEF RoundInv
<1> DEFINE w == EdgeWeight * Cardinality(kept)
           v == EdgeWeight * Cardinality(kept')
<1>2. w \in Nat /\ v \in Nat /\ w <= v
  BY Worth
<1>3. rewardMode = "edges_only" => \A i \in DOMAIN results : results[i].reward <= w
  BY <1>1 DEF RoundInv, Rewarded
<1> HIDE DEF w, v
<1>4. rewardMode' = "edges_only" => \A i \in DOMAIN results : results[i].reward <= v
  BY <1>1, <1>2, <1>3
<1> QED BY <1>1, <1>4 DEF Rewarded, v

(* A step that ends, or stays, where no plan is at hand: what is left to show *)
(* of it concerns the corpus and the decisions.                              *)
LEMMA OutsideRounds ==
  ASSUME RoundInv, phase = "inline", pc' \in Outside, round' \in Nat, round <= round',
         UNCHANGED <<rewardMode, ids, saved, interventions, campaigns, rows, selectionVars>>,
         specs' = <<>>, todo' = {}, considered' = {}, previous' = {}, found' = {},
         queue' \subseteq Seeds, snapshot' \subseteq Seeds, work' \subseteq Seeds,
         kept \subseteq kept', kept' \subseteq Seeds, lost' \subseteq Seeds,
         IsFiniteSet(decisions'), SeedsSurvive',
         pc' \in {"agents", "plan", "snapshot", "finalAgents"} =>
           \/ round' = round + 1
           \/ round' = round /\ pc \in {"agents", "plan", "snapshot", "finalAgents"},
         pc' \in {"plan", "snapshot", "finalAgents"} => snapshot' # {},
         pc' \in {"snapshot", "finalAgents"} => kept' \subseteq snapshot' \cup lost' /\ ~ mainUp'
  PROVE  RoundInv'
<1>1. /\ phase' = phase /\ arms' = arms /\ results' = results /\ failed' = failed
      /\ winner' = winner /\ inlined' = inlined /\ settled' = settled
  BY SelectionVars
<1>2. SelectionInv'
  BY SelectionStutters DEF RoundInv
<1>3. /\ DOMAIN specs' = {}
      /\ pc' \notin InSpiral \cup InFinal \cup {"planning", "threw"}
      /\ pc' \notin {"launch", "stage", "result", "merge"}
  BY DEF Outside, InSpiral, InFinal
<1>4. RoundTypes'
  BY <1>1, <1>3 DEF RoundInv, RoundTypes
<1>5. Phases'
  BY <1>1, <1>3 DEF Phases, InFinal, InSpiral
<1>6. Numbered'
  BY <1>1, <1>3 DEF RoundInv, Numbered, InFinal
<1>7. IdsApart'
  <2>1. ids \in Seq(Ids) /\ round \in Nat
    BY DEF RoundInv, RoundTypes
  <2>2. \A c \in DOMAIN ids : ids[c] \in Ids
    BY <2>1
  <2>3. \A c \in DOMAIN ids : ids[c][1] \in Nat
    BY <2>2 DEF Ids
  <2>4. \A c \in DOMAIN ids : ids[c][1] <= round
    BY DEF RoundInv, IdsApart
  <2>5. \A c \in DOMAIN ids : ids[c][1] <= round'
    BY <2>1, <2>3, <2>4
  <2>6. Upcoming' = {}
    BY <1>3 DEF Upcoming
  <2>7. \A c \in DOMAIN ids :
          pc' \in {"agents", "plan", "snapshot", "finalAgents"} => ids[c][1] # round'
    BY <2>1, <2>3, <2>4 DEF RoundInv, IdsApart
  <2> QED BY <2>5, <2>6, <2>7 DEF RoundInv, IdsApart
<1>8. Climbing'
  BY <1>3 DEF Climbing, SpiralClimbs
<1>9. Rewarded'
  BY <1>1, RewardedGrows
<1>10. Tracked'
  BY <1>1, <1>3, CampaignsStay
<1>11. Listed'
  BY <1>1, RowsStay
<1>12. Filed' /\ ProposalsTraced' /\ ControlRunsNoRecipe'
  BY <1>3 DEF Filed, ProposalsTraced, ControlRunsNoRecipe
<1> QED BY <1>2, <1>4, <1>5, <1>6, <1>7, <1>8, <1>9, <1>10, <1>11, <1>12 DEF RoundInv

(* What is so where no plan is at hand. *)
LEMMA NoPlan ==
  ASSUME RoundInv, pc \in Outside
  PROVE  /\ phase = "inline" /\ specs = <<>> /\ todo = {} /\ considered = {}
         /\ previous = {} /\ found = {}
BY DEF RoundInv, Phases

(* What is so in every state. *)
LEMMA CorpusTypes ==
  ASSUME RoundInv
  PROVE  /\ queue \in SUBSET Seeds /\ kept \in SUBSET Seeds /\ lost \in SUBSET Seeds
         /\ snapshot \in SUBSET Seeds /\ work \in SUBSET Seeds /\ found \in SUBSET Seeds
         /\ round \in Nat /\ IsFiniteSet(decisions) /\ SeedsSurvive
         /\ kept \subseteq queue \cup lost \cup (IF pc = "merge" THEN work ELSE {})
BY DEF RoundInv, RoundTypes, SeedsSurvive

(* What the main AFL++ finds is in its queue, and concerns no plan. *)
LEMMA MainFindsKeeps ==
  ASSUME RoundInv, MainFinds
  PROVE  RoundInv'
<1>1. /\ pc \in {"sampling", "agents", "plan", "planning"} /\ mainUp /\ pc' = pc
      /\ queue' \in AfterCampaign(queue) /\ kept' = kept \cup queue'
      /\ lost' = (lost \cup {}) \ queue'
      /\ UNCHANGED <<rewardMode, round, ids, saved, interventions, campaigns, rows, selectionVars>>
      /\ UNCHANGED <<mainUp, unsaved, snapshot, specs, todo, work, previous, considered, found,
                     decisions>>
  BY DEF MainFinds, Losing, planVars, spiralVars, tableVars
<1>2. /\ queue \in SUBSET Seeds /\ kept \in SUBSET Seeds /\ lost \in SUBSET Seeds
      /\ kept \subseteq queue \cup lost
  BY <1>1, CorpusTypes
<1>3. queue \subseteq queue' /\ queue' \subseteq Seeds
  BY <1>1, <1>2, AfterCampaignFacts
<1>4. kept \subseteq kept' /\ kept' \subseteq Seeds /\ lost' \subseteq Seeds
  BY <1>1, <1>2, <1>3
<1>5. SeedsSurvive'
  BY <1>1, <1>2, <1>3 DEF SeedsSurvive
<1>6. /\ phase' = phase /\ arms' = arms /\ results' = results /\ failed' = failed
      /\ winner' = winner /\ inlined' = inlined /\ settled' = settled
  BY <1>1, SelectionVars
<1>7. phase = "inline" /\ RoundTypes /\ Phases /\ Numbered
  BY <1>1 DEF RoundInv, Phases
<1>8. SelectionInv'
  BY <1>1, SelectionStutters DEF RoundInv
<1>9. RoundTypes'
  BY <1>1, <1>3, <1>4, <1>6, <1>7 DEF RoundTypes
<1>10. Phases' /\ Numbered'
  BY <1>1, <1>6, <1>7 DEF Phases, Numbered
<1>11. IdsApart'
  BY <1>1, IdsStay
<1>12. Climbing'
  BY <1>1 DEF Climbing, SpiralClimbs, InSpiral
<1>13. Rewarded'
  BY <1>1, <1>4, <1>6, <1>7, RewardedGrows
<1>14. Tracked'
  BY <1>1, <1>6, CampaignsStay
<1>15. Listed'
  BY <1>1, <1>6, RowsStay
<1>16. Filed' /\ ProposalsTraced' /\ ControlRunsNoRecipe'
  BY <1>1, PlanStays
<1> QED BY <1>5, <1>8, <1>9, <1>10, <1>11, <1>12, <1>13, <1>14, <1>15, <1>16 DEF RoundInv

(* A round begins, and its agents have answered. *)
LEMMA InlineAgentsKeeps ==
  ASSUME RoundInv, NEW reply \in Answers, InlineAgents(reply)
  PROVE  RoundInv'
<1>1. /\ pc = "sampling" /\ pc' = "agents" /\ round' = round + 1
      /\ UNCHANGED <<rewardMode, ids, saved, interventions, campaigns, rows, selectionVars>>
      /\ UNCHANGED <<queue, kept, lost, snapshot, specs, todo, work, previous, considered, found,
                     decisions>>
  BY DEF InlineAgents, corpusVars, spiralVars, tableVars
<1>2. /\ phase = "inline" /\ specs = <<>> /\ todo = {} /\ considered = {}
      /\ previous = {} /\ found = {}
  BY <1>1, NoPlan DEF Outside
<1>3. /\ queue \in SUBSET Seeds /\ kept \in SUBSET Seeds /\ lost \in SUBSET Seeds
      /\ snapshot \in SUBSET Seeds /\ work \in SUBSET Seeds
      /\ round \in Nat /\ IsFiniteSet(decisions) /\ kept \subseteq queue \cup lost
  BY <1>1, CorpusTypes
<1>4. SeedsSurvive' /\ pc' \in Outside /\ round' \in Nat /\ round <= round'
  BY <1>1, <1>3 DEF SeedsSurvive, Outside
<1> QED BY <1>1, <1>2, <1>3, <1>4, OutsideRounds

(* The decisions of the final round are at hand. *)
LEMMA FinalAgentsKeeps ==
  ASSUME RoundInv, NEW reply \in Answers, FinalAgents(reply)
  PROVE  RoundInv'
<1>1. /\ pc = "snapshot" /\ pc' = "finalAgents" /\ round' = round
      /\ UNCHANGED <<rewardMode, ids, saved, interventions, campaigns, rows, selectionVars>>
      /\ UNCHANGED <<mainUp, queue, kept, lost, snapshot, specs, todo, work, previous, considered,
                     found, decisions>>
  BY DEF FinalAgents, corpusVars, spiralVars, tableVars
<1>2. /\ phase = "inline" /\ specs = <<>> /\ todo = {} /\ considered = {}
      /\ previous = {} /\ found = {}
  BY <1>1, NoPlan DEF Outside
<1>3. /\ queue \in SUBSET Seeds /\ kept \in SUBSET Seeds /\ lost \in SUBSET Seeds
      /\ snapshot \in SUBSET Seeds /\ work \in SUBSET Seeds
      /\ round \in Nat /\ IsFiniteSet(decisions) /\ kept \subseteq queue \cup lost
  BY <1>1, CorpusTypes
<1>4. snapshot # {} /\ ~ mainUp /\ kept \subseteq snapshot \cup lost
  BY <1>1 DEF RoundInv, Phases, Rewarded
<1>5. SeedsSurvive' /\ pc' \in Outside /\ round' \in Nat /\ round <= round'
  BY <1>1, <1>3 DEF SeedsSurvive, Outside
<1> QED BY <1>1, <1>2, <1>3, <1>4, <1>5, OutsideRounds

(* A decision that is saved is in the table, and nothing else is new. *)
LEMMA SaveDecisionKeeps ==
  ASSUME RoundInv, SaveDecision
  PROVE  RoundInv'
<1>1. /\ pc \in {"agents", "finalAgents"} /\ pc' = pc /\ round' = round
      /\ decisions' = WithDecision(Lowest(unsaved))
      /\ UNCHANGED <<rewardMode, ids, saved, interventions, campaigns, rows, selectionVars>>
      /\ UNCHANGED <<mainUp, queue, kept, lost, snapshot, specs, todo, work, previous, considered,
                     found>>
  BY DEF SaveDecision, corpusVars, spiralVars
<1>2. /\ phase = "inline" /\ specs = <<>> /\ todo = {} /\ considered = {}
      /\ previous = {} /\ found = {}
  BY <1>1, NoPlan DEF Outside
<1>3. /\ queue \in SUBSET Seeds /\ kept \in SUBSET Seeds /\ lost \in SUBSET Seeds
      /\ snapshot \in SUBSET Seeds /\ work \in SUBSET Seeds
      /\ round \in Nat /\ IsFiniteSet(decisions) /\ kept \subseteq queue \cup lost
  BY <1>1, CorpusTypes
<1>4. pc = "finalAgents" => snapshot # {} /\ ~ mainUp /\ kept \subseteq snapshot \cup lost
  BY DEF RoundInv, Phases, Rewarded
<1>5. SeedsSurvive' /\ pc' \in Outside /\ round' \in Nat /\ round <= round'
  BY <1>1, <1>3 DEF SeedsSurvive, Outside
<1>6. IsFiniteSet(decisions')
  BY <1>1, <1>3, DecisionsFacts
<1> QED BY <1>1, <1>2, <1>3, <1>4, <1>5, <1>6, OutsideRounds

(* An inline round has a snapshot with a seed, or is over. *)
LEMMA InlineSnapshotKeeps ==
  ASSUME RoundInv, InlineSnapshot
  PROVE  RoundInv'
<1>1. /\ pc = "agents" /\ round' = round
      /\ UNCHANGED <<rewardMode, ids, saved, interventions, campaigns, rows, selectionVars>>
      /\ UNCHANGED <<queue, kept, lost, decisions>>
      /\ \/ /\ \E skipped \in SkippedBySnapshot(queue) : snapshot' = queue \ skipped
            /\ pc' = "plan"
            /\ UNCHANGED <<specs, todo, work, previous, considered, found>>
         \/ /\ pc' = "sampling"
            /\ snapshot' = {} /\ specs' = <<>> /\ todo' = {} /\ work' = {}
            /\ previous' = {} /\ considered' = {} /\ found' = {}
  BY DEF InlineSnapshot, corpusVars, spiralVars, tableVars, OutOfScope
<1>2. /\ phase = "inline" /\ specs = <<>> /\ todo = {} /\ considered = {}
      /\ previous = {} /\ found = {}
  BY <1>1, NoPlan DEF Outside
<1>3. /\ queue \in SUBSET Seeds /\ kept \in SUBSET Seeds /\ lost \in SUBSET Seeds
      /\ snapshot \in SUBSET Seeds /\ work \in SUBSET Seeds
      /\ round \in Nat /\ IsFiniteSet(decisions) /\ kept \subseteq queue \cup lost
  BY <1>1, CorpusTypes
<1>4. SeedsSurvive' /\ pc' \in Outside /\ round' \in Nat /\ round <= round'
  BY <1>1, <1>3 DEF SeedsSurvive, Outside
<1>5. /\ snapshot' \subseteq Seeds /\ work' \subseteq Seeds
      /\ specs' = <<>> /\ todo' = {} /\ considered' = {} /\ previous' = {} /\ found' = {}
      /\ pc' = "plan" => snapshot' # {}
      /\ pc' \in {"plan", "sampling"}
  BY <1>1, <1>2, <1>3, SnapshotFacts
<1> QED BY <1>1, <1>2, <1>3, <1>4, <1>5, OutsideRounds

(* An exception leaves what was not merged yet to be lost. *)
LEMMA InterruptedKeeps ==
  ASSUME RoundInv, Interrupted
  PROVE  RoundInv'
<1>1. /\ phase = "inline" /\ pc' = "sampling" /\ round' = round
      /\ UNCHANGED <<rewardMode, ids, saved, interventions, campaigns, rows, selectionVars>>
      /\ UNCHANGED <<queue, kept, decisions>>
      /\ lost' = IF pc = "merge" THEN (lost \cup work) \ queue ELSE lost
      /\ snapshot' = {} /\ specs' = <<>> /\ todo' = {} /\ work' = {}
      /\ previous' = {} /\ considered' = {} /\ found' = {}
  BY DEF Interrupted, tableVars, OutOfScope
<1>2. /\ queue \in SUBSET Seeds /\ kept \in SUBSET Seeds /\ lost \in SUBSET Seeds
      /\ work \in SUBSET Seeds /\ round \in Nat /\ IsFiniteSet(decisions)
      /\ kept \subseteq queue \cup lost \cup (IF pc = "merge" THEN work ELSE {})
  BY <1>1, CorpusTypes
<1>3. SeedsSurvive' /\ pc' \in Outside /\ round' \in Nat /\ round <= round' /\ lost' \subseteq Seeds
  BY <1>1, <1>2 DEF SeedsSurvive, Outside
<1> QED BY <1>1, <1>2, <1>3, OutsideRounds

(* What a restart does not take over is lost. *)
LEMMA RestartKeeps ==
  ASSUME RoundInv, Restart
  PROVE  RoundInv'
<1>1. /\ pc = "spiral" /\ pc' = "sampling" /\ round' = round
      /\ UNCHANGED <<rewardMode, ids, saved, interventions, campaigns, rows, selectionVars>>
      /\ UNCHANGED <<kept, decisions>>
      /\ snapshot' = {} /\ specs' = <<>> /\ todo' = {} /\ work' = {}
      /\ previous' = {} /\ considered' = {} /\ found' = {}
      /\ \/ \E skipped \in SkippedBySnapshot(queue) :
              queue' = queue \ skipped /\ lost' = (lost \cup skipped) \ queue'
         \/ queue' = FirstSeeds /\ lost' = (lost \cup queue) \ queue'
  BY DEF Restart, tableVars, OutOfScope, RestartInput, Losing
<1>2. phase = "inline"
  BY <1>1 DEF RoundInv, Phases, InSpiral
<1>3. /\ queue \in SUBSET Seeds /\ kept \in SUBSET Seeds /\ lost \in SUBSET Seeds
      /\ round \in Nat /\ IsFiniteSet(decisions) /\ kept \subseteq queue \cup lost
  BY <1>1, CorpusTypes
<1>4. /\ queue' \subseteq Seeds /\ lost' \subseteq Seeds /\ kept \subseteq queue' \cup lost'
  <2>1. ASSUME NEW skipped \in SkippedBySnapshot(queue),
               queue' = queue \ skipped, lost' = (lost \cup skipped) \ queue'
        PROVE  queue' \subseteq Seeds /\ lost' \subseteq Seeds /\ kept \subseteq queue' \cup lost'
    BY <1>3, <2>1, SnapshotFacts
  <2>2. CASE queue' = FirstSeeds /\ lost' = (lost \cup queue) \ queue'
    BY <1>3, <2>2, RoundAssumption
  <2> QED BY <1>1, <2>1, <2>2
<1>5. SeedsSurvive' /\ pc' \in Outside /\ round' \in Nat /\ round <= round'
  BY <1>1, <1>3, <1>4 DEF SeedsSurvive, Outside
<1> QED BY <1>1, <1>2, <1>3, <1>4, <1>5, OutsideRounds

(* A restart that fails loses the queue when the new directory is empty. *)
LEMMA RestartFailsKeeps ==
  ASSUME RoundInv, RestartFails
  PROVE  RoundInv'
<1>1. /\ pc = "spiral" /\ pc' = "stopping" /\ round' = round
      /\ UNCHANGED <<rewardMode, ids, saved, interventions, campaigns, rows, selectionVars>>
      /\ UNCHANGED <<kept, decisions>>
      /\ snapshot' = {} /\ specs' = <<>> /\ todo' = {} /\ work' = {}
      /\ previous' = {} /\ considered' = {} /\ found' = {}
      /\ queue' \in {{}, queue} /\ lost' = (lost \cup queue) \ queue'
  BY DEF RestartFails, tableVars, OutOfScope, Losing
<1>2. phase = "inline"
  BY <1>1 DEF RoundInv, Phases, InSpiral
<1>3. /\ queue \in SUBSET Seeds /\ kept \in SUBSET Seeds /\ lost \in SUBSET Seeds
      /\ round \in Nat /\ IsFiniteSet(decisions) /\ kept \subseteq queue \cup lost
  BY <1>1, CorpusTypes
<1>4. queue' \subseteq Seeds /\ lost' \subseteq Seeds /\ kept \subseteq queue' \cup lost'
  BY <1>1, <1>3
<1>5. SeedsSurvive' /\ pc' \in Outside /\ round' \in Nat /\ round <= round'
  BY <1>1, <1>3, <1>4 DEF SeedsSurvive, Outside
<1> QED BY <1>1, <1>2, <1>3, <1>4, <1>5, OutsideRounds

(* The final snapshot has what is in the queue but for what it skips. *)
LEMMA FinalSnapshotKeeps ==
  ASSUME RoundInv, FinalSnapshot
  PROVE  RoundInv'
<1>1. /\ pc \in {"sampling", "stopping"} /\ pc' = "snapshot" /\ round' = round + 1
      /\ ~ mainUp'
      /\ UNCHANGED <<rewardMode, ids, saved, interventions, campaigns, rows, selectionVars>>
      /\ UNCHANGED <<queue, kept, specs, todo, work, previous, considered, found, decisions>>
      /\ \E skipped \in SkippedBySnapshot(queue) :
           snapshot' = queue \ skipped /\ lost' = lost \cup skipped
  BY DEF FinalSnapshot, spiralVars, tableVars
<1>2. /\ phase = "inline" /\ specs = <<>> /\ todo = {} /\ considered = {}
      /\ previous = {} /\ found = {}
  BY <1>1, NoPlan DEF Outside
<1>3. /\ queue \in SUBSET Seeds /\ kept \in SUBSET Seeds /\ lost \in SUBSET Seeds
      /\ work \in SUBSET Seeds
      /\ round \in Nat /\ IsFiniteSet(decisions) /\ kept \subseteq queue \cup lost
  BY <1>1, CorpusTypes
<1>4. /\ snapshot' \subseteq Seeds /\ snapshot' # {} /\ lost' \subseteq Seeds
      /\ kept \subseteq snapshot' \cup lost' /\ lost \subseteq lost'
  BY <1>1, <1>3, SnapshotFacts
<1>5. SeedsSurvive' /\ pc' \in Outside /\ round' \in Nat /\ round <= round'
  BY <1>1, <1>3, <1>4 DEF SeedsSurvive, Outside
<1> QED BY <1>1, <1>2, <1>3, <1>4, <1>5, OutsideRounds

-----------------------------------------------------------------------------
(* Planning *)

(* The rewards stay what they are against the snapshot and what is kept. *)
LEMMA RewardsStay ==
  ASSUME RoundInv, pc' \notin {"snapshot", "finalAgents"},
         UNCHANGED <<phase, kept, lost, snapshot, rewardMode, results, inlined>>
  PROVE  Rewarded'
BY DEF RoundInv, Rewarded

(* The ids of the rounds before are not those of the round that is planned. *)
LEMMA IdsOfThePlan ==
  ASSUME RoundInv, pc \in {"plan", "finalAgents"}, pc' = "planning", UNCHANGED <<ids, round>>
  PROVE  IdsApart'
<1>1. /\ \A c \in DOMAIN ids : ids[c][1] <= round /\ ids[c][1] # round
      /\ \A c, d \in DOMAIN ids : ids[c] = ids[d] => c = d
  BY DEF RoundInv, IdsApart
<1> QED BY <1>1 DEF IdsApart

(* An inline plan is ready to be saved. *)
LEMMA PlanInlineKeeps ==
  ASSUME RoundInv, PlanInline
  PROVE  RoundInv'
<1>1. /\ pc = "plan" /\ Planning
      /\ UNCHANGED <<rewardMode, round, ids, saved, interventions, campaigns, rows, selectionVars>>
      /\ UNCHANGED <<mainUp, queue, kept, lost, snapshot, work, previous, found, decisions>>
  BY DEF PlanInline, corpusVars, tableVars
<1>2. /\ phase' = phase /\ arms' = arms /\ results' = results /\ failed' = failed
      /\ winner' = winner /\ inlined' = inlined /\ settled' = settled
  BY <1>1, SelectionVars
<1>3. /\ SelectionInv /\ RoundTypes /\ Phases /\ Numbered /\ SeedsSurvive
  BY DEF RoundInv
<1>4. phase = "inline" /\ snapshot # {} /\ previous = {} /\ found = {} /\ IsFiniteSet(decisions)
  BY <1>1, <1>3 DEF Phases, Outside, RoundTypes
<1>5. /\ DOMAIN specs' \subseteq Stages /\ 0 \in DOMAIN specs'
      /\ todo' = DOMAIN specs' /\ unsaved' = DOMAIN specs' /\ pc' = "planning"
      /\ ProposalsTraced' /\ ControlRunsNoRecipe'
  BY <1>1, <1>4, PlanFacts
<1>6. SelectionInv'
  BY <1>1, <1>3, SelectionStutters
<1>7. RoundTypes'
  BY <1>1, <1>2, <1>3, <1>5 DEF RoundTypes
<1>8. Phases'
  BY <1>1, <1>2, <1>4, <1>5 DEF Phases, Outside, InSpiral, InFinal
<1>9. settled = 0
  BY <1>3, <1>4 DEF SelectionInv, Collected
<1>10. Numbered'
  BY <1>1, <1>2, <1>3, <1>4, <1>5, <1>9 DEF Numbered
<1>11. IdsApart'
  BY <1>1, <1>5, IdsOfThePlan
<1>12. SeedsSurvive' /\ Climbing'
  BY <1>1, <1>3, <1>5 DEF SeedsSurvive, Climbing, SpiralClimbs, InSpiral
<1>13. Rewarded'
  BY <1>1, <1>2, <1>5, RewardsStay
<1>14. Filed'
  BY <1>5 DEF Filed
<1>15. Tracked' /\ Listed'
  BY <1>1, <1>2, <1>5, CampaignsStay, RowsStay
<1> QED BY <1>5, <1>6, <1>7, <1>8, <1>10, <1>11, <1>12, <1>13, <1>14, <1>15 DEF RoundInv

(* The final plan has a control, its probes and nothing measured yet. *)
LEMMA PlanFinalRoundKeeps ==
  ASSUME RoundInv, PlanFinalRound
  PROVE  RoundInv'
<1>1. /\ pc = "finalAgents" /\ Planning /\ PlanFinal(Cardinality(todo') - 1)
      /\ UNCHANGED <<rewardMode, round, ids, saved, interventions, campaigns, rows>>
      /\ UNCHANGED <<mainUp, queue, kept, lost, snapshot, work, previous, found, decisions>>
  BY DEF PlanFinalRound, corpusVars, tableVars
<1>2. /\ phase' = "final" /\ results' = results /\ failed' = failed /\ winner' = winner
      /\ inlined' = inlined /\ settled' = settled
  BY <1>1 DEF PlanFinal
<1>3. /\ SelectionInv /\ RoundTypes /\ Phases /\ Numbered /\ SeedsSurvive /\ Rewarded /\ Listed
  BY DEF RoundInv
<1>4. /\ phase = "inline" /\ snapshot # {} /\ previous = {} /\ found = {} /\ ~ mainUp
      /\ IsFiniteSet(decisions) /\ kept \subseteq snapshot \cup lost
  BY <1>1, <1>3 DEF Phases, Outside, RoundTypes, Rewarded
<1>5. /\ DOMAIN specs' \subseteq Stages /\ 0 \in DOMAIN specs'
      /\ todo' = DOMAIN specs' /\ unsaved' = DOMAIN specs' /\ pc' = "planning"
      /\ ProposalsTraced' /\ ControlRunsNoRecipe'
  BY <1>1, <1>4, PlanFacts
<1>6. Cardinality(todo') - 1 \in Nat /\ Cardinality(todo') \in Nat
  <2>1. IsFiniteSet(todo')
    <3>1. \A s \in todo' : s \in Nat /\ s <= 3
      BY <1>5 DEF Stages
    <3>2. todo' \in SUBSET Nat /\ 3 \in Nat
      BY <3>1
    <3> QED BY <3>1, <3>2, FS_BoundedSetOfNaturals
  <2>2. Cardinality(todo') \in Nat /\ Cardinality(todo') # 0
    BY <1>5, <2>1, FS_CardinalityType, FS_EmptySet
  <2> QED BY <2>2
<1>7. SelectionInv' /\ Len(arms') = Len(arms) + 1 + (Cardinality(todo') - 1)
  BY <1>1, <1>3, <1>6, PlanFinalKeeps
<1>8. RoundTypes'
  BY <1>1, <1>2, <1>3, <1>5 DEF RoundTypes
<1>9. Phases'
  BY <1>1, <1>2, <1>4, <1>5 DEF Phases, Outside, InSpiral, InFinal
<1>10. Numbered'
  <2>1. /\ Len(ids) = Len(arms) /\ inlined + settled <= Len(ids) /\ settled = 0
        /\ Len(ids) \in Nat /\ Len(arms) \in Nat
    BY <1>3, <1>4 DEF Numbered, SelectionInv, SelectionTypes, Collected, RoundTypes
  <2> DEFINE n == Cardinality(todo')
  <2>2. Len(ids) + n = Len(arms')
    <3>1. n \in Nat /\ Len(arms') = Len(arms) + 1 + (n - 1)
      BY <1>6, <1>7
    <3> HIDE DEF n
    <3> QED BY <2>1, <3>1
  <2> QED BY <1>1, <1>2, <2>1, <2>2 DEF Numbered
<1>11. IdsApart'
  BY <1>1, <1>5, IdsOfThePlan
<1>12. SeedsSurvive' /\ Climbing'
  BY <1>1, <1>3, <1>5 DEF SeedsSurvive, Climbing, SpiralClimbs, InSpiral
<1>13. Rewarded'
  BY <1>1, <1>2, <1>3, <1>4 DEF Rewarded
<1>14. Filed'
  BY <1>5 DEF Filed
<1>15. Tracked'
  BY <1>1, <1>2, <1>5, CampaignsStay
<1>16. Listed'
  BY <1>1, <1>2, <1>3, <1>4 DEF Listed
<1> QED BY <1>5, <1>7, <1>8, <1>9, <1>10, <1>11, <1>12, <1>13, <1>14, <1>15, <1>16 DEF RoundInv

(* The intervention that is saved is that of one of the specs. *)
LEMMA SaveInterventionKeeps ==
  ASSUME RoundInv, SaveIntervention
  PROVE  RoundInv'
<1> DEFINE stage == Lowest(unsaved)
           row == InterventionRow(Id(stage), specs[stage].tokens)
<1>1. /\ pc = "planning" /\ pc' = pc /\ unsaved # {}
      /\ interventions' = InsertOrReplace(interventions, {row})
      /\ unsaved' = unsaved \ {stage}
      /\ UNCHANGED <<rewardMode, round, ids, saved, campaigns, rows, selectionVars>>
      /\ UNCHANGED <<mainUp, queue, kept, lost, snapshot, specs, todo, work, previous, considered,
                     found, decisions>>
  BY DEF SaveIntervention, WithIntervention, corpusVars, spiralVars
<1>2. /\ phase' = phase /\ arms' = arms /\ results' = results /\ failed' = failed
      /\ winner' = winner /\ inlined' = inlined /\ settled' = settled
  BY <1>1, SelectionVars
<1>3. /\ SelectionInv /\ RoundTypes /\ Phases /\ Numbered /\ SeedsSurvive /\ Filed
  BY DEF RoundInv
<1>4. row.id = Id(stage)
  BY DEF InterventionRow
<1> HIDE DEF row, stage
<1>5. /\ \A i \in interventions : \E j \in interventions' : j.id = i.id
      /\ \E j \in interventions' : j.id = Id(stage)
  BY <1>1, <1>4, InsertKeepsIds
<1>6. SelectionInv' /\ RoundTypes' /\ Phases' /\ Numbered'
  BY <1>1, <1>2, <1>3, SelectionStutters DEF RoundTypes, Phases, Numbered
<1>7. IdsApart'
  BY <1>1, IdsStay
<1>8. SeedsSurvive' /\ Climbing'
  BY <1>1, <1>3 DEF SeedsSurvive, Climbing, SpiralClimbs, InSpiral
<1>9. Rewarded' /\ Tracked' /\ Listed'
  BY <1>1, <1>2, <1>5, RewardsStay, CampaignsStay, RowsStay
<1>10. Filed'
  <2>1. ASSUME NEW s \in DOMAIN specs' \ unsaved' PROVE \E i \in interventions' : i.id = Id(s)
    <3>1. s = stage \/ s \in DOMAIN specs \ unsaved
      BY <1>1
    <3> QED BY <1>3, <1>5, <3>1 DEF Filed
  <2>2. \A s : Id(s)' = Id(s)
    BY <1>1 DEF Id
  <2> QED BY <2>1, <2>2 DEF Filed
<1>11. ProposalsTraced' /\ ControlRunsNoRecipe'
  BY <1>1 DEF RoundInv, ProposalsTraced, ControlRunsNoRecipe
<1> QED BY <1>6, <1>7, <1>8, <1>9, <1>10, <1>11 DEF RoundInv

(* When the campaigns may start the whole plan is saved. *)
LEMMA StopMainKeeps ==
  ASSUME RoundInv, StopMain
  PROVE  RoundInv'
<1>1. /\ pc = "planning" /\ unsaved = {} /\ ~ mainUp'
      /\ pc' = IF phase = "inline" THEN "spiral" ELSE "spawn"
      /\ UNCHANGED <<rewardMode, round, ids, saved, interventions, campaigns, rows, selectionVars>>
      /\ UNCHANGED <<queue, kept, lost, unsaved, snapshot, specs, todo, work, previous, considered,
                     found, decisions>>
  BY DEF StopMain, planVars, spiralVars, tableVars
<1>2. /\ phase' = phase /\ arms' = arms /\ results' = results /\ failed' = failed
      /\ winner' = winner /\ inlined' = inlined /\ settled' = settled
  BY <1>1, SelectionVars
<1>3. /\ SelectionInv /\ RoundTypes /\ Phases /\ Numbered /\ SeedsSurvive
  BY DEF RoundInv
<1>4. /\ phase \in {"inline", "final"} /\ todo # {} /\ previous = {} /\ found = {}
  BY <1>1, <1>3 DEF Phases
<1>5. pc' \in {"spiral", "spawn"} /\ (pc' = "spiral" <=> phase = "inline")
  BY <1>1
<1>6. SelectionInv' /\ RoundTypes'
  BY <1>1, <1>2, <1>3, <1>5, SelectionStutters DEF RoundTypes, InSpiral, InFinal
<1>7. Phases' /\ Numbered'
  BY <1>1, <1>2, <1>3, <1>4, <1>5 DEF Phases, Numbered, Outside, InSpiral, InFinal
<1>8. IdsApart'
  BY <1>1, <1>5, IdsStay
<1>9. SeedsSurvive' /\ Climbing'
  BY <1>1, <1>3, <1>4, <1>5 DEF SeedsSurvive, Climbing, SpiralClimbs
<1>10. Rewarded' /\ Tracked' /\ Listed'
  BY <1>1, <1>2, <1>5, RewardsStay, CampaignsStay, RowsStay
<1>11. Filed' /\ ProposalsTraced' /\ ControlRunsNoRecipe'
  BY <1>1, PlanStays
<1> QED BY <1>6, <1>7, <1>8, <1>9, <1>10, <1>11 DEF RoundInv

(* An exception ends the run with everything as it is. *)
LEMMA ThrowsKeeps ==
  ASSUME RoundInv, Throws
  PROVE  RoundInv'
<1>1. /\ pc # "merge" /\ pc' = "threw"
      /\ UNCHANGED <<rewardMode, round, ids, saved, interventions, campaigns, rows, selectionVars>>
      /\ UNCHANGED <<mainUp, queue, kept, lost, unsaved, snapshot, specs, todo, work, previous,
                     considered, found, decisions>>
  BY DEF Throws, corpusVars, planVars, spiralVars, tableVars
<1>2. /\ phase' = phase /\ arms' = arms /\ results' = results /\ failed' = failed
      /\ winner' = winner /\ inlined' = inlined /\ settled' = settled
  BY <1>1, SelectionVars
<1>3. /\ SelectionInv /\ RoundTypes /\ Phases /\ Numbered /\ SeedsSurvive
  BY DEF RoundInv
<1>4. SelectionInv' /\ RoundTypes'
  BY <1>1, <1>2, <1>3, SelectionStutters DEF RoundTypes
<1>5. Phases' /\ Numbered'
  BY <1>1, <1>2, <1>3 DEF Phases, Numbered, Outside, InSpiral, InFinal
<1>6. IdsApart'
  BY <1>1, IdsStay
<1>7. SeedsSurvive' /\ Climbing'
  BY <1>1, <1>3 DEF SeedsSurvive, Climbing, SpiralClimbs, InSpiral
<1>8. Rewarded' /\ Tracked' /\ Listed'
  BY <1>1, <1>2, RewardsStay, CampaignsStay, RowsStay
<1>9. Filed' /\ ProposalsTraced' /\ ControlRunsNoRecipe'
  BY <1>1, PlanStays
<1> QED BY <1>4, <1>5, <1>6, <1>7, <1>8, <1>9 DEF RoundInv

-----------------------------------------------------------------------------
(* The spiral *)

(* The stage that is next, which has no id yet. *)
LEMMA NextStage ==
  ASSUME RoundTypes, IdsApart, todo # {}
  PROVE  /\ Lowest(todo) \in todo /\ Lowest(todo) \in Stages
         /\ Id(Lowest(todo)) \in Ids
         /\ pc # "merge" => \A k \in DOMAIN ids : ids[k] # Id(Lowest(todo))
<1>1. todo \in SUBSET Nat /\ todo \subseteq Stages /\ round \in Nat
  BY DEF RoundTypes, Stages
<1>2. \E s \in todo : \A t \in todo : s <= t
  BY <1>1, LeastExists
<1>3. Lowest(todo) \in todo
  BY <1>2 DEF Lowest
<1>4. Id(Lowest(todo)) \in Ids
  BY <1>1, <1>3 DEF Id, Ids
<1>5. pc # "merge" => \A k \in DOMAIN ids : ids[k] # Id(Lowest(todo))
  BY <1>3 DEF IdsApart, Id, Upcoming
<1> QED BY <1>1, <1>3, <1>4, <1>5

\* new is the table with a running campaign of the id.
Opens(new, table, id) ==
  /\ new \subseteq CampaignRows
  /\ \E n \in new : n.id = id /\ n.status = "running"
  /\ \A r \in table : r.id # id => r \in new
  /\ \A n \in new : n \in table \/ n.intervention = id

(* A campaign that is recorded has a row that says it runs. *)
LEMMA InsertCampaignFacts ==
  ASSUME NEW table \in SUBSET CampaignRows, NEW id \in Ids, NEW type \in {"micro_inline", "micro"}
  PROVE  Opens(InsertCampaign(table, id, type, id), table, id)
<1> DEFINE row == [id |-> id, type |-> type, status |-> "running", intervention |-> id]
           new == InsertCampaign(table, id, type, id)
<1>1. new = InsertOrReplace(table, {row})
  BY DEF InsertCampaign
<1>2. row \in CampaignRows /\ row.id = id /\ row.status = "running" /\ row.intervention = id
  BY DEF CampaignRows
<1> HIDE DEF row, new
<1>3. new = {r \in table : row.id # r.id} \cup {row}
  BY <1>1 DEF InsertOrReplace
<1>4. /\ new \subseteq CampaignRows
      /\ \E n \in new : n.id = id /\ n.status = "running"
      /\ \A r \in table : r.id # id => r \in new
      /\ \A n \in new : n \in table \/ n.intervention = id
  BY <1>2, <1>3
<1> QED BY <1>4 DEF new, Opens

\* The ids that must have a row that has not failed.
Counted == {ids[k] : k \in DOMAIN ids \ failed}

Founded(table) == \A c \in table : \E i \in interventions : i.id = c.intervention
Standing(table, wanted) == \A w \in wanted : \E c \in table : c.id = w /\ c.status # "failed"

(* What Tracked says of the rows of campaigns. *)
LEMMA TrailOfCampaigns ==
  ASSUME RoundInv
  PROVE  Founded(campaigns) /\ Standing(campaigns, Counted)
BY DEF RoundInv, Tracked, Founded, Standing, Counted

(* Closing a row keeps the others standing. *)
LEMMA FinishStands ==
  ASSUME NEW table \in SUBSET CampaignRows, NEW id, NEW now \in {"completed", "failed"},
         NEW wanted, Founded(table), Standing(table, wanted),
         now = "completed" \/ id \notin wanted
  PROVE  LET new == FinishCampaign(table, id, now)
         IN  new \subseteq CampaignRows /\ Founded(new) /\ Standing(new, wanted)
<1> DEFINE new == FinishCampaign(table, id, now)
<1>0. Closes(new, table, id, now)
  BY FinishFacts
<1> HIDE DEF new
<1>1. /\ new \subseteq CampaignRows
      /\ \A r \in table : \E n \in new :
           n.id = r.id /\ n.status = IF r.id = id THEN now ELSE r.status
      /\ \A n \in new : \E r \in table : n.id = r.id /\ n.intervention = r.intervention
  BY <1>0 DEF Closes
<1>2. Founded(new)
  BY <1>1 DEF Founded
<1>3. ASSUME NEW w \in wanted PROVE \E n \in new : n.id = w /\ n.status # "failed"
  <2>1. PICK r \in table : r.id = w /\ r.status # "failed"
    BY DEF Standing
  <2>2. PICK n \in new : n.id = r.id /\ n.status = IF r.id = id THEN now ELSE r.status
    BY <1>1
  <2>3. n.status # "failed"
    BY <2>1, <2>2
  <2> QED BY <2>1, <2>2, <2>3
<1> QED BY <1>1, <1>2, <1>3 DEF new, Standing

(* So does recording a campaign of the round, whose intervention is saved. *)
LEMMA InsertStands ==
  ASSUME NEW table \in SUBSET CampaignRows, NEW id \in Ids, NEW type \in {"micro_inline", "micro"},
         NEW wanted, Founded(table), Standing(table, wanted),
         id \notin wanted, \E i \in interventions : i.id = id
  PROVE  LET new == InsertCampaign(table, id, type, id)
         IN  /\ new \subseteq CampaignRows /\ Founded(new) /\ Standing(new, wanted)
             /\ \E n \in new : n.id = id /\ n.status = "running"
<1> DEFINE new == InsertCampaign(table, id, type, id)
<1>0. Opens(new, table, id)
  BY InsertCampaignFacts
<1> HIDE DEF new
<1>1. /\ new \subseteq CampaignRows
      /\ \E n \in new : n.id = id /\ n.status = "running"
      /\ \A r \in table : r.id # id => r \in new
      /\ \A n \in new : n \in table \/ n.intervention = id
  BY <1>0 DEF Opens
<1>2. Founded(new)
  BY <1>1 DEF Founded
<1>3. Standing(new, wanted)
  BY <1>1 DEF Standing
<1> QED BY <1>1, <1>2, <1>3 DEF new

(* A step of the spiral that brings no result and merges nothing. *)
LEMMA WithinSpiral ==
  ASSUME RoundInv, pc \in {"spiral", "launch", "stage"},
         pc' \in {"spiral", "launch", "stage", "result"}, todo' \subseteq todo,
         UNCHANGED <<rewardMode, round, ids, saved, mainUp, queue, kept, lost, unsaved, snapshot,
                     specs, considered, previous, found, decisions, interventions, rows,
                     selectionVars>>,
         work' \subseteq Seeds, campaigns' \subseteq CampaignRows,
         Founded(campaigns'), Standing(campaigns', Counted),
         pc' # "spiral" => todo' # {},
         pc' = "stage" => work' = snapshot \cup found,
         pc' = "result" => snapshot \cup found \subseteq work',
         pc' # "spiral" => \E c \in campaigns' : /\ c.id = Id(Lowest(todo'))
                                                 /\ pc' = "result" => c.status # "failed"
  PROVE  RoundInv'
<1>1. /\ phase' = phase /\ arms' = arms /\ results' = results /\ failed' = failed
      /\ winner' = winner /\ inlined' = inlined /\ settled' = settled
  BY SelectionVars
<1>2. SelectionInv /\ RoundTypes /\ Phases /\ Numbered /\ SeedsSurvive /\ Climbing
  BY DEF RoundInv
<1>3. phase = "inline" /\ unsaved = {}
  BY <1>2 DEF Phases, InSpiral
<1>4. SelectionInv' /\ RoundTypes'
  BY <1>1, <1>2, SelectionStutters DEF RoundTypes, InSpiral
<1>5. Phases' /\ Numbered'
  BY <1>1, <1>2, <1>3 DEF Phases, Numbered, Outside, InSpiral, InFinal
<1>6. IdsApart'
  BY IdsStay
<1>7. SeedsSurvive'
  BY <1>2 DEF SeedsSurvive
<1>8. Climbing'
  BY <1>2 DEF Climbing, SpiralClimbs, InSpiral
<1>9. Rewarded' /\ Listed'
  BY <1>1, RewardsStay, RowsStay
<1>10. Filed' /\ ProposalsTraced' /\ ControlRunsNoRecipe'
  BY PlanStays
<1>11. Tracked'
  <2>1. \A c \in campaigns' : \E i \in interventions' : i.id = c.intervention
    BY DEF Founded
  <2>2. \A k \in DOMAIN ids' \ failed' : \E c \in campaigns' : c.id = ids'[k] /\ c.status # "failed"
    BY <1>1 DEF Standing, Counted
  <2>3. Id(Lowest(todo))' = Id(Lowest(todo'))
    BY DEF Id, Lowest
  <2>4. /\ pc' \in {"launch", "stage"} => \E c \in campaigns' : c.id = Id(Lowest(todo))'
        /\ pc' = "result" =>
             \E c \in campaigns' : c.id = Id(Lowest(todo))' /\ c.status # "failed"
    BY <2>3
  <2> QED BY <2>1, <2>2, <2>4 DEF Tracked
<1> QED BY <1>4, <1>5, <1>6, <1>7, <1>8, <1>9, <1>10, <1>11 DEF RoundInv

(* A stage is recorded after its intervention was saved. *)
LEMMA RecordStageKeeps ==
  ASSUME RoundInv, RecordStage
  PROVE  RoundInv'
<1> DEFINE id == Id(Lowest(todo))
<1>1. /\ pc = "spiral" /\ pc' = "launch" /\ todo # {}
      /\ campaigns' = InsertCampaign(campaigns, id, "micro_inline", id)
      /\ UNCHANGED <<rewardMode, round, ids, saved, mainUp, queue, kept, lost, unsaved, snapshot,
                     specs, todo, work, considered, previous, found, decisions, interventions,
                     rows, selectionVars>>
  BY DEF RecordStage, corpusVars, planVars, spiralVars
<1>2. RoundTypes /\ IdsApart /\ Phases /\ Filed
  BY DEF RoundInv
<1>3. Lowest(todo) \in todo /\ id \in Ids /\ \A k \in DOMAIN ids : ids[k] # id
  BY <1>1, <1>2, NextStage
<1>4. id \notin Counted
  BY <1>3 DEF Counted
<1>5. \E i \in interventions : i.id = id
  BY <1>1, <1>2, <1>3 DEF RoundTypes, Filed, Phases, InSpiral
<1>6. campaigns \in SUBSET CampaignRows /\ work \subseteq Seeds
  BY <1>2 DEF RoundTypes
<1>7. id = Id(Lowest(todo'))
  BY <1>1
<1> HIDE DEF id
<1>8. /\ campaigns' \subseteq CampaignRows /\ Founded(campaigns') /\ Standing(campaigns', Counted)
      /\ \E n \in campaigns' : n.id = id /\ n.status = "running"
  BY <1>1, <1>3, <1>4, <1>5, <1>6, TrailOfCampaigns, InsertStands
<1>9. \E c \in campaigns' : c.id = Id(Lowest(todo'))
  BY <1>7, <1>8
<1> QED BY <1>1, <1>6, <1>8, <1>9, WithinSpiral

(* A stage starts where the one before it ended. *)
LEMMA LaunchStageKeeps ==
  ASSUME RoundInv, LaunchStage
  PROVE  RoundInv'
<1>1. /\ pc = "launch" /\ pc' = "stage" /\ work' = StageInput
      /\ UNCHANGED <<rewardMode, round, ids, saved, mainUp, queue, kept, lost, unsaved, snapshot,
                     specs, todo, considered, previous, found, decisions, interventions,
                     campaigns, rows, selectionVars>>
  BY DEF LaunchStage, corpusVars, planVars, tableVars
<1>2. RoundTypes /\ Phases /\ Climbing /\ Tracked
  BY DEF RoundInv
<1>3. todo # {} /\ IF previous = {} THEN found = {} ELSE previous = snapshot \cup found
  BY <1>1, <1>2 DEF Phases, Climbing, InSpiral
<1>4. work' = snapshot \cup found
  BY <1>1, <1>3 DEF StageInput
<1>5. work' \subseteq Seeds /\ campaigns' \subseteq CampaignRows
  BY <1>1, <1>2, <1>4 DEF RoundTypes
<1>6. Founded(campaigns') /\ Standing(campaigns', Counted)
  BY <1>1, TrailOfCampaigns
<1>7. Lowest(todo') = Lowest(todo)
  BY <1>1
<1>8. \E c \in campaigns' : c.id = Id(Lowest(todo'))
  BY <1>1, <1>2, <1>7 DEF Tracked
<1> QED BY <1>1, <1>3, <1>4, <1>5, <1>6, <1>8, WithinSpiral

(* A stage that fails closes its campaign as failed. *)
LEMMA StageFailsKeeps ==
  ASSUME RoundInv, StageFails
  PROVE  RoundInv'
<1> DEFINE id == Id(Lowest(todo))
<1>1. /\ pc \in {"launch", "stage"} /\ pc' = "spiral" /\ todo' = todo \ {Lowest(todo)}
      /\ campaigns' = FinishCampaign(campaigns, id, "failed")
      /\ UNCHANGED <<rewardMode, round, ids, saved, mainUp, queue, kept, lost, unsaved, snapshot,
                     specs, work, considered, previous, found, decisions, interventions, rows,
                     selectionVars>>
  BY DEF StageFails, corpusVars, planVars
<1>2. RoundTypes /\ IdsApart /\ todo # {}
  BY <1>1 DEF RoundInv, Phases
<1>3. id \notin Counted
  BY <1>1, <1>2, NextStage DEF Counted
<1>4. campaigns \in SUBSET CampaignRows /\ work' \subseteq Seeds
  BY <1>1, <1>2 DEF RoundTypes
<1> HIDE DEF id
<1>5. campaigns' \subseteq CampaignRows /\ Founded(campaigns') /\ Standing(campaigns', Counted)
  BY <1>1, <1>3, <1>4, TrailOfCampaigns, FinishStands
<1> QED BY <1>1, <1>4, <1>5, WithinSpiral

(* A stage that ends closes its campaign before it has a result. *)
LEMMA StageEndsKeeps ==
  ASSUME RoundInv, StageEnds
  PROVE  RoundInv'
<1> DEFINE id == Id(Lowest(todo))
<1>1. /\ pc = "stage" /\ pc' = "result" /\ work' \in AfterCampaign(work)
      /\ campaigns' = FinishCampaign(campaigns, id, "completed")
      /\ UNCHANGED <<rewardMode, round, ids, saved, mainUp, queue, kept, lost, unsaved, snapshot,
                     specs, todo, considered, previous, found, decisions, interventions, rows,
                     selectionVars>>
  BY DEF StageEnds, corpusVars, planVars
<1>2. RoundTypes /\ Phases /\ Climbing /\ Tracked
  BY DEF RoundInv
<1>3. todo # {} /\ work = snapshot \cup found
  BY <1>1, <1>2 DEF Phases, Climbing, SpiralClimbs
<1>4. campaigns \in SUBSET CampaignRows /\ work \in SUBSET Seeds
  BY <1>2 DEF RoundTypes
<1>5. work \subseteq work' /\ work' \subseteq Seeds
  BY <1>1, <1>4, AfterCampaignFacts
<1>6. PICK c \in campaigns : c.id = id
  BY <1>1, <1>2 DEF Tracked
<1>7. id = Id(Lowest(todo'))
  BY <1>1
<1> HIDE DEF id
<1>8. campaigns' \subseteq CampaignRows /\ Founded(campaigns') /\ Standing(campaigns', Counted)
  BY <1>1, <1>4, TrailOfCampaigns, FinishStands
<1>9. Closes(campaigns', campaigns, id, "completed")
  BY <1>1, <1>4, FinishFacts
<1>10. PICK n \in campaigns' : n.id = c.id /\ n.status = IF c.id = id THEN "completed" ELSE c.status
  BY <1>9 DEF Closes
<1>11. \E n_1 \in campaigns' : n_1.id = Id(Lowest(todo')) /\ n_1.status # "failed"
  BY <1>6, <1>7, <1>10
<1> QED BY <1>1, <1>3, <1>5, <1>8, <1>11, WithinSpiral

(* The result joins the others; its seeds are to be merged. *)
LEMMA StageResultKeeps ==
  ASSUME RoundInv, StageResult
  PROVE  RoundInv'
<1> DEFINE stage == Lowest(todo)
           id == Id(stage)
           arm == IF stage = 0 THEN "default_control" ELSE "probe"
<1>1. PICK x \in Extras :
        /\ rows' = InsertMicroResult(rows, id, id, RewardOn(work, x), FALSE)
        /\ InlineResult(arm, RewardOn(work, x))
        /\ ids' = Append(ids, id)
  BY Zenon DEF StageResult
<1>2. /\ pc = "result" /\ pc' = "merge" /\ kept' = kept \cup work
      /\ UNCHANGED <<rewardMode, round, saved, mainUp, queue, lost, unsaved, snapshot, specs, todo,
                     work, previous, considered, found, decisions, interventions, campaigns>>
  BY DEF StageResult, planVars, spiralVars
<1>3. /\ SelectionInv /\ RoundTypes /\ Phases /\ Numbered /\ IdsApart /\ SeedsSurvive /\ Climbing
      /\ Rewarded /\ Tracked /\ Listed
  BY DEF RoundInv
<1>4. phase = "inline" /\ todo # {} /\ unsaved = {} /\ Len(ids) = Len(arms)
  BY <1>2, <1>3 DEF Phases, Numbered, InSpiral
<1>5. stage \in todo /\ id \in Ids /\ \A k \in DOMAIN ids : ids[k] # id
  BY <1>2, <1>3, <1>4, NextStage
<1>6. /\ work \in SUBSET Seeds /\ kept \in SUBSET Seeds /\ ids \in Seq(Ids) /\ round \in Nat
      /\ rows \in SUBSET ResultRows
  BY <1>3 DEF RoundTypes
<1> DEFINE r == RewardOn(work, x)
           row == [id |-> id, campaign |-> id, reward |-> r, promoted |-> FALSE]
<1>7. r \in Int /\ (rewardMode = "edges_only" => r = EdgeWeight * Cardinality(work))
  BY <1>6, RewardFacts
<1>8. arm \in {"default_control", "probe"}
  OBVIOUS
<1> HIDE DEF arm, r
<1>9. SelectionInv'
  BY <1>1, <1>3, <1>7, <1>8, InlineResultKeeps DEF r
<1>10. /\ inlined \in Nat /\ settled = 0 /\ Len(arms) = inlined /\ results \in Seq(Results)
  BY <1>3, <1>4 DEF SelectionInv, SelectionTypes, Collected
<1>11. /\ results' = Append(results, [campaign |-> inlined + 1, reward |-> r])
       /\ inlined' = inlined + 1 /\ phase' = phase /\ failed' = failed /\ winner' = winner
       /\ settled' = settled /\ Len(arms') = inlined + 1
  <2>1. arms \in Seq({"default_control", "probe"})
    BY <1>3 DEF SelectionInv, SelectionTypes
  <2>2. arms' = Append(arms, arm)
    BY <1>1 DEF InlineResult
  <2>3. Len(arms') = inlined + 1
    BY <1>8, <1>10, <2>1, <2>2
  <2> QED BY <1>1, <2>3 DEF InlineResult, r
<1> DEFINE new == [campaign |-> inlined + 1, reward |-> r]
           N == Len(results)
<1>12. /\ results' = Append(results, new) /\ new \in Results
       /\ new.campaign = inlined + 1 /\ new.reward = r
  BY <1>7, <1>10, <1>11 DEF Results
<1> HIDE DEF new
<1>13. /\ DOMAIN results' = DOMAIN results \cup {N + 1}
       /\ \A i \in DOMAIN results : results'[i] = results[i]
       /\ results'[N + 1] = new
       /\ Len(results') = N + 1 /\ N \in Nat
  BY <1>10, <1>12
<1>14. \A i \in DOMAIN results : /\ results[i].campaign \in Nat
                                 /\ results[i].campaign <= inlined
                                 /\ results[i].campaign \in 1 .. inlined
                                 /\ results[i].reward \in Int
  <2>1. \A i \in DOMAIN results : results[i].campaign \in Finished
    BY DEF Finished
  <2>2. Finished \subseteq 1 .. inlined
    BY <1>3, <1>10 DEF SelectionInv, Collected
  <2> QED BY <1>3, <1>4, <2>1, <2>2, InlineResultsOnly
<1> HIDE DEF N
<1>15. /\ ids' \in Seq(Ids) /\ Len(ids') = inlined + 1
       /\ DOMAIN ids = 1 .. inlined /\ DOMAIN ids' = (1 .. inlined) \cup {inlined + 1}
       /\ \A k \in 1 .. inlined : ids'[k] = ids[k]
       /\ ids'[inlined + 1] = id
  <2> HIDE DEF id
  <2> QED BY <1>1, <1>4, <1>5, <1>6, <1>10
<1>16. row \in ResultRows /\ rows' = {o \in rows : o.id # id} \cup {row}
  <2> HIDE DEF id
  <2>1. rows' = InsertMicroResult(rows, id, id, r, FALSE)
    BY <1>1 DEF r
  <2>2. row \in ResultRows
    BY <1>5, <1>7 DEF ResultRows
  <2>3. rows' = {o \in rows : row.id # o.id} \cup {row}
    BY <2>1 DEF InsertMicroResult, InsertOrReplace
  <2>4. row.id = id
    OBVIOUS
  <2> HIDE DEF row
  <2> QED BY <2>2, <2>3, <2>4
<1>17. row.id = id /\ row.campaign = id /\ row.promoted = FALSE
  OBVIOUS
<1>18. id[1] = round /\ id[2] = stage
  BY DEF Id
<1>19. \E c \in campaigns : c.id = id /\ c.status # "failed"
  BY <1>2, <1>3 DEF Tracked
<1> HIDE DEF id, row
<1>20. RoundTypes'
  <2>1. saved \in 0 .. Len(results')
    BY <1>3, <1>13 DEF RoundTypes, N
  <2> QED BY <1>2, <1>3, <1>6, <1>15, <1>16, <2>1 DEF RoundTypes, InSpiral
<1>21. Phases' /\ Numbered'
  BY <1>2, <1>3, <1>4, <1>10, <1>11, <1>15 DEF Phases, Numbered, Outside, InSpiral, InFinal
<1>22. IdsApart'
  <2>1. Upcoming = todo /\ Upcoming' = todo \ {stage}
    BY <1>2 DEF Upcoming
  <2>2. \A c \in 1 .. inlined : ids[c][1] <= round /\ (ids[c][1] = round => ids[c][2] \notin todo)
    BY <1>3, <1>15, <2>1 DEF IdsApart
  <2>3. \A c \in DOMAIN ids' : ids'[c][1] <= round' /\ (ids'[c][1] = round' => ids'[c][2] \notin Upcoming')
    BY <1>2, <1>6, <1>15, <1>18, <2>1, <2>2
  <2>4. \A c, d \in DOMAIN ids' : ids'[c] = ids'[d] => c = d
    BY <1>3, <1>5, <1>15 DEF IdsApart
  <2> QED BY <1>2, <2>3, <2>4 DEF IdsApart
<1>23. SeedsSurvive' /\ Climbing'
  BY <1>2, <1>3 DEF SeedsSurvive, Climbing, SpiralClimbs, InSpiral
<1>24. Rewarded'
  <2> DEFINE w == EdgeWeight * Cardinality(kept)
             u == EdgeWeight * Cardinality(work)
             v == EdgeWeight * Cardinality(kept')
             s == EdgeWeight * Cardinality(snapshot')
  <2>1. kept \subseteq kept' /\ work \subseteq kept' /\ kept' \subseteq Seeds
    BY <1>2, <1>6
  <2>2. w \in Nat /\ u \in Nat /\ v \in Nat /\ w <= v /\ u <= v
    BY <1>6, <2>1, Worth
  <2>3. rewardMode = "edges_only" => \A i \in DOMAIN results : results[i].reward <= w
    BY <1>3, <1>14 DEF Rewarded
  <2> HIDE DEF u, v, w, s
  <2>4. rewardMode = "edges_only" => \A i \in DOMAIN results' : results'[i].reward <= v
    BY <1>7, <1>12, <1>13, <1>14, <2>2, <2>3 DEF u
  <2>5. \A i \in DOMAIN results' : ~ (results'[i].campaign > inlined')
    BY <1>10, <1>11, <1>12, <1>13, <1>14
  <2>6. rewardMode' = "edges_only" =>
          \A i \in DOMAIN results' :
            /\ results'[i].campaign <= inlined' => results'[i].reward <= v
            /\ results'[i].campaign > inlined' => results'[i].reward >= s
    BY <1>2, <2>4, <2>5
  <2> QED BY <1>2, <1>4, <1>11, <2>6 DEF Rewarded, v, s
<1>25. Filed' /\ ProposalsTraced' /\ ControlRunsNoRecipe'
  BY <1>2, PlanStays
<1>26. Tracked'
  <2>1. \A c \in campaigns' : \E i \in interventions' : i.id = c.intervention
    BY <1>2, <1>3 DEF Tracked
  <2>2. ASSUME NEW k \in DOMAIN ids' \ failed'
        PROVE  \E c \in campaigns' : c.id = ids'[k] /\ c.status # "failed"
    <3>1. CASE k = inlined + 1
      BY <1>2, <1>15, <1>19, <3>1
    <3>2. CASE k \in 1 .. inlined
      BY <1>2, <1>3, <1>11, <1>15, <3>2 DEF Tracked
    <3> QED BY <1>15, <3>1, <3>2
  <2> QED BY <1>2, <2>1, <2>2 DEF Tracked
<1>27. Listed'
  <2>1. ASSUME NEW o \in rows'
        PROVE  /\ o.id = o.campaign /\ ~ o.promoted
               /\ \E i \in DOMAIN results' : o.campaign = ids'[results'[i].campaign]
               /\ \A other \in rows' : other.id = o.id => other = o
    <3>1. CASE o = row
      <4>1. o.campaign = ids'[results'[N + 1].campaign] /\ N + 1 \in DOMAIN results'
        BY <1>12, <1>13, <1>15, <1>17, <3>1
      <4> QED BY <1>16, <1>17, <3>1, <4>1
    <3>2. CASE o \in rows /\ o.id # id
      <4>1. /\ o.id = o.campaign /\ ~ o.promoted
            /\ \A other \in rows : other.id = o.id => other = o
        BY <1>3, <1>4, <3>2 DEF Listed
      <4>2. PICK i \in DOMAIN results : o.campaign = ids[results[i].campaign]
        BY <1>3, <3>2 DEF Listed
      <4>3. i \in DOMAIN results' /\ o.campaign = ids'[results'[i].campaign]
        BY <1>13, <1>14, <1>15, <4>2
      <4> QED BY <1>16, <1>17, <3>2, <4>1, <4>3
    <3> QED BY <1>16, <3>1, <3>2
  <2> QED BY <2>1 DEF Listed
<1> QED BY <1>9, <1>20, <1>21, <1>22, <1>23, <1>24, <1>25, <1>26, <1>27 DEF RoundInv

(* What a merge skips of a stage's seeds is lost, and the next stage has all of *)
(* them unless the queue is missing.                                           *)
LEMMA MergeStageKeeps ==
  ASSUME RoundInv, MergeStage
  PROVE  RoundInv'
<1>1. PICK skipped \in SUBSET work :
        /\ queue' = queue \cup (work \ skipped)
        /\ lost' = (lost \cup skipped) \ queue'
        /\ \/ previous' = work /\ found' = found \cup (work \ snapshot)
           \/ UNCHANGED <<previous, found>>
  BY DEF MergeStage, SkippedByMerge, Merged, Losing
<1>2. /\ pc = "merge" /\ pc' = "spiral" /\ todo' = todo \ {Lowest(todo)}
      /\ UNCHANGED <<rewardMode, round, ids, saved, mainUp, kept, unsaved, snapshot, specs, work,
                     considered, decisions, interventions, campaigns, rows, selectionVars>>
  BY DEF MergeStage, planVars, tableVars
<1>3. /\ phase' = phase /\ arms' = arms /\ results' = results /\ failed' = failed
      /\ winner' = winner /\ inlined' = inlined /\ settled' = settled
  BY <1>2, SelectionVars
<1>4. /\ SelectionInv /\ RoundTypes /\ Phases /\ Numbered /\ IdsApart /\ SeedsSurvive /\ Climbing
  BY DEF RoundInv
<1>5. phase = "inline" /\ unsaved = {}
  BY <1>2, <1>4 DEF Phases, InSpiral
<1>6. /\ snapshot \cup found \subseteq work /\ kept \subseteq queue \cup lost \cup work
      /\ IF previous = {} THEN found = {} ELSE previous = snapshot \cup found
  BY <1>2, <1>4 DEF Climbing, SeedsSurvive, InSpiral
<1>7. SelectionInv'
  BY <1>2, <1>4, SelectionStutters
<1>8. RoundTypes'
  BY <1>1, <1>2, <1>3, <1>4 DEF RoundTypes, InSpiral
<1>9. Phases' /\ Numbered'
  BY <1>1, <1>2, <1>3, <1>4, <1>5 DEF Phases, Numbered, Outside, InSpiral, InFinal
<1>10. IdsApart'
  <2>1. Upcoming' = Upcoming
    BY <1>2 DEF Upcoming
  <2> QED BY <1>2, <1>4, <2>1 DEF IdsApart
<1>11. SeedsSurvive'
  <2>1. kept \subseteq queue' \cup lost'
    BY <1>1, <1>6
  <2> QED BY <1>2, <2>1 DEF SeedsSurvive
<1>12. Climbing'
  <2>1. IF previous' = {} THEN found' = {} ELSE previous' = snapshot \cup found'
    BY <1>1, <1>6
  <2> QED BY <1>2, <2>1 DEF Climbing, SpiralClimbs, InSpiral
<1>13. Rewarded'
  BY <1>2, <1>3, <1>5 DEF RoundInv, Rewarded
<1>14. Tracked' /\ Listed'
  BY <1>2, <1>3, CampaignsStay, RowsStay
<1>15. Filed' /\ ProposalsTraced' /\ ControlRunsNoRecipe'
  BY <1>2, PlanStays
<1> QED BY <1>7, <1>8, <1>9, <1>10, <1>11, <1>12, <1>13, <1>14, <1>15 DEF RoundInv

-----------------------------------------------------------------------------
(* The final campaigns *)

(* The results collected are those of campaigns that have an id. *)
LEMMA ResultsHaveIds ==
  ASSUME RoundInv
  PROVE  /\ results \in Seq(Results) /\ ids \in Seq(Ids)
         /\ inlined \in Nat /\ settled \in Nat /\ Len(ids) \in Nat
         /\ pc \in {"await", "save", "close"} => Len(ids) = Len(arms)
         /\ \A i \in DOMAIN results :
              /\ results[i].campaign \in 1 .. inlined + settled
              /\ results[i].campaign \in DOMAIN ids \ failed
              /\ results[i].reward \in Int
<1>1. SelectionTypes /\ Collected /\ RoundTypes /\ Phases /\ Numbered
  BY DEF RoundInv, SelectionInv
<1>2. /\ results \in Seq(Results) /\ ids \in Seq(Ids)
      /\ inlined \in Nat /\ settled \in Nat /\ Len(ids) \in Nat
  BY <1>1 DEF SelectionTypes, RoundTypes
<1>3. pc \in {"await", "save", "close"} => Len(ids) = Len(arms)
  <2>1. pc \in {"await", "save", "close"} => Len(ids) + 0 = Len(arms)
    BY <1>1, FS_EmptySet DEF Phases, Numbered
  <2> QED BY <1>2, <2>1
<1>4. inlined + settled <= Len(ids)
  BY <1>1 DEF Numbered
<1>5. \A i \in DOMAIN results : results[i].campaign \in Finished
  BY DEF Finished
<1>6. \A i \in DOMAIN results : /\ results[i].campaign \in 1 .. inlined + settled
                                /\ results[i].campaign \notin failed
  BY <1>1, <1>5 DEF Collected
<1>7. \A i \in DOMAIN results : results[i] \in Results
  BY <1>2
<1>8. \A c \in 1 .. inlined + settled : c \in DOMAIN ids
  BY <1>2, <1>4
<1> QED BY <1>2, <1>3, <1>6, <1>7, <1>8 DEF Results

(* A campaign of the final round is inserted as it is spawned. *)
LEMMA SpawnFinalKeeps ==
  ASSUME RoundInv, SpawnFinal
  PROVE  RoundInv'
<1> DEFINE stage == Lowest(todo)
           id == Id(stage)
<1>1. /\ pc = "spawn"
      /\ campaigns' = InsertCampaign(campaigns, id, "micro", id)
      /\ ids' = Append(ids, id) /\ todo' = todo \ {stage}
      /\ pc' = IF todo' = {} THEN "await" ELSE pc
      /\ UNCHANGED <<rewardMode, round, saved, mainUp, queue, kept, lost, unsaved, snapshot, specs,
                     work, previous, considered, found, decisions, interventions, rows,
                     selectionVars>>
  BY DEF SpawnFinal, corpusVars, planVars
<1>2. /\ phase' = phase /\ arms' = arms /\ results' = results /\ failed' = failed
      /\ winner' = winner /\ inlined' = inlined /\ settled' = settled
  BY <1>1, SelectionVars
<1>3. /\ SelectionInv /\ RoundTypes /\ Phases /\ Numbered /\ IdsApart /\ SeedsSurvive
      /\ Filed /\ Tracked /\ Listed
  BY DEF RoundInv
<1>4. /\ phase = "final" /\ settled = 0 /\ todo # {} /\ unsaved = {} /\ ~ mainUp
      /\ Len(ids) + Cardinality(todo) = Len(arms) /\ inlined + settled <= Len(ids)
  BY <1>1, <1>3 DEF Phases, Numbered, InFinal
<1>5. stage \in todo /\ stage \in Stages /\ id \in Ids /\ \A k \in DOMAIN ids : ids[k] # id
  BY <1>1, <1>3, <1>4, NextStage
<1>6. campaigns \in SUBSET CampaignRows /\ ids \in Seq(Ids) /\ round \in Nat /\ Len(ids) \in Nat
  BY <1>3 DEF RoundTypes
<1>7. id \notin Counted
  BY <1>5 DEF Counted
<1>8. \E i \in interventions : i.id = id
  BY <1>3, <1>4, <1>5 DEF RoundTypes, Filed
<1>9. id[1] = round /\ id[2] = stage
  BY DEF Id
<1>10. pc' \in {"spawn", "await"} /\ (pc' = "spawn" <=> todo' # {})
  BY <1>1
<1> DEFINE N == Len(ids)
<1> HIDE DEF id
<1>11. /\ ids' \in Seq(Ids) /\ Len(ids') = N + 1
       /\ DOMAIN ids = 1 .. N /\ DOMAIN ids' = (1 .. N) \cup {N + 1}
       /\ \A k \in 1 .. N : ids'[k] = ids[k]
       /\ ids'[N + 1] = id
  BY <1>1, <1>5, <1>6
<1>12. /\ campaigns' \subseteq CampaignRows /\ Founded(campaigns') /\ Standing(campaigns', Counted)
       /\ \E n \in campaigns' : n.id = id /\ n.status = "running"
  BY <1>1, <1>5, <1>6, <1>7, <1>8, TrailOfCampaigns, InsertStands
<1>13. SelectionInv'
  BY <1>1, <1>3, SelectionStutters
<1>14. RoundTypes'
  BY <1>1, <1>2, <1>3, <1>10, <1>11, <1>12 DEF RoundTypes, InFinal
<1>15. Phases'
  BY <1>1, <1>2, <1>4, <1>10 DEF Phases, Outside, InSpiral, InFinal
<1>16. Numbered'
  <2>1. IsFiniteSet(todo)
    <3>1. \A s \in todo : s \in Nat /\ s <= 3
      BY <1>3 DEF RoundTypes, Stages
    <3>2. todo \in SUBSET Nat /\ 3 \in Nat
      BY <3>1
    <3> QED BY <3>1, <3>2, FS_BoundedSetOfNaturals
  <2>2. Cardinality(todo') = Cardinality(todo) - 1 /\ Cardinality(todo) \in Nat
    BY <1>1, <1>5, <2>1, FS_RemoveElement, FS_CardinalityType
  <2>3. Len(ids') + Cardinality(todo') = Len(arms')
    <3> DEFINE a == Cardinality(todo)
               b == Cardinality(todo')
    <3>1. b = a - 1 /\ a \in Nat /\ N + a = Len(arms) /\ N \in Nat
      BY <1>4, <1>6, <2>2
    <3> HIDE DEF a, b, N
    <3>2. N + 1 + b = Len(arms)
      BY <3>1
    <3> QED BY <1>2, <1>11, <3>2 DEF b
  <2>4. Len(ids') + Cardinality(todo)' = Len(arms')
    BY <2>3
  <2>5. inlined \in Nat
    BY <1>3 DEF SelectionInv, SelectionTypes
  <2>6. inlined' + settled' <= Len(ids')
    BY <1>2, <1>4, <1>6, <1>11, <2>5
  <2> QED BY <1>2, <1>4, <2>4, <2>6 DEF Numbered
<1>17. IdsApart'
  <2> HIDE DEF N
  <2>1. Upcoming = todo /\ Upcoming' = todo'
    BY <1>1, <1>10 DEF Upcoming
  <2>2. \A c \in 1 .. N : ids[c][1] <= round /\ (ids[c][1] = round => ids[c][2] \notin todo)
    BY <1>3, <1>11, <2>1 DEF IdsApart
  <2>3. \A c \in DOMAIN ids' : ids'[c][1] <= round' /\ (ids'[c][1] = round' => ids'[c][2] \notin todo')
    BY <1>1, <1>6, <1>9, <1>11, <2>2
  <2>4. \A c, d \in DOMAIN ids' : ids'[c] = ids'[d] => c = d
    BY <1>3, <1>5, <1>11 DEF IdsApart
  <2> QED BY <1>10, <2>1, <2>3, <2>4 DEF IdsApart
<1>18. SeedsSurvive' /\ Climbing'
  BY <1>1, <1>3, <1>10 DEF SeedsSurvive, Climbing, SpiralClimbs, InSpiral
<1>19. Rewarded'
  BY <1>1, <1>2, <1>10, RewardsStay
<1>20. Filed' /\ ProposalsTraced' /\ ControlRunsNoRecipe'
  BY <1>1, PlanStays
<1>21. Tracked'
  <2>1. \A c \in campaigns' : \E i \in interventions' : i.id = c.intervention
    BY <1>1, <1>12 DEF Founded
  <2>2. ASSUME NEW k \in DOMAIN ids' \ failed'
        PROVE  \E c \in campaigns' : c.id = ids'[k] /\ c.status # "failed"
    <3>1. CASE k = N + 1
      <4>1. PICK n \in campaigns' : n.id = id /\ n.status = "running"
        BY <1>12
      <4>2. n.status # "failed"
        BY <4>1
      <4> QED BY <1>11, <3>1, <4>1, <4>2
    <3>2. CASE k \in 1 .. N
      <4>1. ids[k] \in Counted
        BY <1>2, <1>11, <3>2 DEF Counted
      <4> QED BY <1>11, <1>12, <3>2, <4>1 DEF Standing
    <3> QED BY <1>11, <3>1, <3>2
  <2> QED BY <1>10, <2>1, <2>2 DEF Tracked
<1>22. Listed'
  <2>1. ASSUME NEW o \in rows'
        PROVE  /\ o.id = o.campaign /\ ~ o.promoted
               /\ \E i \in DOMAIN results' : o.campaign = ids'[results'[i].campaign]
               /\ \A other \in rows' : other.id = o.id => other = o
    <3>1. /\ o.id = o.campaign /\ ~ o.promoted
          /\ \A other \in rows' : other.id = o.id => other = o
      BY <1>1, <1>3, <1>4 DEF Listed
    <3>2. PICK i \in DOMAIN results : o.campaign = ids[results[i].campaign]
      BY <1>1, <1>3 DEF Listed
    <3>3. results[i].campaign \in DOMAIN ids
      BY ResultsHaveIds
    <3>4. o.campaign = ids'[results'[i].campaign]
      BY <1>2, <1>11, <3>2, <3>3
    <3> QED BY <1>2, <3>1, <3>4
  <2> QED BY <2>1 DEF Listed
<1> QED BY <1>13, <1>14, <1>15, <1>16, <1>17, <1>18, <1>19, <1>20, <1>21, <1>22 DEF RoundInv

(* What no step of Loop 2, of the selection or of the saving touches. *)
LEMMA CorpusStays ==
  ASSUME RoundInv, pc \in InFinal, pc' \in InFinal \ {"spawn"},
         UNCHANGED <<rewardMode, round, mainUp, queue, kept, lost, unsaved, snapshot, specs, todo,
                     work, previous, considered, found, decisions, interventions, ids>>
  PROVE  /\ SeedsSurvive' /\ Climbing' /\ IdsApart' /\ Filed'
         /\ ProposalsTraced' /\ ControlRunsNoRecipe'
<1>1. pc # "merge" /\ pc' # "merge" /\ pc' \notin InSpiral
      /\ pc' \notin {"agents", "plan", "snapshot", "finalAgents"}
  BY DEF InFinal, InSpiral
<1>2. SeedsSurvive' /\ Climbing'
  BY <1>1 DEF RoundInv, SeedsSurvive, Climbing, SpiralClimbs, InSpiral
<1>3. IdsApart'
  BY <1>1, IdsStay
<1> QED BY <1>2, <1>3, PlanStays

(* A campaign of the final round has its result or fails. *)
LEMMA AwaitFinalKeeps ==
  ASSUME RoundInv, AwaitFinal
  PROVE  RoundInv'
<1> DEFINE id == ids[NextFinal]
<1>1. /\ pc = "await" /\ Pending /\ pc' = pc
      /\ UNCHANGED <<rewardMode, round, ids, saved, mainUp, queue, kept, lost, unsaved, snapshot,
                     specs, todo, work, previous, considered, found, decisions, interventions,
                     rows>>
      /\ \/ /\ \E q \in AfterCampaign(snapshot), x \in Extras : FinalResult(RewardOn(q, x))
            /\ UNCHANGED campaigns
         \/ FinalFails /\ campaigns' = FinishCampaign(campaigns, id, "failed")
  BY DEF AwaitFinal, corpusVars, planVars, spiralVars
<1>2. /\ SelectionInv /\ RoundTypes /\ Phases /\ Numbered /\ IdsApart
      /\ Rewarded /\ Tracked /\ Listed
  BY DEF RoundInv
<1>3. /\ phase = "final" /\ todo = {} /\ unsaved = {} /\ ~ mainUp
      /\ Len(ids) + Cardinality(todo) = Len(arms) /\ kept \subseteq snapshot \cup lost
  BY <1>1, <1>2 DEF Phases, Numbered, Rewarded, InFinal
<1>4. SeedsSurvive' /\ Climbing' /\ IdsApart' /\ Filed' /\ ProposalsTraced' /\ ControlRunsNoRecipe'
  BY <1>1, CorpusStays DEF InFinal
<1>5. /\ NextFinal \in Nat /\ NextFinal = inlined + settled + 1
      /\ NextFinal <= Len(arms) /\ NextFinal \notin Finished /\ NextFinal \notin failed
  BY <1>1, <1>2, <1>3, NextIsNew
<1>6. /\ results \in Seq(Results) /\ ids \in Seq(Ids) /\ inlined \in Nat /\ settled \in Nat
      /\ Len(ids) = Len(arms)
      /\ \A i \in DOMAIN results : results[i].campaign \in DOMAIN ids /\ results[i].reward \in Int
  BY <1>1, ResultsHaveIds
<1>7. campaigns \in SUBSET CampaignRows /\ saved \in 0 .. Len(results) /\ snapshot \in SUBSET Seeds
  BY <1>2 DEF RoundTypes
<1>8. \A o \in rows : ~ o.promoted
  BY <1>2, <1>3 DEF Listed
<1>9. /\ inlined + (settled + 1) <= Len(ids)
      /\ inlined + settled + 1 <= Len(ids)
  BY <1>5, <1>6
<1>10. ASSUME NEW q \in AfterCampaign(snapshot), NEW x \in Extras, FinalResult(RewardOn(q, x)),
              UNCHANGED campaigns
       PROVE  RoundInv'
  <2> DEFINE r == RewardOn(q, x)
             new == [campaign |-> NextFinal, reward |-> r]
             N == Len(results)
  <2>1. q \in SUBSET Seeds /\ snapshot \subseteq q
    BY <1>7, AfterCampaignFacts
  <2>2. r \in Int /\ (rewardMode = "edges_only" => r = EdgeWeight * Cardinality(q))
    BY <2>1, RewardFacts
  <2> HIDE DEF r
  <2>3. SelectionInv'
    BY <1>2, <1>10, <2>2, FinalResultKeeps DEF r
  <2>4. /\ phase' = phase /\ arms' = arms /\ inlined' = inlined /\ failed' = failed
        /\ winner' = winner /\ settled' = settled + 1 /\ results' = Append(results, new)
    BY <1>10 DEF FinalResult, r
  <2>5. new \in Results /\ new.campaign = NextFinal /\ new.reward = r
    BY <1>5, <2>2 DEF Results
  <2> HIDE DEF new
  <2>6. /\ DOMAIN results' = DOMAIN results \cup {N + 1}
        /\ \A i \in DOMAIN results : results'[i] = results[i]
        /\ results'[N + 1] = new /\ Len(results') = N + 1 /\ N \in Nat
    BY <1>6, <2>4, <2>5
  <2> HIDE DEF N
  <2>7. saved \in 0 .. Len(results')
    BY <1>7, <2>6 DEF N
  <2>8. RoundTypes'
    BY <1>1, <1>2, <1>10, <2>7 DEF RoundTypes
  <2>9. Phases'
    BY <1>1, <1>2, <1>3, <2>4 DEF Phases, Outside, InSpiral, InFinal
  <2>10. Numbered'
    BY <1>1, <1>3, <1>9, <2>4 DEF Numbered
  <2>11. Rewarded'
    <3> DEFINE w == EdgeWeight * Cardinality(snapshot)
               u == EdgeWeight * Cardinality(q)
               k == EdgeWeight * Cardinality(kept)
    <3>1. w \in Nat /\ u \in Nat /\ w <= u
      BY <1>7, <2>1, Worth
    <3>2. NextFinal > inlined /\ ~ (NextFinal <= inlined)
      BY <1>5, <1>6
    <3>3. rewardMode = "edges_only" => r >= w
      BY <2>2, <3>1
    <3>4. rewardMode = "edges_only" =>
            \A i \in DOMAIN results :
              /\ results[i].campaign <= inlined => results[i].reward <= k
              /\ results[i].campaign > inlined => results[i].reward >= w
      BY <1>2 DEF Rewarded
    <3> HIDE DEF u, w, k
    <3>5. rewardMode = "edges_only" =>
            \A i \in DOMAIN results' :
              /\ results'[i].campaign <= inlined => results'[i].reward <= k
              /\ results'[i].campaign > inlined => results'[i].reward >= w
      BY <2>5, <2>6, <3>2, <3>3, <3>4
    <3> QED BY <1>1, <1>3, <2>4, <3>5 DEF Rewarded, w, k
  <2>12. Tracked'
    BY <1>1, <1>10, <2>4, CampaignsStay
  <2>13. Listed'
    <3>1. ASSUME NEW o \in rows'
          PROVE  /\ o.id = o.campaign /\ ~ o.promoted
                 /\ \E i \in DOMAIN results' : o.campaign = ids'[results'[i].campaign]
                 /\ \A other \in rows' : other.id = o.id => other = o
      <4>1. PICK i \in DOMAIN results : o.campaign = ids[results[i].campaign]
        BY <1>1, <1>2 DEF Listed
      <4>2. i \in DOMAIN results' /\ o.campaign = ids'[results'[i].campaign]
        BY <1>1, <2>6, <4>1
      <4>3. o.id = o.campaign /\ \A other \in rows' : other.id = o.id => other = o
        BY <1>1, <1>2 DEF Listed
      <4> QED BY <1>1, <1>8, <4>2, <4>3
    <3> QED BY <3>1 DEF Listed
  <2> QED BY <1>4, <2>3, <2>8, <2>9, <2>10, <2>11, <2>12, <2>13 DEF RoundInv
<1>11. ASSUME FinalFails, campaigns' = FinishCampaign(campaigns, id, "failed")
       PROVE  RoundInv'
  <2> DEFINE wanted == {ids[k] : k \in DOMAIN ids \ (failed \cup {NextFinal})}
  <2>1. /\ phase' = phase /\ arms' = arms /\ inlined' = inlined /\ winner' = winner
        /\ failed' = failed \cup {NextFinal} /\ results' = results /\ settled' = settled + 1
    BY <1>11 DEF FinalFails
  <2>2. SelectionInv'
    BY <1>2, <1>11, FinalFailsKeeps
  <2>3. id \notin wanted
    <3>1. NextFinal \in DOMAIN ids
      BY <1>5, <1>6
    <3> QED BY <1>2, <3>1 DEF IdsApart
  <2>4. Founded(campaigns) /\ Standing(campaigns, wanted)
    <3>1. wanted \subseteq Counted
      BY DEF Counted
    <3> HIDE DEF wanted
    <3> QED BY <3>1, TrailOfCampaigns DEF Standing
  <2> HIDE DEF wanted, id
  <2>5. campaigns' \subseteq CampaignRows /\ Founded(campaigns') /\ Standing(campaigns', wanted)
    BY <1>7, <1>11, <2>3, <2>4, FinishStands
  <2>6. RoundTypes'
    BY <1>1, <1>2, <2>1, <2>5 DEF RoundTypes
  <2>7. Phases'
    BY <1>1, <1>2, <1>3, <2>1 DEF Phases, Outside, InSpiral, InFinal
  <2>8. Numbered'
    BY <1>1, <1>3, <1>9, <2>1 DEF Numbered
  <2>9. Rewarded' /\ Listed'
    BY <1>1, <2>1, RewardsStay, RowsStay
  <2>10. Tracked'
    <3>1. \A c \in campaigns' : \E i \in interventions' : i.id = c.intervention
      BY <1>1, <2>5 DEF Founded
    <3>2. \A k \in DOMAIN ids' \ failed' : \E c \in campaigns' : c.id = ids'[k] /\ c.status # "failed"
      BY <1>1, <2>1, <2>5 DEF Standing, wanted
    <3> QED BY <1>1, <3>1, <3>2 DEF Tracked
  <2> QED BY <1>4, <2>2, <2>6, <2>7, <2>8, <2>9, <2>10 DEF RoundInv
<1> QED BY <1>1, <1>10, <1>11

(* Selecting a winner inserts nothing. *)
LEMMA SelectKeeps ==
  ASSUME RoundInv, Select
  PROVE  RoundInv'
<1>1. /\ pc = "await" /\ pc' = "save" /\ Decide
      /\ UNCHANGED <<rewardMode, round, ids, saved, mainUp, queue, kept, lost, unsaved, snapshot,
                     specs, todo, work, previous, considered, found, decisions, interventions,
                     campaigns, rows>>
  BY DEF Select, corpusVars, planVars, spiralVars, tableVars
<1>2. /\ SelectionInv /\ RoundTypes /\ Phases /\ Numbered /\ Rewarded /\ Listed
  BY DEF RoundInv
<1>3. /\ phase = "final" /\ todo = {} /\ unsaved = {} /\ ~ mainUp
  BY <1>1, <1>2 DEF Phases, InFinal
<1>4. /\ phase' = "decided" /\ arms' = arms /\ inlined' = inlined /\ settled' = settled
      /\ results' = results /\ failed' = failed
  BY <1>1 DEF Decide
<1>5. SeedsSurvive' /\ Climbing' /\ IdsApart' /\ Filed' /\ ProposalsTraced' /\ ControlRunsNoRecipe'
  BY <1>1, CorpusStays DEF InFinal
<1>6. SelectionInv'
  BY <1>1, <1>2, DecideKeeps
<1>7. RoundTypes'
  BY <1>1, <1>2, <1>4 DEF RoundTypes, InFinal
<1>8. Phases' /\ Numbered'
  BY <1>1, <1>2, <1>3, <1>4 DEF Phases, Numbered, Outside, InSpiral, InFinal
<1>9. Rewarded'
  BY <1>1, <1>2, <1>3, <1>4 DEF Rewarded
<1>10. Tracked'
  BY <1>1, <1>4, CampaignsStay
<1>11. Listed'
  BY <1>1, <1>2, <1>3, <1>4 DEF Listed
<1> QED BY <1>5, <1>6, <1>7, <1>8, <1>9, <1>10, <1>11 DEF RoundInv

(* Results are filed in their order, the winner's row among them. *)
LEMMA SaveResultKeeps ==
  ASSUME RoundInv, SaveResult
  PROVE  RoundInv'
<1> DEFINE i == saved + 1
           c == results[i].campaign
           id == ids[c]
           r == results[i].reward
           row == [id |-> id, campaign |-> id, reward |-> r, promoted |-> c = winner]
<1>1. /\ pc = "save" /\ pc' = "close" /\ saved < Len(results) /\ saved' = i
      /\ rows' = InsertMicroResult(rows, id, id, r, c = winner)
      /\ UNCHANGED <<rewardMode, round, ids, mainUp, queue, kept, lost, unsaved, snapshot, specs,
                     todo, work, previous, considered, found, decisions, interventions, campaigns,
                     selectionVars>>
  BY DEF SaveResult, RowOf, corpusVars, planVars, spiralVars
<1>2. /\ phase' = phase /\ arms' = arms /\ results' = results /\ failed' = failed
      /\ winner' = winner /\ inlined' = inlined /\ settled' = settled
  BY <1>1, SelectionVars
<1>3. /\ SelectionInv /\ RoundTypes /\ Phases /\ Numbered /\ Listed
  BY DEF RoundInv
<1>4. /\ phase = "decided" /\ todo = {} /\ unsaved = {} /\ ~ mainUp
  BY <1>1, <1>3 DEF Phases, InFinal
<1>5. SeedsSurvive' /\ Climbing' /\ IdsApart' /\ Filed' /\ ProposalsTraced' /\ ControlRunsNoRecipe'
  BY <1>1, CorpusStays DEF InFinal
<1>6. /\ results \in Seq(Results) /\ ids \in Seq(Ids) /\ inlined \in Nat /\ settled \in Nat
      /\ \A j \in DOMAIN results :
           /\ results[j].campaign \in 1 .. inlined + settled
           /\ results[j].campaign \in DOMAIN ids /\ results[j].reward \in Int
  BY ResultsHaveIds
<1>7. saved \in 0 .. Len(results) /\ rows \in SUBSET ResultRows
  BY <1>3 DEF RoundTypes
<1>8. i \in DOMAIN results /\ i \in 0 .. Len(results)
  BY <1>1, <1>6, <1>7
<1>9. c \in DOMAIN ids /\ r \in Int /\ c # 0 /\ id \in Ids
  <2>1. c \in 1 .. inlined + settled /\ c \in DOMAIN ids /\ r \in Int
    BY <1>6, <1>8
  <2>2. c # 0
    BY <1>6, <2>1
  <2> HIDE DEF c
  <2> QED BY <1>6, <2>1, <2>2
<1> HIDE DEF i, c, id, r
<1>10. rows' = {o \in rows : o.id # id} \cup {row} /\ row \in ResultRows
  <2>1. (c = winner) \in BOOLEAN
    OBVIOUS
  <2>2. row \in ResultRows
    BY <1>9, <2>1 DEF ResultRows
  <2>3. rows' = {o \in rows : row.id # o.id} \cup {row}
    BY <1>1 DEF InsertMicroResult, InsertOrReplace
  <2>4. row.id = id
    OBVIOUS
  <2> HIDE DEF row
  <2> QED BY <2>2, <2>3, <2>4
<1>11. row.id = id /\ row.campaign = id /\ (row.promoted <=> c = winner)
  OBVIOUS
<1> HIDE DEF row
<1>12. SelectionInv'
  BY <1>1, <1>3, SelectionStutters
<1>13. rows' \subseteq ResultRows
  BY <1>7, <1>10
<1>14. RoundTypes'
  BY <1>1, <1>2, <1>3, <1>8, <1>13 DEF RoundTypes, InFinal
<1>15. Phases' /\ Numbered'
  BY <1>1, <1>2, <1>3, <1>4 DEF Phases, Numbered, Outside, InSpiral, InFinal
<1>16. Rewarded' /\ Tracked'
  BY <1>1, <1>2, RewardsStay, CampaignsStay
<1>17. Listed'
  <2>1. ASSUME NEW o \in rows'
        PROVE  /\ o.id = o.campaign
               /\ o.promoted => winner # 0 /\ o.campaign = ids[winner]
               /\ \E j \in DOMAIN results : o.campaign = ids[results[j].campaign]
               /\ \A other \in rows' : other.id = o.id => other = o
    <3>1. CASE o = row
      <4>1. o.promoted => winner # 0 /\ o.campaign = ids[winner]
        BY <1>9, <1>11, <3>1 DEF id
      <4>2. o.campaign = ids[results[i].campaign]
        BY <1>11, <3>1 DEF id, c
      <4> QED BY <1>8, <1>10, <1>11, <3>1, <4>1, <4>2
    <3>2. CASE o \in rows /\ o.id # id
      <4>1. /\ o.id = o.campaign
            /\ o.promoted => winner # 0 /\ o.campaign = ids[winner]
            /\ \E j \in DOMAIN results : o.campaign = ids[results[j].campaign]
            /\ \A other \in rows : other.id = o.id => other = o
        BY <1>3, <3>2 DEF Listed
      <4> QED BY <1>10, <1>11, <3>2, <4>1
    <3> QED BY <1>10, <3>1, <3>2
  <2> QED BY <1>1, <1>2, <1>4, <2>1 DEF Listed
<1> QED BY <1>5, <1>12, <1>14, <1>15, <1>16, <1>17 DEF RoundInv

(* Closing the campaign of a result fails none. *)
LEMMA CloseSavedKeeps ==
  ASSUME RoundInv, CloseSaved
  PROVE  RoundInv'
<1> DEFINE id == ids[results[saved].campaign]
<1>1. /\ pc = "close" /\ pc' = "save"
      /\ campaigns' = campaigns \/ campaigns' = FinishCampaign(campaigns, id, "completed")
      /\ UNCHANGED <<rewardMode, round, ids, saved, mainUp, queue, kept, lost, unsaved, snapshot,
                     specs, todo, work, previous, considered, found, decisions, interventions, rows,
                     selectionVars>>
  BY DEF CloseSaved, corpusVars, planVars, spiralVars
<1>2. /\ phase' = phase /\ arms' = arms /\ results' = results /\ failed' = failed
      /\ winner' = winner /\ inlined' = inlined /\ settled' = settled
  BY <1>1, SelectionVars
<1>3. /\ SelectionInv /\ RoundTypes /\ Phases /\ Numbered
  BY DEF RoundInv
<1>4. /\ phase = "decided" /\ todo = {} /\ unsaved = {} /\ ~ mainUp
  BY <1>1, <1>3 DEF Phases, InFinal
<1>5. SeedsSurvive' /\ Climbing' /\ IdsApart' /\ Filed' /\ ProposalsTraced' /\ ControlRunsNoRecipe'
  BY <1>1, CorpusStays DEF InFinal
<1>6. campaigns \in SUBSET CampaignRows
  BY <1>3 DEF RoundTypes
<1> HIDE DEF id
<1>7. campaigns' \subseteq CampaignRows /\ Founded(campaigns') /\ Standing(campaigns', Counted)
  BY <1>1, <1>6, TrailOfCampaigns, FinishStands
<1>8. SelectionInv' /\ RoundTypes'
  BY <1>1, <1>2, <1>3, <1>7, SelectionStutters DEF RoundTypes, InFinal
<1>9. Phases' /\ Numbered'
  BY <1>1, <1>2, <1>3, <1>4 DEF Phases, Numbered, Outside, InSpiral, InFinal
<1>10. Rewarded' /\ Listed'
  BY <1>1, <1>2, RewardsStay, RowsStay
<1>11. Tracked'
  <2>1. \A c \in campaigns' : \E i \in interventions' : i.id = c.intervention
    BY <1>1, <1>7 DEF Founded
  <2>2. \A k \in DOMAIN ids' \ failed' : \E c \in campaigns' : c.id = ids'[k] /\ c.status # "failed"
    BY <1>1, <1>2, <1>7 DEF Standing, Counted
  <2> QED BY <1>1, <2>1, <2>2 DEF Tracked
<1> QED BY <1>5, <1>8, <1>9, <1>10, <1>11 DEF RoundInv

-----------------------------------------------------------------------------
(* The invariant holds in every state, and the properties follow from it *)

(* Nothing has happened yet: the queue is what the target gave. *)
LEMMA InitEstablishes ==
  Init => RoundInv
<1> SUFFICES ASSUME Init PROVE RoundInv
  OBVIOUS
<1>1. /\ phase = "inline" /\ arms = <<>> /\ inlined = 0 /\ settled = 0
      /\ results = <<>> /\ failed = {} /\ winner = 0
      /\ pc = "sampling" /\ rewardMode \in {"edges_only", "edge_weighted"} /\ round = 0
      /\ queue = FirstSeeds /\ kept = FirstSeeds /\ lost = {}
      /\ unsaved = {} /\ snapshot = {} /\ work = {} /\ previous = {}
      /\ specs = <<>> /\ todo = {} /\ considered = {} /\ found = {}
      /\ decisions = {} /\ interventions = {} /\ campaigns = {} /\ rows = {}
      /\ ids = <<>> /\ saved = 0
  BY DEF Init, SelectionInit
<1>2. FirstSeeds \subseteq Seeds
  BY RoundAssumption
<1>3. DOMAIN specs = {} /\ DOMAIN results = {} /\ DOMAIN ids = {} /\ Len(arms) = 0 /\ Len(ids) = 0
      /\ Len(results) = 0
  BY <1>1
<1>4. SelectionTypes
  BY <1>1 DEF SelectionTypes
<1>5. Collected
  <2>1. Finished = {}
    BY <1>3 DEF Finished
  <2>2. 1 .. inlined + settled = {}
    BY <1>1
  <2> QED BY <1>1, <1>3, <2>1, <2>2 DEF Collected
<1>6. RoundTypes
  <2>1. IsFiniteSet(decisions)
    BY <1>1, FS_EmptySet
  <2>2. DOMAIN specs \subseteq Stages /\ todo \subseteq DOMAIN specs
    BY <1>1, <1>3
  <2>3. ids \in Seq(Ids) /\ saved \in 0 .. Len(results) /\ round \in Nat
    BY <1>1, <1>3
  <2> QED BY <1>1, <1>2, <2>1, <2>2, <2>3 DEF RoundTypes, Outside
<1>7. Phases
  BY <1>1 DEF Phases, Outside, InSpiral, InFinal
<1>8. Numbered
  BY <1>1, <1>3 DEF Numbered
<1>9. IdsApart /\ Filed /\ ProposalsTraced /\ ControlRunsNoRecipe
  BY <1>1, <1>3 DEF IdsApart, Filed, ProposalsTraced, ControlRunsNoRecipe
<1>10. SeedsSurvive /\ Climbing /\ Rewarded
  BY <1>1, <1>3 DEF SeedsSurvive, Climbing, SpiralClimbs, Rewarded
<1>11. Tracked /\ Listed
  BY <1>1, <1>3 DEF Tracked, Listed
<1> QED BY <1>4, <1>5, <1>6, <1>7, <1>8, <1>9, <1>10, <1>11 DEF RoundInv, SelectionInv

(* A step that changes nothing. *)
LEMMA NothingChanges ==
  ASSUME RoundInv, UNCHANGED vars
  PROVE  RoundInv'
<1>1. /\ UNCHANGED <<pc, rewardMode, round, ids, saved>>
      /\ UNCHANGED <<mainUp, queue, kept, lost>>
      /\ UNCHANGED <<unsaved, snapshot, specs, todo, work, previous, considered, found>>
      /\ UNCHANGED <<decisions, interventions, campaigns, rows>>
      /\ UNCHANGED selectionVars
  BY DEF vars, corpusVars, planVars, spiralVars, tableVars
<1>2. /\ phase' = phase /\ arms' = arms /\ inlined' = inlined /\ settled' = settled
      /\ results' = results /\ failed' = failed /\ winner' = winner
  BY <1>1, SelectionVars
<1>3. SelectionInv' /\ RoundTypes' /\ Phases' /\ Numbered'
  BY <1>1, <1>2, SelectionStutters DEF RoundInv, RoundTypes, Phases, Numbered
<1>4. IdsApart' /\ SeedsSurvive' /\ Climbing' /\ Rewarded'
  BY <1>1, <1>2
     DEF RoundInv, IdsApart, Upcoming, SeedsSurvive, Climbing, SpiralClimbs, Rewarded
<1>5. Filed' /\ ProposalsTraced' /\ ControlRunsNoRecipe'
  BY <1>1, PlanStays
<1>6. Tracked' /\ Listed'
  BY <1>1, <1>2 DEF RoundInv, Tracked, Listed, Id, Lowest
<1> QED BY <1>3, <1>4, <1>5, <1>6 DEF RoundInv

(* Whatever the rounds, the agents and the machine do, and wherever a call   *)
(* fails, the queues, the plans, the rows and the results belong together as *)
(* RoundInv says, after every statement on the database and every merge.     *)
THEOREM RoundsInvariant == Spec => []RoundInv
<1>1. ASSUME RoundInv, [Next]_vars PROVE RoundInv'
  <2>1. CASE MainFinds
    BY <1>1, <2>1, MainFindsKeeps
  <2>2. ASSUME NEW reply \in Answers, InlineAgents(reply) PROVE RoundInv'
    BY <1>1, <2>2, InlineAgentsKeeps
  <2>3. ASSUME NEW reply \in Answers, FinalAgents(reply) PROVE RoundInv'
    BY <1>1, <2>3, FinalAgentsKeeps
  <2>4. CASE SaveDecision
    BY <1>1, <2>4, SaveDecisionKeeps
  <2>5. CASE InlineSnapshot
    BY <1>1, <2>5, InlineSnapshotKeeps
  <2>6. CASE PlanInline
    BY <1>1, <2>6, PlanInlineKeeps
  <2>7. CASE SaveIntervention
    BY <1>1, <2>7, SaveInterventionKeeps
  <2>8. CASE StopMain
    BY <1>1, <2>8, StopMainKeeps
  <2>9. CASE RecordStage
    BY <1>1, <2>9, RecordStageKeeps
  <2>10. CASE LaunchStage
    BY <1>1, <2>10, LaunchStageKeeps
  <2>11. CASE StageFails
    BY <1>1, <2>11, StageFailsKeeps
  <2>12. CASE StageEnds
    BY <1>1, <2>12, StageEndsKeeps
  <2>13. CASE StageResult
    BY <1>1, <2>13, StageResultKeeps
  <2>14. CASE MergeStage
    BY <1>1, <2>14, MergeStageKeeps
  <2>15. CASE Interrupted
    BY <1>1, <2>15, InterruptedKeeps
  <2>16. CASE Restart
    BY <1>1, <2>16, RestartKeeps
  <2>17. CASE RestartFails
    BY <1>1, <2>17, RestartFailsKeeps
  <2>18. CASE FinalSnapshot
    BY <1>1, <2>18, FinalSnapshotKeeps
  <2>19. CASE Throws
    BY <1>1, <2>19, ThrowsKeeps
  <2>20. CASE PlanFinalRound
    BY <1>1, <2>20, PlanFinalRoundKeeps
  <2>21. CASE SpawnFinal
    BY <1>1, <2>21, SpawnFinalKeeps
  <2>22. CASE AwaitFinal
    BY <1>1, <2>22, AwaitFinalKeeps
  <2>23. CASE Select
    BY <1>1, <2>23, SelectKeeps
  <2>24. CASE SaveResult
    BY <1>1, <2>24, SaveResultKeeps
  <2>25. CASE CloseSaved
    BY <1>1, <2>25, CloseSavedKeeps
  <2>26. CASE Ended \/ UNCHANGED vars
    BY <1>1, <2>26, NothingChanges DEF Ended
  <2> QED
    BY <1>1, <2>1, <2>2, <2>3, <2>4, <2>5, <2>6, <2>7, <2>8, <2>9, <2>10, <2>11, <2>12,
       <2>13, <2>14, <2>15, <2>16, <2>17, <2>18, <2>19, <2>20, <2>21, <2>22, <2>23, <2>24,
       <2>25, <2>26
       DEF Next
<1> QED BY <1>1, InitEstablishes, PTL DEF Spec

(* However many pauses, merges, restarts and exceptions there were, all the   *)
(* main AFL++ ever had and a stage was rewarded for is in the active queue,   *)
(* about to be merged, or was taken by one of the accidents that lost counts. *)
THEOREM NoSeedIsLost == Spec => []SeedsSurvive
<1>1. RoundInv => SeedsSurvive
  BY DEF RoundInv
<1> QED BY <1>1, RoundsInvariant, PTL

(* A stage of the spiral starts with the snapshot and everything the stages  *)
(* of its round left in their queues, however many stages failed between.    *)
THEOREM EveryStageClimbs == Spec => []SpiralClimbs
<1>1. RoundInv => SpiralClimbs
  BY DEF RoundInv, Climbing
<1> QED BY <1>1, RoundsInvariant, PTL

(* Every proposal that a round reads from the database reaches one of its    *)
(* campaigns, and the plan has nothing that no agent has written.            *)
THEOREM PlansAreTraced == Spec => []ProposalsTraced
<1>1. RoundInv => ProposalsTraced
  BY DEF RoundInv
<1> QED BY <1>1, RoundsInvariant, PTL

(* Whatever the agents propose, stage 0 runs plain AFL++ and a probe does not. *)
THEOREM ControlIsPlain == Spec => []ControlRunsNoRecipe
<1>1. RoundInv => ControlRunsNoRecipe
  BY DEF RoundInv
<1> QED BY <1>1, RoundsInvariant, PTL

(* A crash after any single statement leaves a readable trail: campaigns have *)
(* their interventions, results their campaigns, which did not fail, there is *)
(* one row per campaign, and no row but the winner's is marked as promoted.   *)
THEOREM TrailIsReadable == Spec => []RowsTraceable
<1>1. ASSUME RoundInv PROVE RowsTraceable
  <2>1. Tracked /\ Listed
    BY <1>1 DEF RoundInv
  <2>2. ASSUME NEW r \in rows
        PROVE  /\ \E c \in campaigns : c.id = r.campaign /\ c.status # "failed"
               /\ \A other \in rows : other.campaign = r.campaign => other = r
               /\ r.promoted => winner # 0 /\ r.campaign = ids[winner]
    <3>1. PICK i \in DOMAIN results : r.campaign = ids[results[i].campaign]
      BY <2>1 DEF Listed
    <3>2. results[i].campaign \in DOMAIN ids \ failed
      BY <1>1, ResultsHaveIds
    <3>3. \E c \in campaigns : c.id = r.campaign /\ c.status # "failed"
      BY <2>1, <3>1, <3>2 DEF Tracked
    <3>4. \A other \in rows : other.id = other.campaign /\ (other.id = r.id => other = r)
      BY <2>1 DEF Listed
    <3>5. r.promoted => winner # 0 /\ r.campaign = ids[winner]
      BY <2>1 DEF Listed
    <3> QED BY <3>3, <3>4, <3>5
  <2>3. \A c \in campaigns : \E i \in interventions : i.id = c.intervention
    BY <2>1 DEF Tracked
  <2> QED BY <2>2, <2>3 DEF RowsTraceable
<1> QED BY <1>1, RoundsInvariant, PTL

(* A winner has a result and is not the final control. *)
LEMMA WinnerContends ==
  ASSUME SelectionInv, phase = "decided", winner # 0
  PROVE  winner \in Contenders
<1>1. SelectionTypes /\ Collected
  BY DEF SelectionInv
<1>2. results \in Seq(Results) /\ winner = Chosen
  BY <1>1 DEF SelectionTypes, Collected, Chosen
<1> DEFINE s == Scan(results)
<1>3. Seen(results, Len(results), s)
  BY <1>2, AllSeen
<1>4. /\ Selected(results) = s.best.index /\ s.best.index # 0
      /\ winner = results[Selected(results)].campaign
  BY <1>2 DEF Chosen, Promoted, Selected
<1> HIDE DEF s
<1>5. Selected(results) \in Candidates(results)
  BY <1>3, <1>4 DEF Seen
<1> QED BY <1>4, <1>5, Positions

(* The single pass over the results, in whatever order they come, promotes a *)
(* probe when, and only when, it beats the final control and all others by   *)
(* the margins, and never the final control or a campaign without a result.  *)
THEOREM TheClearlyBestWins == Spec => []WinnerIsClearlyBest
<1>1. ASSUME RoundInv PROVE WinnerIsClearlyBest
  <2> SUFFICES ASSUME phase = "decided"
               PROVE  /\ \A c \in Contenders : winner = c <=> ClearlyBest(c)
                      /\ winner # 0 => winner \in Contenders
    BY DEF WinnerIsClearlyBest
  <2>1. SelectionInv
    BY <1>1 DEF RoundInv
  <2>2. winner = Chosen
    BY <2>1 DEF SelectionInv, Collected, Chosen
  <2> QED BY <2>1, <2>2, ChosenIsClearlyBest, WinnerContends
<1> QED BY <1>1, RoundsInvariant, PTL

(* The lead of a campaign of the spiral, in any state. *)
LEMMA LeadIsBounded ==
  ASSUME RoundInv, phase = "decided", rewardMode = "edges_only", ControlIds \cap failed = {},
         NEW c \in Finished \cap (1 .. inlined)
  PROVE  /\ RewardOf(c) - Baseline <= EdgeWeight * Cardinality(lost)
         /\ RewardOf(c) \in Int /\ Baseline \in Int
<1> DEFINE k == EdgeWeight * Cardinality(kept)
           s == EdgeWeight * Cardinality(snapshot)
           l == EdgeWeight * Cardinality(lost)
           control == inlined + 1
<1>1. SelectionInv /\ SelectionTypes /\ Collected /\ Rewarded /\ RoundTypes
  BY DEF RoundInv, SelectionInv
<1>2. /\ results \in Seq(Results) /\ inlined \in Nat /\ settled \in Nat
      /\ inlined < Len(arms) /\ inlined + settled = Len(arms) /\ ControlIds = {control}
      /\ Finished \cup failed = 1 .. inlined + settled
  BY <1>1 DEF SelectionTypes, Collected
<1>3. control \in Finished
  <2>1. control \in 1 .. inlined + settled
    BY <1>2
  <2> QED BY <1>2, <2>1
<1>4. PICK i \in DOMAIN results : results[i].campaign = c
  BY DEF Finished
<1>5. PICK j \in DOMAIN results : results[j].campaign = control
  BY <1>3 DEF Finished
<1>6. /\ RewardOf(c) = results[i].reward /\ RewardOf(control) = results[j].reward
      /\ results[i].reward \in Int /\ results[j].reward \in Int
  BY <1>1, <1>4, <1>5, Positions
<1>7. Baseline = results[j].reward
  <2>1. Finished \cap ControlIds = {control}
    BY <1>2, <1>3
  <2> HIDE DEF control
  <2>2. (CHOOSE o \in {control} : TRUE) = control
    OBVIOUS
  <2> QED BY <1>6, <2>1, <2>2 DEF Baseline
<1>8. results[i].reward <= k
  BY <1>1, <1>2, <1>4 DEF Rewarded
<1>9. results[j].reward >= s
  <2>1. results[j].campaign > inlined
    BY <1>2, <1>5
  <2> QED BY <1>1, <2>1 DEF Rewarded
<1>10. k \in Nat /\ s \in Nat /\ l \in Nat /\ k <= s + l
  <2>1. /\ kept \in SUBSET Seeds /\ snapshot \in SUBSET Seeds /\ lost \in SUBSET Seeds
        /\ kept \subseteq snapshot \cup lost
    BY <1>1 DEF RoundTypes, Rewarded
  <2> DEFINE b == EdgeWeight * Cardinality(snapshot \cup lost)
  <2>2. k \in Nat /\ b \in Nat /\ k <= b
    BY <2>1, Worth
  <2>3. s \in Nat /\ l \in Nat /\ b <= s + l
    BY <2>1, WorthOfBoth
  <2> HIDE DEF k, b, s, l
  <2> QED BY <2>2, <2>3
<1> HIDE DEF k, s, l
<1>11. results[i].reward - results[j].reward <= l
  BY <1>6, <1>8, <1>9, <1>10
<1> QED BY <1>6, <1>7, <1>11 DEF l

(* By coverage alone the final control, started with all that was not lost,  *)
(* is behind no campaign of the spiral by more than what accidents took.     *)
THEOREM FinalControlLeads == Spec => []LeadIsLoss
<1>1. ASSUME RoundInv PROVE LeadIsLoss
  BY <1>1, LeadIsBounded DEF LeadIsLoss
<1> QED BY <1>1, RoundsInvariant, PTL

(* So nothing of the spiral is promoted by coverage alone when no accident   *)
(* took a seed and the final control has a result.                           *)
THEOREM FinalRoundPromotes ==
  Spec => [](phase = "decided" /\ rewardMode = "edges_only"
               /\ ControlIds \cap failed = {} /\ lost = {}
             => winner = 0 \/ winner > inlined)
<1> DEFINE P == phase = "decided" /\ rewardMode = "edges_only"
                  /\ ControlIds \cap failed = {} /\ lost = {}
                => winner = 0 \/ winner > inlined
<1>1. ASSUME RoundInv PROVE P
  <2> SUFFICES ASSUME phase = "decided", rewardMode = "edges_only",
                      ControlIds \cap failed = {}, lost = {}, winner # 0, ~ winner > inlined
               PROVE  FALSE
    OBVIOUS
  <2>1. SelectionInv /\ winner \in Nat /\ inlined \in Nat /\ winner = Chosen
    BY <1>1 DEF RoundInv, SelectionInv, SelectionTypes, Collected, Chosen
  <2>2. winner \in Contenders /\ winner \in Finished \cap (1 .. inlined)
    BY <2>1, WinnerContends DEF Contenders
  <2>3. EdgeWeight * Cardinality(lost) = 0
    BY FS_EmptySet, RoundAssumption
  <2>4. RewardOf(winner) - Baseline <= 0 /\ RewardOf(winner) \in Int /\ Baseline \in Int
    BY <1>1, <2>2, <2>3, LeadIsBounded
  <2>5. Exceeds(RewardOf(winner) - Baseline, Baseline)
    BY <2>1, <2>2, ChosenIsClearlyBest DEF ClearlyBest
  <2>6. RewardOf(winner) - Baseline > 0
    BY <2>4, <2>5, ExceedsIsAGain
  <2> QED BY <2>4, <2>6
<1> HIDE DEF P
<1>2. Spec => []P
  BY <1>1, RoundsInvariant, PTL
<1> QED BY <1>2 DEF P

=============================================================================
