-------------------------- MODULE AgentRoundProofs --------------------------
(***************************************************************************)
(* What holds of the agents' rounds for every timeout, every list of        *)
(* backoffs, every number of agents and every length of a run.              *)
(***************************************************************************)
EXTENDS AgentRound, SetInduction, SequenceTheorems, TLAPS

USE GatewayAssumption, RoundAssumption DEF GatewayAssumption, RoundAssumption, MinInterval

Retries == Len(Backoffs)
Limit == Timeout + Grace          \* of one request
Share == Timeout + 1              \* of one task in the budget

\* The agents that may be asked.
Tasks == {Agents[i] : i \in DOMAIN Agents} \cup {"ResultAnalysisAgent"}

Phases == {"none", "slot", "inflight", "backoff", "answered"}
Verdicts == {"ok", "guardrail_violation", "failed", "deadline_exceeded"}
Calls == [phase : Phases, until : Nat, first : Nat, sentAt : Int,
          results : Seq(Outcomes), kept : Outcomes \cup {"unsent"}]

Types ==
  /\ now \in Nat /\ lastSlot \in Int
  /\ call \in Calls
  /\ pc \in {"idle", "next", "calling", "stagger", "over"}
  /\ disabled \in DisabledSets
  /\ todo \in Seq(Tasks)
  /\ decisions \in Seq([agent : Tasks, verdict : Verdicts])
  /\ {deadline, wake, overtime} \subseteq Nat

Tries == Len(call.results)

(* The phases of a call and how many requests came back in each. *)
CallShape ==
  /\ pc = "calling" <=> call.phase # "none"
  /\ pc \in {"calling", "stagger"} => todo # <<>>
  /\ call.phase \in {"none", "slot"} => call.results = <<>>
  /\ call.phase = "inflight" => Tries <= Retries
  /\ call.phase = "backoff" => Tries \in 1 .. Retries
  /\ call.phase = "answered" => Tries <= Retries + 1

(* A call that goes on has received no clean answer, and keeps its first. *)
KeptSoFar ==
  call.phase # "answered" =>
    /\ \A i \in DOMAIN call.results : call.results[i] \notin Clean
    /\ call.results # <<>> => call.kept = call.results[1]

(* The clock, the slot reserved last and the request sent last. *)
Clock ==
  /\ call.sentAt <= now
  /\ call.phase # "slot" => lastSlot <= now
  /\ call.phase = "slot" => lastSlot = call.until
  /\ call.phase \in {"slot", "backoff"} =>
       now <= call.until /\ call.sentAt + 1 <= call.until
  /\ call.phase = "inflight" => now <= call.sentAt + Limit
  /\ pc = "next" /\ todo # <<>> => call.sentAt + 1 <= now
  /\ pc = "stagger" => now <= wake /\ call.sentAt + 1 <= wake
  /\ pc \in {"idle", "stagger"} => lastSlot + 1 <= wake

(* How long after the deadline the request after k retries may be sent. *)
Reach(k) == k * Limit + Waits[k]

Latest(k) == deadline + Reach(k)

WithinBlock ==
  deadline # 0 =>
    /\ call.phase \in {"slot", "backoff"} => call.until <= Latest(Tries)
    /\ call.phase = "inflight" => call.sentAt <= Latest(Tries)
    /\ call.phase = "answered" => now + 1 <= deadline + LongestCall
    /\ pc = "stagger" => wake <= deadline + LongestCall
    /\ pc = "next" => now <= deadline + LongestCall

(* The tasks of a round with a deadline, and how its budget counted them. *)
Budgeted ==
  deadline # 0 =>
    /\ Len(decisions) + Len(todo) = Len(EnabledAgents)
    /\ Base + Len(EnabledAgents) * Share <= MaxBudget =>
         deadline >= Base + Len(EnabledAgents) * Share
    /\ pc = "next" /\ todo # <<>> => lastSlot < now

Exceeded == \E i \in DOMAIN decisions : decisions[i].verdict = "deadline_exceeded"

(* The time a round has used, but for what its calls overran. *)
Spent == Len(decisions) * Share + overtime

Accounted ==
  deadline # 0 /\ ~ Exceeded =>
    /\ pc = "next" => now <= Spent
    /\ pc = "stagger" => wake <= Spent
    /\ call.phase = "slot" => call.until <= Spent
    /\ call.phase \in {"inflight", "backoff", "answered"} => call.first <= Spent

Skipping ==
  Exceeded =>
    /\ deadline # 0
    /\ pc \notin {"calling", "stagger"}
    /\ pc = "next" => now >= deadline

RoundInv ==
  /\ Types /\ CallShape /\ KeptSoFar /\ CleanAnswerKept /\ Clock
  /\ WithinBlock /\ Budgeted /\ Accounted /\ Skipping /\ EveryoneAsked

-----------------------------------------------------------------------------
(* The operators of the model *)

(* Waits satisfies its own recursive equation. *)
LEMMA WaitsDef ==
  /\ Waits \in [0 .. Retries -> Nat]
  /\ Waits[0] = 0
  /\ \A i \in 1 .. Retries : Waits[i] = Backoffs[i] + Waits[i - 1]
<1> DEFINE step == [i \in 1 .. Retries |-> [x \in Nat |-> Backoffs[i] + x]]
<1>1. Retries \in Nat /\ 0 \in Nat /\ \A i \in 1 .. Retries : Backoffs[i] \in Nat
  BY DEF Retries
<1>2. step \in [1 .. Retries -> [Nat -> Nat]]
  BY <1>1
<1>3. PICK f : f \in Runs(Nat, 0, step, Retries)
  <2> HIDE DEF step
  <2>1. Runs(Nat, 0, step, Retries) # {}
    BY <1>1, <1>2, Scans
  <2> QED BY <2>1
<1>4. /\ f \in [0 .. Retries -> Nat] /\ f[0] = 0
      /\ \A i \in 1 .. Retries : f[i] = step[i][f[i - 1]]
  BY <1>3 DEF Runs
<1>5. ASSUME NEW i \in 1 .. Retries PROVE f[i] = Backoffs[i] + f[i - 1]
  <2>1. f[i - 1] \in Nat
    BY <1>1, <1>4
  <2> QED BY <1>4, <2>1
<1>6. f = [i \in 0 .. Retries |-> IF i = 0 THEN 0 ELSE Backoffs[i] + f[i - 1]]
  BY <1>1, <1>4, <1>5
<1>7. Waits = [i \in 0 .. Retries |-> IF i = 0 THEN 0 ELSE Backoffs[i] + Waits[i - 1]]
  BY <1>6 DEF Waits, Retries
<1> DEFINE S == {m \in 0 .. Retries : Waits[m] \in Nat}
<1>8. 0 \in S
  BY <1>1, <1>7
<1>9. ASSUME NEW m \in 1 .. Retries, m - 1 \in S PROVE m \in S
  <2>1. Waits[m - 1] \in Nat /\ m \in 0 .. Retries /\ m # 0
    BY <1>1, <1>9
  <2>2. Waits[m] = Backoffs[m] + Waits[m - 1]
    BY <1>7, <2>1
  <2> QED BY <1>1, <2>1, <2>2
<1>10. \A m \in 0 .. Retries : m \in S
  <2> HIDE DEF S
  <2> QED BY <1>1, <1>8, <1>9, UpTo
<1>11. Waits \in [0 .. Retries -> Nat]
  BY <1>7, <1>10
<1>12. \A i \in 1 .. Retries : Waits[i] = Backoffs[i] + Waits[i - 1]
  BY <1>1, <1>7
<1> QED BY <1>1, <1>7, <1>11, <1>12

(* No retry waits longer than all of them together. *)
LEMMA WaitsBounded == \A k \in 0 .. Retries : Waits[k] <= Waits[Retries]
<1>0. Retries \in Nat
  BY DEF Retries
<1> DEFINE S == {m \in 0 .. Retries : Waits[Retries - m] <= Waits[Retries]}
<1>1. 0 \in S
  BY <1>0, WaitsDef
<1>2. ASSUME NEW m \in 1 .. Retries, m - 1 \in S PROVE m \in S
  <2> DEFINE k == Retries - (m - 1)
  <2>1. k \in 1 .. Retries /\ k - 1 = Retries - m /\ k \in 0 .. Retries /\ k - 1 \in 0 .. Retries
    BY <1>0
  <2>2. Waits[k] <= Waits[Retries]
    BY <1>2
  <2> HIDE DEF k
  <2>3. Waits[k] = Backoffs[k] + Waits[k - 1]
    BY <2>1, WaitsDef
  <2>4. Backoffs[k] \in Nat
    BY <2>1 DEF Retries
  <2>6. Waits[k] \in Nat /\ Waits[k - 1] \in Nat /\ Waits[Retries] \in Nat
    BY <1>0, <2>1, WaitsDef
  <2>5. Waits[Retries - m] <= Waits[Retries]
    BY <2>1, <2>2, <2>3, <2>4, <2>6
  <2> QED BY <1>0, <2>5
<1>3. \A m \in 0 .. Retries : m \in S
  <2> HIDE DEF S
  <2> QED BY <1>0, <1>1, <1>2, UpTo
<1>4. ASSUME NEW k \in 0 .. Retries PROVE Waits[k] <= Waits[Retries]
  <2>1. Retries - k \in 0 .. Retries /\ Retries - (Retries - k) = k
    BY <1>0
  <2> QED BY <1>3, <2>1
<1> QED BY <1>4

(* A retry is sent one request and one backoff after the try before it, and *)
(* the last one ends within LongestCall.                                     *)
LEMMA ReachBounds ==
  /\ Limit \in Nat /\ LongestCall \in Nat /\ LongestCall >= 1 /\ Reach(0) = 0
  /\ \A k \in 0 .. Retries : Reach(k) \in Nat /\ Reach(k) + Limit + 1 <= LongestCall
  /\ \A k \in 1 .. Retries : Reach(k) = Reach(k - 1) + Limit + Backoffs[k]
<1>0. Retries \in Nat /\ Limit \in Nat /\ Waits[Retries] \in Nat
  <2>1. Retries \in Nat /\ Limit \in Nat
    BY DEF Retries, Limit
  <2> QED BY <2>1, WaitsDef
<1>1. /\ (Retries + 1) * Limit \in Nat
      /\ LongestCall = 1 + (Retries + 1) * Limit + Waits[Retries]
  <2>1. (Retries + 1) * Limit \in Nat
    BY <1>0, ProductGrows
  <2>2. LongestCall = 1 + (Retries + 1) * Limit + Waits[Retries]
    BY DEF LongestCall, Retries, Limit
  <2> QED BY <2>1, <2>2
<1>2. ASSUME NEW k \in 0 .. Retries
      PROVE  Reach(k) \in Nat /\ Reach(k) + Limit + 1 <= LongestCall
  <2> DEFINE p == k * Limit
             q == (Retries + 1) * Limit
  <2>1. Waits[k] \in Nat /\ Waits[k] <= Waits[Retries] /\ k \in Nat
    BY <1>0, WaitsDef, WaitsBounded
  <2>2. p \in Nat /\ q \in Nat
    BY <1>0, <2>1, ProductGrows
  <2>3. p + Limit <= q
    <3>1. (k + 1) * Limit = k * Limit + Limit
      BY <1>0, <2>1, ProductStep
    <3>2. (k + 1) * Limit <= (Retries + 1) * Limit
      BY <1>0, <2>1, ProductGrows
    <3> QED BY <3>1, <3>2
  <2>4. Reach(k) = p + Waits[k] /\ LongestCall = 1 + q + Waits[Retries]
    BY <1>1 DEF Reach
  <2>5. p + Waits[k] \in Nat
    <3> HIDE DEF p, q
    <3> QED BY <2>1, <2>2
  <2>6. p + Waits[k] + Limit + 1 <= 1 + q + Waits[Retries]
    <3> HIDE DEF p, q
    <3> QED BY SMTT(30), <1>0, <2>1, <2>2, <2>3
  <2> HIDE DEF p, q
  <2> QED BY <2>4, <2>5, <2>6
<1>3. ASSUME NEW k \in 1 .. Retries
      PROVE  Reach(k) = Reach(k - 1) + Limit + Backoffs[k]
  <2> DEFINE p == k * Limit
             q == (k - 1) * Limit
  <2>1. k - 1 \in Nat /\ k - 1 \in 0 .. Retries /\ (k - 1) + 1 = k
    BY <1>0
  <2>2. Backoffs[k] \in Nat
    BY DEF Retries
  <2>3. Waits[k] = Backoffs[k] + Waits[k - 1] /\ Waits[k - 1] \in Nat
    BY <2>1, WaitsDef
  <2>4. p = q + Limit
    <3> HIDE DEF p, q
    <3>1. (k - 1 + 1) * Limit = (k - 1) * Limit + Limit
      BY <1>0, <2>1, ProductStep
    <3> QED BY <2>1, <3>1 DEF p, q
  <2>5. q \in Nat
    BY <1>0, <2>1, ProductGrows
  <2>6. Reach(k) = p + Waits[k] /\ Reach(k - 1) = q + Waits[k - 1]
    BY DEF Reach
  <2> HIDE DEF p, q
  <2> QED BY SMTT(30), <1>0, <2>2, <2>3, <2>4, <2>5, <2>6
<1>4. Reach(0) = 0
  <2>1. 0 * Limit = 0
    BY <1>0
  <2> QED BY <1>0, <2>1, WaitsDef DEF Reach
<1>5. LongestCall \in Nat /\ LongestCall >= 1
  <2> DEFINE q == (Retries + 1) * Limit
  <2>1. q \in Nat /\ LongestCall = 1 + q + Waits[Retries]
    BY <1>1
  <2> HIDE DEF q
  <2> QED BY <1>0, <2>1
<1> QED BY <1>0, <1>2, <1>3, <1>4, <1>5

(* The agents that are asked are a list of names, and the same one all run. *)
LEMMA EnabledType ==
  /\ EnabledAgents \in Seq(Tasks)
  /\ disabled' = disabled => EnabledAgents' = EnabledAgents
<1> DEFINE n == Len(Agents)
           T == Seq(Tasks)
           keep(i, s) == IF Agents[i] \in disabled THEN s ELSE Append(s, Agents[i])
           step == [i \in 1 .. n |-> [s \in T |-> keep(i, s)]]
<1>1. n \in Nat /\ <<>> \in T /\ \A i \in 1 .. n : Agents[i] \in Tasks
  BY DEF Tasks
<1>2. ASSUME NEW i \in 1 .. n, NEW s \in T PROVE keep(i, s) \in T
  BY <1>1, AppendProperties
<1>3. step \in [1 .. n -> [T -> T]]
  <2> HIDE DEF T, keep
  <2> QED BY <1>2
<1>4. PICK f : f \in Runs(T, <<>>, step, n)
  <2> HIDE DEF step, n, T
  <2>1. Runs(T, <<>>, step, n) # {}
    BY <1>1, <1>3, Scans
  <2> QED BY <2>1
<1>5. /\ f \in [0 .. n -> T] /\ f[0] = <<>>
      /\ \A i \in 1 .. n : f[i] = step[i][f[i - 1]]
  BY <1>4 DEF Runs
<1>6. ASSUME NEW i \in 1 .. n PROVE f[i] = keep(i, f[i - 1])
  <2> HIDE DEF T, keep, n
  <2>1. i - 1 \in 0 .. n
    BY <1>1
  <2>2. f[i - 1] \in T
    BY <1>5, <2>1
  <2> QED BY <1>5, <2>2
<1> DEFINE body(g) == [i \in 0 .. n |->
             IF i = 0 THEN <<>>
             ELSE IF Agents[i] \in disabled THEN g[i - 1]
             ELSE Append(g[i - 1], Agents[i])]
           enabled == CHOOSE g : g = body(g)
<1>7. f = body(f)
  <2> HIDE DEF T, n
  <2>1. ASSUME NEW i \in 0 .. n PROVE f[i] = body(f)[i]
    <3>1. CASE i = 0
      BY <1>5, <3>1
    <3>2. CASE i # 0
      <4>1. i \in 1 .. n
        BY <1>1, <3>2
      <4>2. f[i] = keep(i, f[i - 1])
        BY <1>6, <4>1
      <4> QED BY <3>2, <4>2
    <3> QED BY <3>1, <3>2
  <2> HIDE DEF body
  <2>2. body(f) = [i \in 0 .. n |-> body(f)[i]]
    BY DEF body
  <2> QED BY <1>5, <2>1, <2>2
<1>8. enabled = body(enabled)
  <2> HIDE DEF body
  <2> QED BY <1>7
<1> DEFINE S == {m \in 0 .. n : enabled[m] \in T}
<1>9. 0 \in S
  <2> HIDE DEF enabled
  <2> QED BY <1>1, <1>8
<1>10. ASSUME NEW m \in 1 .. n, m - 1 \in S PROVE m \in S
  <2> HIDE DEF enabled
  <2>1. enabled[m] = keep(m, enabled[m - 1])
    <3> HIDE DEF n
    <3>1. m \in 0 .. n /\ m # 0
      BY <1>1
    <3>2. enabled[m] = body(enabled)[m]
      BY <1>8
    <3>3. body(enabled)[m] = keep(m, enabled[m - 1])
      BY <3>1
    <3> QED BY <3>2, <3>3
  <2>2. keep(m, enabled[m - 1]) \in T
    <3> HIDE DEF keep
    <3> QED BY <1>2, <1>10
  <2> HIDE DEF n, T, keep
  <2> QED BY <1>1, <2>1, <2>2
<1>11. n \in 0 .. n /\ n \in S
  <2> HIDE DEF S, n
  <2>1. \A m \in 0 .. n : m \in S
    BY <1>1, <1>9, <1>10, UpTo
  <2> QED BY <1>1, <2>1
<1>12. EnabledAgents = enabled[n]
  BY DEF EnabledAgents
<1>13. disabled' = disabled => EnabledAgents' = EnabledAgents
  BY DEF EnabledAgents
<1> QED BY <1>11, <1>12, <1>13

(* The budget of a list of tasks, when the cap does not bite. *)
LEMMA BudgetBounds ==
  ASSUME NEW tasks \in Seq(Tasks)
  PROVE  /\ Len(tasks) * Share \in Nat
         /\ Budget(tasks) \in Nat
         /\ Base + Len(tasks) * Share <= MaxBudget =>
              Budget(tasks) >= Base + Len(tasks) * Share
<1> DEFINE p == Len(tasks) * Share
<1>1. Share \in Nat /\ Len(tasks) \in Nat
  BY DEF Share
<1>2. p \in Nat
  BY <1>1, ProductGrows
<1>3. Budget(tasks) = Smaller(Larger(MinBudget, Base + p), MaxBudget)
  BY DEF Budget, TaskShare, Share
<1> HIDE DEF p
<1>4. /\ Budget(tasks) \in Nat
      /\ Base + p <= MaxBudget => Budget(tasks) >= Base + p
  BY <1>2, <1>3 DEF Smaller, Larger
<1> QED BY <1>2, <1>4 DEF p

-----------------------------------------------------------------------------
(* Every step preserves the invariant *)

(* What depends only on the tasks, their decisions and the time they took. *)
LEMMA TasksAlone ==
  ASSUME UNCHANGED <<disabled, deadline, decisions, overtime>>
  PROVE  /\ EnabledAgents' = EnabledAgents
         /\ Exceeded' <=> Exceeded
         /\ Spent' = Spent
         /\ EveryoneAsked' <=> EveryoneAsked
<1>1. EnabledAgents' = EnabledAgents
  BY EnabledType
<1>2. (Exceeded' <=> Exceeded) /\ Spent' = Spent
  BY DEF Exceeded, Spent
<1>3. EveryoneAsked' <=> EveryoneAsked
  BY <1>1 DEF EveryoneAsked
<1> QED BY <1>1, <1>2, <1>3

(* The program starts before its first round. *)
LEMMA InitRound == Init => RoundInv
<1> SUFFICES ASSUME Init PROVE RoundInv
  OBVIOUS
<1> USE DEF Init, NoCall
<1>1. Types
  BY DEF Types, Calls, Phases, NewGateway
<1>2. CallShape /\ KeptSoFar /\ CleanAnswerKept
  BY DEF CallShape, KeptSoFar, CleanAnswerKept, Retries
<1>3. Clock /\ WithinBlock /\ Budgeted
  BY DEF Clock, WithinBlock, Budgeted, NewGateway
<1>4. Accounted /\ Skipping /\ EveryoneAsked
  BY DEF Accounted, Skipping, EveryoneAsked, Exceeded
<1> QED BY <1>1, <1>2, <1>3, <1>4 DEF RoundInv

(* What a round with a budget begins with. *)
LEMMA BeginBudgeted ==
  ASSUME RoundInv,
         \E kind \in {"inline", "final"} :
           BeginRound(kind, EnabledAgents, Budget(EnabledAgents)),
         lastSlot' \in Int, now' \in Int, lastSlot' < now'
  PROVE  RoundInv'
<1>0. PICK kind : BeginRound(kind, EnabledAgents, Budget(EnabledAgents))
  OBVIOUS
<1>9. lastSlot' <= now'
  OBVIOUS
<1> USE <1>0
<1> USE DEF BeginRound, NoCall
<1>1. /\ EnabledAgents \in Seq(Tasks) /\ EnabledAgents' = EnabledAgents
      /\ Budget(EnabledAgents) \in Nat
  BY EnabledType, BudgetBounds
<1>2. Types'
  BY <1>1 DEF RoundInv, Types, Calls, Phases
<1>3. (CallShape /\ KeptSoFar /\ CleanAnswerKept)'
  BY DEF CallShape, KeptSoFar, CleanAnswerKept, Retries
<1>4. (Clock /\ WithinBlock)'
  <2>1. /\ deadline' \in Nat /\ now' = 0 /\ pc' = "next"
        /\ call'.phase = "none" /\ call'.sentAt = -1
    BY <1>1
  <2>2. Clock'
    <3> HIDE DEF BeginRound, NoCall
    <3>1. call'.sentAt <= now' /\ call'.sentAt + 1 <= now'
      BY <2>1
    <3>2. lastSlot' <= now'
      BY <1>9
    <3>3. call'.phase \notin {"slot", "backoff", "inflight"}
      BY <2>1
    <3>4. pc' \notin {"idle", "stagger"}
      BY <2>1
    <3> QED BY <3>1, <3>2, <3>3, <3>4 DEF Clock
  <2>3. WithinBlock'
    BY <2>1, ReachBounds DEF WithinBlock
  <2> QED BY <2>2, <2>3
<1>5. Budgeted'
  <2>1. Base + Len(EnabledAgents) * Share <= MaxBudget =>
          deadline' >= Base + Len(EnabledAgents) * Share
    BY <1>1, BudgetBounds
  <2>2. Len(decisions') + Len(todo') = Len(EnabledAgents)
    BY <1>1
  <2> HIDE <1>0 DEF BeginRound, NoCall
  <2> QED BY <1>1, <2>1, <2>2 DEF Budgeted
<1>6. Exceeded' <=> FALSE
  BY DEF Exceeded
<1>7. Accounted'
  <2>1. Len(decisions') = 0 /\ 0 * Share = 0 /\ overtime' = 0
    BY DEF Share
  <2> QED BY <2>1 DEF Accounted, Spent
<1>8. (Skipping /\ EveryoneAsked)'
  BY <1>6 DEF Skipping, EveryoneAsked, Exceeded
<1> QED BY <1>2, <1>3, <1>4, <1>5, <1>7, <1>8 DEF RoundInv

(* A round begins. *)
LEMMA BeginStep ==
  ASSUME RoundInv, InlineRound \/ FinalRound \/ AnalysisRound
  PROVE  RoundInv'
<1>1. CASE InlineRound
  <2>1. lastSlot' \in Int /\ now' \in Int /\ lastSlot' < now'
    BY SMTT(30), <1>1 DEF InlineRound, BeginRound, RoundInv, Types, Clock
  <2>2. \E kind \in {"inline", "final"} : BeginRound(kind, EnabledAgents, Budget(EnabledAgents))
    BY <1>1 DEF InlineRound
  <2> QED BY <2>1, <2>2, BeginBudgeted
<1>2. CASE FinalRound
  <2>1. lastSlot' \in Int /\ now' \in Int /\ lastSlot' < now'
    BY <1>2 DEF FinalRound, BeginRound, NewGateway
  <2>2. \E kind \in {"inline", "final"} : BeginRound(kind, EnabledAgents, Budget(EnabledAgents))
    BY <1>2 DEF FinalRound
  <2> QED BY <2>1, <2>2, BeginBudgeted
<1>3. CASE AnalysisRound
  <2> USE <1>3 DEF AnalysisRound, BeginRound, NoCall
  <2>1. Types'
    <3>3. todo' \in Seq(Tasks)
      BY DEF Tasks
    <3>2. call' \in Calls /\ decisions' \in Seq([agent : Tasks, verdict : Verdicts])
      BY DEF Calls, Phases
    <3> QED BY <3>2, <3>3 DEF RoundInv, Types
  <2>2. (CallShape /\ KeptSoFar /\ CleanAnswerKept)'
    BY DEF CallShape, KeptSoFar, CleanAnswerKept, Retries
  <2>3. lastSlot' <= 0
    BY DEF RoundInv, Types, CallShape, Clock
  <2>4. (Clock /\ WithinBlock /\ Budgeted)'
    BY <2>3 DEF Clock, WithinBlock, Budgeted
  <2>5. (Accounted /\ Skipping /\ EveryoneAsked)'
    BY DEF Accounted, Skipping, EveryoneAsked, Exceeded
  <2> QED BY <2>1, <2>2, <2>4, <2>5 DEF RoundInv
<1> QED BY <1>1, <1>2, <1>3

(* A task is given up. *)
LEMMA SkipStep == ASSUME RoundInv, SkipTask PROVE RoundInv'
<1> DEFINE n == Len(EnabledAgents)
           d == [agent |-> Head(todo), verdict |-> "deadline_exceeded"]
<1> USE DEF SkipTask, Decide, Late, gatewayVars
<1>1. /\ todo \in Seq(Tasks) /\ todo # <<>>
      /\ decisions \in Seq([agent : Tasks, verdict : Verdicts])
  BY DEF RoundInv, Types
<1>2. /\ Head(todo) \in Tasks /\ Tail(todo) \in Seq(Tasks)
      /\ Len(Tail(todo)) = Len(todo) - 1 /\ Len(todo) \in Nat /\ Len(todo) >= 1
  BY <1>1, HeadTailProperties, EmptySeq
<1>3. d \in [agent : Tasks, verdict : Verdicts]
  BY <1>2 DEF Verdicts
<1>4. /\ decisions' = Append(decisions, d)
      /\ decisions' \in Seq([agent : Tasks, verdict : Verdicts])
      /\ Len(decisions') = Len(decisions) + 1 /\ Len(decisions) \in Nat
      /\ decisions'[Len(decisions) + 1] = d
  BY <1>1, <1>3, AppendProperties
<1>5. Exceeded'
  <2>1. Len(decisions) + 1 \in DOMAIN decisions'
    BY <1>4
  <2>2. decisions'[Len(decisions) + 1].verdict = "deadline_exceeded"
    BY <1>4
  <2> QED BY <2>1, <2>2 DEF Exceeded
<1>6. EnabledAgents' = EnabledAgents
  BY EnabledType
<1>7. Types'
  BY <1>2, <1>4 DEF RoundInv, Types
<1>8. (CallShape /\ KeptSoFar /\ CleanAnswerKept)'
  BY DEF RoundInv, CallShape, KeptSoFar, CleanAnswerKept
<1>9. (Clock /\ WithinBlock)'
  <2>1. Clock'
    BY DEF RoundInv, Clock
  <2>2. WithinBlock'
    BY DEF RoundInv, WithinBlock, Latest, Tries
  <2> QED BY <2>1, <2>2
<1>10. Budgeted'
  BY <1>2, <1>4, <1>6 DEF RoundInv, Budgeted
<1>11. (Accounted /\ Skipping)'
  BY <1>5 DEF Accounted, Skipping, RoundInv
<1>12. EveryoneAsked'
  <2>1. CASE Exceeded
    BY <1>6, <2>1 DEF RoundInv, EveryoneAsked, Exceeded
  <2>2. CASE ~ Exceeded
    <3> DEFINE p == n * Share
               q == Len(decisions) * Share
    <3>1. SUFFICES ASSUME Base + p <= MaxBudget PROVE overtime >= Base + Share
      BY <1>6 DEF EveryoneAsked, Share
    <3>2. now >= deadline /\ deadline >= Base + p /\ now <= q + overtime
      BY <2>2, <3>1 DEF RoundInv, Budgeted, Accounted, Spent
    <3>3. n = Len(decisions) + Len(todo)
      BY DEF RoundInv, Budgeted
    <3>4. q + Share <= p /\ p \in Nat /\ q \in Nat
      <4>1. Share \in Nat /\ Len(decisions) + 1 \in Nat /\ n \in Nat /\ Len(decisions) + 1 <= n
        BY <1>2, <1>4, <3>3 DEF Share
      <4>2. (Len(decisions) + 1) * Share = Len(decisions) * Share + Share
        BY <1>4, <4>1, ProductStep
      <4>3. (Len(decisions) + 1) * Share <= n * Share /\ n * Share \in Nat
        BY <4>1, ProductGrows
      <4>4. Len(decisions) * Share \in Nat
        BY <1>4, <4>1, ProductGrows
      <4> QED BY <4>2, <4>3, <4>4
    <3>5. Share \in Nat /\ {now, deadline, overtime} \subseteq Nat
      BY DEF RoundInv, Types, Share
    <3> HIDE DEF p, q, n
    <3> QED BY SMTT(30), <3>2, <3>4, <3>5
  <2> QED BY <2>1, <2>2
<1> QED BY <1>7, <1>8, <1>9, <1>10, <1>11, <1>12 DEF RoundInv

(* A call is begun: nothing sent is nearer than a second to its slot. *)
LEMMA AskStep == ASSUME RoundInv, AskTask PROVE RoundInv'
<1> USE DEF AskTask
<1>1. /\ EnabledAgents' = EnabledAgents /\ (Exceeded' <=> Exceeded)
      /\ Spent' = Spent /\ (EveryoneAsked' <=> EveryoneAsked)
  BY TasksAlone
<1>2. ~ Exceeded
  BY DEF Late, RoundInv, Skipping
<1>3. Types
  BY DEF RoundInv
<1>4. call.phase = "none" /\ call.results = <<>> /\ Len(call.results) = 0
  BY DEF RoundInv, CallShape, StartCall, FailCall
<1>5. CASE StartCall
  <2> USE <1>5 DEF StartCall
  <2>1. SlotWait \in Nat /\ (lastSlot < now => SlotWait = 0)
    BY SMTT(30), <1>3 DEF Types, SlotWait
  <2>2. now + SlotWait \in Nat /\ now <= now + SlotWait
    BY SMTT(30), <1>3, <2>1 DEF Types
  <2>3. /\ call' \in Calls /\ call'.phase = "slot" /\ call'.until = now + SlotWait
        /\ call'.results = <<>> /\ call'.sentAt = call.sentAt /\ call'.kept = call.kept
    BY <1>3, <1>4, <2>2 DEF Types, Calls, Phases
  <2> HIDE DEF SlotWait
  <2>4. Types'
    BY <1>3, <2>2, <2>3 DEF Types
  <2>5. (CallShape /\ KeptSoFar /\ CleanAnswerKept)'
    BY <2>3 DEF CallShape, KeptSoFar, CleanAnswerKept
  <2>6. Clock'
    <3>1. call.sentAt + 1 <= now
      BY DEF RoundInv, Clock
    <3>2. call'.sentAt + 1 <= now' /\ call'.sentAt \in Int /\ now' = now
      BY <1>3, <2>3, <3>1 DEF Types, Calls
    <3>3. /\ lastSlot' = call'.until /\ now' <= call'.until
          /\ call'.sentAt + 1 <= call'.until /\ call'.sentAt <= now'
      <4>1. call'.sentAt \in Int /\ now \in Nat /\ now' = now
        BY <1>3, <3>2 DEF Types
      <4>2. call'.until = now + SlotWait /\ lastSlot' = now + SlotWait
        BY <2>3
      <4> QED BY SMTT(30), <2>1, <3>2, <4>1, <4>2
    <3> QED BY <2>3, <3>3 DEF Clock
  <2>7. WithinBlock'
    <3>1. SUFFICES ASSUME deadline # 0 PROVE call'.until <= deadline + Reach(0)
      BY <2>3 DEF WithinBlock, Latest, Tries
    <3>2. lastSlot < now
      BY <3>1 DEF RoundInv, Budgeted
    <3>3. now < deadline
      BY <1>3, <3>1 DEF Late, Types
    <3> QED BY SMTT(30), <1>3, <2>1, <2>3, <3>2, <3>3, ReachBounds DEF Types
  <2>8. Budgeted'
    BY <1>1 DEF RoundInv, Budgeted
  <2>9. Accounted'
    <3>1. deadline # 0 => call'.until <= Spent
      BY <1>2, <1>3, <2>1, <2>3 DEF RoundInv, Budgeted, Accounted, Types
    <3> QED BY <1>1, <2>3, <3>1 DEF Accounted
  <2> QED BY <1>1, <1>2, <2>4, <2>5, <2>6, <2>7, <2>8, <2>9 DEF RoundInv, Skipping
<1>6. CASE FailCall
  <2> USE <1>6 DEF FailCall
  <2>1. /\ call' \in Calls /\ call'.phase = "answered" /\ call'.first = now
        /\ call'.results = <<>> /\ call'.sentAt = call.sentAt /\ call'.kept = call.kept
    BY <1>3, <1>4 DEF Types, Calls, Phases
  <2>2. Types'
    BY <1>3, <2>1 DEF Types
  <2>3. (CallShape /\ KeptSoFar /\ CleanAnswerKept)'
    <3>1. Retries \in Nat /\ Len(Backoffs) = Retries /\ Len(call'.results) = 0
      BY <2>1 DEF Retries
    <3>2. (CallShape /\ KeptSoFar)'
      BY <2>1, <3>1 DEF CallShape, KeptSoFar, Tries
    <3>3. CleanAnswerKept'
      BY <2>1, <3>1 DEF CleanAnswerKept
    <3> QED BY <3>2, <3>3
  <2>4. Clock'
    <3>1. call.sentAt <= now /\ lastSlot <= now
      BY <1>4 DEF RoundInv, Clock
    <3> QED BY <2>1, <3>1 DEF Clock
  <2>5. WithinBlock'
    <3>1. deadline # 0 => now < deadline
      BY <1>3 DEF Late, Types
    <3>3. now \in Nat /\ deadline \in Nat /\ LongestCall \in Nat /\ LongestCall >= 1
      BY <1>3, ReachBounds DEF Types
    <3>2. deadline # 0 => now + 1 <= deadline + LongestCall
      BY <3>1, <3>3
    <3> QED BY <2>1, <3>2 DEF WithinBlock
  <2>6. Budgeted'
    BY <1>1 DEF RoundInv, Budgeted
  <2>7. Accounted'
    BY <1>1, <2>1 DEF RoundInv, Accounted
  <2> QED BY <1>1, <1>2, <2>2, <2>3, <2>4, <2>5, <2>6, <2>7 DEF RoundInv, Skipping
<1> QED BY <1>5, <1>6

(* A request is sent, the first or a retry. *)
LEMMA SendStep ==
  ASSUME RoundInv, pc = "calling", SendRequest, UNCHANGED roundVars
  PROVE  RoundInv'
<1> USE DEF SendRequest, Send, roundVars
<1>1. /\ EnabledAgents' = EnabledAgents /\ (Exceeded' <=> Exceeded)
      /\ Spent' = Spent /\ (EveryoneAsked' <=> EveryoneAsked)
  BY TasksAlone
<1>2. Types
  BY DEF RoundInv
<1>3. /\ call' \in Calls /\ call'.phase = "inflight" /\ call'.sentAt = now
      /\ call'.results = call.results /\ call'.kept = call.kept
      /\ call'.first = IF call.results = <<>> THEN now ELSE call.first
  <2>1. (IF call.results = <<>> THEN now ELSE call.first) \in Nat
    BY <1>2 DEF Types, Calls
  <2>2. call \in Calls /\ now \in Nat
    BY <1>2 DEF Types
  <2>3. call' = [call EXCEPT !.phase = "inflight", !.sentAt = now,
                   !.first = IF call.results = <<>> THEN now ELSE call.first]
    BY <2>2 DEF Calls
  <2> HIDE DEF SendRequest, Send
  <2>4. call' \in Calls
    <3> DEFINE start == IF call.results = <<>> THEN now ELSE call.first
    <3> HIDE DEF start
    <3>1. start \in Nat /\ now \in Int /\ "inflight" \in Phases
      BY <2>1, <2>2 DEF start, Phases
    <3>2. call' = [call EXCEPT !.phase = "inflight", !.sentAt = now, !.first = start]
      BY <2>3 DEF start
    <3> QED BY <2>2, <3>1, <3>2 DEF Calls
  <2>5. /\ call'.phase = "inflight" /\ call'.sentAt = now
        /\ call'.results = call.results /\ call'.kept = call.kept
    BY <2>2, <2>3 DEF Calls
  <2>6. call'.first = IF call.results = <<>> THEN now ELSE call.first
    BY <2>2, <2>3, Zenon DEF Calls
  <2> QED BY <2>4, <2>5, <2>6
<1>4. call.phase = "slot" => call.results = <<>>
  BY DEF RoundInv, CallShape
<1>5. call.phase = "backoff" => call.results # <<>>
  BY <1>2 DEF RoundInv, CallShape, Types, Calls, Tries
<1>6. Types'
  BY <1>2, <1>3 DEF Types
<1>7. (CallShape /\ KeptSoFar /\ CleanAnswerKept)'
  <2>1. Tries <= Retries
    <3>1. Retries \in Nat
      BY DEF Retries
    <3> QED BY <1>4, <3>1 DEF RoundInv, CallShape, Tries
  <2>2. (CallShape /\ KeptSoFar)'
    BY <1>3, <2>1 DEF RoundInv, CallShape, KeptSoFar, Tries
  <2>3. CleanAnswerKept'
    BY <1>3 DEF RoundInv, CleanAnswerKept
  <2> QED BY <2>2, <2>3
<1>8. Clock'
  <2>1. now \in Nat /\ Limit \in Nat /\ call'.sentAt = now' /\ now' = now
    BY <1>2, <1>3, ReachBounds DEF Types
  <2>2. lastSlot <= now
    BY <2>1 DEF RoundInv, Clock
  <2>3. call'.sentAt <= now' /\ now' <= call'.sentAt + Limit
    BY <2>1
  <2> QED BY <1>3, <2>2, <2>3 DEF Clock
<1>9. WithinBlock'
  BY <1>3 DEF RoundInv, WithinBlock, Latest, Tries
<1>10. Budgeted'
  BY <1>1 DEF RoundInv, Budgeted
<1>11. Accounted'
  BY <1>1, <1>3, <1>4, <1>5 DEF RoundInv, Accounted
<1>12. Skipping'
  BY <1>1 DEF RoundInv, Skipping
<1> QED BY <1>1, <1>6, <1>7, <1>8, <1>9, <1>10, <1>11, <1>12 DEF RoundInv

(* A request comes back or is killed: the first clean answer, or the first   *)
(* failure, is kept, and a retry waits for its backoff.                      *)
LEMMA SettleStep ==
  ASSUME RoundInv, pc = "calling", call.phase = "inflight",
         NEW o \in Outcomes, Settle(o), UNCHANGED <<now, lastSlot, roundVars>>
  PROVE  RoundInv'
<1> DEFINE n == Len(call.results) + 1
           kept == Adopt(o)
           again == Retried(kept, n)
<1> USE DEF roundVars
<1>1. /\ EnabledAgents' = EnabledAgents /\ (Exceeded' <=> Exceeded)
      /\ Spent' = Spent /\ (EveryoneAsked' <=> EveryoneAsked)
  BY TasksAlone
<1>2. Types
  BY DEF RoundInv
<1>3. call.results \in Seq(Outcomes) /\ n \in 1 .. Retries + 1 /\ Retries \in Nat
  BY <1>2 DEF RoundInv, CallShape, Tries, Types, Calls, Retries
<1>4. /\ \A i \in DOMAIN call.results : call.results[i] \notin Clean
      /\ call.results # <<>> => call.kept = call.results[1]
  BY DEF RoundInv, KeptSoFar
<1>5. kept \in Outcomes /\ (again => n \in 1 .. Retries /\ kept \in Transient)
  BY SMTT(30), <1>2, <1>3, <1>4 DEF Adopt, Retried, Retries, Types, Calls
<1>6. again => Backoffs[n] \in Nat
  BY <1>5 DEF Retries
<1>7. /\ call'.results = Append(call.results, o) /\ call'.kept = kept
      /\ call'.phase = (IF again THEN "backoff" ELSE "answered")
      /\ call'.until = (IF again THEN now + Backoffs[n] ELSE 0)
      /\ call'.sentAt = call.sentAt /\ call'.first = call.first
  BY <1>2 DEF Settle, Types, Calls
<1>8. /\ call'.results \in Seq(Outcomes) /\ Len(call'.results) = n
      /\ DOMAIN call'.results = 1 .. n /\ call'.results[n] = o
      /\ \A i \in 1 .. n - 1 : call'.results[i] = call.results[i]
  BY <1>3, <1>7, AppendProperties
<1>9. call' \in Calls
  <2> HIDE DEF again, kept, n
  <2>1. (IF again THEN now + Backoffs[n] ELSE 0) \in Nat
    <3>1. now \in Nat
      BY <1>2 DEF Types
    <3>2. CASE again
      BY <1>6, <3>1, <3>2
    <3>3. CASE ~again
      BY <3>3
    <3> QED BY <3>2, <3>3
  <2>2. call' = [phase |-> call'.phase, until |-> call'.until, first |-> call'.first,
                 sentAt |-> call'.sentAt, results |-> call'.results, kept |-> call'.kept]
    BY <1>2 DEF Types, Calls, Settle
  <2>3. call'.phase \in Phases /\ call'.first \in Nat /\ call'.sentAt \in Int
    BY <1>2, <1>7 DEF Types, Calls, Phases
  <2> QED BY <1>5, <1>7, <1>8, <2>1, <2>2, <2>3 DEF Calls
<1>10. Types'
  BY <1>2, <1>9 DEF Types
<1>11. CallShape'
  <2> HIDE DEF again, n
  <2> QED BY <1>2, <1>3, <1>5, <1>7, <1>8 DEF RoundInv, CallShape, Tries
<1>12. \A i \in 1 .. n - 1 : call'.results[i] \notin Clean
  <2>1. DOMAIN call.results = 1 .. n - 1
    BY <1>3
  <2> HIDE DEF n
  <2> QED BY <1>4, <1>8, <2>1
<1>13. o \in Clean => kept = o
  BY DEF Adopt
<1>14. o \notin Clean => kept = call'.results[1]
  <2>1. CASE call.results = <<>>
    BY <1>8, <2>1 DEF Adopt
  <2>2. CASE call.results # <<>>
    <3>1. 1 \in 1 .. n - 1
      BY <1>3, <2>2
    <3> QED BY <1>4, <1>8, <2>2, <3>1 DEF Adopt
  <2> QED BY <2>1, <2>2
<1>15. KeptSoFar'
  <2> SUFFICES ASSUME again PROVE KeptSoFar'
    BY <1>7 DEF KeptSoFar
  <2>1. o \notin Clean
    BY <1>5, <1>13 DEF Clean, Transient
  <2> HIDE DEF again, kept, n
  <2>2. \A i \in 1 .. n : call'.results[i] \notin Clean
    BY <1>3, <1>8, <1>12, <2>1
  <2> QED BY <1>7, <1>8, <1>14, <2>1, <2>2 DEF KeptSoFar
<1>16. CleanAnswerKept'
  <2> DEFINE clean == {i \in 1 .. n : call'.results[i] \in Clean}
  <2> HIDE DEF again, kept, n
  <2>1. clean = IF o \in Clean THEN {n} ELSE {}
    BY <1>3, <1>8, <1>12
  <2>2. kept = call'.results[IF clean = {} THEN 1 ELSE n]
    BY <1>8, <1>13, <1>14, <2>1
  <2>3. clean \subseteq {n}
    BY <2>1
  <2>4. n <= Len(Backoffs) + 1
    BY <1>3 DEF Retries
  <2> HIDE DEF clean
  <2> QED BY <1>7, <1>8, <2>2, <2>3, <2>4 DEF CleanAnswerKept, clean
<1>17. Clock'
  <2> HIDE DEF again, kept, n
  <2>1. again => now <= now + Backoffs[n] /\ call.sentAt + 1 <= now + Backoffs[n]
    <3>1. again => Backoffs[n] >= 1
      BY <1>5 DEF Retries
    <3>2. call.sentAt <= now
      BY DEF RoundInv, Clock
    <3>3. now \in Nat /\ call.sentAt \in Int
      BY <1>2 DEF Types, Calls
    <3> QED BY SMTT(30), <1>6, <3>1, <3>2, <3>3
  <2> QED BY <1>7, <2>1 DEF RoundInv, Clock
<1>18. WithinBlock'
  <2> SUFFICES ASSUME deadline # 0 PROVE WithinBlock'
    BY DEF WithinBlock
  <2> HIDE DEF again, kept, n
  <2>1. call.sentAt <= deadline + Reach(n - 1) /\ now <= call.sentAt + Limit
    <3>1. n - 1 = Len(call.results)
      BY <1>3 DEF n
    <3> QED BY <3>1 DEF RoundInv, WithinBlock, Clock, Latest, Tries
  <2>2. {now, deadline} \subseteq Nat /\ call.sentAt \in Int /\ n - 1 \in 0 .. Retries
    BY <1>2, <1>3 DEF Types, Calls
  <2>3. again => now + Backoffs[n] <= deadline + Reach(n)
    <3> DEFINE r == Reach(n - 1)
               b == Backoffs[n]
    <3> SUFFICES ASSUME again PROVE now + b <= deadline + Reach(n)
      OBVIOUS
    <3>1. Reach(n) = r + Limit + b
      BY <1>5, ReachBounds
    <3>2. r \in Nat /\ Limit \in Nat /\ b \in Nat
      BY <1>6, <2>2, ReachBounds
    <3>3. now \in Nat /\ deadline \in Nat /\ call.sentAt \in Int
      BY <2>2
    <3>4. call.sentAt <= deadline + r /\ now <= call.sentAt + Limit
      BY <2>1
    <3> HIDE DEF r, b
    <3> QED BY SMTT(30), <3>1, <3>2, <3>3, <3>4
  <2>4. now + 1 <= deadline + LongestCall
    <3>1. Reach(n - 1) + Limit + 1 <= LongestCall /\ Reach(n - 1) \in Nat
      BY <2>2, ReachBounds
    <3> QED BY SMTT(30), <2>1, <2>2, <3>1, ReachBounds
  <2> QED BY <1>7, <1>8, <2>3, <2>4 DEF WithinBlock, Latest, Tries
<1>19. Budgeted'
  BY <1>1 DEF RoundInv, Budgeted
<1>20. (Accounted /\ Skipping)'
  BY <1>1, <1>7 DEF RoundInv, Accounted, Skipping
<1> QED BY <1>1, <1>10, <1>11, <1>15, <1>16, <1>17, <1>18, <1>19, <1>20 DEF RoundInv

(* The gateway at work, and the endpoint's answers. *)
LEMMA GatewayStep == ASSUME RoundInv, Gateway \/ Answer PROVE RoundInv'
<1>1. CASE Gateway
  <2>1. CASE SendRequest
    BY <1>1, <2>1, SendStep DEF Gateway
  <2>2. CASE KillCurl
    <3>1. "unreachable" \in Outcomes
      BY DEF Outcomes, Transient
    <3> QED BY <1>1, <2>2, <3>1, SettleStep DEF Gateway, KillCurl
  <2> QED BY <1>1, <2>1, <2>2 DEF Gateway
<1>2. CASE Answer
  <2>1. PICK o \in Outcomes : Respond(o)
    BY <1>2 DEF Answer
  <2> QED BY <1>2, <2>1, SettleStep DEF Answer, Respond
<1> QED BY <1>1, <1>2

(* A decision is made of an answer: what the call took beyond its timeout is *)
(* overtime, the rest is within the task's share.                            *)
LEMMA TakeStep == ASSUME RoundInv, TakeAnswer PROVE RoundInv'
<1> DEFINE v == Verdict(call.kept)
           d == [agent |-> Head(todo), verdict |-> v]
           over == Larger(0, now - call.first - Timeout)
<1> USE DEF TakeAnswer, Decide, NoCall
<1>1. Types
  BY DEF RoundInv
<1>2. /\ todo \in Seq(Tasks) /\ todo # <<>>
      /\ decisions \in Seq([agent : Tasks, verdict : Verdicts])
  BY <1>1 DEF RoundInv, Types, CallShape
<1>3. /\ Head(todo) \in Tasks /\ Tail(todo) \in Seq(Tasks)
      /\ Len(Tail(todo)) = Len(todo) - 1 /\ Len(todo) \in Nat /\ Len(todo) >= 1
  BY <1>2, HeadTailProperties, EmptySeq
<1>4. v \in Verdicts /\ v # "deadline_exceeded"
  BY DEF Verdict, Verdicts
<1>5. d \in [agent : Tasks, verdict : Verdicts]
  BY <1>3, <1>4
<1>6. /\ decisions' = Append(decisions, d)
      /\ decisions' \in Seq([agent : Tasks, verdict : Verdicts])
      /\ Len(decisions') = Len(decisions) + 1 /\ Len(decisions) \in Nat
      /\ DOMAIN decisions' = 1 .. Len(decisions) + 1
      /\ DOMAIN decisions = 1 .. Len(decisions)
      /\ decisions'[Len(decisions) + 1] = d
      /\ \A i \in 1 .. Len(decisions) : decisions'[i] = decisions[i]
  BY <1>2, <1>5, AppendProperties
<1>7. Exceeded' <=> Exceeded
  <2> HIDE DEF d, v
  <2>1. d.verdict # "deadline_exceeded"
    BY <1>4 DEF d
  <2> HIDE DEF TakeAnswer
  <2> QED BY <1>6, <2>1 DEF Exceeded
<1>8. ~ Exceeded
  BY DEF RoundInv, Skipping
<1>9. EnabledAgents' = EnabledAgents
  BY EnabledType
<1>10. over \in Nat /\ now <= call.first + Timeout + over
  <2> DEFINE late == now - call.first - Timeout
  <2>1. now \in Nat /\ call.first \in Nat
    BY <1>1 DEF Types, Calls
  <2> HIDE DEF TakeAnswer
  <2>2. late \in Int /\ now = call.first + Timeout + late
    <3>1. Timeout \in Nat
      OBVIOUS
    <3> QED BY <2>1, <3>1
  <2> HIDE DEF late
  <2>3. over = Larger(0, late)
    BY DEF late
  <2>4. Larger(0, late) \in Nat /\ late <= Larger(0, late)
    BY <2>2 DEF Larger
  <2> HIDE DEF over
  <2> QED BY <2>1, <2>2, <2>3, <2>4
<1>11. call' \in Calls /\ call'.phase = "none" /\ call'.sentAt = call.sentAt /\ call'.results = <<>>
  <2>1. call' = [NoCall EXCEPT !.sentAt = call.sentAt]
    OBVIOUS
  <2>2. call.sentAt \in Int
    BY <1>1 DEF Types, Calls
  <2> HIDE DEF TakeAnswer
  <2>3. call' = [phase |-> "none", until |-> 0, first |-> 0, sentAt |-> call.sentAt,
                 results |-> <<>>, kept |-> "unsent"]
    BY <2>1
  <2> HIDE DEF NoCall
  <2> QED BY <2>2, <2>3 DEF Calls, Phases
<1>12. pc' \in {"stagger", "next"} /\ (pc' = "stagger" <=> Stagger)
  OBVIOUS
<1>13. Types'
  <2> HIDE DEF over, d, v
  <2>1. overtime' \in Nat /\ wake' \in Nat /\ now' \in Nat
    <3>1. overtime' = overtime + over /\ wake' = now + 1 /\ now' = now
      BY DEF over
    <3>2. overtime \in Nat /\ now \in Nat
      BY <1>1 DEF Types
    <3> HIDE DEF TakeAnswer
    <3> QED BY <1>10, <3>1, <3>2
  <2> QED BY <1>1, <1>3, <1>6, <1>11, <1>12, <2>1 DEF Types
<1>14. (CallShape /\ KeptSoFar /\ CleanAnswerKept)'
  <2>1. Retries \in Nat /\ Len(Backoffs) = Retries /\ Len(call'.results) = 0
    BY <1>11 DEF Retries
  <2>2. pc' = "stagger" => todo' # <<>>
    <3>1. pc' = "stagger" => Len(todo) > 1
      BY <1>12 DEF Stagger
    <3>2. todo' = Tail(todo)
      OBVIOUS
    <3> HIDE DEF TakeAnswer
    <3>3. Len(todo) > 1 => Len(Tail(todo)) # 0
      <4> DEFINE n == Len(todo)
                 m == Len(Tail(todo))
      <4>1. n \in Nat /\ m = n - 1
        BY <1>3
      <4> HIDE DEF n, m
      <4>2. n > 1 => m # 0
        BY <4>1
      <4> QED BY <4>2 DEF n, m
    <3>4. Len(<<>>) = 0
      OBVIOUS
    <3> QED BY <3>1, <3>2, <3>3, <3>4
  <2>3. CallShape'
    BY <1>11, <1>12, <2>1, <2>2 DEF CallShape, Tries
  <2>4. KeptSoFar' /\ CleanAnswerKept'
    BY <1>11, <2>1 DEF KeptSoFar, CleanAnswerKept
  <2> QED BY <2>3, <2>4
<1>15. Clock'
  <2>1. call.sentAt <= now /\ lastSlot <= now /\ call.sentAt \in Int /\ lastSlot \in Int /\ now \in Nat
    BY <1>1 DEF RoundInv, Clock, Types, Calls
  <2>2. /\ now' = now /\ wake' = now + 1 /\ lastSlot' = lastSlot
        /\ (pc' = "next" => ~ (Len(todo) > 1))
    BY <1>12 DEF Stagger
  <2>3. pc' = "next" => todo' = <<>>
    BY SMTT(30), <1>3, <2>2, EmptySeq
  <2> HIDE DEF TakeAnswer
  <2>4. call'.sentAt <= now' /\ lastSlot' <= now' /\ now' <= wake' /\ call'.sentAt + 1 <= wake' /\ lastSlot' + 1 <= wake'
    BY <1>11, <2>1, <2>2
  <2> QED BY <1>11, <2>3, <2>4 DEF Clock
<1>16. WithinBlock'
  <2>1. deadline # 0 => now + 1 <= deadline + LongestCall
    BY DEF RoundInv, WithinBlock
  <2>2. now \in Nat /\ deadline \in Nat /\ LongestCall \in Nat
    BY <1>1, ReachBounds DEF Types
  <2>3. now' = now /\ wake' = now + 1 /\ deadline' = deadline
    OBVIOUS
  <2> HIDE DEF TakeAnswer
  <2>4. deadline' # 0 => now' <= deadline' + LongestCall /\ wake' <= deadline' + LongestCall
    BY <2>1, <2>2, <2>3
  <2> QED BY <1>11, <2>4 DEF WithinBlock
<1>17. Budgeted'
  <2>1. pc' = "next" => ~ (todo' # <<>>)
    BY SMTT(30), <1>3, <1>12, EmptySeq DEF Stagger
  <2>2. deadline' = deadline /\ todo' = Tail(todo)
    OBVIOUS
  <2> HIDE DEF TakeAnswer
  <2> QED BY <1>3, <1>6, <1>9, <2>1, <2>2 DEF RoundInv, Budgeted
<1>18. Accounted'
  <2> SUFFICES ASSUME deadline # 0 PROVE Accounted'
    BY DEF Accounted
  <2> DEFINE p == Len(decisions) * Share
  <2>1. call.first <= p + overtime
    BY <1>8 DEF RoundInv, Accounted, Spent
  <2>2. Len(decisions') * Share = p + Share
    BY <1>6, ProductStep DEF Share
  <2>3. p \in Nat
    BY <1>6, ProductGrows DEF Share
  <2>4. Spent' = p + Share + overtime + over
    <3>1. overtime' = overtime + over
      OBVIOUS
    <3> HIDE DEF TakeAnswer, over, p
    <3>2. overtime \in Nat /\ Share \in Nat
      BY <1>1 DEF Types, Share
    <3>3. Spent' = Len(decisions') * Share + overtime'
      BY DEF Spent
    <3>4. over \in Nat
      BY <1>10
    <3>5. Spent' = (p + Share) + (overtime + over)
      BY <2>2, <3>1, <3>3
    <3> QED BY <2>3, <3>2, <3>4, <3>5
  <2>5. now' = now /\ wake' = now + 1
    OBVIOUS
  <2>6. now \in Nat /\ overtime \in Nat /\ call.first \in Nat /\ Share = Timeout + 1
    BY <1>1 DEF Types, Calls, Share
  <2> HIDE DEF TakeAnswer, over, p
  <2>7. now' <= Spent' /\ wake' <= Spent'
    BY <1>10, <2>1, <2>3, <2>4, <2>5, <2>6
  <2> QED BY <1>11, <2>7 DEF Accounted
<1>19. (Skipping /\ EveryoneAsked)'
  BY <1>7, <1>8 DEF Skipping, EveryoneAsked, Exceeded
<1> QED BY <1>13, <1>14, <1>15, <1>16, <1>17, <1>18, <1>19 DEF RoundInv

(* The stagger ends, or the round does. *)
LEMMA PassStep == ASSUME RoundInv, EndStagger \/ EndRound PROVE RoundInv'
<1>1. UNCHANGED <<disabled, deadline, decisions, overtime, todo, now, lastSlot, call>>
  BY DEF EndStagger, EndRound, gatewayVars
<1>2. /\ EnabledAgents' = EnabledAgents /\ (Exceeded' <=> Exceeded)
      /\ Spent' = Spent /\ (EveryoneAsked' <=> EveryoneAsked)
  BY <1>1, TasksAlone
<1>3. CleanAnswerKept' /\ KeptSoFar'
  BY <1>1 DEF RoundInv, CleanAnswerKept, KeptSoFar
<1>4. CASE EndStagger
  <2> USE <1>4 DEF EndStagger
  <2>1. Types' /\ CallShape' /\ Clock'
    BY DEF RoundInv, Types, CallShape, Clock, gatewayVars, Tries
  <2>2. WithinBlock'
    BY DEF RoundInv, Types, CallShape, WithinBlock, gatewayVars
  <2>3. Budgeted' /\ Accounted' /\ Skipping'
    BY <1>2 DEF RoundInv, Types, CallShape, Clock, Budgeted, Accounted, Skipping, gatewayVars
  <2> QED BY <1>2, <1>3, <2>1, <2>2, <2>3 DEF RoundInv
<1>5. CASE EndRound
  <2> USE <1>5 DEF EndRound
  <2>0. call.phase = "none" /\ now \in Nat /\ lastSlot \in Int
    BY DEF RoundInv, CallShape, Types
  <2>1. Types' /\ CallShape'
    BY <2>0 DEF RoundInv, Types, CallShape, gatewayVars, Tries
  <2>2. Clock'
    <3>1. lastSlot + 1 <= wake'
      BY <2>0 DEF RoundInv, Clock
    <3> QED BY <2>0, <3>1 DEF RoundInv, Clock, gatewayVars
  <2>3. WithinBlock' /\ Accounted'
    BY <2>0 DEF WithinBlock, Accounted, gatewayVars
  <2>4. Budgeted' /\ Skipping'
    BY <1>2 DEF RoundInv, Budgeted, Skipping
  <2> QED BY <1>2, <1>3, <2>1, <2>2, <2>3, <2>4 DEF RoundInv
<1> QED BY <1>4, <1>5

(* A second passes, and nothing that waits is overslept. *)
LEMMA TickStep == ASSUME RoundInv, Tick PROVE RoundInv'
<1> USE DEF Tick, roundVars
<1>1. /\ EnabledAgents' = EnabledAgents /\ (Exceeded' <=> Exceeded)
      /\ Spent' = Spent /\ (EveryoneAsked' <=> EveryoneAsked)
  BY TasksAlone
<1>2. Types'
  BY DEF RoundInv, Types
<1>3. (CallShape /\ KeptSoFar /\ CleanAnswerKept)'
  BY DEF RoundInv, CallShape, KeptSoFar, CleanAnswerKept, Tries
<1>4. Clock'
  <2>1. now \in Nat /\ now' = now + 1 /\ call.until \in Nat /\ call.sentAt \in Int /\ lastSlot \in Int
        /\ wake \in Nat /\ Limit \in Nat
    BY ReachBounds DEF RoundInv, Types, Calls
  <2>2. /\ call.phase \in {"slot", "backoff"} => now < call.until
        /\ call.phase = "inflight" => now < call.sentAt + Limit
        /\ pc # "next" /\ (pc = "stagger" => now < wake)
    <3>1. call.phase \in {"slot", "backoff", "inflight"} => pc = "calling"
      BY DEF RoundInv, CallShape
    <3>2. pc = "calling" => Waiting
      OBVIOUS
    <3> QED BY <2>1, <3>1, <3>2 DEF Waiting, Limit
  <2> QED BY SMTT(30), <2>1, <2>2 DEF RoundInv, Clock
<1>5. WithinBlock'
  <2>1. call.phase # "answered" \/ pc # "calling"
    BY DEF Waiting
  <2> QED BY <2>1 DEF RoundInv, CallShape, WithinBlock, Latest, Tries
<1>6. Budgeted' /\ Accounted' /\ Skipping'
  BY <1>1 DEF RoundInv, Budgeted, Accounted, Skipping
<1> QED BY <1>1, <1>2, <1>3, <1>4, <1>5, <1>6 DEF RoundInv

(* The invariant is inductive. *)
LEMMA RoundStep == RoundInv /\ [Next]_vars => RoundInv'
<1> SUFFICES ASSUME RoundInv, [Next]_vars PROVE RoundInv'
  OBVIOUS
<1>1. CASE InlineRound \/ FinalRound \/ AnalysisRound
  BY <1>1, BeginStep
<1>2. CASE Runtime
  BY <1>2, SkipStep, AskStep, GatewayStep, TakeStep, PassStep DEF Runtime
<1>3. CASE Answer
  BY <1>3, GatewayStep
<1>4. CASE Tick
  BY <1>4, TickStep
<1>5. CASE UNCHANGED vars
  <2> USE <1>5 DEF vars, gatewayVars, roundVars
  <2>1. /\ EnabledAgents' = EnabledAgents /\ (Exceeded' <=> Exceeded)
        /\ Spent' = Spent /\ (EveryoneAsked' <=> EveryoneAsked)
    BY TasksAlone
  <2>2. Types' /\ CallShape' /\ KeptSoFar' /\ CleanAnswerKept' /\ Clock'
    BY DEF RoundInv, Types, CallShape, KeptSoFar, CleanAnswerKept, Clock, Tries
  <2>3. WithinBlock' /\ Budgeted' /\ Accounted' /\ Skipping'
    BY <2>1 DEF RoundInv, WithinBlock, Budgeted, Accounted, Skipping, Latest, Tries
  <2> QED BY <2>1, <2>2, <2>3 DEF RoundInv
<1> QED BY <1>1, <1>2, <1>3, <1>4, <1>5 DEF Next, Over

-----------------------------------------------------------------------------
(* Theorems *)

(* The state of a call, the clock and the tasks of a round agree in every   *)
(* reachable state.                                                         *)
THEOREM RoundInvariant == Spec => []RoundInv
<1> QED BY InitRound, RoundStep, PTL DEF Spec

(* Whatever the timeouts, retries and number of agents, an agent goes       *)
(* unasked only after calls that overran by the slack and a whole share,    *)
(* unless the cap of the budget bites.                                      *)
THEOREM NobodyUnaskedInTime == Spec => []EveryoneAsked
<1>1. RoundInv => EveryoneAsked
  BY DEF RoundInv
<1> QED BY <1>1, RoundInvariant, PTL

(* A round with a deadline ends within the longest call after it. *)
THEOREM BlocksAreBounded == Spec => []BlockBounded
<1>1. RoundInv => BlockBounded
  <2> SUFFICES ASSUME RoundInv, pc \in {"next", "calling", "stagger"}, deadline # 0
               PROVE  now <= deadline + LongestCall
    BY DEF BlockBounded
  <2>1. now \in Nat /\ deadline \in Nat /\ wake \in Nat /\ call \in Calls
    BY DEF RoundInv, Types
  <2>2. LongestCall \in Nat /\ Limit \in Nat /\ Retries \in Nat
    BY ReachBounds DEF Retries
  <2>3. Tries \in Nat
    BY <2>1 DEF Calls, Tries
  <2>4. CASE pc = "next"
    BY <2>4 DEF RoundInv, WithinBlock
  <2>5. CASE pc = "stagger"
    BY <2>1, <2>2, <2>5 DEF RoundInv, Clock, WithinBlock
  <2>6. CASE pc = "calling" /\ call.phase = "answered"
    BY <2>1, <2>2, <2>6 DEF RoundInv, WithinBlock
  <2>7. CASE pc = "calling" /\ call.phase # "answered"
    <3> DEFINE r == Reach(Tries)
    <3>1. Tries \in 0 .. Retries /\ call.phase \in {"slot", "inflight", "backoff"}
      <4>1. call.phase \in {"slot", "inflight", "backoff"}
        BY <2>1, <2>7 DEF RoundInv, CallShape, Calls, Phases
      <4>2. call.phase = "slot" => Tries = 0
        BY DEF RoundInv, CallShape, Tries
      <4> QED BY <2>2, <2>3, <4>1, <4>2 DEF RoundInv, CallShape
    <3>2. r \in Nat /\ r + Limit + 1 <= LongestCall
      BY <3>1, ReachBounds
    <3>3. CASE call.phase = "inflight"
      <4>1. call.sentAt <= deadline + r /\ now <= call.sentAt + Limit /\ call.sentAt \in Int
        BY <2>1, <3>3 DEF RoundInv, WithinBlock, Clock, Latest, Calls
      <4> HIDE DEF r
      <4> QED BY <2>1, <2>2, <3>2, <4>1
    <3>4. CASE call.phase \in {"slot", "backoff"}
      <4>1. call.until <= deadline + r /\ now <= call.until /\ call.until \in Nat
        BY <2>1, <3>4 DEF RoundInv, WithinBlock, Clock, Latest, Calls
      <4> HIDE DEF r
      <4> QED BY <2>1, <2>2, <3>2, <4>1
    <3> QED BY <3>1, <3>3, <3>4
  <2> QED BY <2>4, <2>5, <2>6, <2>7
<1> QED BY <1>1, RoundInvariant, PTL

(* A call reports the first clean answer it received, or the first failure, *)
(* however many retries there are.                                          *)
THEOREM CleanAnswersAreKept == Spec => []CleanAnswerKept
<1>1. RoundInv => CleanAnswerKept
  BY DEF RoundInv
<1> QED BY <1>1, RoundInvariant, PTL

(* No two requests of a round are sent less than a second apart. *)
THEOREM RequestsKeepApart == Spec => RequestsApart
<1>1. ASSUME RoundInv, [Next]_vars, call.phase # "inflight", call'.phase = "inflight"
      PROVE  call'.sentAt - call.sentAt >= MinInterval
  <2>1. call \in Calls
    BY <1>1 DEF RoundInv, Types
  <2>2. SendRequest
    <3>1. ~ (InlineRound \/ FinalRound \/ AnalysisRound \/ TakeAnswer)
      BY <1>1, <2>1 DEF InlineRound, FinalRound, AnalysisRound, BeginRound, TakeAnswer, NoCall
    <3>2. ~ (SkipTask \/ EndStagger \/ EndRound \/ Tick \/ Over \/ UNCHANGED vars)
      BY <1>1 DEF SkipTask, EndStagger, EndRound, Tick, Over, vars, gatewayVars
    <3>3. ~ AskTask
      BY <1>1, <2>1 DEF AskTask, StartCall, FailCall, Calls
    <3>4. ~ (KillCurl \/ Answer)
      BY <1>1 DEF KillCurl, Answer, Respond
    <3> QED BY <1>1, <3>1, <3>2, <3>3, <3>4 DEF Next, Runtime, Gateway
  <2>3. call'.sentAt = now /\ now = call.until /\ call.sentAt + 1 <= call.until
    BY <1>1, <2>1, <2>2 DEF SendRequest, Send, Calls, RoundInv, Clock
  <2> QED BY <2>1, <2>3 DEF Calls
<1>2. RoundInv /\ [Next]_vars =>
        (call.phase # "inflight" /\ call'.phase = "inflight" =>
           call'.sentAt - call.sentAt >= MinInterval)
  BY <1>1
<1> QED BY <1>2, RoundInvariant, PTL DEF Spec, RequestsApart

-----------------------------------------------------------------------------
(* The refinement of RollCall *)

Kinds == {"inline", "final", "analysis"}

(* Nothing was sent, or there is no reason to ask again. *)
Exhausted ==
  call.results = <<>> \/ call.kept \in Clean \/ Len(call.results) = Len(Backoffs) + 1

(* The tasks that are left are the end of the roll, and a closed round has    *)
(* none; nothing is reported of a call to which nothing came back, and a      *)
(* call ends when there is no reason to ask again.                            *)
OnRoll ==
  /\ rounds \in Seq(Kinds)
  /\ Len(decisions) + Len(todo) = Len(Roll)
  /\ \A i \in 1 .. Len(todo) : todo[i] = Roll[Len(decisions) + i]
  /\ pc \in {"idle", "over"} => todo = <<>>
  /\ call.results = <<>> => call.kept = "unsent"
  /\ call.phase = "answered" => Exhausted

RollStep == RollCall!RollNext \/ UNCHANGED RollCall!rollVars

(* The roll is the round's and that of the agents enabled for the run. *)
LEMMA RollAlone ==
  ASSUME UNCHANGED disabled
  PROVE  /\ EnabledAgents' = EnabledAgents
         /\ rounds' = rounds => Roll' = Roll
<1>1. EnabledAgents' = EnabledAgents
  BY EnabledType
<1>2. rounds' = rounds => LastRound' = LastRound
  BY DEF LastRound
<1> QED BY <1>1, <1>2 DEF Roll

(* What happens outside RollCall's sight: waits, the slot and the request. *)
LEMMA RollStutters ==
  ASSUME UNCHANGED <<rounds, disabled, todo, deadline, decisions>>,
         call'.results = call.results, call'.kept = call.kept,
         call'.phase = "answered" => call.phase = "answered" \/ call.results = <<>>,
         pc' \in {"idle", "over"} <=> pc \in {"idle", "over"},
         OnRoll
  PROVE  OnRoll' /\ UNCHANGED RollCall!rollVars
<1>1. EnabledAgents' = EnabledAgents /\ Roll' = Roll
  BY RollAlone
<1>2. OnRoll'
  BY <1>1 DEF OnRoll, Exhausted
<1>3. UNCHANGED RollCall!rollVars
  BY <1>1 DEF RollCall!rollVars
<1> QED BY <1>2, <1>3

(* Whoever is next has received nothing until its call begins. *)
LEMMA NothingReceived ==
  ASSUME RoundInv, OnRoll, pc # "calling"
  PROVE  call.phase = "none" /\ call.results = <<>> /\ call.kept = "unsent"
BY DEF RoundInv, CallShape, OnRoll

(* A budget is never the deadline that stands for none. *)
LEMMA BudgetPositive ==
  ASSUME NEW tasks \in Seq(Tasks)
  PROVE  Budget(tasks) # 0
<1> DEFINE b == Base + Len(tasks) * TaskShare
<1>1. MinBudget \in Nat \ {0} /\ MaxBudget \in Nat \ {0}
  BY RoundAssumption
<1>2. Len(tasks) * TaskShare \in Nat
  BY BudgetBounds, GatewayAssumption DEF Share, TaskShare
<1>3. b \in Nat
  BY <1>2, RoundAssumption
<1> HIDE DEF b
<1>4. Smaller(Larger(MinBudget, b), MaxBudget) # 0
  BY <1>1, <1>3 DEF Smaller, Larger
<1> QED BY <1>4 DEF Budget, b

(* A round begins with its whole roll to do. *)
LEMMA RollBegins ==
  ASSUME RoundInv, OnRoll, InlineRound \/ FinalRound \/ AnalysisRound
  PROVE  OnRoll' /\ RollStep
<1> DEFINE analyst == <<"ResultAnalysisAgent">>
<1>1. PICK kind, tasks, limit :
        /\ kind \in Kinds
        /\ BeginRound(kind, tasks, limit)
        /\ IF kind = "analysis" THEN tasks = analyst /\ limit = 0
           ELSE tasks = EnabledAgents /\ limit = Budget(EnabledAgents)
  BY DEF InlineRound, FinalRound, AnalysisRound, Kinds
<1>2. /\ pc = "idle" /\ pc' = "next" /\ todo' = tasks /\ deadline' = limit
      /\ decisions' = <<>> /\ call' = NoCall /\ rounds' = Append(rounds, kind)
      /\ UNCHANGED disabled
  BY <1>1 DEF BeginRound
<1>3. rounds' \in Seq(Kinds) /\ rounds' # <<>> /\ LastRound' = kind
  <2>1. rounds \in Seq(Kinds)
    BY DEF OnRoll
  <2>2. rounds' \in Seq(Kinds) /\ Len(rounds') = Len(rounds) + 1
        /\ rounds'[Len(rounds) + 1] = kind
    <3>1. kind \in Kinds
      BY <1>1
    <3> QED BY <1>2, <2>1, <3>1
  <2> QED BY <2>1, <2>2 DEF LastRound
<1>4. EnabledAgents' = EnabledAgents
  BY <1>2, RollAlone
<1>5. Roll' = tasks
  BY <1>1, <1>3, <1>4 DEF Roll, Kinds
<1>6. EnabledAgents \in Seq(Tasks)
  BY EnabledType
<1>7. tasks \in Seq(Tasks)
  <2>1. analyst \in Seq(Tasks)
    <3>1. "ResultAnalysisAgent" \in Tasks
      BY DEF Tasks
    <3> QED BY <3>1
  <2> QED BY <1>1, <1>6, <2>1
<1>8. call'.results = <<>> /\ call'.kept = "unsent"
  BY <1>2 DEF NoCall
<1>9. OnRoll'
  BY <1>2, <1>3, <1>5, <1>7, <1>8 DEF OnRoll, Exhausted
<1>10. call.results = <<>> /\ call.kept = "unsent"
  BY <1>2, NothingReceived
<1>11. \/ Roll' = EnabledAgents /\ (deadline' # 0) = TRUE
       \/ Roll' = analyst /\ (deadline' # 0) = FALSE
  BY <1>1, <1>2, <1>5, <1>6, BudgetPositive
<1>12. RollCall!Begin
  BY <1>2, <1>4, <1>8, <1>10, <1>11 DEF RollCall!Begin
<1> QED BY <1>9, <1>12 DEF RollStep, RollCall!RollNext

(* A task that is passed over gives up its turn to the next. *)
LEMMA TurnPasses ==
  ASSUME RoundInv, OnRoll, todo # <<>>, NEW v, Decide(v), UNCHANGED <<rounds, disabled>>,
         pc' \notin {"idle", "over"}, call'.results = <<>>, call'.kept = "unsent"
  PROVE  /\ OnRoll'
         /\ Len(decisions) < Len(Roll)
         /\ decisions' = Append(decisions, [agent |-> Roll[Len(decisions) + 1], verdict |-> v])
<1>1. todo \in Seq(Tasks) /\ decisions \in Seq([agent : Tasks, verdict : Verdicts])
  BY DEF RoundInv, Types
<1>2. Roll' = Roll
  BY RollAlone
<1>3. Len(todo) \in Nat \ {0} /\ Len(decisions) \in Nat /\ Head(todo) = todo[1]
  BY <1>1
<1>4. /\ Tail(todo) \in Seq(Tasks) /\ Len(Tail(todo)) = Len(todo) - 1
      /\ \A i \in 1 .. Len(todo) - 1 : Tail(todo)[i] = todo[i + 1]
  BY <1>1
<1>5. Len(decisions) + Len(todo) = Len(Roll)
      /\ \A i \in 1 .. Len(todo) : todo[i] = Roll[Len(decisions) + i]
  BY DEF OnRoll
<1>6. todo' = Tail(todo) /\ decisions' = Append(decisions, [agent |-> Head(todo), verdict |-> v])
  BY DEF Decide
<1>7. Len(decisions') = Len(decisions) + 1
  BY <1>1, <1>6
<1>8. Len(decisions') + Len(todo') = Len(Roll')
  BY <1>2, <1>3, <1>4, <1>5, <1>6, <1>7
<1>9. ASSUME NEW i \in 1 .. Len(todo') PROVE todo'[i] = Roll'[Len(decisions') + i]
  <2>1. i \in 1 .. Len(todo) - 1 /\ i + 1 \in 1 .. Len(todo)
    BY <1>3, <1>4, <1>6
  <2>2. todo'[i] = todo[i + 1] /\ todo[i + 1] = Roll[Len(decisions) + (i + 1)]
    BY <1>4, <1>5, <1>6, <2>1
  <2>3. Len(decisions) + (i + 1) = Len(decisions') + i
    BY <1>3, <1>7, <2>1
  <2> QED BY <1>2, <2>2, <2>3
<1>10. OnRoll'
  BY <1>8, <1>9 DEF OnRoll, Exhausted
<1>11. Len(decisions) < Len(Roll) /\ Head(todo) = Roll[Len(decisions) + 1]
  BY <1>3, <1>5
<1> QED BY <1>6, <1>10, <1>11

(* SkipTask is RollCall's LeaveOut. *)
LEMMA RollLeavesOut ==
  ASSUME RoundInv, OnRoll, SkipTask
  PROVE  OnRoll' /\ RollStep
<1>1. /\ pc = "next" /\ pc' = pc /\ todo # <<>> /\ deadline # 0 /\ call' = call
      /\ deadline' = deadline
      /\ UNCHANGED <<rounds, disabled>> /\ Decide("deadline_exceeded")
  BY DEF SkipTask, Late, gatewayVars
<1>2. call.results = <<>> /\ call.kept = "unsent"
  BY <1>1, NothingReceived
<1>3. /\ OnRoll' /\ Len(decisions) < Len(Roll)
      /\ decisions' = Append(decisions, [agent |-> Roll[Len(decisions) + 1],
                                         verdict |-> "deadline_exceeded"])
  BY <1>1, <1>2, TurnPasses
<1>4. EnabledAgents' = EnabledAgents /\ Roll' = Roll
  BY <1>1, RollAlone
<1>5. RollCall!LeaveOut
  BY <1>1, <1>2, <1>3, <1>4 DEF RollCall!LeaveOut, RollCall!Waiting, RollCall!Enter
<1> QED BY <1>3, <1>5 DEF RollStep, RollCall!RollNext

(* Nobody is asked, and no answer taken, after an agent was passed over. *)
LEMMA NotCut ==
  ASSUME RoundInv, pc = "calling"
  PROVE  ~ RollCall!Cut
<1>1. decisions \in Seq([agent : Tasks, verdict : Verdicts])
  BY DEF RoundInv, Types
<1>2. ~ Exceeded
  BY DEF RoundInv, Skipping
<1>3. decisions # <<>> => Len(decisions) \in DOMAIN decisions
  BY <1>1
<1> QED BY <1>2, <1>3 DEF RollCall!Cut, Exceeded

(* TakeAnswer is RollCall's Answer. *)
LEMMA RollAnswers ==
  ASSUME RoundInv, OnRoll, TakeAnswer
  PROVE  OnRoll' /\ RollStep
<1>1. /\ pc = "calling" /\ pc' \in {"stagger", "next"} /\ call.phase = "answered"
      /\ call' = [NoCall EXCEPT !.sentAt = call.sentAt] /\ deadline' = deadline
      /\ UNCHANGED <<rounds, disabled>> /\ Decide(Verdict(call.kept))
  BY DEF TakeAnswer
<1>2. call \in Calls /\ todo # <<>>
  BY <1>1 DEF RoundInv, Types, CallShape
<1>3. call'.results = <<>> /\ call'.kept = "unsent"
  BY <1>1 DEF NoCall
<1>4. /\ OnRoll' /\ Len(decisions) < Len(Roll)
      /\ decisions' = Append(decisions, [agent |-> Roll[Len(decisions) + 1],
                                         verdict |-> Verdict(call.kept)])
  BY <1>1, <1>2, <1>3, TurnPasses
<1>5. EnabledAgents' = EnabledAgents /\ Roll' = Roll
  BY <1>1, RollAlone
<1>6. call.kept \in Outcomes \cup {"unsent"}
  BY <1>2 DEF Calls
<1>7. call.results = <<>> \/ call.kept \in Clean \/ Len(call.results) = Len(Backoffs) + 1
  BY <1>1 DEF OnRoll, Exhausted
<1>8. RollCall!Answer
  BY <1>1, <1>3, <1>4, <1>5, <1>6, <1>7, NotCut
     DEF RollCall!Answer, RollCall!Waiting, RollCall!Enter
<1> QED BY <1>4, <1>8 DEF RollStep, RollCall!RollNext

(* An outcome that comes back, or stands for a curl that was killed, is       *)
(* RollCall's Receive.                                                        *)
LEMMA RollReceives ==
  ASSUME RoundInv, OnRoll, pc = "calling", call.phase = "inflight",
         NEW o \in Outcomes, Settle(o), UNCHANGED roundVars
  PROVE  OnRoll' /\ RollStep
<1> DEFINE n == Len(call.results) + 1
           kept == Adopt(o)
           again == Retried(kept, n)
<1>1. call \in Calls /\ todo # <<>> /\ todo \in Seq(Tasks)
  BY DEF RoundInv, Types, CallShape
<1>2. call.results \in Seq(Outcomes) /\ n \in 1 .. Len(Backoffs) + 1
  <2>1. Len(Backoffs) \in Nat
    BY GatewayAssumption
  <2> QED BY <1>1, <2>1 DEF RoundInv, CallShape, Tries, Calls, Retries
<1>3. /\ \A i \in DOMAIN call.results : call.results[i] \notin Clean
      /\ call.results # <<>> => call.kept = call.results[1]
  BY DEF RoundInv, KeptSoFar
<1>4. kept \in Outcomes
  BY <1>2, <1>3 DEF Adopt
<1>5. /\ call'.results = Append(call.results, o) /\ call'.kept = kept
      /\ call'.phase = (IF again THEN "backoff" ELSE "answered")
  BY <1>1 DEF Settle, Calls
<1>6. Len(call'.results) = n /\ call'.results # <<>>
  BY <1>2, <1>5
<1>7. ~ again => kept \in Clean \/ n = Len(Backoffs) + 1
  <2>1. kept \in Clean \/ kept \in Transient
    BY <1>4 DEF Outcomes
  <2> HIDE DEF kept, n
  <2> QED BY <1>2, <2>1, GatewayAssumption DEF Retried
<1>8. EnabledAgents' = EnabledAgents /\ Roll' = Roll
  BY RollAlone DEF roundVars
<1>9. OnRoll'
  <2> HIDE DEF again, kept, n
  <2>1. call'.phase = "answered" => Exhausted'
    BY <1>5, <1>6, <1>7 DEF Exhausted
  <2> QED BY <1>6, <1>8, <2>1 DEF OnRoll, roundVars
<1>10. Len(decisions) < Len(Roll)
  <2>1. decisions \in Seq([agent : Tasks, verdict : Verdicts])
    BY DEF RoundInv, Types
  <2>2. Len(decisions) \in Nat /\ Len(todo) \in Nat \ {0}
    BY <1>1, <2>1
  <2> QED BY <2>2 DEF OnRoll
<1>11. RollCall!Receive(o)
  BY <1>2, <1>3, <1>5, <1>8, <1>10, NotCut
     DEF RollCall!Receive, RollCall!Waiting, Adopt, roundVars
<1> QED BY <1>9, <1>11 DEF RollStep, RollCall!RollNext

(* Every step of a round is one of RollCall's or none of them. *)
LEMMA RollSteps ==
  ASSUME RoundInv, OnRoll, [Next]_vars
  PROVE  OnRoll' /\ RollStep
<1>1. CASE InlineRound \/ FinalRound \/ AnalysisRound
  BY <1>1, RollBegins
<1>2. CASE SkipTask
  BY <1>2, RollLeavesOut
<1>3. CASE AskTask
  <2>1. call \in Calls /\ pc = "next"
    BY <1>3 DEF RoundInv, Types, AskTask
  <2>2. call.results = <<>> /\ call.kept = "unsent"
    BY <2>1, NothingReceived
  <2>3. call'.results = call.results /\ call'.kept = call.kept
    BY <1>3, <2>1 DEF AskTask, StartCall, FailCall, Calls
  <2>4. pc' = "calling" /\ UNCHANGED <<rounds, disabled, todo, deadline, decisions>>
    BY <1>3 DEF AskTask
  <2> QED BY <2>1, <2>2, <2>3, <2>4, RollStutters DEF RollStep
<1>4. CASE Gateway
  <2>1. CASE SendRequest
    <3>1. call \in Calls
      BY DEF RoundInv, Types
    <3>2. call'.results = call.results /\ call'.kept = call.kept /\ call'.phase = "inflight"
      BY <2>1, <3>1 DEF SendRequest, Send, Calls
    <3>3. UNCHANGED <<pc, rounds, disabled, todo, deadline, decisions>>
      BY <1>4 DEF Gateway, roundVars
    <3> QED BY <3>2, <3>3, RollStutters DEF RollStep
  <2>2. CASE KillCurl
    <3>1. "unreachable" \in Outcomes
      BY DEF Outcomes, Transient
    <3> QED BY <1>4, <2>2, <3>1, RollReceives DEF Gateway, KillCurl
  <2> QED BY <1>4, <2>1, <2>2 DEF Gateway
<1>5. CASE Answer
  BY <1>5, RollReceives DEF Answer, Respond
<1>6. CASE TakeAnswer
  BY <1>6, RollAnswers
<1>7. CASE EndStagger \/ Tick \/ UNCHANGED vars
  <2>1. UNCHANGED <<call, rounds, disabled, todo, deadline, decisions>>
    BY <1>7 DEF EndStagger, Tick, vars, gatewayVars, roundVars
  <2>2. pc' \in {"idle", "over"} <=> pc \in {"idle", "over"}
    BY <1>7 DEF EndStagger, Tick, vars, roundVars
  <2> QED BY <2>1, <2>2, RollStutters DEF RollStep
<1>8. CASE EndRound
  <2>1. /\ pc = "next" /\ todo = <<>> /\ pc' \in {"idle", "over"}
        /\ UNCHANGED <<call, rounds, disabled, todo, deadline, decisions>>
    BY <1>8 DEF EndRound, gatewayVars
  <2>2. EnabledAgents' = EnabledAgents /\ Roll' = Roll
    BY <2>1, RollAlone
  <2>3. OnRoll'
    BY <2>1, <2>2 DEF OnRoll, Exhausted
  <2>4. Len(decisions) = Len(Roll)
    <3>1. decisions \in Seq([agent : Tasks, verdict : Verdicts])
      BY DEF RoundInv, Types
    <3> QED BY <2>1, <3>1 DEF OnRoll
  <2>5. RollCall!Close
    BY <2>1, <2>2, <2>4 DEF RollCall!Close
  <2> QED BY <2>3, <2>5 DEF RollStep, RollCall!RollNext
<1> QED
  BY <1>1, <1>2, <1>3, <1>4, <1>5, <1>6, <1>7, <1>8 DEF Next, Runtime, Over

(* However many agents, retries and rounds there are: every agent on the      *)
(* roll of a round gets one decision, in the order of the roll, on what its   *)
(* own call received.                                                         *)
THEOREM ImplementsRollCall == Spec => EveryoneHasADecision
<1>1. Init => OnRoll /\ RollCall!RollInit
  <2> SUFFICES ASSUME Init PROVE OnRoll /\ RollCall!RollInit
    OBVIOUS
  <2>1. LastRound = "none" /\ Roll = <<>>
    BY DEF Init, LastRound, Roll
  <2> QED BY <2>1 DEF Init, NoCall, OnRoll, Exhausted, RollCall!RollInit
<1>2. RoundInv /\ OnRoll /\ [Next]_vars => OnRoll' /\ [RollCall!RollNext]_(RollCall!rollVars)
  BY RollSteps DEF RollStep
<1> QED BY <1>1, <1>2, RoundInvariant, PTL DEF Spec, EveryoneHasADecision, RollCall!RollSpec
=============================================================================
