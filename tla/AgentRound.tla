----------------------------- MODULE AgentRound -----------------------------
(***************************************************************************)
(* A run's rounds of agents: configure_agent_tasks and                      *)
(* agent_block_deadline_unix_sec (src/src/controller/run.cpp),              *)
(* make_default_agent_tasks, filter_disabled_agents and run_agent_tasks     *)
(* (src/src/agents/agent_runtime.cpp) on top of the gateway.  Inline rounds *)
(* share one gateway; the final round and the analysis of its results       *)
(* share another.  Everything but sleeping and requests takes no time.      *)
(***************************************************************************)
EXTENDS ModelGateway

CONSTANTS
  Agents,             \* the default agents, in order
  DisabledSets,       \* possible values of options.disabled_agents
  Base,               \* the budget's constant part: 5
  MinBudget,          \* 60
  MaxBudget,          \* 1800
  MaxInlineRounds,    \* bounds: inline rounds of a run,
  MaxPause            \* time between rounds

ASSUME RoundAssumption ==
  /\ Agents \in Seq(STRING)
  /\ DisabledSets # {}
  /\ Base \in Nat \ {0}
  /\ {MinBudget, MaxBudget} \subseteq Nat \ {0}
  /\ {MaxInlineRounds, MaxPause} \subseteq Nat
  /\ MinBudget <= MaxBudget

VARIABLES
  pc,                 \* where the runtime is
  rounds,             \* the kinds of the rounds begun
  disabled,           \* options.disabled_agents
  todo,               \* the tasks not handled yet
  deadline,           \* deadline_unix_sec; 0 for none
  decisions,          \* the decisions of the round
  wake,               \* until when the runtime sleeps
  overtime            \* history: how long the round's calls overran Timeout

roundVars == <<pc, rounds, disabled, todo, deadline, decisions, wake, overtime>>
vars == <<gatewayVars, roundVars>>

Larger(a, b) == IF a >= b THEN a ELSE b
Smaller(a, b) == IF a <= b THEN a ELSE b

Init ==
  /\ now = 0
  /\ lastSlot = NewGateway
  /\ call = NoCall
  /\ pc = "idle"
  /\ rounds = <<>>
  /\ disabled \in DisabledSets
  /\ todo = <<>>
  /\ deadline = 0
  /\ decisions = <<>>
  /\ wake = 0
  /\ overtime = 0

-----------------------------------------------------------------------------
(* The rounds of run_mvp *)

\* filter_disabled_agents
EnabledAgents ==
  LET enabled[i \in 0 .. Len(Agents)] ==
        IF i = 0 THEN <<>>
        ELSE IF Agents[i] \in disabled THEN enabled[i - 1]
        ELSE Append(enabled[i - 1], Agents[i])
  IN  enabled[Len(Agents)]

\* Mutant: the stagger is left out.
TaskShareOfTimeout == Timeout

\* Each task's timeout and the stagger after it.
TaskShare == Timeout + 1

\* agent_block_deadline_unix_sec
Budget(tasks) == Smaller(Larger(MinBudget, Base + Len(tasks) * TaskShare), MaxBudget)

LastRound == IF rounds = <<>> THEN "none" ELSE rounds[Len(rounds)]

\* The clock starts again from 0.
BeginRound(kind, tasks, limit) ==
  /\ pc = "idle"
  /\ now' = 0
  /\ pc' = "next"
  /\ rounds' = Append(rounds, kind)
  /\ todo' = tasks
  /\ deadline' = limit
  /\ decisions' = <<>>
  /\ call' = NoCall
  /\ overtime' = 0
  /\ wake' = 0
  /\ UNCHANGED disabled

\* The loop sleeps a second before it gets here again.
InlineRound ==
  /\ LastRound \in {"none", "inline"}
  /\ Len(rounds) < MaxInlineRounds
  /\ now >= wake
  /\ BeginRound("inline", EnabledAgents, Budget(EnabledAgents))
  /\ lastSlot' = lastSlot - now

\* With a gateway of its own.
FinalRound ==
  /\ LastRound \in {"none", "inline"}
  /\ BeginRound("final", EnabledAgents, Budget(EnabledAgents))
  /\ lastSlot' = NewGateway

\* One task, without a deadline.
AnalysisRound ==
  /\ LastRound = "final"
  /\ BeginRound("analysis", <<"ResultAnalysisAgent">>, 0)
  /\ lastSlot' = lastSlot - now

-----------------------------------------------------------------------------
(* run_agent_tasks *)

\* Mutant: the deadline is tested for the first task only.
LateAtFirst == deadline # 0 /\ now >= deadline /\ decisions = <<>>

Late == deadline # 0 /\ now >= deadline

Decide(verdict) ==
  /\ decisions' = Append(decisions, [agent |-> Head(todo), verdict |-> verdict])
  /\ todo' = Tail(todo)

\* The next task follows at once: no stagger.
SkipTask ==
  /\ pc = "next"
  /\ todo # <<>>
  /\ Late
  /\ Decide("deadline_exceeded")
  /\ UNCHANGED <<gatewayVars, pc, rounds, disabled, deadline, wake, overtime>>

AskTask ==
  /\ pc = "next"
  /\ todo # <<>>
  /\ ~Late
  /\ StartCall \/ FailCall
  /\ pc' = "calling"
  /\ UNCHANGED <<rounds, disabled, todo, deadline, decisions, wake, overtime>>

\* complete_json at work.
Gateway ==
  /\ pc = "calling"
  /\ SendRequest \/ KillCurl
  /\ UNCHANGED roundVars

\* Curl comes back, if the endpoint lets it.
Answer ==
  /\ pc = "calling"
  /\ \E o \in Outcomes : Respond(o)
  /\ UNCHANGED roundVars

\* schema_valid, then validate_agent_proposal.
Verdict(kept) ==
  CASE kept = "good"     -> "ok"
    [] kept = "unlisted" -> "guardrail_violation"
    [] OTHER             -> "failed"

\* Mutant: no stagger after an answer.
NoStagger == FALSE

\* A second's sleep after every task that was asked but the last.
Stagger == Len(todo) > 1

TakeAnswer ==
  /\ pc = "calling"
  /\ call.phase = "answered"
  /\ Decide(Verdict(call.kept))
  /\ pc' = IF Stagger THEN "stagger" ELSE "next"
  /\ wake' = now + 1
  /\ call' = [NoCall EXCEPT !.sentAt = call.sentAt]
  /\ overtime' = overtime + Larger(0, now - call.first - Timeout)
  /\ UNCHANGED <<now, lastSlot, rounds, disabled, deadline>>

EndStagger ==
  /\ pc = "stagger"
  /\ now = wake
  /\ pc' = "next"
  /\ UNCHANGED <<gatewayVars, rounds, disabled, todo, deadline, decisions, wake, overtime>>

\* persist_agent_decision and record_deploy for every decision.
EndRound ==
  /\ pc = "next"
  /\ todo = <<>>
  /\ pc' = IF LastRound = "analysis" THEN "over" ELSE "idle"
  /\ wake' = now + 1
  /\ UNCHANGED <<gatewayVars, rounds, disabled, todo, deadline, decisions, overtime>>

Runtime ==
  SkipTask \/ AskTask \/ Gateway \/ TakeAnswer \/ EndStagger \/ EndRound

\* Between rounds the rest of the program runs.
Tick ==
  /\ \/ pc = "calling" /\ Waiting
     \/ pc = "stagger" /\ now < wake
     \/ pc = "idle" /\ now < wake + MaxPause
  /\ now' = now + 1
  /\ UNCHANGED <<lastSlot, call, roundVars>>

Over == pc = "over" /\ UNCHANGED vars

Next ==
  \/ InlineRound \/ FinalRound \/ AnalysisRound
  \/ Runtime \/ Answer \/ Tick \/ Over

Spec == Init /\ [][Next]_vars /\ WF_vars(Runtime) /\ WF_vars(Tick)

-----------------------------------------------------------------------------
(* Properties *)

\* "budget enough time for each sequential agent timeout plus the provider
\* stagger": unless the cap of the budget bites, an agent goes unasked only
\* when the calls before it overran their timeouts, by retries or by a curl
\* that had to be killed, by all the slack there is and a whole task's share.
EveryoneAsked ==
  /\ Base + Len(EnabledAgents) * (Timeout + 1) <= MaxBudget
  /\ \E i \in DOMAIN decisions : decisions[i].verdict = "deadline_exceeded"
  => overtime >= Base + Timeout + 1

\* The backoffs before the request after i retries.
Waits[i \in 0 .. Len(Backoffs)] == IF i = 0 THEN 0 ELSE Backoffs[i] + Waits[i - 1]

LongestCall ==
  MinInterval + (Len(Backoffs) + 1) * (Timeout + Grace) + Waits[Len(Backoffs)]

\* "Honor the caller's wall-clock cap": however many agents are left, a round
\* with a deadline is over one call, with all its retries, after it.
BlockBounded ==
  pc \in {"next", "calling", "stagger"} /\ deadline # 0 =>
    now <= deadline + LongestCall

\* "1-second minimum interval between requests": within a round no two
\* requests, retries included, are sent less than a second apart, though a
\* retry does not reserve a slot.
RequestsApart ==
  [][call.phase # "inflight" /\ call'.phase = "inflight" =>
       call'.sentAt - call.sentAt >= MinInterval]_vars

\* Of all that a call received it reports the first clean answer, or the first
\* failure when there is none, and nothing is sent once the answer is clean.
CleanAnswerKept ==
  LET clean == {i \in DOMAIN call.results : call.results[i] \in Clean}
  IN  /\ clean \subseteq {Len(call.results)}
      /\ Len(call.results) <= Len(Backoffs) + 1
      /\ call.phase = "answered" /\ call.results # <<>> =>
           call.kept = call.results[IF clean = {} THEN 1 ELSE Len(call.results)]

\* The agents of the round that was begun last.
Roll ==
  CASE LastRound = "none"     -> <<>>
    [] LastRound = "analysis" -> <<"ResultAnalysisAgent">>
    [] OTHER                  -> EnabledAgents

RollCall == INSTANCE RollCall WITH
  NoReply <- "unsent", Tries <- Len(Backoffs) + 1,
  Judgement <- [o \in Outcomes \cup {"unsent"} |-> Verdict(o)],
  LeftOut <- "deadline_exceeded", Analyst <- "ResultAnalysisAgent",
  staff <- EnabledAgents, open <- pc \notin {"idle", "over"}, limited <- deadline # 0,
  roll <- Roll, record <- decisions, received <- call.results, reply <- call.kept

\* A round implements RollCall: one decision for every agent, in their order,
\* each on what its own call received; agents are passed over only at the end,
\* and a call that was begun is never given up for the deadline
\* (agent_runtime.cpp, run_agent_tasks; gateway.cpp, complete_json).
EveryoneHasADecision == RollCall!RollSpec

\* Every round comes to its end, whatever the endpoint does.
RoundEnds == pc = "next" ~> pc \in {"idle", "over"}

=============================================================================
