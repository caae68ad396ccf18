------------------------------- MODULE Storage -------------------------------
(***************************************************************************)
(* The tables of the run's database a round of micro-campaigns writes and   *)
(* reads (src/src/storage/db.cpp).  A table is a set of rows, each with an  *)
(* id.  Every call is one SQL statement, committed on its own: a crash can  *)
(* come between any two of them.                                            *)
(***************************************************************************)
EXTENDS Integers, Sequences, FiniteSets, SequencesExt

\* INSERT OR REPLACE of rows with ids of their own: at most one row per id.
InsertOrReplace(table, new) ==
  {r \in table : \A n \in new : n.id # r.id} \cup new

\* The rows of insert_intervention and insert_agent_decision.  usable:
\* error_kind is ok, schema_valid is set and fallback_used is not.
InterventionRow(id, tokens) == [id |-> id, tokens |-> tokens]

DecisionRow(id, ts, answer) ==
  [id |-> id, ts |-> ts, usable |-> answer.usable, proposals |-> answer.proposals]

InsertCampaign(table, id, type, intervention) ==
  InsertOrReplace(table, {[id |-> id, type |-> type, status |-> "running",
                           intervention |-> intervention]})

\* An UPDATE: without such a row nothing happens.
FinishCampaign(table, id, status) ==
  {IF r.id = id THEN [r EXCEPT !.status = status] ELSE r : r \in table}

\* The row of a result; strategy_ids_json is always "[]".
InsertMicroResult(table, id, campaign, reward, promoted) ==
  InsertOrReplace(table, {[id |-> id, campaign |-> campaign, reward |-> reward,
                           promoted |-> promoted]})

\* What get_recent_agent_decisions may return: the newest usable decisions,
\* those of the same second in any order.  Reading stops without a word at the
\* first step that fails.
RecentAgentDecisions(table, limit) ==
  LET usable == {d \in table : d.usable}
      sorted == {s \in SetToSeqs(usable) :
                   \A i, j \in DOMAIN s : i < j => s[i].ts >= s[j].ts}
      most == IF Cardinality(usable) < limit THEN Cardinality(usable) ELSE limit
  IN  {SubSeq(s, 1, n) : s \in sorted, n \in 0 .. most}

=============================================================================
