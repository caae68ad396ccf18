------------------------------ MODULE RollCall ------------------------------
(***************************************************************************)
(* What a round of agents promises, without clocks and requests in flight:  *)
(* everybody on the roll gets one entry of the record, in the order of the  *)
(* roll.  An entry is the verdict on a reply, which is the first clean       *)
(* outcome that was received, or the first of all when none was clean, and   *)
(* nobody asks again after a clean one; or the agent is left out of a        *)
(* limited round, and then so is everybody after it.                         *)
(* AgentRound implements this specification.                                *)
(***************************************************************************)
EXTENDS Integers, Sequences

CONSTANTS
  Outcomes,           \* what may be received
  Clean,              \* those of them that end the asking
  NoReply,            \* the reply of an agent that could not be asked
  Tries,              \* how often an agent is asked at most
  Judgement,          \* Judgement[reply]: the verdict on a reply
  LeftOut,            \* the verdict on an agent that is left out
  Analyst             \* who looks at the results

VARIABLES
  staff,              \* the agents that are enabled
  open, limited,      \* a round is going on; it has a deadline
  roll, record,       \* the round's agents, and their entries so far
  received, reply     \* what came back for the next agent, and which counts

rollVars == <<staff, open, limited, roll, record, received, reply>>

RollInit ==
  /\ open = FALSE /\ limited = FALSE
  /\ roll = <<>> /\ record = <<>>
  /\ received = <<>> /\ reply = NoReply

\* The agents that are enabled, or the analyst, who has all the time.
Begin ==
  /\ ~ open
  /\ open' = TRUE
  /\ \/ roll' = staff /\ limited' = TRUE
     \/ roll' = <<Analyst>> /\ limited' = FALSE
  /\ record' = <<>>
  /\ UNCHANGED <<staff, received, reply>>

Cut == record # <<>> /\ record[Len(record)].verdict = LeftOut

Waiting == open /\ Len(record) < Len(roll)

Receive(o) ==
  /\ Waiting /\ ~ Cut
  /\ Len(received) < Tries
  /\ \A i \in DOMAIN received : received[i] \notin Clean
  /\ received' = Append(received, o)
  /\ reply' = IF received = <<>> \/ o \in Clean THEN o ELSE reply
  /\ UNCHANGED <<staff, open, limited, roll, record>>

Enter(verdict) ==
  /\ record' = Append(record, [agent |-> roll[Len(record) + 1], verdict |-> verdict])
  /\ received' = <<>> /\ reply' = NoReply
  /\ UNCHANGED <<staff, open, limited, roll>>

\* All that could be received was, or nothing could be asked.
Answer ==
  /\ Waiting /\ ~ Cut
  /\ received = <<>> \/ reply \in Clean \/ Len(received) = Tries
  /\ Enter(Judgement[reply])

LeaveOut ==
  /\ Waiting /\ limited
  /\ received = <<>>
  /\ Enter(LeftOut)

Close ==
  /\ open
  /\ Len(record) = Len(roll)
  /\ open' = FALSE
  /\ UNCHANGED <<staff, limited, roll, record, received, reply>>

RollNext == Begin \/ (\E o \in Outcomes : Receive(o)) \/ Answer \/ LeaveOut \/ Close

RollSpec == RollInit /\ [][RollNext]_rollVars

=============================================================================
