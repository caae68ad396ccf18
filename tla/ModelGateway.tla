---------------------------- MODULE ModelGateway ----------------------------
(***************************************************************************)
(* One call of OpenAICompatibleGateway::complete_json                       *)
(* (src/src/model/gateway.cpp): the request slot, curl with its two limits, *)
(* and the retries.  Time is in seconds from the beginning of the round.     *)
(* What a request returns is one of Outcomes; a call's `kept` is the outcome *)
(* it will report.                                                          *)
(***************************************************************************)
EXTENDS Integers, Sequences

CONSTANTS
  Timeout,            \* request.timeout_ms, which is also curl's --max-time
  Grace,              \* how much later the capture kills curl
  Backoffs            \* backoff_delays_ms

ASSUME GatewayAssumption ==
  /\ Timeout \in Nat \ {0}
  /\ Grace \in Nat
  /\ Backoffs \in Seq(Nat \ {0})

VARIABLES
  now,                \* the clock, restarted with every round
  lastSlot,           \* last_request_time_
  call                \* the call in progress

gatewayVars == <<now, lastSlot, call>>

MinInterval == 1

\* Curl ended and the server said something other than "not now".  `unlisted`
\* satisfies the schema with an action that is not allowed; `bad` does not, is
\* an HTTP error or was cut at 1 MB.
Clean == {"good", "unlisted", "bad"}

\* is_transient_transport_error, or HTTP 429 or 503.
Transient == {"unreachable", "busy"}

Outcomes == Clean \cup Transient

NoCall ==
  [phase |-> "none", until |-> 0, first |-> 0, sentAt |-> -MinInterval,
   results |-> <<>>, kept |-> "unsent"]

\* A gateway just constructed: the last request was ten seconds ago.
NewGateway == -10

-----------------------------------------------------------------------------
(* complete_json *)

\* The wait for a free slot.
SlotWait == IF now - lastSlot < MinInterval THEN MinInterval - (now - lastSlot) ELSE 0

Send == [call EXCEPT !.phase = "inflight", !.sentAt = now,
                     !.first = IF call.results = <<>> THEN now ELSE @]

\* The slot is reserved before the wait.
StartCall ==
  /\ call.phase = "none"
  /\ lastSlot' = now + SlotWait
  /\ call' = [call EXCEPT !.phase = "slot", !.until = now + SlotWait]
  /\ UNCHANGED now

\* No key in the environment, or no temporary file: nothing is sent.
FailCall ==
  /\ call.phase = "none"
  /\ call' = [call EXCEPT !.phase = "answered", !.first = now]
  /\ UNCHANGED <<now, lastSlot>>

SendRequest ==
  /\ call.phase \in {"slot", "backoff"}
  /\ now = call.until
  /\ call' = Send
  /\ UNCHANGED <<now, lastSlot>>

\* Mutant: each retry replaces what was known.
AdoptAlways(o) == o

\* A retry is adopted only when it is clean; process_capture_text never
\* returns an empty text, so the second reason to adopt one never holds.
Adopt(o) == IF call.results = <<>> \/ o \in Clean THEN o ELSE call.kept

\* The loop's condition after `tries` requests.
Retried(kept, tries) == kept \in Transient /\ tries <= Len(Backoffs)

\* A request comes back with o.
Settle(o) ==
  LET tries == Len(call.results) + 1
      kept == Adopt(o)
  IN  call' = [call EXCEPT
                 !.results = Append(@, o),
                 !.kept = kept,
                 !.phase = IF Retried(kept, tries) THEN "backoff" ELSE "answered",
                 !.until = IF Retried(kept, tries) THEN now + Backoffs[tries] ELSE 0]

Respond(o) ==
  /\ call.phase = "inflight"
  /\ o \in Clean => now - call.sentAt <= Timeout
  /\ Settle(o)
  /\ UNCHANGED <<now, lastSlot>>

\* Mutant: the capture waits as long as curl does.
NeverKilled == FALSE

\* The capture's own limit, for a curl that overruns --max-time.
MayKill == now - call.sentAt = Timeout + Grace

KillCurl ==
  /\ call.phase = "inflight"
  /\ MayKill
  /\ Settle("unreachable")
  /\ UNCHANGED <<now, lastSlot>>

\* Time passes while the gateway waits, and no wait is overslept.
Waiting ==
  \/ call.phase \in {"slot", "backoff"} /\ now < call.until
  \/ call.phase = "inflight" /\ now - call.sentAt < Timeout + Grace

=============================================================================
