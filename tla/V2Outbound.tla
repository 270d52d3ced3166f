----------------------------- MODULE V2Outbound -----------------------------
(***************************************************************************)
(* service_outbound of firmware V2: the queue between the alert engine,    *)
(* which puts events in during a round of the main loop, and poll(), which *)
(* hands a few of them to the sinks (the page's history, NTFY, MQTT) at    *)
(* the end of that round.  One task does both; a full queue drops the new  *)
(* event.  A sink that fails, is switched off or has no network leaves no  *)
(* trace here: the event has left the queue before the first sink is       *)
(* called, and no sink looks at what another one answered.                 *)
(***************************************************************************)
EXTENDS Naturals, Sequences

CONSTANTS Depth,     \* k_queue_depth
          PerPoll    \* k_max_dispatch_per_poll

ASSUME OutboundAssumption == Depth \in Nat /\ PerPoll \in Nat /\ PerPoll > 0

VARIABLES queue,     \* s_q
          dropped,   \* s_drop_total # 0
          taken      \* how many events the running poll() has handed over

outboundVars == <<queue, dropped, taken>>

\* The first event is put in and polled out before the loop starts; its sinks
\* are asked once, whatever s_app_ready_seen would say of a second one.
OutboundInit ==
    /\ queue = <<>>
    /\ dropped = FALSE
    /\ taken = 0

\* emit_domain_...: xQueueSend without waiting.
Emit(event) ==
    IF Len(queue) < Depth
    THEN /\ queue' = Append(queue, event)
         /\ UNCHANGED dropped
    ELSE /\ dropped' = TRUE
         /\ UNCHANGED queue

\* One turn of the loop in poll(): dispatch_envelope of the oldest event.
Dispatch ==
    /\ taken < PerPoll
    /\ queue # <<>>
    /\ queue' = Tail(queue)
    /\ taken' = taken + 1
    /\ UNCHANGED dropped

\* poll() returns: its share is done or nothing waits.
PollReturns ==
    /\ taken = PerPoll \/ queue = <<>>
    /\ taken' = 0
    /\ UNCHANGED <<queue, dropped>>
=============================================================================
