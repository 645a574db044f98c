----------------------------- MODULE EventQueue -----------------------------
(***************************************************************************)
(* internal/db/events.go, the loop of internal/events/processor.go and the *)
(* last step of internal/github/webhook.go: GitHub's deliveries become     *)
(* rows of the events table, and any number of processors claim, handle    *)
(* and mark them. What a handler does is left open here: it returns nil or *)
(* an error.                                                               *)
(***************************************************************************)
EXTENDS Faults, FiniteSets

CONSTANTS Deliveries,   \* the delivery_ids GitHub uses
          Processors,   \* the goroutines that run Processor.Run
          BatchSize,    \* the 25 of tick
          MaxAttempts,  \* the 10 of NextBatch
          NoEvent

ASSUME FiniteAssumption == IsFiniteSet(Deliveries) /\ IsFiniteSet(Processors)
ASSUME BatchAssumption == BatchSize \in Nat \ {0}
ASSUME AttemptsAssumption == MaxAttempts \in Nat \ {0}
ASSUME NoEventAssumption == NoEvent \notin Deliveries

VARIABLES accepted,  \* the deliveries GitHub has seen a 202 for
          event,     \* the row of each delivery; at is received_at, 0 for no row
          pc,        \* what each processor does next
          batch,     \* the events of its batch that it has not handled yet
          cur,       \* the event it has handled and not marked yet
          handled    \* history: how often a handler returned nil for an event

procVars == <<pc, batch, cur>>
vars == <<accepted, event, procVars, handled, faults>>

Rows == [at : Nat, attempts : 0..MaxAttempts, processed : BOOLEAN, error : BOOLEAN]

Pcs == {"idle", "claim", "handle", "ok", "failed"}

TypeOK ==
  /\ accepted \in SUBSET Deliveries
  /\ event \in [Deliveries -> Rows]
  /\ pc \in [Processors -> Pcs]
  /\ batch \in [Processors -> SUBSET Deliveries]
  /\ cur \in [Processors -> Deliveries \cup {NoEvent}]
  /\ handled \in [Deliveries -> Nat]
  /\ FaultsTypeOK

Init ==
  /\ accepted = {}
  /\ event = [d \in Deliveries |->
                [at |-> 0, attempts |-> 0, processed |-> FALSE, error |-> FALSE]]
  /\ pc = [p \in Processors |-> "idle"]
  /\ batch = [p \in Processors |-> {}]
  /\ cur = [p \in Processors |-> NoEvent]
  /\ handled = [d \in Deliveries |-> 0]
  /\ FaultsInit

-----------------------------------------------------------------------------
Stored(d) == event[d].at > 0

\* INSERT ... ON CONFLICT (delivery_id) DO NOTHING.
Ingest(d) ==
  event' = IF Stored(d) THEN event
           ELSE [event EXCEPT ![d].at = Cardinality({e \in Deliveries : Stored(e)}) + 1]

\* Mutant of Webhook: the 202 goes out before the row is written, which can fail.
Webhook_ReplyFirst(d) ==
  /\ d \notin accepted
  /\ \/ Ingest(d)
     \/ UNCHANGED event
  /\ accepted' = accepted \cup {d}
  /\ UNCHANGED <<procVars, handled, faults>>

\* A delivery, or its redelivery; the reply may be lost after the insert.
Webhook(d) ==
  /\ d \notin accepted
  /\ Ingest(d)
  /\ accepted' \in {accepted, accepted \cup {d}}
  /\ UNCHANGED <<procVars, handled, faults>>

-----------------------------------------------------------------------------
\* processed_at IS NULL AND attempt_count < 10
Due(d) == Stored(d) /\ ~event[d].processed /\ event[d].attempts < MaxAttempts

\* Mutant of Locked: the subquery has no FOR UPDATE.
Locked_None == {}

\* Rows that a running NextBatch has locked.
Locked == UNION {batch[p] : p \in {q \in Processors : pc[q] = "claim"}}

\* ORDER BY received_at LIMIT n
Oldest(S, n) ==
  {d \in S : Cardinality({e \in S : event[e].at < event[d].at}) < n}

\* The rows FOR UPDATE SKIP LOCKED may take.
SkipLocked == {d \in Deliveries : Due(d)} \ Locked

\* NextBatch, first half: the subquery locks the rows.
NextBatch(p) ==
  /\ pc[p] = "idle"
  /\ SkipLocked # {}
  /\ pc' = [pc EXCEPT ![p] = "claim"]
  /\ batch' = [batch EXCEPT ![p] = Oldest(SkipLocked, BatchSize)]
  /\ UNCHANGED <<accepted, event, cur, handled, faults>>

\* Mutant of Claim: the attempt is not counted.
Claim_NotCounted(p) ==
  /\ pc[p] = "claim"
  /\ pc' = [pc EXCEPT ![p] = "handle"]
  /\ UNCHANGED <<accepted, event, batch, cur, handled, faults>>

\* NextBatch, second half: the update commits, which unlocks the rows.
Claim(p) ==
  /\ pc[p] = "claim"
  /\ event' = [d \in Deliveries |->
                 IF d \in batch[p] THEN [event[d] EXCEPT !.attempts = @ + 1]
                                   ELSE event[d]]
  /\ pc' = [pc EXCEPT ![p] = "handle"]
  /\ UNCHANGED <<accepted, batch, cur, handled, faults>>

\* The handler of the next event returns: RETURNING gives no order.
Take(p, d, result) ==
  /\ pc[p] = "handle"
  /\ d \in batch[p]
  /\ batch' = [batch EXCEPT ![p] = @ \ {d}]
  /\ cur' = [cur EXCEPT ![p] = d]
  /\ pc' = [pc EXCEPT ![p] = result]
  /\ UNCHANGED <<accepted, event, faults>>

Handle(p, d) ==
  /\ Take(p, d, "ok")
  /\ handled' = [handled EXCEPT ![d] = @ + 1]

HandleFails(p, d) ==
  /\ Take(p, d, "failed")
  /\ UNCHANGED handled

\* tick goes on with the rest of the batch, or ends.
Continue(p) ==
  /\ pc' = [pc EXCEPT ![p] = IF batch[p] = {} THEN "idle" ELSE "handle"]
  /\ cur' = [cur EXCEPT ![p] = NoEvent]
  /\ UNCHANGED <<accepted, batch, handled, faults>>

\* Mutant of MarkProcessed: it is executed when the handler failed, too.
MarkProcessed_Always(p) ==
  /\ pc[p] \in {"ok", "failed"}
  /\ cur[p] \notin Locked
  /\ event' = [event EXCEPT ![cur[p]].processed = TRUE, ![cur[p]].error = FALSE]
  /\ Continue(p)

\* An update waits for a row that a NextBatch has locked.
MarkProcessed(p) ==
  /\ pc[p] = "ok"
  /\ cur[p] \notin Locked
  /\ event' = [event EXCEPT ![cur[p]].processed = TRUE, ![cur[p]].error = FALSE]
  /\ Continue(p)

MarkError(p) ==
  /\ pc[p] = "failed"
  /\ cur[p] \notin Locked
  /\ event' = [event EXCEPT ![cur[p]].error = TRUE]
  /\ Continue(p)

\* The mark fails, and tick drops its error.
MarkLost(p) ==
  /\ pc[p] \in {"ok", "failed"}
  /\ Continue(p)
  /\ UNCHANGED event

\* The process dies; a NextBatch that has not committed is rolled back.
Crash(p) ==
  /\ pc[p] # "idle"
  /\ Fault("crash")
  /\ pc' = [pc EXCEPT ![p] = "idle"]
  /\ batch' = [batch EXCEPT ![p] = {}]
  /\ cur' = [cur EXCEPT ![p] = NoEvent]
  /\ UNCHANGED <<accepted, event, handled>>

Work(p) ==
  \/ NextBatch(p) \/ Claim(p)
  \/ \E d \in Deliveries : Handle(p, d) \/ HandleFails(p, d)
  \/ MarkProcessed(p) \/ MarkError(p) \/ MarkLost(p)

Next ==
  \/ \E d \in Deliveries : Webhook(d)
  \/ \E p \in Processors : Work(p) \/ Crash(p)

\* A processor's timer fires for ever, and its calls return.
Spec == Init /\ [][Next]_vars /\ \A p \in Processors : WF_vars(Work(p))

-----------------------------------------------------------------------------
\* An event is marked processed only after a handler returned nil for it, though
\* processors crash between handling and marking, share events and mark late
\* ("persisted before any processing ... marks them processed", processor.go:5-7).
ProcessedWasHandled == \A d \in Deliveries : event[d].processed => handled[d] > 0

\* The processors that have counted an attempt of d and not used it yet.
Holders(d) ==
  {p \in Processors : pc[p] \in {"handle", "ok", "failed"} /\ d \in batch[p]}

\* Every handling is paid for by an attempt of its own, also when several
\* processors have claimed one event, so that an event is handled at most
\* MaxAttempts times ("attempt_count < 10", events.go:42).
AttemptsPaid ==
  \A d \in Deliveries :
    handled[d] + Cardinality(Holders(d)) <= event[d].attempts

\* A claim never takes an event that is already processed, though the mark of
\* another processor can come between its select and its commit (events.go:40-48).
NeverReclaimed ==
  [][\A d \in Deliveries :
        event'[d].attempts > event[d].attempts => ~event[d].processed]_vars

\* An event that GitHub was told is accepted is processed in the end, or has used
\* its attempts: no crash, lost mark or batch limit leaves it behind
\* (webhook.go:1-3, processor.go:5-7).
Settles ==
  \A d \in Deliveries :
    d \in accepted ~> event[d].processed \/ event[d].attempts = MaxAttempts
=============================================================================
