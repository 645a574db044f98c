-------------------------- MODULE EventQueueProofs --------------------------
(***************************************************************************)
(* Proofs about the event queue, for any finite sets of deliveries and     *)
(* processors, any batch size and any number of attempts.                  *)
(***************************************************************************)
EXTENDS EventQueue, FiniteSetTheorems, TLAPS

USE AttemptsAssumption, NoEventAssumption, MaxFaultsAssumption

\* A running NextBatch has rows that are due and that no other one has.
ClaimsAreDue ==
  \A p \in Processors : pc[p] = "claim" => \A d \in batch[p] : Due(d)

ClaimsAreDisjoint ==
  \A p, q \in Processors :
    pc[p] = "claim" /\ pc[q] = "claim" /\ p # q => batch[p] \cap batch[q] = {}

\* A processor that is about to mark has an event to mark.
MarksAnEvent ==
  \A p \in Processors : pc[p] \in {"ok", "failed"} => cur[p] \in Deliveries

QueueInv == TypeOK /\ ClaimsAreDue /\ ClaimsAreDisjoint /\ MarksAnEvent


-----------------------------------------------------------------------------
\* The next received_at is a number.
LEMMA Arrival ==
  Cardinality({e \in Deliveries : Stored(e)}) \in Nat
BY FiniteAssumption, FS_Subset, FS_CardinalityType

\* The limit takes only rows it is given.
LEMMA OldestIsPart == \A S, n : Oldest(S, n) \subseteq S
BY DEF Oldest

\* A webhook stores a row that was not there, and changes no other field.
LEMMA WebhookStep ==
  ASSUME TypeOK, NEW d \in Deliveries, Webhook(d)
  PROVE  /\ event' \in [Deliveries -> Rows]
         /\ \A e \in Deliveries :
              /\ event'[e].attempts = event[e].attempts
              /\ event'[e].processed = event[e].processed
              /\ Stored(e) => Stored(e)'
<1>1. CASE Stored(d)
  BY <1>1 DEF Webhook, Ingest, TypeOK, Stored
<1>2. CASE ~Stored(d)
  <2> DEFINE n == Cardinality({e \in Deliveries : Stored(e)}) + 1
  <2>1. n \in Nat /\ n > 0
    BY Arrival
  <2>2. event' = [event EXCEPT ![d] = [event[d] EXCEPT !.at = n]]
    BY <1>2 DEF Webhook, Ingest
  <2>3. event[d] \in Rows
    BY DEF TypeOK
  <2> HIDE DEF n
  <2>4. \A r \in Rows : /\ [r EXCEPT !.at = n] \in Rows
                        /\ [r EXCEPT !.at = n].attempts = r.attempts
                        /\ [r EXCEPT !.at = n].processed = r.processed
                        /\ [r EXCEPT !.at = n].at = n
    BY <2>1 DEF Rows
  <2> DEFINE row == [event[d] EXCEPT !.at = n]
  <2>5. /\ row \in Rows
        /\ row.attempts = event[d].attempts
        /\ row.processed = event[d].processed
        /\ row.at = n
    BY <2>3, <2>4
  <2>6. event' = [event EXCEPT ![d] = row]
    BY <2>2
  <2> HIDE DEF row
  <2> QED
    BY <2>1, <2>5, <2>6 DEF TypeOK, Stored
<1> QED
  BY <1>1, <1>2

\* A commit of NextBatch counts one attempt of each claimed row.
LEMMA ClaimStep ==
  ASSUME QueueInv, NEW p \in Processors, Claim(p)
  PROVE  /\ event' \in [Deliveries -> Rows]
         /\ \A e \in Deliveries :
              /\ event'[e].attempts =
                   IF e \in batch[p] THEN event[e].attempts + 1 ELSE event[e].attempts
              /\ event'[e].processed = event[e].processed
              /\ Stored(e)' = Stored(e)
<1>1. \A r \in Rows :
        r.attempts < MaxAttempts =>
          /\ [r EXCEPT !.attempts = @ + 1] \in Rows
          /\ [r EXCEPT !.attempts = @ + 1].attempts = r.attempts + 1
          /\ [r EXCEPT !.attempts = @ + 1].processed = r.processed
          /\ [r EXCEPT !.attempts = @ + 1].at = r.at
  BY DEF Rows
<1>2. ASSUME NEW e \in Deliveries
      PROVE  /\ event'[e] \in Rows
             /\ event'[e].attempts =
                  IF e \in batch[p] THEN event[e].attempts + 1 ELSE event[e].attempts
             /\ event'[e].processed = event[e].processed
             /\ event'[e].at = event[e].at
  <2>1. event[e] \in Rows
    BY DEF QueueInv, TypeOK
  <2>2. CASE e \in batch[p]
    <3>1. event[e].attempts < MaxAttempts
      BY <2>2 DEF QueueInv, ClaimsAreDue, Claim, Due
    <3>2. event'[e] = [event[e] EXCEPT !.attempts = @ + 1]
      BY <2>2 DEF Claim
    <3> QED
      BY <1>1, <2>1, <2>2, <3>1, <3>2
  <2>3. CASE e \notin batch[p]
    BY <2>1, <2>3 DEF Claim
  <2> QED
    BY <2>2, <2>3
<1>3. event' \in [Deliveries -> Rows]
  BY <1>2 DEF Claim
<1> QED
  BY <1>2, <1>3 DEF Stored

\* A mark changes the flags of one row, which no NextBatch has locked.
LEMMA MarkStep ==
  ASSUME QueueInv, NEW p \in Processors, MarkProcessed(p) \/ MarkError(p)
  PROVE  /\ event' \in [Deliveries -> Rows]
         /\ cur[p] \in Deliveries \ Locked
         /\ \A e \in Deliveries :
              /\ event'[e].attempts = event[e].attempts
              /\ e # cur[p] => event'[e] = event[e]
              /\ Stored(e)' = Stored(e)
         /\ MarkError(p) => event'[cur[p]].processed = event[cur[p]].processed
<1>1. cur[p] \in Deliveries \ Locked
  BY DEF MarkProcessed, MarkError, QueueInv, MarksAnEvent
<1>2. event[cur[p]] \in Rows
  BY <1>1 DEF QueueInv, TypeOK
<1>3. \A r \in Rows :
        /\ [r EXCEPT !.processed = TRUE, !.error = FALSE] \in Rows
        /\ [r EXCEPT !.processed = TRUE, !.error = FALSE].attempts = r.attempts
        /\ [r EXCEPT !.processed = TRUE, !.error = FALSE].at = r.at
        /\ [r EXCEPT !.error = TRUE] \in Rows
        /\ [r EXCEPT !.error = TRUE].attempts = r.attempts
        /\ [r EXCEPT !.error = TRUE].at = r.at
        /\ [r EXCEPT !.error = TRUE].processed = r.processed
  BY DEF Rows
<1>4. CASE MarkProcessed(p)
  <2> DEFINE row == [event[cur[p]] EXCEPT !.processed = TRUE, !.error = FALSE]
  <2>1. event' = [event EXCEPT ![cur[p]] = row]
    BY <1>4, <1>1, Zenon DEF MarkProcessed, QueueInv, TypeOK
  <2>2. row \in Rows /\ row.attempts = event[cur[p]].attempts /\ row.at = event[cur[p]].at
    BY <1>2, <1>3
  <2>3. ~MarkError(p)
    BY <1>4 DEF MarkProcessed, MarkError
  <2> HIDE DEF row
  <2> QED
    BY <1>1, <2>1, <2>2, <2>3 DEF QueueInv, TypeOK, Stored
<1>5. CASE MarkError(p)
  <2> DEFINE row == [event[cur[p]] EXCEPT !.error = TRUE]
  <2>1. event' = [event EXCEPT ![cur[p]] = row]
    BY <1>5 DEF MarkError
  <2>2. /\ row \in Rows
        /\ row.attempts = event[cur[p]].attempts
        /\ row.at = event[cur[p]].at
        /\ row.processed = event[cur[p]].processed
    BY <1>2, <1>3
  <2> HIDE DEF row
  <2> QED
    BY <1>1, <2>1, <2>2 DEF QueueInv, TypeOK, Stored
<1> QED
  BY <1>4, <1>5

-----------------------------------------------------------------------------
\* The rows and the history keep their types in every step.
LEMMA NextTyped ==
  ASSUME QueueInv, [Next]_vars
  PROVE  TypeOK'
<1> USE DEF QueueInv, TypeOK, Pcs, FaultsTypeOK
<1>1. ASSUME NEW d \in Deliveries, Webhook(d)
      PROVE  TypeOK'
  <2>1. event' \in [Deliveries -> Rows]
    BY <1>1, WebhookStep
  <2> QED
    BY <1>1, <2>1 DEF Webhook, procVars
<1>2. ASSUME NEW p \in Processors, NextBatch(p)
      PROVE  TypeOK'
  <2>1. Oldest(SkipLocked, BatchSize) \in SUBSET Deliveries
    BY OldestIsPart DEF SkipLocked
  <2> QED
    BY <1>2, <2>1 DEF NextBatch
<1>3. ASSUME NEW p \in Processors, Claim(p)
      PROVE  TypeOK'
  <2>1. event' \in [Deliveries -> Rows]
    BY <1>3, ClaimStep
  <2> QED
    BY <1>3, <2>1 DEF Claim
<1>4. ASSUME NEW p \in Processors, NEW d \in Deliveries, Handle(p, d) \/ HandleFails(p, d)
      PROVE  TypeOK'
  BY <1>4 DEF Handle, HandleFails, Take
<1>5. ASSUME NEW p \in Processors, MarkProcessed(p) \/ MarkError(p)
      PROVE  TypeOK'
  <2>1. event' \in [Deliveries -> Rows]
    BY <1>5, MarkStep
  <2>2. Continue(p)
    BY <1>5 DEF MarkProcessed, MarkError
  <2> QED
    BY <2>1, <2>2 DEF Continue
<1>6. ASSUME NEW p \in Processors, MarkLost(p)
      PROVE  TypeOK'
  BY <1>6 DEF MarkLost, Continue
<1>7. ASSUME NEW p \in Processors, Crash(p)
      PROVE  TypeOK'
  BY <1>7 DEF Crash, Fault
<1>8. CASE UNCHANGED vars
  BY <1>8 DEF vars, procVars
<1> QED
  BY <1>1, <1>2, <1>3, <1>4, <1>5, <1>6, <1>7, <1>8 DEF Next, Work

\* A processor that was not in a claim enters one only through NextBatch, and
\* every other processor keeps what it has.
LEMMA ClaimsKept ==
  ASSUME QueueInv, [Next]_vars,
         NEW p \in Processors, pc'[p] = "claim", ~NextBatch(p)
  PROVE  pc[p] = "claim" /\ batch'[p] = batch[p]
<1> USE DEF QueueInv, TypeOK
<1>1. ASSUME NEW d \in Deliveries, Webhook(d)
      PROVE  pc[p] = "claim" /\ batch'[p] = batch[p]
  BY <1>1 DEF Webhook, procVars
<1>2. ASSUME NEW q \in Processors, Work(q) \/ Crash(q)
      PROVE  pc[p] = "claim" /\ batch'[p] = batch[p]
  <2>1. CASE q = p
    BY <1>2, <2>1 DEF Work, Claim, Handle, HandleFails, Take, MarkProcessed,
                      MarkError, MarkLost, Continue, Crash
  <2>2. CASE q # p
    BY <1>2, <2>2 DEF Work, NextBatch, Claim, Handle, HandleFails, Take, MarkProcessed,
                      MarkError, MarkLost, Continue, Crash
  <2> QED
    BY <2>1, <2>2
<1>3. CASE UNCHANGED vars
  BY <1>3 DEF vars, procVars
<1> QED
  BY <1>1, <1>2, <1>3 DEF Next

\* A row that a NextBatch has locked stays due until that NextBatch commits.
LEMMA LockedStaysDue ==
  ASSUME QueueInv, [Next]_vars,
         NEW p \in Processors, pc[p] = "claim", pc'[p] = "claim",
         NEW d \in batch[p]
  PROVE  Due(d)'
<1>1. d \in Deliveries /\ Due(d) /\ d \in Locked
  BY DEF QueueInv, TypeOK, ClaimsAreDue, Locked
<1>2. ASSUME NEW e \in Deliveries, Webhook(e)
      PROVE  Due(d)'
  BY <1>1, <1>2, WebhookStep DEF QueueInv, Due
<1>3. ASSUME NEW q \in Processors, Claim(q)
      PROVE  Due(d)'
  <2>1. q # p
    BY <1>3 DEF Claim, QueueInv, TypeOK
  <2>2. d \notin batch[q]
    BY <1>3, <2>1 DEF Claim, QueueInv, ClaimsAreDisjoint
  <2> QED
    BY <1>1, <1>3, <2>2, ClaimStep DEF Due
<1>4. ASSUME NEW q \in Processors, MarkProcessed(q) \/ MarkError(q)
      PROVE  Due(d)'
  <2>1. cur[q] # d /\ event'[d] = event[d]
    BY <1>1, <1>4, MarkStep
  <2> QED
    BY <1>1, <2>1 DEF Due, Stored
<1>5. ASSUME UNCHANGED event
      PROVE  Due(d)'
  BY <1>1, <1>5 DEF Due, Stored
<1> QED
  BY <1>2, <1>3, <1>4, <1>5 DEF Next, Work, NextBatch, Handle, HandleFails, Take,
     MarkLost, Crash, vars

\* The invariant of the queue is inductive.
LEMMA NextQueueInv ==
  ASSUME QueueInv, [Next]_vars
  PROVE  QueueInv'
<1>1. TypeOK'
  BY NextTyped
<1>2. ASSUME NEW p \in Processors, NextBatch(p)
      PROVE  /\ \A d \in batch'[p] : Due(d)' /\ d \notin Locked
             /\ pc' = [pc EXCEPT ![p] = "claim"]
             /\ \A q \in Processors \ {p} : batch'[q] = batch[q]
  <2>1. batch'[p] \subseteq SkipLocked
    BY <1>2, OldestIsPart DEF NextBatch, QueueInv, TypeOK
  <2>2. \A d \in SkipLocked : Due(d)' /\ d \notin Locked
    BY <1>2 DEF NextBatch, SkipLocked, Due, Stored
  <2>3. \A q \in Processors \ {p} : batch'[q] = batch[q]
    BY <1>2 DEF NextBatch, QueueInv, TypeOK
  <2> QED
    BY <1>2, <2>1, <2>2, <2>3 DEF NextBatch
<1>3. ClaimsAreDue'
  <2> SUFFICES ASSUME NEW p \in Processors, pc'[p] = "claim", NEW d \in batch'[p]
               PROVE  Due(d)'
    BY DEF ClaimsAreDue
  <2>1. CASE NextBatch(p)
    BY <1>2, <2>1
  <2>2. CASE ~NextBatch(p)
    BY <2>2, ClaimsKept, LockedStaysDue
  <2> QED
    BY <2>1, <2>2
<1>4. ClaimsAreDisjoint'
  <2>1. ASSUME NEW p \in Processors, NEW q \in Processors, p # q,
               NextBatch(p), pc'[q] = "claim"
        PROVE  batch'[p] \cap batch'[q] = {}
    <3>1. pc[q] = "claim" /\ batch'[q] = batch[q]
      BY <1>2, <2>1 DEF QueueInv, TypeOK
    <3>2. batch[q] \subseteq Locked
      BY <3>1 DEF Locked
    <3> QED
      BY <1>2, <2>1, <3>1, <3>2
  <2> SUFFICES ASSUME NEW p \in Processors, NEW q \in Processors, p # q,
                      pc'[p] = "claim", pc'[q] = "claim"
               PROVE  batch'[p] \cap batch'[q] = {}
    BY DEF ClaimsAreDisjoint
  <2>2. CASE NextBatch(p) \/ NextBatch(q)
    BY <2>1, <2>2
  <2>3. CASE ~NextBatch(p) /\ ~NextBatch(q)
    <3>1. /\ pc[p] = "claim" /\ batch'[p] = batch[p]
          /\ pc[q] = "claim" /\ batch'[q] = batch[q]
      BY <2>3, ClaimsKept
    <3> QED
      BY <3>1 DEF QueueInv, ClaimsAreDisjoint
  <2> QED
    BY <2>2, <2>3
<1>5. MarksAnEvent'
  <2> USE DEF QueueInv, TypeOK, MarksAnEvent
  <2>1. ASSUME NEW d \in Deliveries, Webhook(d)
        PROVE  MarksAnEvent'
    BY <2>1 DEF Webhook, procVars
  <2>2. ASSUME NEW p \in Processors, Work(p) \/ Crash(p)
        PROVE  MarksAnEvent'
    BY <2>2 DEF Work, NextBatch, Claim, Handle, HandleFails, Take, MarkProcessed,
                MarkError, MarkLost, Continue, Crash
  <2>3. CASE UNCHANGED vars
    BY <2>3 DEF vars, procVars
  <2> QED
    BY <2>1, <2>2, <2>3 DEF Next
<1> QED
  BY <1>1, <1>3, <1>4, <1>5 DEF QueueInv

\* It holds at the start.
LEMMA InitQueueInv == Init => QueueInv
BY DEF Init, QueueInv, TypeOK, Rows, Pcs, FaultsTypeOK, FaultsInit,
       ClaimsAreDue, ClaimsAreDisjoint, MarksAnEvent

\* Rows, batches and processors keep their types; in particular no event is
\* claimed more than MaxAttempts times, however NextBatches overlap.
THEOREM TypeCorrect == Spec => []TypeOK
<1>1. QueueInv => TypeOK
  BY DEF QueueInv
<1>2. QueueInv /\ [Next]_vars => QueueInv'
  BY NextQueueInv
<1> QED
  BY <1>1, <1>2, InitQueueInv, PTL DEF Spec

-----------------------------------------------------------------------------
\* An event that a processor is about to mark processed has been handled.
MarksHandled == \A p \in Processors : pc[p] = "ok" => handled[cur[p]] > 0

\* No step takes back a handling, and only one of Handle adds to it.
LEMMA HandledGrows ==
  ASSUME QueueInv, [Next]_vars, NEW d \in Deliveries
  PROVE  handled'[d] >= handled[d]
<1>1. \A h \in Nat : h + 1 >= h /\ h >= h
  OBVIOUS
<1>2. ASSUME NEW p \in Processors, NEW e \in Deliveries, Handle(p, e)
      PROVE  handled'[d] >= handled[d]
  BY <1>1, <1>2 DEF Handle, QueueInv, TypeOK
<1>3. ASSUME UNCHANGED handled
      PROVE  handled'[d] >= handled[d]
  BY <1>1, <1>3 DEF QueueInv, TypeOK
<1> QED
  BY <1>2, <1>3 DEF Next, Work, Webhook, NextBatch, Claim, HandleFails, MarkProcessed,
     MarkError, MarkLost, Continue, Crash, vars

\* A processor gets to its mark by a handling that returned nil.
LEMMA NextMarksHandled ==
  ASSUME QueueInv, MarksHandled, [Next]_vars
  PROVE  MarksHandled'
<1> SUFFICES ASSUME NEW p \in Processors, pc'[p] = "ok"
             PROVE  handled'[cur'[p]] > 0
  BY DEF MarksHandled
<1>1. ASSUME NEW d \in Deliveries, Handle(p, d)
      PROVE  handled'[cur'[p]] > 0
  <2>1. cur'[p] = d /\ handled'[d] = handled[d] + 1
    BY <1>1 DEF Handle, Take, QueueInv, TypeOK
  <2> QED
    BY <2>1 DEF QueueInv, TypeOK
<1>2. CASE pc[p] = "ok" /\ cur'[p] = cur[p]
  <2>1. cur[p] \in Deliveries /\ handled[cur[p]] > 0
    BY <1>2 DEF QueueInv, MarksAnEvent, MarksHandled
  <2>2. handled'[cur[p]] >= handled[cur[p]]
    BY <2>1, HandledGrows
  <2>3. handled[cur[p]] \in Nat /\ handled'[cur[p]] \in Nat
    BY <2>1, NextTyped DEF QueueInv, TypeOK
  <2> QED
    BY <1>2, <2>1, <2>2, <2>3
<1>3. ASSUME \A d \in Deliveries : ~Handle(p, d)
      PROVE  pc[p] = "ok" /\ cur'[p] = cur[p]
  <2> USE DEF QueueInv, TypeOK
  <2>1. ASSUME NEW q \in Processors, Work(q) \/ Crash(q)
        PROVE  pc[p] = "ok" /\ cur'[p] = cur[p]
    <3>1. CASE q = p
      BY <1>3, <2>1, <3>1 DEF Work, NextBatch, Claim, HandleFails, Take, MarkProcessed,
                          MarkError, MarkLost, Continue, Crash
    <3>2. CASE q # p
      BY <2>1, <3>2 DEF Work, NextBatch, Claim, Handle, HandleFails, Take, MarkProcessed,
                        MarkError, MarkLost, Continue, Crash
    <3> QED
      BY <3>1, <3>2
  <2>2. CASE UNCHANGED procVars
    BY <2>2 DEF procVars
  <2> QED
    BY <2>1, <2>2 DEF Next, Webhook, vars
<1> QED
  BY <1>1, <1>2, <1>3

\* An event is marked processed only after a handler returned nil for it, with
\* crashes between the two, lost marks and events claimed more than once.
THEOREM HandledFirst == Spec => []ProcessedWasHandled
<1> DEFINE I == QueueInv /\ MarksHandled /\ ProcessedWasHandled
<1>1. Init => I
  BY InitQueueInv DEF Init, MarksHandled, ProcessedWasHandled
<1>2. I /\ [Next]_vars => I'
  <2> SUFFICES ASSUME I, [Next]_vars
               PROVE  ProcessedWasHandled'
    BY NextQueueInv, NextMarksHandled
  <2> SUFFICES ASSUME NEW d \in Deliveries, event'[d].processed
               PROVE  handled'[d] > 0
    BY DEF ProcessedWasHandled
  <2>1. handled[d] \in Nat /\ handled'[d] \in Nat /\ handled'[d] >= handled[d]
    BY HandledGrows, NextTyped DEF QueueInv, TypeOK
  <2>2. CASE event[d].processed
    BY <2>1, <2>2 DEF ProcessedWasHandled
  <2>3. ASSUME NEW p \in Processors, MarkProcessed(p), cur[p] = d
        PROVE  handled'[d] > 0
    <3>1. pc[p] = "ok"
      BY <2>3 DEF MarkProcessed
    <3> QED
      BY <2>1, <2>3, <3>1 DEF MarksHandled
  <2>4. ASSUME \A p \in Processors : MarkProcessed(p) => cur[p] # d
        PROVE  event[d].processed
    <3>1. ASSUME NEW e \in Deliveries, Webhook(e)
          PROVE  event[d].processed
      BY <3>1, WebhookStep DEF QueueInv
    <3>2. ASSUME NEW p \in Processors, Claim(p)
          PROVE  event[d].processed
      BY <3>2, ClaimStep
    <3>3. ASSUME NEW p \in Processors, MarkProcessed(p) \/ MarkError(p)
          PROVE  event[d].processed
      BY <2>4, <3>3, MarkStep
    <3>4. ASSUME UNCHANGED event
          PROVE  event[d].processed
      BY <3>4
    <3> QED
      BY <3>1, <3>2, <3>3, <3>4 DEF Next, Work, NextBatch, Handle, HandleFails, Take,
         MarkLost, Crash, vars
  <2> QED
    BY <2>2, <2>3, <2>4
<1>3. I => ProcessedWasHandled
  OBVIOUS
<1> QED
  BY <1>1, <1>2, <1>3, PTL DEF Spec

-----------------------------------------------------------------------------
\* A claim counts an attempt only of events that are not processed: a mark
\* waits for the lock of a NextBatch that has selected its event.
THEOREM ClaimsUnprocessed == Spec => NeverReclaimed
<1>1. QueueInv /\ [Next]_vars =>
        [\A d \in Deliveries :
           event'[d].attempts > event[d].attempts => ~event[d].processed]_vars
  <2> SUFFICES ASSUME QueueInv, [Next]_vars, NEW d \in Deliveries,
                      event'[d].attempts > event[d].attempts
               PROVE  ~event[d].processed
    OBVIOUS
  <2>1. event[d].attempts \in Nat
    BY DEF QueueInv, TypeOK, Rows
  <2>2. event'[d].attempts # event[d].attempts
    BY <2>1
  <2>3. ASSUME NEW p \in Processors, Claim(p)
        PROVE  ~event[d].processed
    <3>1. d \in batch[p]
      BY <2>2, <2>3, ClaimStep
    <3> QED
      BY <2>3, <3>1 DEF QueueInv, ClaimsAreDue, Claim, Due
  <2>4. ASSUME NEW e \in Deliveries, Webhook(e)
        PROVE  FALSE
    BY <2>2, <2>4, WebhookStep DEF QueueInv
  <2>5. ASSUME NEW p \in Processors, MarkProcessed(p) \/ MarkError(p)
        PROVE  FALSE
    BY <2>2, <2>5, MarkStep
  <2>6. ASSUME UNCHANGED event
        PROVE  FALSE
    BY <2>2, <2>6
  <2> QED
    BY <2>3, <2>4, <2>5, <2>6 DEF Next, Work, NextBatch, Handle, HandleFails, Take,
       MarkLost, Crash, vars
<1>2. QueueInv /\ [Next]_vars => QueueInv'
  BY NextQueueInv
<1> QED
  BY <1>1, <1>2, InitQueueInv, PTL DEF Spec, NeverReclaimed

-----------------------------------------------------------------------------
\* Processors hold an attempt only by a claim, and give it up by using it.
LEMMA HoldersFinite ==
  \A d : IsFiniteSet(Holders(d)) /\ Cardinality(Holders(d)) \in Nat
BY FiniteAssumption, FS_Subset, FS_CardinalityType DEF Holders

\* A commit of NextBatch makes its processor one more holder of what it claimed.
LEMMA ClaimAddsHolder ==
  ASSUME QueueInv, NEW p \in Processors, Claim(p), NEW d \in batch[p]
  PROVE  Cardinality(Holders(d)') <= Cardinality(Holders(d)) + 1
<1>1. Holders(d)' = Holders(d) \cup {p}
  BY DEF Holders, Claim, QueueInv, TypeOK
<1> QED
  BY <1>1, HoldersFinite, FS_AddElement

\* Handling an event ends the hold of its processor.
LEMMA HandleDropsHolder ==
  ASSUME QueueInv, NEW p \in Processors, NEW d \in Deliveries, Handle(p, d)
  PROVE  Cardinality(Holders(d)') = Cardinality(Holders(d)) - 1
<1>1. p \in Holders(d)
  BY DEF Holders, Handle, Take
<1>2. Holders(d)' = Holders(d) \ {p}
  BY SMTT(30) DEF Holders, Handle, Take, QueueInv, TypeOK
<1> QED
  BY <1>1, <1>2, HoldersFinite, FS_RemoveElement

\* Nothing else makes a processor hold an event.
LEMMA OthersAddNoHolder ==
  ASSUME QueueInv, [Next]_vars, NEW d \in Deliveries,
         \A p \in Processors : Claim(p) => d \notin batch[p]
  PROVE  Cardinality(Holders(d)') <= Cardinality(Holders(d))
<1> SUFFICES Holders(d)' \subseteq Holders(d)
  BY HoldersFinite, FS_Subset
<1> SUFFICES ASSUME NEW p \in Processors,
                    pc'[p] \in {"handle", "ok", "failed"}, d \in batch'[p]
             PROVE  pc[p] \in {"handle", "ok", "failed"} /\ d \in batch[p]
  BY DEF Holders
<1> USE DEF QueueInv, TypeOK
<1>1. ASSUME NEW q \in Processors, Work(q) \/ Crash(q)
      PROVE  pc[p] \in {"handle", "ok", "failed"} /\ d \in batch[p]
  <2>1. CASE q = p
    BY <1>1, <2>1 DEF Work, NextBatch, Claim, Handle, HandleFails, Take, MarkProcessed,
                      MarkError, MarkLost, Continue, Crash
  <2>2. CASE q # p
    BY <1>1, <2>2 DEF Work, NextBatch, Claim, Handle, HandleFails, Take, MarkProcessed,
                      MarkError, MarkLost, Continue, Crash
  <2> QED
    BY <2>1, <2>2
<1>2. CASE UNCHANGED procVars
  BY <1>2 DEF procVars
<1> QED
  BY <1>1, <1>2 DEF Next, Webhook, vars

\* The attempts of an event never decrease.
LEMMA AttemptsGrow ==
  ASSUME QueueInv, [Next]_vars, NEW d \in Deliveries
  PROVE  event'[d].attempts >= event[d].attempts
<1>1. event[d].attempts \in Nat
  BY DEF QueueInv, TypeOK, Rows
<1>2. \A n \in Nat : n >= n /\ n + 1 >= n
  OBVIOUS
<1>3. ASSUME NEW e \in Deliveries, Webhook(e)
      PROVE  event'[d].attempts >= event[d].attempts
  BY <1>1, <1>2, <1>3, WebhookStep DEF QueueInv
<1>4. ASSUME NEW p \in Processors, Claim(p)
      PROVE  event'[d].attempts >= event[d].attempts
  BY <1>1, <1>2, <1>4, ClaimStep
<1>5. ASSUME NEW p \in Processors, MarkProcessed(p) \/ MarkError(p)
      PROVE  event'[d].attempts >= event[d].attempts
  BY <1>1, <1>2, <1>5, MarkStep
<1>6. ASSUME UNCHANGED event
      PROVE  event'[d].attempts >= event[d].attempts
  BY <1>1, <1>2, <1>6
<1> QED
  BY <1>3, <1>4, <1>5, <1>6 DEF Next, Work, NextBatch, Handle, HandleFails, Take,
     MarkLost, Crash, vars

\* Every handling is paid for by an attempt of its own, with any number of
\* processors that have claimed the same event.
THEOREM HandlingsArePaid == Spec => []AttemptsPaid
<1>1. Init => AttemptsPaid
  <2> SUFFICES ASSUME Init, NEW d \in Deliveries
               PROVE  handled[d] + Cardinality(Holders(d)) <= event[d].attempts
    BY DEF AttemptsPaid
  <2>1. Holders(d) = {}
    BY DEF Init, Holders
  <2>2. Cardinality(Holders(d)) = 0
    BY <2>1, FS_EmptySet
  <2> QED
    BY <2>2 DEF Init
<1>2. QueueInv /\ AttemptsPaid /\ [Next]_vars => AttemptsPaid'
  <2> SUFFICES ASSUME QueueInv, AttemptsPaid, [Next]_vars, NEW d \in Deliveries
               PROVE  handled'[d] + Cardinality(Holders(d)') <= event'[d].attempts
    BY DEF AttemptsPaid
  <2>1. /\ handled[d] \in Nat /\ handled'[d] \in Nat
        /\ event[d].attempts \in Nat /\ event'[d].attempts \in Nat
        /\ Cardinality(Holders(d)) \in Nat
    BY NextTyped, HoldersFinite DEF QueueInv, TypeOK, Rows
  <2>2. Cardinality(Holders(d)') \in Nat
    <3>1. Holders(d)' \in SUBSET Processors
      BY DEF Holders
    <3> QED
      BY <3>1, FiniteAssumption, FS_Subset, FS_CardinalityType
  <2>3. handled[d] + Cardinality(Holders(d)) <= event[d].attempts
    BY DEF AttemptsPaid
  <2>4. event'[d].attempts >= event[d].attempts
    BY AttemptsGrow
  <2>5. ASSUME NEW p \in Processors, Claim(p), d \in batch[p]
        PROVE  handled'[d] + Cardinality(Holders(d)') <= event'[d].attempts
    <3>1. event'[d].attempts = event[d].attempts + 1
      BY <2>5, ClaimStep
    <3>2. Cardinality(Holders(d)') <= Cardinality(Holders(d)) + 1
      BY <2>5, ClaimAddsHolder
    <3>3. handled'[d] = handled[d]
      BY <2>5 DEF Claim
    <3> QED
      BY <2>1, <2>2, <2>3, <3>1, <3>2, <3>3
  <2>6. ASSUME NEW p \in Processors, Handle(p, d)
        PROVE  handled'[d] + Cardinality(Holders(d)') <= event'[d].attempts
    <3>1. Cardinality(Holders(d)') = Cardinality(Holders(d)) - 1
      BY <2>6, HandleDropsHolder
    <3>2. handled'[d] = handled[d] + 1
      BY <2>6 DEF Handle, QueueInv, TypeOK
    <3> QED
      BY <2>1, <2>2, <2>3, <2>4, <3>1, <3>2
  <2>7. ASSUME \A p \in Processors : ~Handle(p, d) /\ (Claim(p) => d \notin batch[p])
        PROVE  handled'[d] + Cardinality(Holders(d)') <= event'[d].attempts
    <3>1. Cardinality(Holders(d)') <= Cardinality(Holders(d))
      BY <2>7, OthersAddNoHolder
    <3>2. handled'[d] = handled[d]
      <4>1. ASSUME NEW p \in Processors, NEW e \in Deliveries, Handle(p, e)
            PROVE  handled'[d] = handled[d]
        BY <2>7, <4>1 DEF Handle, QueueInv, TypeOK
      <4>2. ASSUME UNCHANGED handled
            PROVE  handled'[d] = handled[d]
        BY <4>2
      <4> QED
        BY <4>1, <4>2 DEF Next, Work, Webhook, NextBatch, Claim, HandleFails,
           MarkProcessed, MarkError, MarkLost, Continue, Crash, vars
    <3> QED
      BY <2>1, <2>2, <2>3, <2>4, <3>1, <3>2
  <2> QED
    BY <2>5, <2>6, <2>7
<1>3. QueueInv /\ [Next]_vars => QueueInv'
  BY NextQueueInv
<1> QED
  BY <1>1, <1>2, <1>3, InitQueueInv, PTL DEF Spec
=============================================================================
