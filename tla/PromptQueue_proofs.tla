------------------------- MODULE PromptQueue_proofs -------------------------
(***************************************************************************)
(* Theorems about PromptQueue, for any number of projects, transports,     *)
(* tickets and roles and any bounds.  QueueBook_proofs says what every     *)
(* operation does to a book; here the operations are lifted to steps of    *)
(* the coordinator: what memory, the file, the handles and the scheduler   *)
(* pass have to do with each other after each of them.                     *)
(***************************************************************************)
EXTENDS PromptQueue, QueueBook_proofs

-----------------------------------------------------------------------------
(* The stages of a message *)

\* One step of a message, or none.
Moved(s, t) == s = t \/ <<s, t>> \in Lifecycle!Moves

\* Every message keeps the promise of MessageLifecycle from b to n.
StageStep(b, n) == \A o \in Ids : Moved(StageIn(b, o), StageIn(n, o))

\* The stage of a message by where it is recorded.
LEMMA StageCases ==
    ASSUME NEW b, NEW o
    PROVE  /\ o \in DOMAIN b.items =>
                StageIn(b, o) = IF b.items[o].state = "Queued" THEN "Waiting"
                                ELSE IF b.items[o].state = "Running" THEN "Running"
                                ELSE "Ended"
           /\ o \notin DOMAIN b.items /\ o \in DOMAIN b.steers =>
                StageIn(b, o) = IF b.steers[o].state = "Pending" THEN "Steering"
                                ELSE IF b.steers[o].state \in {"Submitted", "AcknowledgedByCli"}
                                THEN "Handed"
                                ELSE IF b.steers[o].state = "PromotedToNext" THEN "Removed"
                                ELSE "Settled"
           /\ o \notin DOMAIN b.items /\ o \notin DOMAIN b.steers =>
                StageIn(b, o) = IF o < b.nextOrdinal THEN "Removed" ELSE "Unused"
  BY DEF StageIn

\* A message that keeps its records keeps its stage; an unused position may
\* have been given away.
LEMMA SameRecordMoves ==
    ASSUME NEW b, NEW n, NEW o \in Int,
           o \in DOMAIN n.items <=> o \in DOMAIN b.items,
           o \in DOMAIN b.items => n.items[o].state = b.items[o].state,
           o \in DOMAIN n.steers <=> o \in DOMAIN b.steers,
           o \in DOMAIN b.steers => n.steers[o].state = b.steers[o].state,
           b.nextOrdinal \in Int, n.nextOrdinal \in Int, b.nextOrdinal <= n.nextOrdinal
    PROVE  Moved(StageIn(b, o), StageIn(n, o))
<1>1. CASE o \in DOMAIN b.items
  BY <1>1, StageCases DEF Moved
<1>2. CASE o \notin DOMAIN b.items /\ o \in DOMAIN b.steers
  BY <1>2, StageCases DEF Moved
<1>3. CASE o \notin DOMAIN b.items /\ o \notin DOMAIN b.steers
  <2>1. StageIn(b, o) = IF o < b.nextOrdinal THEN "Removed" ELSE "Unused"
    BY <1>3, StageCases
  <2>2. StageIn(n, o) = IF o < n.nextOrdinal THEN "Removed" ELSE "Unused"
    BY <1>3, StageCases
  <2>. QED
    BY <2>1, <2>2 DEF Moved, Lifecycle!Moves
<1>. QED
  BY <1>1, <1>2, <1>3

\* Operations on anything but messages.
LEMMA SameStages ==
    ASSUME NEW b, NEW roles, Good(b, roles), NEW n,
           DOMAIN n.items = DOMAIN b.items,
           \A o \in DOMAIN b.items : n.items[o].state = b.items[o].state,
           n.steers = b.steers,
           n.nextOrdinal \in Nat, b.nextOrdinal <= n.nextOrdinal
    PROVE  StageStep(b, n)
<1>1. b.nextOrdinal \in Nat
  BY GoodFacts
<1>. SUFFICES ASSUME NEW o \in Ids PROVE Moved(StageIn(b, o), StageIn(n, o))
  BY DEF StageStep
<1>2. o \in Int
  BY PromptQueueAssumption DEF Ids
<1>. QED
  BY <1>1, <1>2, SameRecordMoves

\* enqueue_in_book()
LEMMA EnqueueStages ==
    ASSUME NEW b, NEW roles, Good(b, roles), NEW i, i.state = "Queued",
           NEW n, n = EnqueueTo(b, i)
    PROVE  StageStep(b, n)
<1>1. /\ DOMAIN b = Fields /\ b.nextOrdinal \in Nat
      /\ b.nextOrdinal \notin DOMAIN b.items /\ b.nextOrdinal \notin DOMAIN b.steers
  BY GoodFacts
<1>2. /\ n.items = Put(b.items, b.nextOrdinal, i)
      /\ n.steers = b.steers /\ n.nextOrdinal = b.nextOrdinal + 1
  BY <1>1 DEF EnqueueTo, Fields
<1>3. /\ DOMAIN n.items = DOMAIN b.items \cup {b.nextOrdinal}
      /\ n.items[b.nextOrdinal] = i
      /\ \A o \in DOMAIN b.items : n.items[o] = b.items[o]
  BY <1>1, <1>2 DEF Put
<1>. SUFFICES ASSUME NEW o \in Ids PROVE Moved(StageIn(b, o), StageIn(n, o))
  BY DEF StageStep
<1>4. o \in Int
  BY PromptQueueAssumption DEF Ids
<1>5. CASE o # b.nextOrdinal
  BY <1>1, <1>2, <1>3, <1>4, <1>5, SameRecordMoves
<1>6. CASE o = b.nextOrdinal
  <2>1. StageIn(b, o) = "Unused"
    BY <1>1, <1>6, StageCases
  <2>2. StageIn(n, o) = "Waiting"
    BY <1>3, <1>6, StageCases
  <2>. QED
    BY <2>1, <2>2 DEF Moved, Lifecycle!Moves
<1>. QED
  BY <1>5, <1>6

\* A resolved steering record may be dropped from the history.
LEMMA TrimmedMoves ==
    ASSUME NEW b, NEW n, NEW o \in Int,
           b.nextOrdinal \in Int, o < b.nextOrdinal, b.nextOrdinal <= n.nextOrdinal,
           n.nextOrdinal \in Int,
           o \notin DOMAIN b.items, o \notin DOMAIN n.items,
           o \in DOMAIN b.steers, o \notin DOMAIN n.steers,
           b.steers[o].state \in {"ObservedInProviderHistory", "PromotedToNext", "Refused"}
    PROVE  Moved(StageIn(b, o), StageIn(n, o))
<1>1. StageIn(b, o) \in {"Settled", "Removed"}
  BY StageCases
<1>2. StageIn(n, o) = "Removed"
  BY StageCases
<1>. QED
  BY <1>1, <1>2 DEF Moved, Lifecycle!Moves

\* The records trim_steer_history() drops are resolved.
LEMMA TrimResolved ==
    ASSUME NEW steers, NEW target, NEW trimmed \in TrimChoices(steers, target),
           NEW o \in trimmed
    PROVE  o \in DOMAIN steers /\
           steers[o].state \in {"ObservedInProviderHistory", "PromotedToNext", "Refused"}
  BY DEF TrimChoices

\* enqueue_steer()
LEMMA EnqueueSteerStages ==
    ASSUME NEW b, NEW roles, Good(b, roles), NEW run,
           NEW trimmed \in TrimChoices(b.steers, MaxSteerRecords - 1),
           EnqueueSteerOk(b, run, trimmed),
           NEW n, n = EnqueueSteerTo(b, run, trimmed)
    PROVE  StageStep(b, n)
<1>1. /\ b.nextOrdinal \in Nat
      /\ b.nextOrdinal \notin DOMAIN b.items /\ b.nextOrdinal \notin DOMAIN b.steers
      /\ \A o \in DOMAIN b.steers : o < b.nextOrdinal
  BY GoodFacts
<1>2. /\ n.items = b.items
      /\ n.nextOrdinal = b.nextOrdinal + 1
      /\ DOMAIN n.steers = (DOMAIN b.steers \ trimmed) \cup {b.nextOrdinal}
      /\ n.steers[b.nextOrdinal] = [project |-> b.runs[run].project, run |-> run, state |-> "Pending"]
      /\ \A x \in DOMAIN n.steers \ {b.nextOrdinal} : n.steers[x] = b.steers[x]
  BY EnqueueSteerChange
<1>. SUFFICES ASSUME NEW o \in Ids PROVE Moved(StageIn(b, o), StageIn(n, o))
  BY DEF StageStep
<1>4. o \in Int
  BY PromptQueueAssumption DEF Ids
<1>5. CASE o = b.nextOrdinal
  <2>1. StageIn(b, o) = "Unused"
    BY <1>1, <1>5, StageCases
  <2>2. StageIn(n, o) = "Steering"
    BY <1>1, <1>2, <1>5, StageCases
  <2>. QED
    BY <2>1, <2>2 DEF Moved, Lifecycle!Moves
<1>6. CASE o # b.nextOrdinal /\ ~(o \in trimmed /\ o \notin DOMAIN b.items)
  <2>1. CASE o \notin trimmed
    BY <1>1, <1>2, <1>4, <1>6, <2>1, SameRecordMoves
  <2>2. CASE o \in DOMAIN b.items
    BY <1>2, <2>2, StageCases DEF Moved
  <2>. QED
    BY <1>6, <2>1, <2>2
<1>7. CASE o # b.nextOrdinal /\ o \in trimmed /\ o \notin DOMAIN b.items
  BY <1>1, <1>2, <1>4, <1>7, TrimResolved, TrimmedMoves
<1>. QED
  BY <1>5, <1>6, <1>7

\* steer_queued_item()
LEMMA SteerQueuedItemStages ==
    ASSUME NEW b, NEW roles, Good(b, roles), NEW s, NEW run,
           NEW trimmed \in TrimChoices(Without(b.steers, {s}), MaxSteerRecords - 1),
           SteerQueuedItemOk(b, s, run, trimmed),
           NEW n, n = SteerQueuedItemTo(b, s, run, trimmed)
    PROVE  StageStep(b, n)
<1>1. /\ b.nextOrdinal \in Nat
      /\ \A o \in DOMAIN b.steers : o < b.nextOrdinal
      /\ s \in DOMAIN b.items /\ b.items[s].state = "Queued"
  BY GoodFacts DEF SteerQueuedItemOk, Queued
<1>2. /\ n.nextOrdinal = b.nextOrdinal
      /\ n.items = Without(b.items, {s})
      /\ DOMAIN n.steers = (DOMAIN b.steers \ trimmed) \cup {s}
      /\ n.steers[s] = [project |-> b.items[s].project, run |-> run, state |-> "Pending"]
      /\ \A x \in DOMAIN n.steers \ {s} : n.steers[x] = b.steers[x]
  BY SMTT(30), SteerQueuedItemChange
<1>3. /\ DOMAIN n.items = DOMAIN b.items \ {s}
      /\ \A x \in DOMAIN n.items : n.items[x] = b.items[x]
  BY <1>2 DEF Without
<1>. SUFFICES ASSUME NEW o \in Ids PROVE Moved(StageIn(b, o), StageIn(n, o))
  BY DEF StageStep
<1>4. o \in Int
  BY PromptQueueAssumption DEF Ids
<1>5. CASE o = s
  <2>1. StageIn(b, o) = "Waiting"
    BY <1>1, <1>5, StageCases
  <2>2. StageIn(n, o) = "Steering"
    BY <1>2, <1>3, <1>5, StageCases
  <2>. QED
    BY <2>1, <2>2 DEF Moved, Lifecycle!Moves
<1>6. CASE o # s /\ ~(o \in trimmed /\ o \notin DOMAIN b.items)
  <2>1. CASE o \notin trimmed
    <3>1. /\ o \in DOMAIN n.items <=> o \in DOMAIN b.items
          /\ o \in DOMAIN b.items => n.items[o].state = b.items[o].state
      BY <1>3, <1>6
    <3>2. /\ o \in DOMAIN n.steers <=> o \in DOMAIN b.steers
          /\ o \in DOMAIN b.steers => n.steers[o].state = b.steers[o].state
      BY <1>2, <1>6, <2>1
    <3>. QED
      BY <1>1, <1>2, <1>4, <3>1, <3>2, SameRecordMoves
  <2>2. CASE o \in DOMAIN b.items
    BY <1>3, <1>6, <2>2, StageCases DEF Moved
  <2>. QED
    BY <1>6, <2>1, <2>2
<1>7. CASE o # s /\ o \in trimmed /\ o \notin DOMAIN b.items
  <2>1. o \in DOMAIN Without(b.steers, {s}) /\
        Without(b.steers, {s})[o].state \in {"ObservedInProviderHistory", "PromotedToNext", "Refused"}
    BY <1>7, TrimResolved
  <2>2. o \in DOMAIN b.steers /\
        b.steers[o].state \in {"ObservedInProviderHistory", "PromotedToNext", "Refused"}
    BY <2>1 DEF Without
  <2>. QED
    BY <1>1, <1>2, <1>3, <1>4, <1>7, <2>2, TrimmedMoves
<1>. QED
  BY <1>5, <1>6, <1>7

\* submit_pending_steers()
LEMMA SubmitStages ==
    ASSUME NEW b, NEW roles, Good(b, roles), NEW run,
           NEW n, n = SubmitPendingSteersTo(b, run)
    PROVE  StageStep(b, n)
<1>1. b.nextOrdinal \in Nat /\ PendingSteers(b) \cap DOMAIN b.items = {}
  BY GoodFacts, PendingNotQueued
<1>2. /\ n.items = b.items
      /\ n.nextOrdinal = b.nextOrdinal
      /\ n.steers = [o \in DOMAIN b.steers |->
                IF o \in SteersOf(b, run) \cap PendingSteers(b)
                THEN [b.steers[o] EXCEPT !.state = "Submitted"]
                ELSE b.steers[o]]
  BY SubmitChange
<1>3. \A o \in DOMAIN b.steers : b.steers[o] \in SteerRecord
  BY GoodFacts
<1>. SUFFICES ASSUME NEW o \in Ids PROVE Moved(StageIn(b, o), StageIn(n, o))
  BY DEF StageStep
<1>4. o \in Int
  BY PromptQueueAssumption DEF Ids
<1>5. CASE o \in SteersOf(b, run) \cap PendingSteers(b)
  <2>0. o \in DOMAIN b.steers /\ b.steers[o].state = "Pending" /\ o \notin DOMAIN b.items
    BY <1>1, <1>5 DEF PendingSteers
  <2>1. StageIn(b, o) = "Steering"
    BY <2>0, StageCases
  <2>2. o \in DOMAIN n.steers /\ n.steers[o].state = "Submitted"
    BY <1>2, <1>3, <1>5, <2>0 DEF SteerRecord
  <2>3. StageIn(n, o) = "Handed"
    BY <1>2, <2>0, <2>2, StageCases
  <2>. QED
    BY <2>1, <2>3 DEF Moved, Lifecycle!Moves
<1>6. CASE o \notin SteersOf(b, run) \cap PendingSteers(b)
  BY <1>1, <1>2, <1>4, <1>6, SameRecordMoves
<1>. QED
  BY <1>5, <1>6

\* record_steer_delivery()
LEMMA DeliveryStages ==
    ASSUME NEW b, NEW roles, Good(b, roles), NEW run, NEW s, NEW next \in DeliveryStates,
           RecordSteerDeliveryOk(b, run, s, next),
           NEW n, n = RecordSteerDeliveryTo(b, s, next)
    PROVE  /\ StageStep(b, n)
           /\ SteersChange(b, n)
           /\ n.items = b.items /\ n.nextOrdinal = b.nextOrdinal
<1>1. b.nextOrdinal \in Nat
  BY GoodFacts
<1>2. /\ SteersChange(b, n)
      /\ n.items = b.items
      /\ n.nextOrdinal = b.nextOrdinal
      /\ n.steers = [b.steers EXCEPT ![s].state = next]
  BY DeliveryChange
<1>3. /\ s \in DOMAIN b.steers /\ b.steers[s] \in SteerRecord
      /\ <<b.steers[s].state, next>> \in DeliverySteps
  BY GoodFacts DEF RecordSteerDeliveryOk, SteersOf
<1>4. /\ DOMAIN n.steers = DOMAIN b.steers
      /\ n.steers[s].state = next
      /\ \A x \in DOMAIN b.steers \ {s} : n.steers[x] = b.steers[x]
  BY <1>2, <1>3 DEF SteerRecord
<1>. SUFFICES ASSUME NEW o \in Ids PROVE Moved(StageIn(b, o), StageIn(n, o))
  BY <1>2 DEF StageStep
<1>5. o \in Int
  BY PromptQueueAssumption DEF Ids
<1>6. CASE o # s
  BY <1>1, <1>2, <1>4, <1>5, <1>6, SameRecordMoves
<1>7. CASE o = s /\ o \in DOMAIN b.items
  BY <1>2, <1>7, StageCases DEF Moved
<1>8. CASE o = s /\ o \notin DOMAIN b.items
  <2>1. \/ StageIn(b, o) = "Handed" /\ StageIn(n, o) \in {"Handed", "Settled"}
        \/ StageIn(b, o) = "Settled" /\ StageIn(n, o) = "Settled"
    BY <1>2, <1>3, <1>4, <1>8, StageCases DEF DeliverySteps
  <2>. QED
    BY <2>1 DEF Moved, Lifecycle!Moves
<1>. QED
  BY <1>6, <1>7, <1>8

\* remove_item()
LEMMA RemoveItemStages ==
    ASSUME NEW b, NEW roles, Good(b, roles), NEW s, RemoveItemOk(b, s),
           NEW n, n = RetainChildren(RemoveItemTo(b, s))
    PROVE  StageStep(b, n)
<1>1. /\ b.nextOrdinal \in Nat
      /\ \A o \in DOMAIN b.items : o < b.nextOrdinal
      /\ s \in DOMAIN b.items
  BY GoodFacts DEF RemoveItemOk
<1>2. /\ n.nextOrdinal = b.nextOrdinal
      /\ b.items[s].state = "Running" => n.items = b.items
      /\ b.items[s].state # "Running" => n.items = Without(b.items, {s})
      /\ n.steers = b.steers
  <2>1. ItemRemoved(b, s, n, roles)
    BY RemoveItemEffect
  <2>. QED
    BY <2>1 DEF ItemRemoved
<1>3. CASE b.items[s].state = "Running"
  BY <1>1, <1>2, <1>3, SameStages
<1>4. CASE b.items[s].state # "Running"
  <2>1. /\ DOMAIN n.items = DOMAIN b.items \ {s}
        /\ \A x \in DOMAIN n.items : n.items[x] = b.items[x]
    BY <1>2, <1>4 DEF Without
  <2>2. s \in DOMAIN b.steers => b.steers[s].state = "PromotedToNext"
    BY <1>1 DEF Good, ValidateBook, SteeringValid
  <2>. SUFFICES ASSUME NEW o \in Ids PROVE Moved(StageIn(b, o), StageIn(n, o))
    BY DEF StageStep
  <2>3. o \in Int
    BY PromptQueueAssumption DEF Ids
  <2>4. CASE o # s
    BY <1>1, <1>2, <2>1, <2>3, <2>4, SameRecordMoves
  <2>5. CASE o = s
    <3>1. StageIn(b, o) \in {"Waiting", "Ended"}
      BY <1>1, <1>4, <2>5, StageCases
    <3>2. StageIn(n, o) = "Removed"
      BY <1>1, <1>2, <2>1, <2>2, <2>5, StageCases
    <3>. QED
      BY <3>1, <3>2 DEF Moved, Lifecycle!Moves
  <2>. QED
    BY <2>4, <2>5
<1>. QED
  BY <1>3, <1>4

\* begin_run()
LEMMA BeginRunStages ==
    ASSUME NEW b, NEW roles, Good(b, roles), NEW s, BeginRunOk(b, s),
           NEW n, n = BeginRunTo(b, s)
    PROVE  StageStep(b, n)
<1>1. /\ b.nextOrdinal \in Nat
      /\ s \in DOMAIN b.items /\ b.items[s].state = "Queued"
  BY GoodFacts DEF BeginRunOk, Queued
<1>2. Same(b, n, Fields \ {"items", "runs", "ex"})
  BY BeginRunEffect DEF Begun
<1>3. n.steers = b.steers /\ n.nextOrdinal = b.nextOrdinal
  BY <1>2 DEF Same, Fields
<1>4. /\ DOMAIN n.items = DOMAIN b.items
      /\ n.items[s].state = "Running"
      /\ \A x \in DOMAIN b.items \ {s} : n.items[x] = b.items[x]
  BY BeginRunEffect DEF Begun
<1>. SUFFICES ASSUME NEW o \in Ids PROVE Moved(StageIn(b, o), StageIn(n, o))
  BY DEF StageStep
<1>5. o \in Int
  BY PromptQueueAssumption DEF Ids
<1>6. CASE o # s
  BY <1>1, <1>3, <1>4, <1>5, <1>6, SameRecordMoves
<1>7. CASE o = s
  <2>1. StageIn(b, o) = "Waiting" /\ StageIn(n, o) = "Running"
    BY <1>1, <1>4, <1>7, StageCases
  <2>. QED
    BY <2>1 DEF Moved, Lifecycle!Moves
<1>. QED
  BY <1>6, <1>7

\* Steering that is settled with its run: what waited goes back to the queue,
\* what was handed over does not.
LEMMA SettledMoves ==
    ASSUME NEW b, NEW n, NEW o \in DOMAIN b.steers,
           o \notin DOMAIN b.items,
           o \in DOMAIN n.steers,
           n.steers[o].state = SettledState(b.steers[o].state),
           o \in DOMAIN n.items <=> b.steers[o].state = "Pending",
           o \in DOMAIN n.items => n.items[o].state = "Queued"
    PROVE  Moved(StageIn(b, o), StageIn(n, o))
<1>1. CASE b.steers[o].state = "Pending"
  <2>1. StageIn(b, o) = "Steering" /\ StageIn(n, o) = "Waiting"
    BY <1>1, StageCases
  <2>. QED
    BY <2>1 DEF Moved, Lifecycle!Moves
<1>2. CASE b.steers[o].state \in {"Submitted", "AcknowledgedByCli"}
  <2>1. StageIn(b, o) = "Handed"
    BY <1>2, StageCases
  <2>2. n.steers[o].state = "Uncertain" /\ o \notin DOMAIN n.items
    BY <1>2 DEF SettledState
  <2>3. StageIn(n, o) = "Settled"
    BY <2>2, StageCases
  <2>. QED
    BY <2>1, <2>3 DEF Moved, Lifecycle!Moves
<1>3. CASE b.steers[o].state \notin {"Pending", "Submitted", "AcknowledgedByCli"}
  <2>1. n.steers[o].state = b.steers[o].state /\ o \notin DOMAIN n.items
    BY <1>3 DEF SettledState
  <2>. QED
    BY <2>1, StageCases DEF Moved
<1>. QED
  BY <1>1, <1>2, <1>3

\* A running message ends, or leaves with its run.
LEMMA EndedMoves ==
    ASSUME NEW b, NEW n, NEW o \in DOMAIN b.items, b.items[o].state = "Running",
           \/ /\ o \in DOMAIN n.items
              /\ n.items[o].state \notin {"Queued", "Running"}
           \/ /\ o \notin DOMAIN n.items
              /\ o < n.nextOrdinal
              /\ o \in DOMAIN n.steers => n.steers[o].state = "PromotedToNext"
    PROVE  Moved(StageIn(b, o), StageIn(n, o))
<1>1. StageIn(b, o) = "Running"
  BY StageCases
<1>2. StageIn(n, o) \in {"Ended", "Removed"}
  BY StageCases
<1>. QED
  BY <1>1, <1>2 DEF Moved, Lifecycle!Moves

\* complete_run()
LEMMA CompleteRunStages ==
    ASSUME NEW b, NEW roles, Good(b, roles), NEW r, CompleteRunOk(b, r),
           NEW completion \in CompletionStates,
           NEW n, n = RetainChildren(CompleteRunTo(b, r, completion))
    PROVE  StageStep(b, n)
<1>1. /\ b.nextOrdinal \in Nat
      /\ \A o \in DOMAIN b.items : o < b.nextOrdinal
      /\ PendingSteers(b) \cap DOMAIN b.items = {}
      /\ n.nextOrdinal = b.nextOrdinal
  BY GoodFacts, PendingNotQueued, CompleteRunEffect
<1>2. CompletedBook(b, r, completion, n)
  BY CompletedRecords
<1>3. /\ DOMAIN n.items = (DOMAIN b.items \ RemovedBy(b, r)) \cup PromotedBy(b, {r})
      /\ \A o \in DOMAIN b.items \ {r} : n.items[o] = b.items[o]
      /\ \A o \in PromotedBy(b, {r}) : n.items[o].state = "Queued"
      /\ RemovedBy(b, r) \subseteq {r}
      /\ r \notin RemovedBy(b, r) => n.items[r].state = OutcomeOf(b, r, completion)
  BY <1>2 DEF CompletedBook, Promoted
<1>4. /\ DOMAIN n.steers = DOMAIN b.steers
      /\ \A o \in DOMAIN b.steers :
            n.steers[o].state = IF b.steers[o].run = r
                                THEN SettledState(b.steers[o].state)
                                ELSE b.steers[o].state
  BY <1>2 DEF CompletedBook
<1>5. r \in ActiveRuns(b) /\ r \in DOMAIN b.items
  BY GoodFacts DEF CompleteRunOk, ActiveRuns
<1>6. b.items[r].state = "Running"
  BY <1>5, RunningIsActive
<1>7. PromotedBy(b, {r}) = {o \in DOMAIN b.steers : b.steers[o].state = "Pending" /\ b.steers[o].run = r}
  BY DEF PromotedBy, PendingSteers
<1>8. \A o \in DOMAIN b.items : o \in DOMAIN b.steers => b.steers[o].state = "PromotedToNext"
  BY DEF Good, ValidateBook, SteeringValid
<1>9. OutcomeOf(b, r, completion) \notin {"Queued", "Running"}
  BY DEF OutcomeOf, CompletionStates
<1>. SUFFICES ASSUME NEW o \in Ids PROVE Moved(StageIn(b, o), StageIn(n, o))
  BY DEF StageStep
<1>10. o \in Int
  BY PromptQueueAssumption DEF Ids
<1>11. CASE o = r
  <2>1. o \notin PromotedBy(b, {r})
    BY <1>5, <1>8, <1>7, <1>11
  <2>2. CASE r \in RemovedBy(b, r)
    <3>1. o \notin DOMAIN n.items
      BY <1>3, <1>11, <2>1, <2>2
    <3>2. o \in DOMAIN n.steers => n.steers[o].state = "PromotedToNext"
      BY <1>4, <1>5, <1>8, <1>11 DEF SettledState
    <3>. QED
      BY <1>1, <1>5, <1>6, <1>11, <3>1, <3>2, EndedMoves
  <2>3. CASE r \notin RemovedBy(b, r)
    <3>1. o \in DOMAIN n.items /\ n.items[o].state \notin {"Queued", "Running"}
      BY <1>3, <1>5, <1>9, <1>11, <2>3
    <3>. QED
      BY <1>5, <1>6, <1>11, <3>1, EndedMoves
  <2>. QED
    BY <2>2, <2>3
<1>12. CASE o # r /\ o \in DOMAIN b.items
  <2>1. o \in DOMAIN n.items /\ n.items[o] = b.items[o]
    BY <1>3, <1>12
  <2>. QED
    BY <1>12, <2>1, StageCases DEF Moved
<1>13. CASE o # r /\ o \notin DOMAIN b.items /\ o \in DOMAIN b.steers /\ b.steers[o].run = r
  <2>1. o \in DOMAIN n.items <=> b.steers[o].state = "Pending"
    BY <1>3, <1>7, <1>13
  <2>2. o \in DOMAIN n.items => n.items[o].state = "Queued"
    BY <1>3, <1>7, <1>13, <2>1
  <2>. QED
    BY <1>4, <1>13, <2>1, <2>2, SettledMoves
<1>14. CASE o # r /\ o \notin DOMAIN b.items /\ ~(o \in DOMAIN b.steers /\ b.steers[o].run = r)
  <2>1. o \notin DOMAIN n.items
    BY <1>3, <1>7, <1>14
  <2>2. /\ o \in DOMAIN n.steers <=> o \in DOMAIN b.steers
        /\ o \in DOMAIN b.steers => n.steers[o].state = b.steers[o].state
    BY <1>4, <1>14
  <2>. QED
    BY <1>1, <1>10, <1>14, <2>1, <2>2, SameRecordMoves
<1>. QED
  BY <1>11, <1>12, <1>13, <1>14

\* open()
LEMMA RecoverStages ==
    ASSUME NEW b, NEW roles, Good(b, roles), NEW n, Recovered(b, n, roles)
    PROVE  StageStep(b, n)
<1>1. /\ b.nextOrdinal \in Nat
      /\ \A o \in DOMAIN b.items : o < b.nextOrdinal
      /\ PendingSteers(b) \cap DOMAIN b.items = {}
      /\ n.nextOrdinal = b.nextOrdinal
  BY GoodFacts, PendingNotQueued DEF Recovered
<1>3. /\ DOMAIN n.items = (DOMAIN b.items \ RemovedOnOpen(b)) \cup PendingSteers(b)
      /\ \A o \in PendingSteers(b) : n.items[o].state = "Queued"
  BY DEF Recovered, Promoted
<1>4. /\ DOMAIN n.steers = DOMAIN b.steers
      /\ \A o \in DOMAIN b.steers : n.steers[o].state = SettledState(b.steers[o].state)
  BY DEF Recovered
<1>5. \A o \in DOMAIN b.items \ RemovedOnOpen(b) :
        n.items[o].state = IF o \in ActiveRuns(b) THEN "Interrupted" ELSE b.items[o].state
  BY RecoveredRecords
<1>6. \A o \in RemovedOnOpen(b) : o \in DOMAIN b.items /\ b.items[o].state = "Running"
  BY DEF RemovedOnOpen, Good, ValidateBook, ItemsValid
<1>7. \A o \in DOMAIN b.items : b.items[o].state = "Running" <=> o \in ActiveRuns(b)
  BY RunningIsActive
<1>8. \A o \in DOMAIN b.items : o \in DOMAIN b.steers => b.steers[o].state = "PromotedToNext"
  BY DEF Good, ValidateBook, SteeringValid
<1>. SUFFICES ASSUME NEW o \in Ids PROVE Moved(StageIn(b, o), StageIn(n, o))
  BY DEF StageStep
<1>10. o \in Int
  BY PromptQueueAssumption DEF Ids
<1>11. CASE o \in DOMAIN b.items /\ o \in RemovedOnOpen(b)
  <2>1. o \notin DOMAIN n.items
    BY <1>1, <1>3, <1>11
  <2>2. o \in DOMAIN n.steers => n.steers[o].state = "PromotedToNext"
    BY <1>4, <1>8, <1>11 DEF SettledState
  <2>3. b.items[o].state = "Running" /\ o < n.nextOrdinal
    BY <1>1, <1>6, <1>11
  <2>. QED
    BY <1>11, <2>1, <2>2, <2>3, EndedMoves
<1>12. CASE o \in DOMAIN b.items /\ o \notin RemovedOnOpen(b)
  <2>1. /\ o \in DOMAIN n.items
        /\ n.items[o].state = IF b.items[o].state = "Running" THEN "Interrupted"
                              ELSE b.items[o].state
    BY <1>3, <1>5, <1>7, <1>12
  <2>2. CASE b.items[o].state = "Running"
    BY <1>12, <2>1, <2>2, EndedMoves
  <2>3. CASE b.items[o].state # "Running"
    BY <1>12, <2>1, <2>3, StageCases DEF Moved
  <2>. QED
    BY <2>2, <2>3
<1>13. CASE o \notin DOMAIN b.items /\ o \in DOMAIN b.steers
  <2>1. o \in DOMAIN n.items <=> b.steers[o].state = "Pending"
    BY <1>3, <1>13 DEF PendingSteers
  <2>2. o \in DOMAIN n.items => n.items[o].state = "Queued"
    BY <1>3, <1>13, <2>1 DEF PendingSteers
  <2>. QED
    BY <1>4, <1>13, <2>1, <2>2, SettledMoves
<1>14. CASE o \notin DOMAIN b.items /\ o \notin DOMAIN b.steers
  <2>1. o \notin DOMAIN n.items
    BY <1>3, <1>14 DEF PendingSteers
  <2>. QED
    BY <1>1, <1>4, <1>10, <1>14, <2>1, SameRecordMoves
<1>. QED
  BY <1>11, <1>12, <1>13, <1>14

-----------------------------------------------------------------------------
(* The inductive invariant *)

\* No older message of its project is free to start before o.
NoOlder(b, o) ==
    ~ \E older \in Queued(b) :
        /\ older < o
        /\ b.items[older].project = b.items[o].project
        /\ b.items[older].auto

\* What waits in b and runs in n was the oldest of its project.
StartsInOrder(b, n) == \A o \in Queued(b) : o \in DOMAIN n.runs => NoOlder(b, o)

\* What a pass has still to handle is as it was when the pass read the book.
PassOK(b, p) ==
    \A o \in p :
        /\ o \in Queued(b)
        /\ b.items[o].project \notin ActiveProjects(b)
        /\ NoOlder(b, o)
        /\ \A other \in p : b.items[other].project = b.items[o].project => other = o

\* Every recorded stop.
AllStopped(b) == \A r \in ActiveRuns(b) : b.runs[r].state = "StopRequested"

\* The worktree of a child is named after a position.
AgentsKnown(b) == \A c \in DOMAIN b.children : b.children[c].agent \in Ids

\* What happens to the leases from b to n is nothing, or one step of
\* ModelLeases.
LeaseStep(b, n) ==
    \/ n.ex = b.ex /\ n.nextOrdinal = b.nextOrdinal
    \/ n.ex = b.ex /\ b.nextOrdinal <= MaxOrdinal /\ n.nextOrdinal = b.nextOrdinal + 1
    \/ n.ex = EmptyBook /\ n.nextOrdinal = b.nextOrdinal
    \/ /\ n.nextOrdinal = b.nextOrdinal
       /\ \E r \in Ids :
            \/ \E p \in Projects :
                /\ AdmitParentOk(b.ex, r, p)
                /\ n.ex = AdmitParentTo(b.ex, r, p, ProjectWorkspace(p))
            \/ \E w \in BOOLEAN, k \in 1 .. WorkflowCeiling :
                /\ ConfigureFamilyOk(b.ex, r, w, k)
                /\ n.ex = ConfigureFamilyTo(b.ex, r, w, k)
            \/ \E c \in Ids :
                /\ ReserveChildMessageOk(b.ex, r, c)
                /\ n.ex = ReserveChildMessageTo(b.ex, r)
            \/ YieldParentOk(b.ex, r) /\ n.ex = YieldParentTo(b.ex, r)
            \/ TryAcquireOk(b.ex, r, {}) /\ n.ex = TryAcquireTo(b.ex, r)
            \/ FinishOk(b.ex, r, TRUE) /\ n.ex = FinishTo(b.ex, r)
    \/ /\ b.nextOrdinal <= MaxOrdinal
       /\ n.nextOrdinal = b.nextOrdinal + 1
       /\ \E r \in Ids :
            \/ /\ RequestResumeOk(b.ex, r, b.nextOrdinal)
               /\ n.ex = RequestResumeTo(b.ex, r, b.nextOrdinal)
            \/ \E m : /\ m \in LeaseRecord(ChildRoles)
                      /\ m.workspace \in ({"project"} \X Projects) \cup ({"worktree"} \X Ids)
                      /\ m.st = "Waiting" /\ m.ord = b.nextOrdinal
                      /\ AdmitChildOk(b.ex, r, b.nextOrdinal, m, b.nextOrdinal)
                      /\ SeparateWorktree(b.ex, r, m)
                      /\ n.ex = AdmitChildTo(b.ex, r, b.nextOrdinal, m)

\* A book mutate() or open() may leave.
BookOK(b) ==
    /\ Good(b, ChildRoles)
    /\ AgentsKnown(b)
    /\ b.nextOrdinal <= MaxOrdinal + 1
    /\ ReviewHeld(b)

\* The book in memory and the one in the file.  After a replacement that was
\* reported as failed the file is one operation ahead.
BooksInv ==
    /\ BookOK(book)
    /\ BookOK(disk)
    /\ StartsInOrder(book, disk)
    /\ StageStep(book, disk)
    /\ PendingKept(book, disk)
    /\ faults \in 0 .. MaxFaults
    /\ faults = 0 => Same(book, disk, Fields)

\* The volatile part.
VolatileInv ==
    /\ cancels \in [DOMAIN cancels -> BOOLEAN]
    /\ pass \subseteq Ids
    /\ {available, suspended} \subseteq BOOLEAN
    /\ available => DOMAIN cancels = ActiveRuns(book) \cup ActiveChildren(book)
    /\ suspended /\ faults = 0 => AllStopped(book)
    /\ PassOK(book, pass)

QueueInv == BooksInv /\ VolatileInv

\* A restart drops what is pending in memory only if it no longer is in the file.
RestartKeepsPending ==
    \A c \in DOMAIN book.children :
        book.children[c].reviewPending =>
            \/ c \in DOMAIN book'.children
            \/ /\ Restart
               /\ c \in DOMAIN disk.children
               /\ ~disk.children[c].reviewPending

\* What no step may do.
StepOK ==
    /\ faults' = 0 => StageStep(book, book') /\ LeaseStep(book, book')
    /\ RestartKeepsPending
    /\ StartsInOrder(book, book')
    /\ \A o \in Ids :
        /\ StageIn(book, o) \in {"Running", "Ended"} =>
                StageIn(book', o) \in {"Running", "Ended", "Removed"}
        /\ StageIn(book, o) \in {"Handed", "Settled"} =>
                StageIn(book', o) \in {"Handed", "Settled", "Removed"}
    /\ suspended /\ suspended' /\ faults = 0 => NoLeaseTaken(book, book')

\* What an operation leaves of a book.
Operation(b, n) ==
    /\ BookTypeOK(n, ChildRoles)
    /\ n.nextOrdinal <= MaxOrdinal + 1
    /\ ReviewHeld(n)
    /\ PendingKept(b, n)
    /\ StageStep(b, n)
    /\ AgentsKnown(n)
    /\ LeaseStep(b, n)

-----------------------------------------------------------------------------
(* Steps *)

\* One step of a message never repeats work, and two do not either.
LEMMA MovesNeverRepeat ==
    ASSUME NEW s, NEW t, NEW u, Moved(s, t), Moved(t, u)
    PROVE  /\ s \in {"Running", "Ended"} => u \in {"Running", "Ended", "Removed"}
           /\ s \in {"Handed", "Settled"} => u \in {"Handed", "Settled", "Removed"}
<1>1. /\ s \in {"Running", "Ended"} => t \in {"Running", "Ended", "Removed"}
      /\ s \in {"Handed", "Settled"} => t \in {"Handed", "Settled", "Removed"}
  BY DEF Moved, Lifecycle!Moves
<1>2. /\ t \in {"Running", "Ended", "Removed"} => u \in {"Running", "Ended", "Removed"}
      /\ t \in {"Handed", "Settled", "Removed"} => u \in {"Handed", "Settled", "Removed"}
  BY DEF Moved, Lifecycle!Moves
<1>. QED
  BY <1>1, <1>2

\* Staying put.
LEMMA SameBook ==
    ASSUME NEW b, BookOK(b)
    PROVE  StageStep(b, b) /\ StartsInOrder(b, b) /\ PendingKept(b, b) /\ Same(b, b, Fields)
<1>1. StageStep(b, b)
  BY DEF StageStep, Moved
<1>2. \A o \in Queued(b) : o \notin DOMAIN b.runs
  <2>. SUFFICES ASSUME NEW o \in Queued(b), o \in DOMAIN b.runs PROVE FALSE
    OBVIOUS
  <2>1. o \in DOMAIN b.items /\ b.items[o].state = "Queued"
    BY DEF Queued
  <2>2. b.items[o].state = IF o \in ActiveRuns(b) THEN "Running" ELSE b.runs[o].state
    BY <2>1 DEF BookOK, Good, ValidateBook, ItemRunStates
  <2>3. b.runs[o].state # "Queued"
    BY GoodFacts DEF BookOK, RunRecord, ActiveRunStates, TerminalStates
  <2>. QED
    BY <2>1, <2>2, <2>3
<1>. QED
  BY <1>1, <1>2 DEF StartsInOrder, PendingKept, Same

\* A step of mutate() that was saved.
SavedBook(n) ==
    /\ available
    /\ ValidateBook(n)
    /\ book' = n
    /\ disk' = n
    /\ available' = available /\ faults' = faults

\* A step of mutate() that was renamed into place and reported as failed.
FaultyBook(n) ==
    /\ available
    /\ faults < MaxFaults
    /\ ValidateBook(n)
    /\ book' = book
    /\ disk' = n
    /\ available' = available
    /\ faults' = faults + 1

\* mutate() in terms of the book it wrote.
LEMMA MutateBook ==
    ASSUME NEW new, NEW n, n = RetainChildren(new)
    PROVE  (Saved(new) => SavedBook(n)) /\ (Faulty(new) => FaultyBook(n))
  BY DEF Saved, Faulty, SavedBook, FaultyBook

\* Whatever is saved, memory and file agree afterwards.
LEMMA SavedKeeps ==
    ASSUME QueueInv, NEW n, SavedBook(n), Operation(book, n), StartsInOrder(book, n),
           cancels' \in [DOMAIN cancels' -> BOOLEAN],
           DOMAIN cancels' = ActiveRuns(n) \cup ActiveChildren(n),
           pass' \subseteq Ids, PassOK(n, pass'),
           suspended' \in BOOLEAN,
           suspended' /\ faults = 0 => AllStopped(n),
           suspended /\ suspended' /\ faults = 0 => NoLeaseTaken(book, n)
    PROVE  QueueInv' /\ StepOK
<1>1. book' = n /\ disk' = n /\ available' = available /\ faults' = faults
  BY DEF SavedBook
<1>2. BookOK(n)
  BY DEF BookOK, Good, Operation, SavedBook
<1>3. StageStep(n, n) /\ StartsInOrder(n, n) /\ PendingKept(n, n) /\ Same(n, n, Fields)
  BY <1>2, SameBook
<1>4. BooksInv'
  BY <1>1, <1>2, <1>3 DEF QueueInv, BooksInv
<1>5. VolatileInv'
  BY <1>1 DEF QueueInv, VolatileInv
<1>6. \A o \in Ids : Moved(StageIn(book, o), StageIn(n, o)) /\ Moved(StageIn(n, o), StageIn(n, o))
  BY DEF Operation, StageStep, Moved
<1>7. RestartKeepsPending
  BY <1>1 DEF Operation, PendingKept, RestartKeepsPending
<1>8. StepOK
  BY <1>1, <1>6, <1>7, MovesNeverRepeat DEF StepOK, Operation
<1>. QED
  BY <1>4, <1>5, <1>8 DEF QueueInv

\* Nothing happens to memory.
LEMMA MemoryKept ==
    ASSUME QueueInv, book' = book PROVE StepOK
<1>1. BookOK(book)
  BY DEF QueueInv, BooksInv
<1>2. StartsInOrder(book, book)
  BY <1>1, SameBook
<1>3. RestartKeepsPending /\ NoLeaseTaken(book, book) /\ LeaseStep(book, book)
  BY DEF RestartKeepsPending, NoLeaseTaken, LeaseStep
<1>4. StageStep(book, book)
  BY <1>1, SameBook
<1>. QED
  BY <1>2, <1>3, <1>4 DEF StepOK

\* Whatever was renamed into place and reported as failed, the file is one
\* operation ahead.
LEMMA FaultyKeeps ==
    ASSUME QueueInv, NEW n, FaultyBook(n), Operation(book, n), StartsInOrder(book, n),
           cancels' = cancels, pass' \subseteq pass, suspended' \in BOOLEAN
    PROVE  QueueInv' /\ StepOK
<1>1. book' = book /\ disk' = n /\ available' = available /\ faults' = faults + 1
  BY DEF FaultyBook
<1>2. BookOK(n) /\ BookOK(book) /\ faults \in Nat /\ faults' \in 0 .. MaxFaults
  BY PromptQueueAssumption DEF BookOK, Good, Operation, FaultyBook, QueueInv, BooksInv
<1>3. BooksInv'
  BY <1>1, <1>2 DEF BooksInv, Operation
<1>4. VolatileInv'
  <2>1. PassOK(book, pass')
    BY DEF QueueInv, VolatileInv, PassOK
  <2>2. faults' # 0
    BY <1>1, <1>2
  <2>. QED
    BY <1>1, <2>1, <2>2 DEF QueueInv, VolatileInv
<1>. QED
  BY <1>1, <1>3, <1>4, MemoryKept DEF QueueInv

\* Nothing happens to the books.
LEMMA BooksKept ==
    ASSUME QueueInv, book' = book, disk' = disk, available' = available, faults' = faults,
           cancels' \in [DOMAIN cancels' -> BOOLEAN], DOMAIN cancels' = DOMAIN cancels,
           pass' \subseteq Ids, PassOK(book, pass'),
           suspended' \in BOOLEAN, suspended' => suspended
    PROVE  QueueInv' /\ StepOK
<1>1. BooksInv'
  BY DEF QueueInv, BooksInv
<1>2. VolatileInv'
  BY DEF QueueInv, VolatileInv
<1>. QED
  BY <1>1, <1>2, MemoryKept DEF QueueInv

\* An operation that starts and ends nothing.
Steady(n) ==
    /\ Operation(book, n)
    /\ SameActive(book, n)
    /\ NoRunStarts(book, n)
    /\ suspended /\ faults = 0 => NoLeaseTaken(book, n)
    /\ pass # {} => KeepsQueued(book, n) /\ OrderKept(book, n)

\* Where no run starts the order is kept.
LEMMA NoStartInOrder ==
    ASSUME NEW b, BookOK(b), NEW n, NoRunStarts(b, n)
    PROVE  StartsInOrder(b, n)
<1>1. StartsInOrder(b, b)
  BY SameBook
<1>. QED
  BY <1>1 DEF StartsInOrder, NoRunStarts

\* What a pass read stays true while others work on the book.
LEMMA PassKept ==
    ASSUME NEW b, BookOK(b), NEW n, BookOK(n), NEW p, PassOK(b, p), NEW q, q \subseteq p,
           NoRunStarts(b, n), KeepsQueued(b, n), OrderKept(b, n)
    PROVE  PassOK(n, q)
<1>1. \A o \in p : o \in Queued(n) /\ n.items[o].project = b.items[o].project
  BY DEF PassOK, KeepsQueued
<1>2. ActiveProjects(n) \subseteq ActiveProjects(b)
  BY DEF ActiveProjects, NoRunStarts
<1>3. \A o \in p : o \in Nat /\ o < b.nextOrdinal /\ b.nextOrdinal \in Nat
  BY GoodFacts DEF BookOK, PassOK, Queued
<1>4. ASSUME NEW o \in p, NEW older \in Queued(n), older < o,
             n.items[older].project = n.items[o].project, n.items[older].auto
      PROVE  FALSE
  <2>1. ~(older >= b.nextOrdinal)
    <3>1. o \in Queued(n) /\ o \in Nat /\ o < b.nextOrdinal /\ b.nextOrdinal \in Nat
      BY <1>1, <1>3
    <3>2. older \in Nat
      BY GoodFacts DEF BookOK, Queued
    <3>. QED
      BY <3>1, <3>2, <1>4
  <2>2. n.items[older].project \notin ActiveProjects(b)
    BY <1>1, <1>4 DEF PassOK
  <2>3. /\ older \in Queued(b)
        /\ n.items[older].project = b.items[older].project
        /\ b.items[older].auto
    BY <1>4, <2>1, <2>2 DEF OrderKept
  <2>. QED
    BY <1>1, <1>4, <2>3 DEF PassOK, NoOlder
<1>5. \A o \in p : NoOlder(n, o)
  BY <1>4 DEF NoOlder
<1>. QED
  BY <1>1, <1>2, <1>5 DEF PassOK

\* Recorded stops stay.
LEMMA StopsKept ==
    ASSUME NEW b, AllStopped(b), NEW n, NoRunStarts(b, n) PROVE AllStopped(n)
  BY DEF AllStopped, NoRunStarts

\* Such an operation, saved.
LEMMA SteadySaved ==
    ASSUME QueueInv, NEW n, Steady(n), SavedBook(n),
           cancels' \in [DOMAIN cancels' -> BOOLEAN], DOMAIN cancels' = DOMAIN cancels,
           pass' \subseteq pass, suspended' = suspended
    PROVE  QueueInv' /\ StepOK
<1>1. /\ BookOK(book) /\ PassOK(book, pass) /\ pass \subseteq Ids /\ suspended \in BOOLEAN
      /\ suspended /\ faults = 0 => AllStopped(book)
  BY DEF QueueInv, BooksInv, VolatileInv
<1>2. /\ Operation(book, n) /\ NoRunStarts(book, n)
      /\ suspended /\ faults = 0 => NoLeaseTaken(book, n)
  BY DEF Steady
<1>3. DOMAIN cancels' = ActiveRuns(n) \cup ActiveChildren(n)
  BY DEF Steady, SameActive, QueueInv, VolatileInv, SavedBook
<1>4. PassOK(n, pass')
  <2>1. CASE pass = {}
    BY <2>1 DEF PassOK
  <2>2. CASE pass # {}
    <3>1. BookOK(n)
      BY <1>2 DEF BookOK, Good, Operation, SavedBook
    <3>. QED
      BY <1>1, <2>2, <3>1, PassKept DEF Steady
  <2>. QED
    BY <2>1, <2>2
<1>5. suspended /\ faults = 0 => AllStopped(n)
  BY <1>1, <1>2, StopsKept
<1>6. StartsInOrder(book, n)
  BY <1>1, <1>2, NoStartInOrder
<1>. QED
  BY <1>1, <1>2, <1>3, <1>4, <1>5, <1>6, SavedKeeps

\* Such an operation, reported as failed.
LEMMA SteadyFaulty ==
    ASSUME QueueInv, NEW n, Steady(n), FaultyBook(n),
           cancels' = cancels, pass' \subseteq pass, suspended' \in BOOLEAN
    PROVE  QueueInv' /\ StepOK
<1>1. BookOK(book) /\ Operation(book, n) /\ NoRunStarts(book, n)
  BY DEF QueueInv, BooksInv, Steady
<1>2. StartsInOrder(book, n)
  BY <1>1, NoStartInOrder
<1>. QED
  BY <1>1, <1>2, FaultyKeeps

\* Such an operation through mutate().
LEMMA MutateKeeps ==
    ASSUME QueueInv, NEW new, NEW n, n = RetainChildren(new), Steady(n), Mutate(new)
    PROVE  QueueInv' /\ StepOK
<1>1. cancels' = cancels /\ pass' = pass /\ suspended' = suspended
  BY DEF Mutate, volatile
<1>2. cancels \in [DOMAIN cancels -> BOOLEAN] /\ suspended \in BOOLEAN
  BY DEF QueueInv, VolatileInv
<1>3. SavedBook(n) \/ FaultyBook(n)
  BY MutateBook DEF Mutate
<1>4. CASE SavedBook(n)
  BY <1>1, <1>2, <1>4, SteadySaved
<1>5. CASE FaultyBook(n)
  BY <1>1, <1>2, <1>5, SteadyFaulty
<1>. QED
  BY <1>3, <1>4, <1>5

\* What every step starts from.
LEMMA BookFacts ==
    ASSUME QueueInv
    PROVE  /\ Good(book, ChildRoles)
           /\ ReviewHeld(book)
           /\ book.nextOrdinal \in Nat
           /\ book.nextOrdinal <= MaxOrdinal + 1
           /\ OrdinalLeft => book.nextOrdinal + 1 <= MaxOrdinal + 1
           /\ AgentsKnown(book)
<1>1. /\ Good(book, ChildRoles) /\ ReviewHeld(book) /\ book.nextOrdinal <= MaxOrdinal + 1
      /\ AgentsKnown(book)
  BY DEF QueueInv, BooksInv, BookOK
<1>2. book.nextOrdinal \in Nat /\ MaxOrdinal \in Nat
  BY <1>1, GoodFacts, PromptQueueAssumption
<1>. QED
  BY <1>1, <1>2 DEF OrdinalLeft

\* An operation that leaves leases and children alone.
LEMMA LeasesLeftAlone ==
    ASSUME QueueInv, NEW n, n.ex = book.ex,
           \/ n.nextOrdinal = book.nextOrdinal
           \/ OrdinalLeft /\ n.nextOrdinal = book.nextOrdinal + 1,
           \A c \in DOMAIN n.children : c \in DOMAIN book.children /\ n.children[c] = book.children[c]
    PROVE  AgentsKnown(n) /\ LeaseStep(book, n)
<1>1. AgentsKnown(book)
  BY BookFacts
<1>. QED
  BY <1>1 DEF AgentsKnown, LeaseStep, OrdinalLeft

\* Operations on the attributes of waiting work.
LEMMA ItemsSteady ==
    ASSUME QueueInv, NEW n, ItemsChange(book, n), pass # {} => OrderKept(book, n)
    PROVE  RetainChildren(n) = n /\ Steady(n)
<1>1. Good(book, ChildRoles) /\ ReviewHeld(book) /\ book.nextOrdinal \in Nat
      /\ book.nextOrdinal <= MaxOrdinal + 1
  BY BookFacts
<1>2. /\ BookTypeOK(n, ChildRoles)
      /\ Retained(n)
      /\ n.nextOrdinal = book.nextOrdinal
      /\ Quiet(book, n)
      /\ KeepsQueued(book, n)
  BY <1>1, ItemsChangeEffect
<1>3. /\ DOMAIN n.items = DOMAIN book.items
      /\ \A o \in DOMAIN book.items : n.items[o].state = book.items[o].state
  BY DEF ItemsChange
<1>4. n.steers = book.steers
  BY DEF ItemsChange, Same, Fields
<1>5. StageStep(book, n)
  BY <1>1, <1>2, <1>3, <1>4, SameStages
<1>6. n.ex = book.ex /\ n.children = book.children
  BY DEF ItemsChange, Same, Fields
<1>7. AgentsKnown(n) /\ LeaseStep(book, n)
  BY <1>2, <1>6, LeasesLeftAlone
<1>8. Operation(book, n)
  BY <1>1, <1>2, <1>5, <1>7 DEF Operation, Quiet
<1>. QED
  BY <1>2, <1>8, RetainAll DEF Steady, Quiet

\* Operations on steering.
LEMMA SteersSteady ==
    ASSUME QueueInv, NEW n, SteersChange(book, n), StageStep(book, n),
           \/ n.nextOrdinal = book.nextOrdinal
           \/ OrdinalLeft /\ n.nextOrdinal = book.nextOrdinal + 1,
           pass # {} => n.items = book.items
    PROVE  RetainChildren(n) = n /\ Steady(n)
<1>1. Good(book, ChildRoles) /\ ReviewHeld(book)
  BY BookFacts
<1>2. /\ BookTypeOK(n, ChildRoles)
      /\ Retained(n)
      /\ Quiet(book, n)
      /\ OrderKept(book, n)
      /\ n.items = book.items => KeepsQueued(book, n)
  BY <1>1, SteersChangeEffect
<1>3. n.ex = book.ex /\ n.children = book.children
  BY DEF SteersChange, Same, Fields
<1>4. AgentsKnown(n) /\ LeaseStep(book, n)
  BY <1>3, LeasesLeftAlone
<1>5. n.nextOrdinal <= MaxOrdinal + 1
  BY BookFacts
<1>6. Operation(book, n)
  BY <1>1, <1>2, <1>4, <1>5 DEF Operation, Quiet
<1>. QED
  BY <1>2, <1>6, RetainAll DEF Steady, Quiet

\* Operations on leases.
LEMMA LeasesSteady ==
    ASSUME QueueInv, NEW n, LeasesChange(book, n, ChildRoles), NoLeaseTaken(book, n),
           n.nextOrdinal <= MaxOrdinal + 1, LeaseStep(book, n)
    PROVE  RetainChildren(n) = n /\ Steady(n)
<1>1. Good(book, ChildRoles) /\ ReviewHeld(book)
  BY BookFacts
<1>2. /\ BookTypeOK(n, ChildRoles)
      /\ Retained(n)
      /\ SameActive(book, n)
      /\ NoRunStarts(book, n)
      /\ ReviewHeld(book) => ReviewHeld(n)
      /\ PendingKept(book, n)
      /\ KeepsQueued(book, n)
      /\ OrderKept(book, n)
  BY <1>1, LeasesChangeEffect
<1>3. n.items = book.items /\ n.steers = book.steers /\ n.nextOrdinal \in Nat
      /\ book.nextOrdinal <= n.nextOrdinal /\ n.children = book.children
  BY DEF LeasesChange, Same, Fields
<1>4. StageStep(book, n)
  BY <1>1, <1>3, SameStages
<1>5. AgentsKnown(n)
  BY <1>3, BookFacts DEF AgentsKnown
<1>6. Operation(book, n)
  BY <1>1, <1>2, <1>4, <1>5 DEF Operation
<1>. QED
  BY <1>2, <1>6, RetainAll DEF Steady

\* Operations on children, in any state of theirs.
LEMMA ChildrenOperation ==
    ASSUME QueueInv, NEW n, ChildrenChange(book, n, ChildRoles), LeaseStep(book, n)
    PROVE  /\ RetainChildren(n) = n
           /\ Operation(book, n)
           /\ NoRunStarts(book, n)
           /\ KeepsQueued(book, n)
           /\ OrderKept(book, n)
           /\ ActiveRuns(n) = ActiveRuns(book)
<1>1. Good(book, ChildRoles) /\ ReviewHeld(book) /\ book.nextOrdinal \in Nat
      /\ book.nextOrdinal <= MaxOrdinal + 1
  BY BookFacts
<1>2. /\ BookTypeOK(n, ChildRoles)
      /\ Retained(n)
      /\ n.nextOrdinal = book.nextOrdinal
      /\ ActiveRuns(n) = ActiveRuns(book)
      /\ NoRunStarts(book, n)
      /\ ReviewHeld(book) => ReviewHeld(n)
      /\ PendingKept(book, n)
      /\ KeepsQueued(book, n)
      /\ OrderKept(book, n)
  BY <1>1, ChildrenChangeEffect
<1>3. n.items = book.items /\ n.steers = book.steers
  BY DEF ChildrenChange, Same, Fields
<1>4. StageStep(book, n)
  BY <1>1, <1>2, <1>3, SameStages
<1>5. AgentsKnown(n)
  BY BookFacts DEF AgentsKnown, ChildrenChange
<1>6. Operation(book, n)
  BY <1>1, <1>2, <1>4, <1>5 DEF Operation
<1>. QED
  BY <1>2, <1>6, RetainAll

\* Operations on children that start and end none.
LEMMA ChildrenSteady ==
    ASSUME QueueInv, NEW n, ChildrenChange(book, n, ChildRoles), LeaseStep(book, n),
           ActiveChildren(n) = ActiveChildren(book),
           suspended /\ faults = 0 => NoLeaseTaken(book, n)
    PROVE  RetainChildren(n) = n /\ Steady(n)
  BY ChildrenOperation DEF Steady, SameActive

-----------------------------------------------------------------------------
(* Commands on waiting work and steering *)

\* enqueue_in_book()
LEMMA EnqueueSteady ==
    ASSUME QueueInv, OrdinalLeft, NEW i \in ItemRecord, i.state = "Queued", i.blocked = "None",
           NEW n, n = EnqueueTo(book, i)
    PROVE  RetainChildren(n) = n /\ Steady(n)
<1>1. /\ Good(book, ChildRoles) /\ ReviewHeld(book) /\ book.nextOrdinal \in Nat
      /\ book.nextOrdinal + 1 <= MaxOrdinal + 1
  BY BookFacts
<1>2. /\ BookTypeOK(n, ChildRoles)
      /\ Retained(n)
      /\ n.nextOrdinal = book.nextOrdinal + 1
      /\ Quiet(book, n)
      /\ KeepsQueued(book, n)
      /\ OrderKept(book, n)
  BY <1>1, EnqueueEffect
<1>3. StageStep(book, n)
  BY <1>1, EnqueueStages
<1>4. n.ex = book.ex /\ n.children = book.children
  BY <1>1, GoodFacts DEF EnqueueTo, Fields
<1>5. AgentsKnown(n) /\ LeaseStep(book, n)
  BY <1>2, <1>4, LeasesLeftAlone
<1>6. Operation(book, n)
  BY <1>1, <1>2, <1>3, <1>5 DEF Operation, Quiet
<1>. QED
  BY <1>2, <1>6, RetainAll DEF Steady, Quiet

\* enqueue(), enqueue_workflow(), retry() and send next.
LEMMA EnqueueKeeps ==
    ASSUME QueueInv, OrdinalLeft, NEW p \in Projects, NEW t \in Transports,
           NEW w \in Tickets \cup {"None"}, NEW pred \in Nat,
           Mutate(EnqueueTo(book, NewItem(p, t, w, TRUE, pred)))
    PROVE  QueueInv' /\ StepOK
<1>1. PICK i : i = NewItem(p, t, w, TRUE, pred)
  OBVIOUS
<1>2. i \in ItemRecord /\ i.state = "Queued" /\ i.blocked = "None"
  BY <1>1 DEF NewItem, ItemRecord
<1>3. PICK n : n = EnqueueTo(book, i)
  OBVIOUS
<1>4. RetainChildren(n) = n /\ Steady(n)
  BY <1>2, <1>3, EnqueueSteady
<1>5. Mutate(n)
  BY <1>1, <1>3
<1>. QED
  BY <1>4, <1>5, MutateKeeps

\* The commands on waiting work.
LEMMA CommandKeeps == ASSUME QueueInv, CommandNext PROVE QueueInv' /\ StepOK
<1>g. Good(book, ChildRoles)
  BY BookFacts
<1>z. NoRun \in Nat
  BY DEF NoRun
<1>1. ASSUME NEW p \in Projects, NEW t \in Transports, Enqueue(p, t)
      PROVE  QueueInv' /\ StepOK
  BY <1>1, <1>z, EnqueueKeeps DEF Enqueue
<1>2. ASSUME NEW r \in Ids, EnqueueSendNext(r) PROVE QueueInv' /\ StepOK
  <2>1. /\ OrdinalLeft /\ r \in DOMAIN book.runs
        /\ Mutate(EnqueueTo(book, NewItem(book.runs[r].project, book.runs[r].transport,
                                          "None", TRUE, r)))
    BY <1>2 DEF EnqueueSendNext
  <2>2. book.runs[r] \in RunRecord /\ r \in Nat
    BY <1>g, <2>1, GoodFacts
  <2>3. book.runs[r].project \in Projects /\ book.runs[r].transport \in Transports
    BY <2>2 DEF RunRecord
  <2>. QED
    BY <2>1, <2>2, <2>3, EnqueueKeeps
<1>3. ASSUME NEW p \in Projects, NEW t \in Transports, NEW k \in Tickets, EnqueueWorkflow(p, t, k)
      PROVE  QueueInv' /\ StepOK
  BY <1>3, <1>z, EnqueueKeeps DEF EnqueueWorkflow
<1>4. ASSUME NEW r \in Ids, Retry(r) PROVE QueueInv' /\ StepOK
  <2>1. /\ OrdinalLeft /\ r \in DOMAIN book.runs
        /\ Mutate(EnqueueTo(book, NewItem(book.items[r].project, book.items[r].transport,
                                          "None", TRUE, NoRun)))
    BY <1>4 DEF Retry, RetryOk, RetryTo
  <2>2. book.items[r] \in ItemRecord
    BY <1>g, <2>1, GoodFacts
  <2>3. book.items[r].project \in Projects /\ book.items[r].transport \in Transports
    BY <2>2 DEF ItemRecord
  <2>. QED
    BY <1>z, <2>1, <2>2, <2>3, EnqueueKeeps
<1>5. ASSUME NEW o \in Ids, ReleaseHeld(o) PROVE QueueInv' /\ StepOK
  <2>1. PICK n : n = ReleaseHeldTo(book, o)
    OBVIOUS
  <2>2. pass = {} /\ ReleaseHeldOk(book, o) /\ Mutate(n)
    BY <1>5, <2>1 DEF ReleaseHeld, SchedulerFree
  <2>3. ItemsChange(book, n)
    BY <1>g, <2>1, <2>2, ReleaseHeldChange
  <2>4. RetainChildren(n) = n /\ Steady(n)
    BY <2>2, <2>3, ItemsSteady
  <2>. QED
    BY <2>2, <2>4, MutateKeeps
<1>6. ASSUME NEW t \in Transports, RebindWaitingTransport(t) PROVE QueueInv' /\ StepOK
  <2>1. PICK n : n = RebindWaitingTransportTo(book, t)
    OBVIOUS
  <2>2. Mutate(n)
    BY <1>6, <2>1 DEF RebindWaitingTransport
  <2>3. ItemsChange(book, n) /\ OrderKept(book, n)
    BY <1>g, <2>1, RebindChange
  <2>4. RetainChildren(n) = n /\ Steady(n)
    BY <2>3, ItemsSteady
  <2>. QED
    BY <2>2, <2>4, MutateKeeps
<1>7. ASSUME HoldForEngineChange PROVE QueueInv' /\ StepOK
  <2>1. PICK n : n = HoldForEngineChangeTo(book)
    OBVIOUS
  <2>2. Mutate(n)
    BY <1>7, <2>1 DEF HoldForEngineChange
  <2>3. ItemsChange(book, n) /\ OrderKept(book, n)
    BY <1>g, <2>1, HoldChange
  <2>4. RetainChildren(n) = n /\ Steady(n)
    BY <2>3, ItemsSteady
  <2>. QED
    BY <2>2, <2>4, MutateKeeps
<1>8. ASSUME NEW p \in Reviewed, NEW blocked \in BOOLEAN, SetReviewBlocked(p, blocked)
      PROVE  QueueInv' /\ StepOK
  <2>1. PICK n : n = SetReviewBlockedTo(book, p, blocked)
    OBVIOUS
  <2>2. Mutate(n)
    BY <1>8, <2>1 DEF SetReviewBlocked
  <2>3. p \in Projects
    BY PromptQueueAssumption
  <2>4. ItemsChange(book, n) /\ OrderKept(book, n)
    BY <1>g, <2>1, <2>3, SetReviewBlockedChange
  <2>5. RetainChildren(n) = n /\ Steady(n)
    BY <2>4, ItemsSteady
  <2>. QED
    BY <2>2, <2>5, MutateKeeps
<1>9. ASSUME NEW P \in SUBSET Reviewed, ReconcileReviewBlocks(P) PROVE QueueInv' /\ StepOK
  <2>1. PICK n : n = ReconcileReviewBlocksTo(book, P)
    OBVIOUS
  <2>2. Mutate(n)
    BY <1>9, <2>1 DEF ReconcileReviewBlocks
  <2>3. P \in SUBSET Projects
    BY PromptQueueAssumption
  <2>4. ItemsChange(book, n) /\ OrderKept(book, n)
    BY <1>g, <2>1, <2>3, ReconcileChange
  <2>5. RetainChildren(n) = n /\ Steady(n)
    BY <2>4, ItemsSteady
  <2>. QED
    BY <2>2, <2>5, MutateKeeps
<1>. QED
  BY <1>1, <1>2, <1>3, <1>4, <1>5, <1>6, <1>7, <1>8, <1>9 DEF CommandNext

\* The commands on steering.
LEMMA SteeringKeeps == ASSUME QueueInv, SteeringNext PROVE QueueInv' /\ StepOK
<1>g. /\ Good(book, ChildRoles) /\ book.nextOrdinal <= MaxOrdinal + 1
      /\ OrdinalLeft => book.nextOrdinal + 1 <= MaxOrdinal + 1
  BY BookFacts
<1>1. ASSUME NEW r \in Ids, EnqueueSteer(r) PROVE QueueInv' /\ StepOK
  <2>1. PICK trimmed \in TrimChoices(book.steers, MaxSteerRecords - 1) :
            EnqueueSteerOk(book, r, trimmed) /\ Mutate(EnqueueSteerTo(book, r, trimmed))
    BY <1>1 DEF EnqueueSteer
  <2>2. PICK n : n = EnqueueSteerTo(book, r, trimmed)
    OBVIOUS
  <2>3. /\ SteersChange(book, n)
        /\ n.items = book.items
        /\ n.nextOrdinal = book.nextOrdinal + 1
        /\ DOMAIN n.steers = (DOMAIN book.steers \ trimmed) \cup {book.nextOrdinal}
        /\ n.steers[book.nextOrdinal] =
                [project |-> book.runs[r].project, run |-> r, state |-> "Pending"]
        /\ \A x \in DOMAIN n.steers \ {book.nextOrdinal} : n.steers[x] = book.steers[x]
    BY <1>g, <2>1, <2>2, EnqueueSteerChange
  <2>4. StageStep(book, n)
    BY <1>g, <2>1, <2>2, EnqueueSteerStages
  <2>5. OrdinalLeft
    BY <1>1 DEF EnqueueSteer
  <2>6. RetainChildren(n) = n /\ Steady(n)
    BY <2>3, <2>4, <2>5, SteersSteady
  <2>. QED
    BY <2>1, <2>2, <2>6, MutateKeeps
<1>2. ASSUME NEW o \in Ids, NEW r \in Ids, SteerQueuedItem(o, r) PROVE QueueInv' /\ StepOK
  <2>1. PICK trimmed \in TrimChoices(Without(book.steers, {o}), MaxSteerRecords - 1) :
            SteerQueuedItemOk(book, o, r, trimmed) /\ Mutate(SteerQueuedItemTo(book, o, r, trimmed))
    BY <1>2 DEF SteerQueuedItem
  <2>2. PICK n : n = SteerQueuedItemTo(book, o, r, trimmed)
    OBVIOUS
  <2>3. /\ SteersChange(book, n)
        /\ n.nextOrdinal = book.nextOrdinal
        /\ n.items = Without(book.items, {o})
        /\ DOMAIN n.steers = (DOMAIN book.steers \ trimmed) \cup {o}
        /\ n.steers[o] = [project |-> book.items[o].project, run |-> r, state |-> "Pending"]
        /\ \A x \in DOMAIN n.steers \ {o} : n.steers[x] = book.steers[x]
    BY <1>g, <2>1, <2>2, SteerQueuedItemChange
  <2>4. StageStep(book, n)
    BY <1>g, <2>1, <2>2, SteerQueuedItemStages
  <2>5. pass = {}
    BY <1>2 DEF SteerQueuedItem, SchedulerFree
  <2>6. RetainChildren(n) = n /\ Steady(n)
    BY <1>g, <2>3, <2>4, <2>5, SteersSteady
  <2>. QED
    BY <2>1, <2>2, <2>6, MutateKeeps
<1>3. ASSUME NEW r \in Ids, SubmitPendingSteers(r) PROVE QueueInv' /\ StepOK
  <2>1. PICK n : n = SubmitPendingSteersTo(book, r)
    OBVIOUS
  <2>2. Mutate(n)
    BY <1>3, <2>1 DEF SubmitPendingSteers
  <2>3. SteersChange(book, n) /\ n.items = book.items /\ n.nextOrdinal = book.nextOrdinal
    BY ZenonT(40), <1>g, <2>1, SubmitChange
  <2>4. StageStep(book, n)
    BY <1>g, <2>1, SubmitStages
  <2>5. RetainChildren(n) = n /\ Steady(n)
    BY <1>g, <2>3, <2>4, SteersSteady
  <2>. QED
    BY <2>2, <2>5, MutateKeeps
<1>4. ASSUME NEW r \in Ids, NEW o \in Ids, NEW next \in DeliveryStates,
             RecordSteerDelivery(r, o, next)
      PROVE  QueueInv' /\ StepOK
  <2>1. PICK n : n = RecordSteerDeliveryTo(book, o, next)
    OBVIOUS
  <2>2. Mutate(n) /\ RecordSteerDeliveryOk(book, r, o, next)
    BY <1>4, <2>1 DEF RecordSteerDelivery
  <2>3. /\ StageStep(book, n)
        /\ SteersChange(book, n)
        /\ n.items = book.items /\ n.nextOrdinal = book.nextOrdinal
    BY <1>g, <2>1, <2>2, DeliveryStages
  <2>5. RetainChildren(n) = n /\ Steady(n)
    BY <1>g, <2>3, SteersSteady
  <2>. QED
    BY <2>2, <2>5, MutateKeeps
<1>. QED
  BY <1>1, <1>2, <1>3, <1>4 DEF SteeringNext

-----------------------------------------------------------------------------
(* Child families *)

\* A child or a run ends, or a child is admitted: saved.
LEMMA EndsSaved ==
    ASSUME QueueInv, NEW n, SavedBook(n), Operation(book, n),
           NoRunStarts(book, n), NoLeaseTaken(book, n), KeepsQueued(book, n), OrderKept(book, n),
           cancels' \in [DOMAIN cancels' -> BOOLEAN],
           DOMAIN cancels' = ActiveRuns(n) \cup ActiveChildren(n),
           pass' = pass, suspended' = suspended
    PROVE  QueueInv' /\ StepOK
<1>1. /\ BookOK(book) /\ PassOK(book, pass) /\ pass \subseteq Ids /\ suspended \in BOOLEAN
      /\ suspended /\ faults = 0 => AllStopped(book)
  BY DEF QueueInv, BooksInv, VolatileInv
<1>2. BookOK(n)
  BY DEF BookOK, Good, Operation, SavedBook
<1>3. PassOK(n, pass')
  BY <1>1, <1>2, PassKept
<1>4. suspended /\ faults = 0 => AllStopped(n)
  BY <1>1, StopsKept
<1>5. StartsInOrder(book, n)
  BY <1>1, NoStartInOrder
<1>. QED
  BY <1>1, <1>3, <1>4, <1>5, SavedKeeps

\* The same, reported as failed.
LEMMA EndsFaulty ==
    ASSUME QueueInv, NEW n, FaultyBook(n), Operation(book, n), NoRunStarts(book, n),
           cancels' = cancels, pass' = pass, suspended' = suspended
    PROVE  QueueInv' /\ StepOK
<1>1. BookOK(book) /\ suspended \in BOOLEAN
  BY DEF QueueInv, BooksInv, VolatileInv
<1>2. StartsInOrder(book, n)
  BY <1>1, NoStartInOrder
<1>. QED
  BY <1>1, <1>2, FaultyKeeps

\* A new handle.
LEMMA HandleAdded ==
    ASSUME NEW f, f \in [DOMAIN f -> BOOLEAN], NEW k, NEW g, g = Put(f, k, FALSE)
    PROVE  g \in [DOMAIN g -> BOOLEAN] /\ DOMAIN g = DOMAIN f \cup {k}
  BY DEF Put

\* A handle that is dropped.
LEMMA HandleDropped ==
    ASSUME NEW f, f \in [DOMAIN f -> BOOLEAN], NEW k, NEW g, g = Without(f, {k})
    PROVE  g \in [DOMAIN g -> BOOLEAN] /\ DOMAIN g = DOMAIN f \ {k}
  BY DEF Without

\* What admit_child() does to the leases is admit_child() of ModelLeases: the
\* worktree of an isolated child is never the workspace of its parent.
LEMMA AdmittedLease ==
    ASSUME NEW b, Good(b, ChildRoles), AgentsKnown(b), b.nextOrdinal <= MaxOrdinal,
           NEW r \in Ids, NEW a \in Admissions, AdmitChildRunOk(b, r, a),
           NEW n, ChildAdmitted(b, r, a, n, ChildRoles)
    PROVE  AgentsKnown(n) /\ LeaseStep(b, n)
<1>. DEFINE m == AdmittedMember(b, r, a)
            g == AgentOf(b, a)
<1>1. /\ b.nextOrdinal \in Ids
      /\ r \in DOMAIN b.runs /\ b.runs[r].project \in Projects
  <2>1. b.nextOrdinal \in Nat \ {0} /\ MaxOrdinal \in Nat
    BY GoodFacts, PromptQueueAssumption
  <2>. QED
    BY <2>1, GoodFacts DEF Ids, AdmitChildRunOk, RunningParent, RunRecord
<1>2. g \in Ids
  BY <1>1 DEF AgentOf, AdmitChildRunOk, ContinuationOk, AgentsKnown
<1>3. /\ m.family = r /\ m.project = b.runs[r].project
      /\ m.workspace = ChildWorkspace(b.runs[r].project, g, a.isolated)
      /\ m.role = a.role /\ m.snapshot = Snapshot /\ m.isolated = a.isolated
      /\ m.st = "Waiting" /\ m.ord = b.nextOrdinal
      /\ m = [family |-> r, project |-> b.runs[r].project,
              workspace |-> ChildWorkspace(b.runs[r].project, g, a.isolated),
              role |-> a.role, snapshot |-> Snapshot, isolated |-> a.isolated,
              st |-> "Waiting", ord |-> b.nextOrdinal]
  BY DEF AdmittedMember, ChildMember
<1>4. AdmitChildOk(b.ex, r, b.nextOrdinal, m, b.nextOrdinal)
  BY DEF AdmitChildRunOk
<1>5. n.ex = AdmitChildTo(b.ex, r, b.nextOrdinal, m) /\ n.nextOrdinal = b.nextOrdinal + 1
  BY DEF ChildAdmitted
<1>6. AgentsKnown(n)
  BY <1>2 DEF ChildAdmitted, AgentsKnown
<1>. HIDE DEF m, g
<1>7. m.workspace \in ({"project"} \X Projects) \cup ({"worktree"} \X Ids)
  BY <1>1, <1>2, <1>3 DEF ChildWorkspace, ProjectWorkspace
<1>8. m \in LeaseRecord(ChildRoles)
  <2>1. r \in Nat /\ b.nextOrdinal \in Nat /\ a.role \in ChildRoles /\ a.isolated \in BOOLEAN
    BY <1>1, PromptQueueAssumption DEF Ids, Admissions
  <2>2. m.workspace \in ({"project"} \X Projects) \cup ({"worktree"} \X Nat)
    BY <1>7, PromptQueueAssumption DEF Ids
  <2>. QED
    BY <1>1, <1>3, <2>1, <2>2 DEF LeaseRecord, LeaseStates
<1>9. SeparateWorktree(b.ex, r, m)
  <2>1. r \in DOMAIN b.ex.members /\ ~IsChild(b.ex.members[r])
    BY <1>4 DEF AdmitChildOk
  <2>2. b.ex.members[r].workspace = ProjectWorkspace(b.ex.members[r].project)
    BY <2>1 DEF Good, ValidateBook, BindingsValid
  <2>. QED
    BY <1>3, <2>2 DEF SeparateWorktree, ChildWorkspace, ProjectWorkspace
<1>10. /\ b.nextOrdinal <= MaxOrdinal
       /\ n.nextOrdinal = b.nextOrdinal + 1
       /\ \E x : /\ x \in LeaseRecord(ChildRoles)
                 /\ x.workspace \in ({"project"} \X Projects) \cup ({"worktree"} \X Ids)
                 /\ x.st = "Waiting" /\ x.ord = b.nextOrdinal
                 /\ AdmitChildOk(b.ex, r, b.nextOrdinal, x, b.nextOrdinal)
                 /\ SeparateWorktree(b.ex, r, x)
                 /\ n.ex = AdmitChildTo(b.ex, r, b.nextOrdinal, x)
  BY <1>3, <1>4, <1>5, <1>7, <1>8, <1>9
<1>11. LeaseStep(b, n)
  BY <1>10 DEF LeaseStep
<1>. QED
  BY <1>6, <1>11

\* admit_child()
LEMMA AdmitChildKeeps ==
    ASSUME QueueInv, NEW r \in Ids, NEW a \in Admissions, AdmitChild(r, a)
    PROVE  QueueInv' /\ StepOK
<1>1. PICK n : n = AdmitChildRunTo(book, r, a)
  OBVIOUS
<1>2. /\ Good(book, ChildRoles) /\ ReviewHeld(book) /\ book.nextOrdinal \in Nat
      /\ OrdinalLeft => book.nextOrdinal + 1 <= MaxOrdinal + 1
  BY BookFacts
<1>3. /\ OrdinalLeft /\ AdmitChildRunOk(book, r, a)
      /\ \/ Saved(n) /\ cancels' = Put(cancels, book.nextOrdinal, FALSE)
         \/ Faulty(n) /\ cancels' = cancels
      /\ pass' = pass /\ suspended' = suspended
  BY <1>1 DEF AdmitChild
<1>4. /\ a.role \in ChildRoles /\ a.isolated \in BOOLEAN /\ a.predecessor \in Nat
      /\ "None" \notin ChildRoles
  BY PromptQueueAssumption DEF Admissions
<1>a. ChildAdmitted(book, r, a, n, ChildRoles)
  BY <1>1, <1>2, <1>3, <1>4, AdmitChildEffect
<1>b. AgentsKnown(n) /\ LeaseStep(book, n)
  <2>1. AgentsKnown(book) /\ book.nextOrdinal <= MaxOrdinal
    BY <1>3, BookFacts DEF OrdinalLeft
  <2>. QED
    BY <1>2, <1>3, <1>a, <2>1, AdmittedLease
<1>5. /\ BookTypeOK(n, ChildRoles)
      /\ Retained(n)
      /\ n.nextOrdinal = book.nextOrdinal + 1
      /\ ActiveRuns(n) = ActiveRuns(book)
      /\ ActiveChildren(n) = ActiveChildren(book) \cup {book.nextOrdinal}
      /\ NoRunStarts(book, n)
      /\ NoLeaseTaken(book, n)
      /\ ReviewHeld(book) => ReviewHeld(n)
      /\ PendingKept(book, n)
      /\ KeepsQueued(book, n)
      /\ OrderKept(book, n)
      /\ n.items = book.items /\ n.steers = book.steers /\ n.runs = book.runs
  BY <1>a DEF ChildAdmitted
<1>6. StageStep(book, n)
  BY <1>2, <1>5, SameStages
<1>7. Operation(book, n)
  BY <1>2, <1>3, <1>5, <1>6, <1>b DEF Operation
<1>8. RetainChildren(n) = n
  BY <1>5, RetainAll
<1>9. CASE Saved(n) /\ cancels' = Put(cancels, book.nextOrdinal, FALSE)
  <2>1. SavedBook(n)
    BY <1>8, <1>9, MutateBook
  <2>2. cancels \in [DOMAIN cancels -> BOOLEAN]
        /\ DOMAIN cancels = ActiveRuns(book) \cup ActiveChildren(book)
    BY <2>1 DEF QueueInv, VolatileInv, SavedBook
  <2>3. /\ cancels' \in [DOMAIN cancels' -> BOOLEAN]
        /\ DOMAIN cancels' = DOMAIN cancels \cup {book.nextOrdinal}
    BY <1>9, <2>2, HandleAdded
  <2>4. DOMAIN cancels' = ActiveRuns(n) \cup ActiveChildren(n)
    BY <1>5, <2>2, <2>3
  <2>. QED
    BY <1>3, <1>5, <1>7, <2>1, <2>3, <2>4, EndsSaved
<1>10. CASE Faulty(n) /\ cancels' = cancels
  <2>1. FaultyBook(n)
    BY <1>8, <1>10, MutateBook
  <2>. QED
    BY <1>3, <1>5, <1>7, <1>10, <2>1, EndsFaulty
<1>. QED
  BY <1>3, <1>9, <1>10

\* finish_child()
LEMMA FinishChildKeeps ==
    ASSUME QueueInv, NEW c \in Ids, NEW outcome \in Outcomes, FinishChild(c, outcome)
    PROVE  QueueInv' /\ StepOK
<1>1. PICK n : n = FinishChildRunTo(book, c, outcome)
  OBVIOUS
<1>2. Good(book, ChildRoles)
  BY BookFacts
<1>3. /\ FinishChildRunOk(book, c, outcome)
      /\ \/ Saved(n) /\ cancels' = Without(cancels, {c})
         \/ Faulty(n) /\ cancels' = cancels
      /\ pass' = pass /\ suspended' = suspended
  BY <1>1 DEF FinishChild
<1>4. outcome \in CompletionStates
  BY PromptQueueAssumption
<1>5. /\ ChildrenChange(book, n, ChildRoles)
      /\ ActiveChildren(n) = ActiveChildren(book) \ {c}
      /\ NoLeaseTaken(book, n)
      /\ n.ex = FinishTo(book.ex, c)
  BY <1>1, <1>2, <1>3, <1>4, FinishChildChange
<1>6. /\ RetainChildren(n) = n
      /\ Operation(book, n)
      /\ NoRunStarts(book, n)
      /\ KeepsQueued(book, n)
      /\ OrderKept(book, n)
      /\ ActiveRuns(n) = ActiveRuns(book)
  <2>1. n.nextOrdinal = book.nextOrdinal
    BY <1>5 DEF ChildrenChange, Same, Fields
  <2>2. LeaseStep(book, n)
    BY <1>3, <1>5, <2>1 DEF LeaseStep, FinishChildRunOk
  <2>. QED
    BY <1>5, <2>2, ChildrenOperation
<1>7. CASE Saved(n) /\ cancels' = Without(cancels, {c})
  <2>1. SavedBook(n)
    BY <1>6, <1>7, MutateBook
  <2>2. cancels \in [DOMAIN cancels -> BOOLEAN]
        /\ DOMAIN cancels = ActiveRuns(book) \cup ActiveChildren(book)
    BY <2>1 DEF QueueInv, VolatileInv, SavedBook
  <2>3. /\ cancels' \in [DOMAIN cancels' -> BOOLEAN]
        /\ DOMAIN cancels' = DOMAIN cancels \ {c}
    BY <1>7, <2>2, HandleDropped
  <2>4. c \notin ActiveRuns(book)
    BY <1>2, <1>3 DEF FinishChildRunOk, ActiveChildren, ActiveRuns, Good, ValidateBook, ChildrenValid
  <2>5. DOMAIN cancels' = ActiveRuns(n) \cup ActiveChildren(n)
    BY <1>5, <1>6, <2>2, <2>3, <2>4
  <2>. QED
    BY <1>3, <1>5, <1>6, <2>1, <2>3, <2>5, EndsSaved
<1>8. CASE Faulty(n) /\ cancels' = cancels
  <2>1. FaultyBook(n)
    BY <1>6, <1>8, MutateBook
  <2>. QED
    BY <1>3, <1>6, <1>8, <2>1, EndsFaulty
<1>. QED
  BY <1>3, <1>7, <1>8

\* A parent that was asked to stop is no running parent.
LEMMA SuspendedRefuses ==
    ASSUME QueueInv, suspended, faults = 0, NEW r, RunningParent(book, r) PROVE FALSE
<1>1. AllStopped(book)
  BY DEF QueueInv, VolatileInv
<1>. QED
  BY <1>1 DEF AllStopped, RunningParent, ActiveRuns, ActiveRunStates

\* What the controller of a family calls.
LEMMA FamilyKeeps == ASSUME QueueInv, FamilyNext PROVE QueueInv' /\ StepOK
<1>g. /\ Good(book, ChildRoles) /\ book.nextOrdinal <= MaxOrdinal + 1
      /\ OrdinalLeft => book.nextOrdinal + 1 <= MaxOrdinal + 1
  BY BookFacts
<1>1. ASSUME NEW r \in Ids, NEW k \in 1 .. WorkflowCeiling, ConfigureFamily(r, k)
      PROVE  QueueInv' /\ StepOK
  <2>1. PICK w : w = ~IsChat(book, r)
    OBVIOUS
  <2>2. w \in BOOLEAN
    BY <2>1 DEF IsChat
  <2>3. ConfigureRunOk(book, r, w, k) /\ Mutate(ConfigureRunTo(book, r, w, k))
    BY <1>1, <2>1 DEF ConfigureFamily
  <2>4. PICK n : n = ConfigureRunTo(book, r, w, k)
    OBVIOUS
  <2>5. /\ LeasesChange(book, n, ChildRoles) /\ n.nextOrdinal = book.nextOrdinal
        /\ NoLeaseTaken(book, n) /\ n.ex = ConfigureFamilyTo(book.ex, r, w, k)
    BY <1>g, <2>2, <2>3, <2>4, ConfigureChange
  <2>6. LeaseStep(book, n)
    BY <2>2, <2>3, <2>5 DEF LeaseStep, ConfigureRunOk
  <2>7. RetainChildren(n) = n /\ Steady(n)
    BY <1>g, <2>5, <2>6, LeasesSteady
  <2>. QED
    BY <2>3, <2>4, <2>7, MutateKeeps
<1>2. ASSUME NEW r \in Ids, YieldParent(r) PROVE QueueInv' /\ StepOK
  <2>1. PICK n : n = YieldRunTo(book, r)
    OBVIOUS
  <2>2. YieldRunOk(book, r) /\ Mutate(n)
    BY <1>2, <2>1 DEF YieldParent
  <2>3. /\ LeasesChange(book, n, ChildRoles) /\ n.nextOrdinal = book.nextOrdinal
        /\ NoLeaseTaken(book, n) /\ n.ex = YieldParentTo(book.ex, r)
    BY <1>g, <2>1, <2>2, YieldChange
  <2>4. LeaseStep(book, n)
    BY <2>2, <2>3 DEF LeaseStep, YieldRunOk
  <2>5. RetainChildren(n) = n /\ Steady(n)
    BY <1>g, <2>3, <2>4, LeasesSteady
  <2>. QED
    BY <2>2, <2>5, MutateKeeps
<1>3. ASSUME NEW r \in Ids, RequestParentResume(r) PROVE QueueInv' /\ StepOK
  <2>1. PICK n : n = ResumeRunTo(book, r)
    OBVIOUS
  <2>2. OrdinalLeft /\ ResumeRunOk(book, r) /\ Mutate(n)
    BY <1>3, <2>1 DEF RequestParentResume
  <2>3. /\ LeasesChange(book, n, ChildRoles) /\ n.nextOrdinal = book.nextOrdinal + 1
        /\ NoLeaseTaken(book, n) /\ n.ex = RequestResumeTo(book.ex, r, book.nextOrdinal)
    BY <1>g, <2>1, <2>2, ResumeChange
  <2>4. LeaseStep(book, n)
    BY <2>2, <2>3 DEF LeaseStep, ResumeRunOk, OrdinalLeft
  <2>5. RetainChildren(n) = n /\ Steady(n)
    BY <1>g, <2>2, <2>3, <2>4, LeasesSteady
  <2>. QED
    BY <2>2, <2>5, MutateKeeps
<1>4. ASSUME NEW r \in Ids, NEW a \in Admissions, AdmitChild(r, a) PROVE QueueInv' /\ StepOK
  BY <1>4, AdmitChildKeeps
<1>5. ASSUME NEW r \in Ids, TryAcquireExecution(r) PROVE QueueInv' /\ StepOK
  <2>1. PICK n : n = AcquireRunTo(book, r)
    OBVIOUS
  <2>2. AcquireRunOk(book, r) /\ Mutate(n)
    BY <1>5, <2>1 DEF TryAcquireExecution
  <2>3. /\ ChildrenChange(book, n, ChildRoles)
        /\ ActiveChildren(n) = ActiveChildren(book)
        /\ n.ex = TryAcquireTo(book.ex, r)
    BY <1>g, <2>1, <2>2, AcquireChange
  <2>4. \E p : RunningParent(book, p)
    BY <2>2 DEF AcquireRunOk
  <2>5. suspended /\ faults = 0 => NoLeaseTaken(book, n)
    BY <2>4, SuspendedRefuses
  <2>6. LeaseStep(book, n)
    <3>1. TryAcquireOk(book.ex, r, {})
      BY <2>2 DEF AcquireRunOk, TryAcquireOk
    <3>2. n.nextOrdinal = book.nextOrdinal
      BY <2>3 DEF ChildrenChange, Same, Fields
    <3>. QED
      BY <2>3, <3>1, <3>2 DEF LeaseStep
  <2>7. RetainChildren(n) = n /\ Steady(n)
    BY <2>3, <2>5, <2>6, ChildrenSteady
  <2>. QED
    BY <2>2, <2>7, MutateKeeps
<1>6. ASSUME NEW r \in Ids, NEW c \in Ids, ReserveChildMessage(r, c) PROVE QueueInv' /\ StepOK
  <2>1. PICK n : n = ReserveMessageTo(book, r)
    OBVIOUS
  <2>2. ReserveMessageOk(book, r, c) /\ Mutate(n)
    BY <1>6, <2>1 DEF ReserveChildMessage
  <2>3. /\ LeasesChange(book, n, ChildRoles) /\ n.nextOrdinal = book.nextOrdinal
        /\ NoLeaseTaken(book, n) /\ n.ex = ReserveChildMessageTo(book.ex, r)
    BY <1>g, <2>1, <2>2, ReserveChange
  <2>4. LeaseStep(book, n)
    BY <2>2, <2>3 DEF LeaseStep, ReserveMessageOk
  <2>5. RetainChildren(n) = n /\ Steady(n)
    BY <1>g, <2>3, <2>4, LeasesSteady
  <2>. QED
    BY <2>2, <2>5, MutateKeeps
<1>7. ASSUME NEW c \in Ids, NEW pending \in BOOLEAN, ChildReviewResult(c, pending)
      PROVE  QueueInv' /\ StepOK
  <2>1. PICK n : n = ChildReviewResultTo(book, c, pending)
    OBVIOUS
  <2>2. ChildReviewResultOk(book, c, pending) /\ Mutate(n)
    BY <1>7, <2>1 DEF ChildReviewResult
  <2>3. /\ ChildrenChange(book, n, ChildRoles)
        /\ ActiveChildren(n) = ActiveChildren(book)
        /\ n.ex = book.ex
    BY <1>g, <2>1, <2>2, ReviewResultChange
  <2>4. NoLeaseTaken(book, n) /\ LeaseStep(book, n)
    BY <2>3 DEF NoLeaseTaken, LeaseStep, ChildrenChange, Same, Fields
  <2>5. RetainChildren(n) = n /\ Steady(n)
    BY <2>3, <2>4, ChildrenSteady
  <2>. QED
    BY <2>2, <2>5, MutateKeeps
<1>8. ASSUME NEW c \in Ids, NEW outcome \in Outcomes, FinishChild(c, outcome)
      PROVE  QueueInv' /\ StepOK
  BY <1>8, FinishChildKeeps
<1>9. ASSUME NEW c \in Ids, StopChild(c) PROVE QueueInv' /\ StepOK
  <2>1. PICK n : n = StopChildTo(book, c)
    OBVIOUS
  <2>2. /\ Saved(n) \/ Faulty(n)
        /\ cancels' = cancels /\ pass' = pass /\ suspended' = suspended
    BY <1>9, <2>1 DEF StopChild
  <2>3. /\ ChildrenChange(book, n, ChildRoles)
        /\ ActiveChildren(n) = ActiveChildren(book)
        /\ n.ex = book.ex
    BY <1>9, <1>g, <2>1, StopChildChange DEF StopChild
  <2>4. NoLeaseTaken(book, n) /\ LeaseStep(book, n)
    BY <2>3 DEF NoLeaseTaken, LeaseStep, ChildrenChange, Same, Fields
  <2>5. RetainChildren(n) = n /\ Steady(n)
    BY <2>3, <2>4, ChildrenSteady
  <2>6. cancels \in [DOMAIN cancels -> BOOLEAN] /\ suspended \in BOOLEAN
    BY DEF QueueInv, VolatileInv
  <2>7. SavedBook(n) \/ FaultyBook(n)
    BY <2>2, <2>5, MutateBook
  <2>8. CASE SavedBook(n)
    BY <2>2, <2>5, <2>6, <2>8, SteadySaved
  <2>9. CASE FaultyBook(n)
    BY <2>2, <2>5, <2>6, <2>9, SteadyFaulty
  <2>. QED
    BY <2>7, <2>8, <2>9
<1>. QED
  BY <1>1, <1>2, <1>3, <1>4, <1>5, <1>6, <1>7, <1>8, <1>9 DEF FamilyNext

-----------------------------------------------------------------------------
(* The scheduler pass, stops and completions *)

\* What schedule_available() reads is the oldest of each project.
LEMMA CandidatesOK ==
    ASSUME QueueInv, NEW projects
    PROVE  PassOK(book, Candidates(book, projects)) /\ Candidates(book, projects) \subseteq Ids
<1>1. /\ Good(book, ChildRoles) /\ book.nextOrdinal \in Nat
      /\ book.nextOrdinal <= MaxOrdinal + 1
  BY BookFacts
<1>2. \A o \in Queued(book) : o \in Nat /\ o \in 1 .. book.nextOrdinal - 1
  BY <1>1 DEF Queued, Good, ValidateBook, ItemsValid
<1>3. \A x \in EligibleOrdinals(book.ex) : x \in Nat
  <2>1. \A m \in DOMAIN book.ex.members : book.ex.members[m].ord \in Nat
    BY <1>1, GoodFacts DEF LeaseRecord
  <2>. QED
    BY <2>1 DEF EligibleOrdinals
<1>4. ASSUME NEW o \in Candidates(book, projects)
      PROVE  /\ o \in Queued(book) /\ Startable(book, o, projects)
             /\ ~ \E older \in Queued(book) :
                    /\ older < o
                    /\ book.items[older].project = book.items[o].project
                    /\ Startable(book, older, projects)
  BY <1>4 DEF Candidates
<1>5. ASSUME NEW o \in Candidates(book, projects), NEW older \in Queued(book), older < o,
             book.items[older].project = book.items[o].project, book.items[older].auto
      PROVE  FALSE
  <2>1. o \in Queued(book) /\ Startable(book, o, projects)
    BY <1>4
  <2>2. o \in Nat /\ older \in Nat
    BY <1>2, <2>1
  <2>3. ~ \E x \in EligibleOrdinals(book.ex) : x < older
    BY <1>3, <1>5, <2>1, <2>2 DEF Startable
  <2>4. Startable(book, older, projects)
    BY <1>5, <2>1, <2>3 DEF Startable
  <2>. QED
    BY <1>4, <1>5, <2>4
<1>6. ASSUME NEW o \in Candidates(book, projects), NEW p \in Candidates(book, projects),
             book.items[p].project = book.items[o].project
      PROVE  p = o
  <2>1. /\ o \in Queued(book) /\ book.items[o].auto
        /\ p \in Queued(book) /\ book.items[p].auto
    BY <1>4 DEF Startable
  <2>2. ~(p < o) /\ ~(o < p)
    BY <1>5, <1>6, <2>1
  <2>. QED
    BY <1>2, <2>1, <2>2
<1>7. Candidates(book, projects) \subseteq Ids
  <2>1. MaxOrdinal \in Nat
    BY PromptQueueAssumption
  <2>. QED
    BY <1>1, <1>2, <1>4, <2>1 DEF Ids
<1>8. \A o \in Candidates(book, projects) : NoOlder(book, o)
  BY <1>5 DEF NoOlder
<1>9. \A o \in Candidates(book, projects) :
        o \in Queued(book) /\ book.items[o].project \notin ActiveProjects(book)
  BY <1>4 DEF Startable
<1>. QED
  BY <1>6, <1>7, <1>8, <1>9 DEF PassOK

\* begin_run(): the pass works from an older reading of the book, and still
\* starts the oldest of the project.
LEMMA BeginRunKeeps ==
    ASSUME QueueInv, NEW o \in Ids, BeginRun(o)
    PROVE  QueueInv' /\ StepOK
<1>1. PICK n : n = BeginRunTo(book, o)
  OBVIOUS
<1>2. /\ Good(book, ChildRoles) /\ ReviewHeld(book)
      /\ book.nextOrdinal <= MaxOrdinal + 1
  BY BookFacts
<1>3. /\ o \in pass /\ ~suspended /\ BeginRunOk(book, o)
      /\ \/ Saved(n) /\ cancels' = Put(cancels, o, FALSE) /\ pass' = pass \ {o}
         \/ Faulty(n) /\ pass' = {} /\ cancels' = cancels
      /\ suspended' = suspended
  BY <1>1 DEF BeginRun, NextCandidate
<1>4. /\ BookTypeOK(n, ChildRoles)
      /\ Retained(n)
      /\ Same(book, n, Fields \ {"items", "runs", "ex"})
      /\ DOMAIN n.items = DOMAIN book.items
      /\ n.items[o].state = "Running"
      /\ \A x \in DOMAIN book.items \ {o} : n.items[x] = book.items[x]
      /\ o \notin DOMAIN book.runs
      /\ DOMAIN n.runs = DOMAIN book.runs \cup {o}
      /\ n.runs[o].project = book.items[o].project
      /\ \A r \in DOMAIN book.runs : n.runs[r] = book.runs[r]
      /\ ActiveRuns(n) = ActiveRuns(book) \cup {o}
      /\ ActiveChildren(n) = ActiveChildren(book)
      /\ ReviewHeld(book) => ReviewHeld(n)
      /\ PendingKept(book, n)
      /\ n.ex = AdmitParentTo(book.ex, o, book.items[o].project,
                              ProjectWorkspace(book.items[o].project))
  <2>1. Begun(book, o, n, ChildRoles)
    BY <1>1, <1>2, <1>3, BeginRunEffect
  <2>. QED
    BY <2>1 DEF Begun
<1>5. StageStep(book, n)
  BY <1>1, <1>2, <1>3, BeginRunStages
<1>6. n.nextOrdinal = book.nextOrdinal
  BY <1>4 DEF Same, Fields
<1>a. AgentsKnown(n)
  <2>1. AgentsKnown(book) /\ n.children = book.children
    BY <1>4, BookFacts DEF Same, Fields
  <2>. QED
    BY <2>1 DEF AgentsKnown
<1>b. LeaseStep(book, n)
  <2>1. book.items[o].project \in Projects /\ AdmitParentOk(book.ex, o, book.items[o].project)
    BY <1>2, <1>3, GoodFacts DEF BeginRunOk, Queued, ItemRecord
  <2>. QED
    BY <1>4, <1>6, <2>1 DEF LeaseStep
<1>7. Operation(book, n)
  BY <1>2, <1>4, <1>5, <1>6, <1>a, <1>b DEF Operation
<1>8. RetainChildren(n) = n
  BY <1>4, RetainAll
<1>9. PassOK(book, pass) /\ pass \subseteq Ids /\ BookOK(book) /\ suspended = FALSE
  BY <1>3 DEF QueueInv, VolatileInv, BooksInv
<1>10. StartsInOrder(book, n)
  <2>1. StartsInOrder(book, book) /\ NoOlder(book, o)
    BY <1>3, <1>9, SameBook DEF PassOK
  <2>. QED
    BY <1>4, <2>1 DEF StartsInOrder
<1>11. CASE Saved(n) /\ cancels' = Put(cancels, o, FALSE) /\ pass' = pass \ {o}
  <2>1. SavedBook(n)
    BY <1>8, <1>11, MutateBook
  <2>2. cancels \in [DOMAIN cancels -> BOOLEAN]
        /\ DOMAIN cancels = ActiveRuns(book) \cup ActiveChildren(book)
    BY <2>1 DEF QueueInv, VolatileInv, SavedBook
  <2>3. /\ cancels' \in [DOMAIN cancels' -> BOOLEAN]
        /\ DOMAIN cancels' = DOMAIN cancels \cup {o}
    BY <1>11, <2>2, HandleAdded
  <2>4. DOMAIN cancels' = ActiveRuns(n) \cup ActiveChildren(n)
    BY <1>4, <2>2, <2>3
  <2>5. Queued(n) = Queued(book) \ {o}
    BY <1>4 DEF Queued
  <2>6. \A x \in Queued(n) : n.items[x] = book.items[x]
    BY <1>4, <2>5 DEF Queued
  <2>7. ASSUME NEW x \in pass \ {o} PROVE n.items[x].project \notin ActiveProjects(n)
    <3>1. /\ x \in Queued(n) /\ n.items[x].project = book.items[x].project
          /\ book.items[x].project \notin ActiveProjects(book)
          /\ book.items[x].project # book.items[o].project
      BY <1>3, <1>9, <2>5, <2>6 DEF PassOK
    <3>2. \A r \in ActiveRuns(n) : n.runs[r].project # n.items[x].project
      BY <1>4, <3>1 DEF ActiveProjects, ActiveRuns
    <3>. QED
      BY <3>2 DEF ActiveProjects
  <2>8. \A x \in pass \ {o} : x \in Queued(n) /\ NoOlder(n, x)
    BY <1>9, <2>5, <2>6 DEF PassOK, NoOlder
  <2>9. PassOK(n, pass')
    BY <1>9, <1>11, <2>6, <2>7, <2>8 DEF PassOK
  <2>. QED
    BY <1>3, <1>7, <1>9, <1>10, <1>11, <2>1, <2>3, <2>4, <2>9, SavedKeeps
<1>12. CASE Faulty(n) /\ pass' = {} /\ cancels' = cancels
  <2>1. FaultyBook(n)
    BY <1>8, <1>12, MutateBook
  <2>. QED
    BY <1>3, <1>7, <1>9, <1>10, <1>12, <2>1, FaultyKeeps
<1>. QED
  BY <1>3, <1>11, <1>12

\* A recorded stop starts and ends nothing.
LEMMA StopSteady ==
    ASSUME QueueInv, NEW ids \in SUBSET ActiveRuns(book), NEW n, n = StopTo(book, ids)
    PROVE  /\ RetainChildren(n) = n
           /\ Steady(n)
           /\ NoLeaseTaken(book, n)
           /\ \A r \in ids : n.runs[r].state = "StopRequested"
<1>1. /\ Good(book, ChildRoles) /\ ReviewHeld(book) /\ book.nextOrdinal \in Nat
      /\ book.nextOrdinal <= MaxOrdinal + 1
  BY BookFacts
<1>2. /\ BookTypeOK(n, ChildRoles)
      /\ Retained(n)
      /\ n.nextOrdinal = book.nextOrdinal
      /\ Quiet(book, n)
      /\ KeepsQueued(book, n)
      /\ OrderKept(book, n)
      /\ DOMAIN n.runs = DOMAIN book.runs
      /\ \A r \in ids : n.runs[r].state = "StopRequested"
      /\ Same(book, n, Fields \ {"runs"})
  <2>1. StopRecorded(book, ids, n, ChildRoles)
    BY <1>1, StopEffect
  <2>. QED
    BY <2>1 DEF StopRecorded
<1>3. n.items = book.items /\ n.steers = book.steers
  BY <1>2 DEF Same, Fields
<1>4. StageStep(book, n)
  BY <1>1, <1>2, <1>3, SameStages
<1>5. AgentsKnown(n) /\ LeaseStep(book, n)
  <2>1. n.ex = book.ex /\ n.children = book.children
    BY <1>2 DEF Same, Fields
  <2>. QED
    BY <1>2, <2>1, LeasesLeftAlone
<1>6. Operation(book, n)
  BY <1>1, <1>2, <1>4, <1>5 DEF Operation, Quiet
<1>. QED
  BY <1>2, <1>6, RetainAll DEF Steady, Quiet

\* request_stop(), persist_stop_all_intents() and stop_workflow()
LEMMA RecordStopKeeps ==
    ASSUME QueueInv, NEW ids \in SUBSET ActiveRuns(book), RecordStop(ids)
    PROVE  QueueInv' /\ StepOK
<1>1. PICK n : n = StopTo(book, ids)
  OBVIOUS
<1>2. RetainChildren(n) = n /\ Steady(n)
  BY <1>1, StopSteady
<1>3. /\ Saved(n) \/ Faulty(n)
      /\ cancels' = cancels /\ pass' = pass /\ suspended' = suspended
  BY <1>1 DEF RecordStop
<1>4. cancels \in [DOMAIN cancels -> BOOLEAN] /\ suspended \in BOOLEAN
  BY DEF QueueInv, VolatileInv
<1>5. SavedBook(n) \/ FaultyBook(n)
  BY <1>2, <1>3, MutateBook
<1>6. CASE SavedBook(n)
  BY <1>2, <1>3, <1>4, <1>6, SteadySaved
<1>7. CASE FaultyBook(n)
  BY <1>2, <1>3, <1>4, <1>7, SteadyFaulty
<1>. QED
  BY <1>5, <1>6, <1>7

\* complete_run()
LEMMA CompleteRunKeeps ==
    ASSUME QueueInv, NEW r \in Ids, NEW completion \in Outcomes, CompleteRun(r, completion)
    PROVE  QueueInv' /\ StepOK
<1>1. PICK m : m = CompleteRunTo(book, r, completion)
  OBVIOUS
<1>2. PICK n : n = RetainChildren(m)
  OBVIOUS
<1>3. n = RetainChildren(CompleteRunTo(book, r, completion))
  BY <1>1, <1>2
<1>4. /\ Good(book, ChildRoles) /\ ReviewHeld(book)
      /\ book.nextOrdinal <= MaxOrdinal + 1
  BY BookFacts
<1>5. /\ CompleteRunOk(book, r)
      /\ \/ Saved(m) /\ cancels' = Without(cancels, {r})
         \/ Faulty(m) /\ cancels' = cancels
      /\ pass' = pass /\ suspended' = suspended
  BY <1>1 DEF CompleteRun
<1>6. completion \in CompletionStates
  BY PromptQueueAssumption
<1>7. /\ BookTypeOK(n, ChildRoles)
      /\ n.nextOrdinal = book.nextOrdinal
      /\ ActiveRuns(n) = ActiveRuns(book) \ {r}
      /\ ActiveChildren(n) = ActiveChildren(book)
      /\ NoRunStarts(book, n)
      /\ NoLeaseTaken(book, n)
      /\ ReviewHeld(book) => ReviewHeld(n)
      /\ PendingKept(book, n)
      /\ KeepsQueued(book, n)
      /\ OrderKept(book, n)
  BY <1>3, <1>4, <1>5, <1>6, CompleteRunEffect
<1>8. StageStep(book, n)
  BY <1>3, <1>4, <1>5, <1>6, CompleteRunStages
<1>a. CompletedBook(book, r, completion, n)
  BY <1>3, <1>4, <1>5, <1>6, CompletedRecords
<1>b. AgentsKnown(n)
  <2>1. AgentsKnown(book)
    BY BookFacts
  <2>. QED
    BY <1>a, <2>1 DEF CompletedBook, AgentsKnown
<1>c. LeaseStep(book, n)
  <2>1. n.ex = FinishTo(book.ex, r) /\ FinishOk(book.ex, r, TRUE)
    BY <1>5, <1>a DEF CompletedBook, CompleteRunOk
  <2>. QED
    BY <1>7, <2>1 DEF LeaseStep
<1>9. Operation(book, n)
  BY <1>4, <1>7, <1>8, <1>b, <1>c DEF Operation
<1>10. CASE Saved(m) /\ cancels' = Without(cancels, {r})
  <2>1. SavedBook(n)
    BY <1>2, <1>10, MutateBook
  <2>2. cancels \in [DOMAIN cancels -> BOOLEAN]
        /\ DOMAIN cancels = ActiveRuns(book) \cup ActiveChildren(book)
    BY <2>1 DEF QueueInv, VolatileInv, SavedBook
  <2>3. /\ cancels' \in [DOMAIN cancels' -> BOOLEAN]
        /\ DOMAIN cancels' = DOMAIN cancels \ {r}
    BY <1>10, <2>2, HandleDropped
  <2>4. r \notin ActiveChildren(book)
    BY <1>4, <1>5 DEF CompleteRunOk, ActiveChildren, ActiveRuns, Good, ValidateBook, ChildrenValid
  <2>5. DOMAIN cancels' = ActiveRuns(n) \cup ActiveChildren(n)
    BY <1>7, <2>2, <2>3, <2>4
  <2>. QED
    BY <1>5, <1>7, <1>9, <2>1, <2>3, <2>5, EndsSaved
<1>11. CASE Faulty(m) /\ cancels' = cancels
  <2>1. FaultyBook(n)
    BY <1>2, <1>11, MutateBook
  <2>. QED
    BY <1>5, <1>7, <1>9, <1>11, <2>1, EndsFaulty
<1>. QED
  BY <1>5, <1>10, <1>11

\* cancel_run_ids() marks the active children and signals the handles.
LEMMA CancelKeeps ==
    ASSUME QueueInv, NEW s \in signals, CancelRunIds(s) PROVE QueueInv' /\ StepOK
<1>1. PICK n : n = CancelRunIdsTo(book, s.ids)
  OBVIOUS
<1>2. Good(book, ChildRoles)
  BY BookFacts
<1>3. /\ ChildrenChange(book, n, ChildRoles)
      /\ ActiveChildren(n) = ActiveChildren(book)
      /\ n.ex = book.ex
  BY <1>1, <1>2, CancelChange
<1>4. NoLeaseTaken(book, n) /\ LeaseStep(book, n)
  BY <1>3 DEF NoLeaseTaken, LeaseStep, ChildrenChange, Same, Fields
<1>5. RetainChildren(n) = n /\ Steady(n)
  BY <1>3, <1>4, ChildrenSteady
<1>6. cancels \in [DOMAIN cancels -> BOOLEAN] /\ suspended \in BOOLEAN
  BY DEF QueueInv, VolatileInv
<1>7. pass' = pass /\ suspended' = suspended
  BY DEF CancelRunIds
<1>8. PICK selected : selected = CancelSelection(book, s.ids)
  OBVIOUS
<1>9. \/ /\ Saved(n)
         /\ \/ cancels' = [r \in DOMAIN cancels |-> cancels[r] \/ r \in selected]
            \/ cancels' = cancels
      \/ Faulty(n) /\ cancels' = cancels
  BY <1>1, <1>8 DEF CancelRunIds
<1>10. CASE Saved(n) /\ cancels' = [r \in DOMAIN cancels |-> cancels[r] \/ r \in selected]
  <2>1. SavedBook(n)
    BY <1>5, <1>10, MutateBook
  <2>2. DOMAIN cancels' = DOMAIN cancels
    BY <1>10
  <2>3. cancels' \in [DOMAIN cancels' -> BOOLEAN]
    BY <1>6, <1>10
  <2>. QED
    BY <1>5, <1>6, <1>7, <2>1, <2>2, <2>3, SteadySaved
<1>11. CASE Saved(n) /\ cancels' = cancels
  <2>1. SavedBook(n)
    BY <1>5, <1>11, MutateBook
  <2>. QED
    BY <1>5, <1>6, <1>7, <1>11, <2>1, SteadySaved
<1>12. CASE Faulty(n) /\ cancels' = cancels
  <2>1. FaultyBook(n)
    BY <1>5, <1>12, MutateBook
  <2>. QED
    BY <1>5, <1>6, <1>7, <1>12, <2>1, SteadyFaulty
<1>. QED
  BY <1>9, <1>10, <1>11, <1>12

\* remove_item()
LEMMA RemoveItemKeeps ==
    ASSUME QueueInv, NEW o \in Ids, RemoveItem(o) PROVE QueueInv' /\ StepOK
<1>1. PICK m : m = RemoveItemTo(book, o)
  OBVIOUS
<1>2. PICK n : n = RetainChildren(m)
  OBVIOUS
<1>3. n = RetainChildren(RemoveItemTo(book, o))
  BY <1>1, <1>2
<1>4. /\ Good(book, ChildRoles) /\ ReviewHeld(book)
      /\ book.nextOrdinal <= MaxOrdinal + 1
  BY BookFacts
<1>5. /\ RemoveItemOk(book, o) /\ pass = {}
      /\ Saved(m) \/ Faulty(m)
      /\ cancels' = cancels /\ pass' = pass /\ suspended' = suspended
  BY <1>1 DEF RemoveItem, SchedulerFree
<1>6. /\ BookTypeOK(n, ChildRoles)
      /\ n.nextOrdinal = book.nextOrdinal
      /\ Quiet(book, n)
      /\ OrderKept(book, n)
      /\ book.items[o].state = "Running" => n.items = book.items
      /\ book.items[o].state # "Running" => n.items = Without(book.items, {o})
      /\ n.steers = book.steers
      /\ n.ex = book.ex
      /\ \A c \in DOMAIN n.children :
            c \in DOMAIN book.children /\ n.children[c] = book.children[c]
  <2>1. ItemRemoved(book, o, n, ChildRoles)
    BY <1>3, <1>4, <1>5, RemoveItemEffect
  <2>. QED
    BY <2>1 DEF ItemRemoved
<1>7. StageStep(book, n)
  BY <1>3, <1>4, <1>5, RemoveItemStages
<1>a. AgentsKnown(n) /\ LeaseStep(book, n)
  BY <1>6, LeasesLeftAlone
<1>8. Operation(book, n)
  BY <1>4, <1>6, <1>7, <1>a DEF Operation, Quiet
<1>9. Steady(n)
  BY <1>5, <1>6, <1>8 DEF Steady, Quiet
<1>10. cancels \in [DOMAIN cancels -> BOOLEAN] /\ suspended \in BOOLEAN
  BY DEF QueueInv, VolatileInv
<1>11. SavedBook(n) \/ FaultyBook(n)
  BY <1>2, <1>5, MutateBook
<1>12. CASE SavedBook(n)
  BY <1>5, <1>9, <1>10, <1>12, SteadySaved
<1>13. CASE FaultyBook(n)
  BY <1>5, <1>9, <1>10, <1>13, SteadyFaulty
<1>. QED
  BY <1>11, <1>12, <1>13

\* persist_session_resign_intent()
LEMMA ResignKeeps == ASSUME QueueInv, ResignSession PROVE QueueInv' /\ StepOK
<1>1. PICK n : n = StopTo(book, ActiveRuns(book))
  OBVIOUS
<1>2. /\ RetainChildren(n) = n
      /\ Steady(n)
      /\ NoLeaseTaken(book, n)
      /\ \A r \in ActiveRuns(book) : n.runs[r].state = "StopRequested"
  BY <1>1, StopSteady
<1>3. /\ pass = {} /\ suspended' = TRUE /\ cancels' = cancels /\ pass' = pass
      /\ Saved(n) \/ Faulty(n)
  BY <1>1 DEF ResignSession, SchedulerFree
<1>4. /\ cancels \in [DOMAIN cancels -> BOOLEAN] /\ pass \subseteq Ids
      /\ BookOK(book)
      /\ available => DOMAIN cancels = ActiveRuns(book) \cup ActiveChildren(book)
  BY DEF QueueInv, BooksInv, VolatileInv
<1>5. /\ Operation(book, n) /\ SameActive(book, n) /\ NoRunStarts(book, n)
  BY <1>2 DEF Steady
<1>6. SavedBook(n) \/ FaultyBook(n)
  BY <1>2, <1>3, MutateBook
<1>7. CASE SavedBook(n)
  <2>1. DOMAIN cancels' = ActiveRuns(n) \cup ActiveChildren(n)
    BY <1>3, <1>4, <1>5, <1>7 DEF SameActive, SavedBook
  <2>2. AllStopped(n)
    BY <1>2, <1>5 DEF AllStopped, SameActive
  <2>3. PassOK(n, pass')
    BY <1>3 DEF PassOK
  <2>4. StartsInOrder(book, n)
    BY <1>4, <1>5, NoStartInOrder
  <2>. QED
    BY <1>2, <1>3, <1>4, <1>5, <1>7, <2>1, <2>2, <2>3, <2>4, SavedKeeps
<1>8. CASE FaultyBook(n)
  BY <1>2, <1>3, <1>8, SteadyFaulty
<1>. QED
  BY <1>6, <1>7, <1>8

\* mark_blocked()
LEMMA MarkBlockedKeeps ==
    ASSUME QueueInv, NEW o \in Ids, MarkBlocked(o) PROVE QueueInv' /\ StepOK
<1>1. PICK n : n = MarkBlockedTo(book, o)
  OBVIOUS
<1>2. Good(book, ChildRoles)
  BY BookFacts
<1>3. /\ MarkBlockedOk(book, o) /\ pass' \subseteq pass
      /\ Saved(n) \/ Faulty(n)
      /\ cancels' = cancels /\ suspended' = suspended
  BY <1>1 DEF MarkBlocked
<1>4. ItemsChange(book, n) /\ OrderKept(book, n)
  BY <1>1, <1>2, <1>3, MarkBlockedChange
<1>5. RetainChildren(n) = n /\ Steady(n)
  BY <1>4, ItemsSteady
<1>6. cancels \in [DOMAIN cancels -> BOOLEAN] /\ suspended \in BOOLEAN
  BY DEF QueueInv, VolatileInv
<1>7. SavedBook(n) \/ FaultyBook(n)
  BY <1>3, <1>5, MutateBook
<1>8. CASE SavedBook(n)
  BY <1>3, <1>5, <1>6, <1>8, SteadySaved
<1>9. CASE FaultyBook(n)
  BY <1>3, <1>5, <1>6, <1>9, SteadyFaulty
<1>. QED
  BY <1>7, <1>8, <1>9

\* The scheduler pass, stops, completions, removals and session changes.
LEMMA RunKeeps == ASSUME QueueInv, RunNext PROVE QueueInv' /\ StepOK
<1>f. /\ cancels \in [DOMAIN cancels -> BOOLEAN] /\ suspended \in BOOLEAN
      /\ pass \subseteq Ids /\ PassOK(book, pass)
  BY DEF QueueInv, VolatileInv
<1>1. ASSUME NEW projects, StartPass(projects) PROVE QueueInv' /\ StepOK
  <2>1. PassOK(book, pass') /\ pass' \subseteq Ids
    BY <1>1, CandidatesOK DEF StartPass
  <2>2. /\ book' = book /\ disk' = disk /\ available' = available /\ faults' = faults
        /\ cancels' = cancels /\ suspended' = suspended
    BY <1>1 DEF StartPass
  <2>. QED
    BY <1>f, <2>1, <2>2, BooksKept
<1>2. ASSUME NEW o \in Ids, MarkBlocked(o) PROVE QueueInv' /\ StepOK
  BY <1>2, MarkBlockedKeeps
<1>3. ASSUME NEW o \in Ids, BeginRun(o) PROVE QueueInv' /\ StepOK
  BY <1>3, BeginRunKeeps
<1>4. ASSUME AbandonPass PROVE QueueInv' /\ StepOK
  <2>1. /\ book' = book /\ disk' = disk /\ available' = available /\ faults' = faults
        /\ cancels' = cancels /\ suspended' = suspended /\ pass' = {}
    BY <1>4 DEF AbandonPass
  <2>2. PassOK(book, pass')
    BY <2>1 DEF PassOK
  <2>. QED
    BY <1>f, <2>1, <2>2, BooksKept
<1>5. ASSUME NEW p \in Projects, RequestStop(p) PROVE QueueInv' /\ StepOK
  <2>1. PICK r \in ActiveRuns(book) : RecordStop({r})
    BY <1>5 DEF RequestStop
  <2>. QED
    BY <2>1, RecordStopKeeps
<1>6. ASSUME RequestStopAll PROVE QueueInv' /\ StepOK
  BY <1>6, RecordStopKeeps DEF RequestStopAll
<1>7. ASSUME NEW r \in Ids, StopWorkflow(r) PROVE QueueInv' /\ StepOK
  <2>1. {r} \in SUBSET ActiveRuns(book) /\ RecordStop({r})
    BY <1>7 DEF StopWorkflow
  <2>. QED
    BY <2>1, RecordStopKeeps
<1>8. ASSUME NEW s \in signals, CancelRunIds(s) PROVE QueueInv' /\ StepOK
  BY <1>8, CancelKeeps
<1>9. ASSUME NEW s \in signals, CancelRefused(s) PROVE QueueInv' /\ StepOK
  <2>1. /\ book' = book /\ disk' = disk /\ available' = available /\ faults' = faults
        /\ cancels' = cancels /\ suspended' = suspended /\ pass' = pass
    BY <1>9 DEF CancelRefused
  <2>. QED
    BY <1>f, <2>1, BooksKept
<1>10. ASSUME NEW s \in signals, SignalRemoval(s) PROVE QueueInv' /\ StepOK
  <2>1. /\ book' = book /\ disk' = disk /\ available' = available /\ faults' = faults
        /\ suspended' = suspended /\ pass' = pass
        /\ cancels' = [r \in DOMAIN cancels |-> cancels[r] \/ r \in s.ids]
    BY <1>10 DEF SignalRemoval
  <2>2. DOMAIN cancels' = DOMAIN cancels
    BY <2>1
  <2>3. cancels' \in [DOMAIN cancels' -> BOOLEAN]
    BY <1>f, <2>1
  <2>. QED
    BY <1>f, <2>1, <2>2, <2>3, BooksKept
<1>11. ASSUME NEW r \in Ids, NEW completion \in Outcomes, CompleteRun(r, completion)
       PROVE  QueueInv' /\ StepOK
  BY <1>11, CompleteRunKeeps
<1>12. ASSUME NEW o \in Ids, RemoveItem(o) PROVE QueueInv' /\ StepOK
  BY <1>12, RemoveItemKeeps
<1>13. ASSUME ResignSession PROVE QueueInv' /\ StepOK
  BY <1>13, ResignKeeps
<1>14. ASSUME ActivateSession PROVE QueueInv' /\ StepOK
  <2>1. /\ book' = book /\ disk' = disk /\ available' = available /\ faults' = faults
        /\ cancels' = cancels /\ suspended' = FALSE /\ pass' = pass
    BY <1>14 DEF ActivateSession
  <2>. QED
    BY <1>f, <2>1, BooksKept
<1>. QED
  BY <1>1, <1>2, <1>3, <1>4, <1>5, <1>6, <1>7, <1>8, <1>9, <1>10, <1>11, <1>12, <1>13, <1>14
  DEF RunNext

-----------------------------------------------------------------------------
(* Restarts *)

\* A book that open() accepts was not about to remove a steered run.
LEMMA ReopenGood ==
    ASSUME NEW b, Good(b, ChildRoles), ReopenOk(b), NEW n, n = Reopened(b)
    PROVE  NoSteeredRemoval(b) /\ Recovered(b, n, ChildRoles)
<1>1. PICK g : g = Finalized(b)
  OBVIOUS
<1>2. FinalizedBook(b, g, ChildRoles)
  BY <1>1, FinalizeShape DEF Finalized
<1>3. n = RecoverSteersTo(g)
  BY <1>1 DEF Reopened
<1>4. CASE ~ReopenChanges(b)
  <2>1. NoSteeredRemoval(b)
    BY <1>4 DEF ReopenChanges, NoSteeredRemoval, RemovedOnOpen
  <2>. QED
    BY <1>2, <1>3, <2>1, RecoverShape
<1>5. CASE ReopenChanges(b)
  <2>1. ValidateBook(n)
    BY <1>5 DEF ReopenOk
  <2>2. PICK U : U = UnsettledTerminalRuns(g)
    OBVIOUS
  <2>3. U \subseteq DOMAIN g.runs
    BY <2>2 DEF UnsettledTerminalRuns
  <2>4. /\ DOMAIN g = Fields
        /\ g.steers = b.steers
        /\ g.items \in [DOMAIN b.items \ RemovedOnOpen(b) -> ItemRecord]
        /\ DOMAIN g.runs = DOMAIN b.runs \ RemovedOnOpen(b)
    BY <1>2 DEF FinalizedBook
  <2>5. /\ b.steers \in [DOMAIN b.steers -> SteerRecord]
        /\ PendingSteers(b) \cap DOMAIN b.items = {}
        /\ \A r \in DOMAIN b.runs : r \in DOMAIN b.items
    BY GoodFacts, PendingNotQueued DEF Good, BookTypeOK
  <2>6. PromotedBy(g, U) \cap DOMAIN g.items = {}
    BY <2>4, <2>5 DEF PromotedBy, PendingSteers
  <2>7. \A o \in DOMAIN g.steers : g.steers[o].run \in U => g.steers[o].run \in DOMAIN g.items
    BY <2>3, <2>4, <2>5
  <2>8. n = PromoteTo(g, U)
    BY <1>3, <2>2 DEF RecoverSteersTo
  <2>9. Promotion(g, U, n)
    BY <2>4, <2>5, <2>6, <2>7, <2>8, PromoteShape
  <2>10. /\ DOMAIN n.steers = DOMAIN b.steers
         /\ \A o \in DOMAIN b.steers : n.steers[o].run = b.steers[o].run
         /\ n.runs = g.runs
    BY <2>4, <2>9 DEF Promotion, Same, Fields
  <2>11. NoSteeredRemoval(b)
    BY <2>1, <2>4, <2>10 DEF ValidateBook, SteeringValid, NoSteeredRemoval
  <2>. QED
    BY <1>2, <1>3, <2>11, RecoverShape
<1>. QED
  BY <1>4, <1>5

\* What a reopened book is to the file it was made from.
Reopening(b, n) ==
    /\ BookOK(n)
    /\ ActiveRuns(n) = {} /\ ActiveChildren(n) = {}
    /\ StageStep(b, n)
    /\ PendingKept(b, n)
    /\ DOMAIN n.runs \subseteq DOMAIN b.runs
    /\ n.ex = EmptyBook /\ n.nextOrdinal = b.nextOrdinal
    /\ ~ReopenChanges(b) => Same(b, n, Fields)

\* open() makes such a book of every file it accepts.
LEMMA ReopenedBook ==
    ASSUME NEW b, BookOK(b), ReopenOk(b), NEW n, n = Reopened(b)
    PROVE  Reopening(b, n)
<1>1. Good(b, ChildRoles) /\ ReviewHeld(b) /\ b.nextOrdinal <= MaxOrdinal + 1
  BY DEF BookOK
<1>2. NoSteeredRemoval(b) /\ Recovered(b, n, ChildRoles)
  BY <1>1, ReopenGood
<1>3. /\ BookTypeOK(n, ChildRoles)
      /\ ActiveRuns(n) = {}
      /\ ActiveChildren(n) = {}
      /\ PendingSteers(n) = {}
      /\ HeldRuns(n.ex) = {}
      /\ ReviewHeld(n)
      /\ PendingKept(b, n)
  BY <1>1, <1>2, RecoverEffect
<1>4. ValidateBook(n)
  BY <1>1, <1>2, RecoveredValid
<1>5. n.nextOrdinal = b.nextOrdinal /\ DOMAIN n.runs \subseteq DOMAIN b.runs
      /\ n.ex = EmptyBook
  BY <1>2 DEF Recovered
<1>a. AgentsKnown(n)
  <2>1. \A c \in DOMAIN b.children : b.children[c] \in ChildRecord(ChildRoles)
    BY <1>1 DEF Good, BookTypeOK
  <2>2. ASSUME NEW c \in DOMAIN n.children PROVE n.children[c].agent = b.children[c].agent
    <3>1. \/ n.children[c] = b.children[c]
          \/ n.children[c] = [b.children[c] EXCEPT !.state = "Interrupted"]
      BY <1>2 DEF Recovered
    <3>2. b.children[c] \in ChildRecord(ChildRoles)
      BY <1>2, <2>1 DEF Recovered
    <3>. QED
      BY <3>1, <3>2 DEF ChildRecord
  <2>3. DOMAIN n.children \subseteq DOMAIN b.children
    BY <1>2 DEF Recovered
  <2>. QED
    BY <2>2, <2>3 DEF BookOK, AgentsKnown
<1>6. BookOK(n)
  BY <1>1, <1>3, <1>4, <1>5, <1>a DEF BookOK, Good
<1>7. StageStep(b, n)
  BY <1>1, <1>2, RecoverStages
<1>8. ASSUME ~ReopenChanges(b) PROVE Same(b, n, Fields)
  <2>1. PICK g : g = Finalized(b)
    OBVIOUS
  <2>2. FinalizedBook(b, g, ChildRoles)
    BY <1>1, <2>1, FinalizeShape DEF Finalized
  <2>3. ActiveRuns(b) = {} /\ b.removeAfterStop = {} /\ UnsettledTerminalRuns(g) = {}
    BY <1>8, <2>1 DEF ReopenChanges
  <2>4. \A o \in DOMAIN b.steers :
            b.steers[o].state \in {"Pending", "Submitted", "AcknowledgedByCli"}
                => b.steers[o].run \in UnsettledTerminalRuns(g)
    BY <1>1, <1>2, <2>2, FinalizedPromotes
  <2>5. \A o \in DOMAIN b.steers :
            b.steers[o].state \notin {"Pending", "Submitted", "AcknowledgedByCli"}
    BY <2>3, <2>4
  <2>. QED
    BY <1>1, <1>2, <2>3, <2>5, RecoveredSame
<1>. QED
  BY <1>3, <1>5, <1>6, <1>7, <1>8 DEF Reopening

\* Two books that agree are the same to every message.
LEMMA AgreeingBooks ==
    ASSUME NEW b, BookOK(b), NEW n, Same(b, n, Fields)
    PROVE  /\ StageStep(n, b) /\ StartsInOrder(n, b) /\ PendingKept(n, b)
           /\ Same(n, b, Fields)
<1>1. /\ n.items = b.items /\ n.steers = b.steers /\ n.nextOrdinal = b.nextOrdinal
      /\ n.runs = b.runs /\ n.children = b.children
  BY DEF Same, Fields
<1>2. \A o : StageIn(n, o) = StageIn(b, o)
  BY <1>1 DEF StageIn
<1>3. StageStep(n, b)
  BY <1>2 DEF StageStep, Moved
<1>4. Queued(n) = Queued(b) /\ \A o : NoOlder(n, o) <=> NoOlder(b, o)
  BY <1>1 DEF Queued, NoOlder
<1>5. StartsInOrder(b, b)
  BY SameBook
<1>6. StartsInOrder(n, b)
  BY <1>4, <1>5 DEF StartsInOrder
<1>7. Same(n, b, Fields)
  BY DEF Same
<1>8. PendingKept(n, b)
  BY <1>1 DEF PendingKept
<1>. QED
  BY <1>3, <1>6, <1>7, <1>8

\* The app stops and is started again.
LEMMA RestartKeeps == ASSUME QueueInv, Restart PROVE QueueInv' /\ StepOK
<1>1. /\ BookOK(book) /\ BookOK(disk) /\ StartsInOrder(book, disk) /\ StageStep(book, disk)
      /\ PendingKept(book, disk)
      /\ faults \in 0 .. MaxFaults /\ (faults = 0 => Same(book, disk, Fields))
  BY DEF QueueInv, BooksInv
<1>2. /\ cancels' = [r \in {} |-> FALSE] /\ pass' = {} /\ suspended' = FALSE
      /\ faults' = faults
  BY DEF Restart
<1>3. cancels' \in [DOMAIN cancels' -> BOOLEAN] /\ DOMAIN cancels' = {}
  BY <1>2
<1>4. PassOK(book', pass')
  BY <1>2 DEF PassOK
<1>5. faults = 0 => /\ book.children = disk.children /\ book.items = disk.items
                    /\ book.steers = disk.steers /\ book.ex = disk.ex
                    /\ book.nextOrdinal = disk.nextOrdinal
  BY <1>1 DEF Same, Fields
<1>a. faults = 0 => \A o : StageIn(book, o) = StageIn(disk, o)
  BY <1>5 DEF StageIn
<1>6. CASE ~ReopenOk(disk)
  <2>1. available' = FALSE /\ book' = disk /\ disk' = disk
    BY <1>6 DEF Restart
  <2>2. /\ StageStep(disk, disk) /\ StartsInOrder(disk, disk) /\ PendingKept(disk, disk)
        /\ Same(disk, disk, Fields)
    BY <1>1, SameBook
  <2>3. BooksInv'
    BY <1>1, <1>2, <2>1, <2>2 DEF BooksInv
  <2>4. VolatileInv'
    BY <1>2, <1>3, <1>4, <2>1 DEF VolatileInv
  <2>5. \A o \in Ids : /\ Moved(StageIn(book, o), StageIn(disk, o))
                       /\ Moved(StageIn(disk, o), StageIn(disk, o))
    BY <1>1, <2>2 DEF StageStep
  <2>6. faults' = 0 => StageStep(book, disk) /\ LeaseStep(book, disk)
    BY <1>1, <1>2, <1>5 DEF LeaseStep
  <2>7. RestartKeepsPending
    BY <1>1, <2>1 DEF RestartKeepsPending, PendingKept
  <2>8. StepOK
    BY <1>1, <1>2, <2>1, <2>5, <2>6, <2>7, MovesNeverRepeat DEF StepOK
  <2>. QED
    BY <2>3, <2>4, <2>8 DEF QueueInv
<1>7. CASE ReopenOk(disk)
  <2>1. PICK n : n = Reopened(disk)
    OBVIOUS
  <2>2. available' = TRUE /\ book' = n /\ disk' = IF ReopenChanges(disk) THEN n ELSE disk
    BY <1>7, <2>1 DEF Restart
  <2>3. Reopening(disk, n)
    BY <1>1, <1>7, <2>1, ReopenedBook
  <2>4. /\ BookOK(disk') /\ StageStep(n, disk') /\ StartsInOrder(n, disk')
        /\ PendingKept(n, disk') /\ Same(n, disk', Fields)
    <3>1. CASE ReopenChanges(disk)
      BY <2>2, <2>3, <3>1, SameBook DEF Reopening
    <3>2. CASE ~ReopenChanges(disk)
      BY <1>1, <2>2, <2>3, <3>2, AgreeingBooks DEF Reopening
    <3>. QED
      BY <3>1, <3>2
  <2>5. BooksInv'
    BY <1>1, <1>2, <2>2, <2>3, <2>4 DEF BooksInv, Reopening
  <2>6. VolatileInv'
    BY <1>2, <1>3, <1>4, <2>2, <2>3 DEF VolatileInv, Reopening
  <2>7. \A o \in Ids : /\ Moved(StageIn(book, o), StageIn(disk, o))
                       /\ Moved(StageIn(disk, o), StageIn(n, o))
    BY <1>1, <2>3 DEF StageStep, Reopening
  <2>8. faults' = 0 => StageStep(book, n) /\ LeaseStep(book, n)
    <3>2. faults' = 0 => StageStep(book, n)
      BY <1>2, <1>a, <2>7 DEF StageStep
    <3>3. faults' = 0 => LeaseStep(book, n)
      BY <1>2, <1>5, <2>3 DEF LeaseStep, Reopening
    <3>. QED
      BY <3>2, <3>3
  <2>9. StartsInOrder(book, n)
    BY <1>1, <2>3 DEF StartsInOrder, Reopening
  <2>10. RestartKeepsPending
    BY <1>1, <1>2, <2>2, <2>3 DEF RestartKeepsPending, PendingKept, Reopening
  <2>11. StepOK
    BY <1>2, <2>2, <2>7, <2>8, <2>9, <2>10, MovesNeverRepeat DEF StepOK
  <2>. QED
    BY <2>5, <2>6, <2>11 DEF QueueInv
<1>. QED
  BY <1>6, <1>7

-----------------------------------------------------------------------------
(* The inductive invariant *)

\* A new book is valid.
LEMMA EmptyQueueOK == BookOK(EmptyQueue)
<1>1. PICK b : b = EmptyQueue
  OBVIOUS
<1>2. /\ b = [f \in Fields |-> b[f]]
      /\ b.nextOrdinal = 1 /\ b.reviewBlocked = {} /\ b.removeAfterStop = {}
      /\ b.items = [o \in {} |-> 0] /\ b.runs = [o \in {} |-> 0]
      /\ b.steers = [o \in {} |-> 0] /\ b.children = [o \in {} |-> 0]
      /\ b.ex = EmptyBook
  BY <1>1 DEF EmptyQueue, Fields
<1>3. /\ DOMAIN b.items = {} /\ DOMAIN b.runs = {} /\ DOMAIN b.steers = {}
      /\ DOMAIN b.children = {}
  BY <1>2
<1>4. /\ LeasesOK(EmptyBook, ChildRoles)
      /\ DOMAIN EmptyBook.members = {} /\ DOMAIN EmptyBook.budgets = {}
      /\ HeldRuns(EmptyBook) = {} /\ Roots(EmptyBook) = {}
      /\ Validate(EmptyBook)
  BY EmptyLeases
<1>5. /\ b.items \in [DOMAIN b.items -> ItemRecord]
      /\ b.runs \in [DOMAIN b.runs -> RunRecord]
      /\ b.steers \in [DOMAIN b.steers -> SteerRecord]
      /\ b.children \in [DOMAIN b.children -> ChildRecord(ChildRoles)]
  BY <1>2
<1>6. BookTypeOK(b, ChildRoles)
  BY <1>2, <1>3, <1>4, <1>5 DEF BookTypeOK, Fields, LeasesOK
<1>7. ActiveRuns(b) = {} /\ ActiveChildren(b) = {} /\ PendingSteers(b) = {} /\ ActiveProjects(b) = {}
  BY <1>3 DEF ActiveRuns, ActiveChildren, PendingSteers, ActiveProjects
<1>8. CountsValid(b)
  <2>1. Cardinality(DOMAIN b.items) = 0 /\ Cardinality(DOMAIN b.steers) = 0
        /\ Cardinality(PendingSteers(b)) = 0
    BY <1>3, <1>7, FS_EmptySet
  <2>2. b.nextOrdinal # 0 /\ 0 <= MaxSteerRecords /\ 0 + 0 <= MaxQueueItems
    BY <1>2, QueueBookAssumption
  <2>. QED
    BY <2>1, <2>2 DEF CountsValid
<1>9. ItemsValid(b) /\ SteeringValid(b) /\ ItemRunStates(b)
  BY <1>2, <1>3 DEF ItemsValid, SteeringValid, ItemRunStates
<1>10. RunsValid(b)
  BY <1>3, <1>7, FS_EmptySet, QueueBookAssumption DEF RunsValid
<1>11. ChildrenValid(b)
  BY <1>3, FS_EmptySet, QueueBookAssumption DEF ChildrenValid
<1>12. BindingsValid(b)
  BY <1>2, <1>4, <1>7 DEF BindingsValid
<1>13. ReviewHeld(b) /\ AgentsKnown(b) /\ b.nextOrdinal <= MaxOrdinal + 1
  BY <1>2, <1>3, PromptQueueAssumption DEF ReviewHeld, AgentsKnown
<1>. QED
  BY <1>1, <1>6, <1>8, <1>9, <1>10, <1>11, <1>12, <1>13 DEF BookOK, Good, ValidateBook

\* The coordinator starts in the invariant.
LEMMA QueueInvInit == PromptQueueInit => QueueInv
<1>. SUFFICES ASSUME PromptQueueInit PROVE QueueInv
  OBVIOUS
<1>1. /\ book = EmptyQueue /\ disk = EmptyQueue /\ faults = 0 /\ pass = {}
      /\ suspended = FALSE /\ available = TRUE /\ cancels = [r \in {} |-> FALSE]
  BY DEF PromptQueueInit
<1>2. BookOK(book)
  BY <1>1, EmptyQueueOK
<1>3. BooksInv
  <2>1. faults \in 0 .. MaxFaults
    BY <1>1, PromptQueueAssumption
  <2>. QED
    BY <1>1, <1>2, <2>1, SameBook DEF BooksInv
<1>4. DOMAIN EmptyQueue.runs = {} /\ DOMAIN EmptyQueue.children = {}
  BY DEF EmptyQueue
<1>5. ActiveRuns(book) = {} /\ ActiveChildren(book) = {}
  BY <1>1, <1>4 DEF ActiveRuns, ActiveChildren
<1>6. cancels \in [DOMAIN cancels -> BOOLEAN] /\ DOMAIN cancels = {}
  BY <1>1
<1>7. PassOK(book, pass)
  BY <1>1 DEF PassOK
<1>. QED
  BY <1>1, <1>3, <1>5, <1>6, <1>7 DEF QueueInv, VolatileInv

\* Every step keeps it and does nothing that StepOK forbids.
LEMMA QueueStep ==
    ASSUME QueueInv, [PromptQueueNext]_vars PROVE QueueInv' /\ StepOK
<1>1. CASE UNCHANGED vars
  <2>1. /\ book' = book /\ disk' = disk /\ available' = available /\ faults' = faults
        /\ cancels' = cancels /\ suspended' = suspended /\ pass' = pass
    BY <1>1 DEF vars, volatile
  <2>2. /\ cancels \in [DOMAIN cancels -> BOOLEAN] /\ suspended \in BOOLEAN
        /\ pass \subseteq Ids /\ PassOK(book, pass)
    BY DEF QueueInv, VolatileInv
  <2>. QED
    BY <2>1, <2>2, BooksKept
<1>. QED
  BY <1>1, CommandKeeps, SteeringKeeps, RunKeeps, FamilyKeeps, RestartKeeps DEF PromptQueueNext

\* The inductive invariant: the book in memory and the one in the file are
\* both valid, the file is at most one operation ahead (a replacement reported
\* as failed after its rename), handles, pass and suspension fit the book.
THEOREM QueueInvariant == PromptQueueSpec => []QueueInv
<1>1. PromptQueueInit => QueueInv
  BY QueueInvInit
<1>2. QueueInv /\ [PromptQueueNext]_vars => QueueInv'
  BY QueueStep
<1>. QED
  BY <1>1, <1>2, PTL DEF PromptQueueSpec

-----------------------------------------------------------------------------
(* What follows *)

\* Types: the records of the book, of the registry of handles and of the pass.
THEOREM QueueTypeCorrect == PromptQueueSpec => []PromptQueueTypeOK
<1>1. QueueInv => PromptQueueTypeOK
  BY DEF QueueInv, BooksInv, VolatileInv, BookOK, Good, PromptQueueTypeOK
<1>. QED
  BY <1>1, QueueInvariant, PTL

\* Exactly the active runs and children have a cancellation handle, so every
\* stop finds the handle it must signal (begin_run, admit_child, complete_run,
\* finish_child).
THEOREM HandlesMatch == PromptQueueSpec => []HandlesMatchActiveWork
<1>1. QueueInv => HandlesMatchActiveWork
  BY DEF QueueInv, VolatileInv, HandlesMatchActiveWork
<1>. QED
  BY <1>1, QueueInvariant, PTL

\* Pending changes of an ended family block their project, however the family
\* ended (complete_run, recover_interrupted, set_review_blocked).
THEOREM ReviewBlocks == PromptQueueSpec => []PendingReviewBlocksProject
<1>1. QueueInv => PendingReviewBlocksProject
  BY DEF QueueInv, BooksInv, BookOK, ReviewHeld, PendingReviewBlocksProject
<1>. QED
  BY <1>1, QueueInvariant, PTL

\* While the session is locked every active run has its stop recorded: the
\* pass cannot slip a run past the flag (persist_session_resign_intent,
\* begin_run).
THEOREM SuspensionStops == PromptQueueSpec => []SuspensionStopsAllRuns
<1>1. QueueInv => SuspensionStopsAllRuns
  BY DEF QueueInv, VolatileInv, AllStopped, SuspensionStopsAllRuns
<1>. QED
  BY <1>1, QueueInvariant, PTL

\* complete_run() is accepted on every good book.
LEMMA CompletionAccepted ==
    ASSUME NEW b, Good(b, ChildRoles), NEW r \in ActiveRuns(b),
           FinishOk(b.ex, r, TRUE), ~SteeredRemoval(b, r)
    PROVE  /\ CompleteRunOk(b, r)
           /\ \A completion \in CompletionStates :
                ValidateBook(RetainChildren(CompleteRunTo(b, r, completion)))
<1>1. CompleteRunOk(b, r)
  BY CompletionSettles
<1>2. r \in RemovedBy(b, r) => SteersOf(b, r) = {}
  BY DEF RemovedBy, SteeredRemoval
<1>3. ASSUME NEW completion \in CompletionStates
      PROVE  ValidateBook(RetainChildren(CompleteRunTo(b, r, completion)))
  <2>1. PICK n : n = RetainChildren(CompleteRunTo(b, r, completion))
    OBVIOUS
  <2>2. ValidateBook(n)
    BY <1>1, <1>2, <2>1, CompletedValid
  <2>. QED
    BY <2>1, <2>2
<1>. QED
  BY <1>1, <1>3

\* A run whose family has ended can always be completed: the slot its pending
\* steering reserved is there and the settled book validates, unless the run
\* was steered and its task is to be removed (complete_run).
THEOREM CompletionAlwaysAccepted == PromptQueueSpec => []CompletionNeverRefused
<1>1. QueueInv => CompletionNeverRefused
  <2>. SUFFICES ASSUME QueueInv, NEW r \in ActiveRuns(book),
                       FinishOk(book.ex, r, TRUE), ~SteeredRemoval(book, r)
                PROVE  /\ CompleteRunOk(book, r)
                       /\ \A completion \in CompletionStates :
                            ValidateBook(RetainChildren(CompleteRunTo(book, r, completion)))
    BY DEF CompletionNeverRefused
  <2>1. Good(book, ChildRoles)
    BY BookFacts
  <2>. QED
    BY <2>1, CompletionAccepted
<1>. QED
  BY <1>1, QueueInvariant, PTL

\* open() accepts every good book without a steered run to be removed.
LEMMA ReopenAccepted ==
    ASSUME NEW b, Good(b, ChildRoles), \A r \in b.removeAfterStop : ~SteeredRemoval(b, r)
    PROVE  ReopenOk(b)
<1>1. NoSteeredRemoval(b)
  BY DEF NoSteeredRemoval, RemovedOnOpen, SteeredRemoval, SteersOf
<1>2. PICK g : g = Finalized(b)
  OBVIOUS
<1>3. PICK n : n = RecoverSteersTo(g)
  OBVIOUS
<1>4. FinalizedBook(b, g, ChildRoles)
  BY <1>2, FinalizeShape DEF Finalized
<1>5. RecoverSteersOk(g)
  BY <1>1, <1>4, RecoverSteersNeverRefused
<1>6. Recovered(b, n, ChildRoles)
  BY <1>1, <1>3, <1>4, RecoverShape
<1>7. ValidateBook(n)
  BY <1>1, <1>6, RecoveredValid
<1>. QED
  BY <1>2, <1>3, <1>5, <1>7 DEF ReopenOk, Reopened

\* Whatever point the app stops at, open() makes a valid book of the file it
\* finds, unless a steered run was to be removed.
THEOREM RestartAlwaysRecovers == PromptQueueSpec => []RestartRecovers
<1>1. QueueInv => RestartRecovers
  <2>. SUFFICES ASSUME QueueInv, \A r \in disk.removeAfterStop : ~SteeredRemoval(disk, r)
                PROVE  ReopenOk(disk)
    BY DEF RestartRecovers
  <2>1. Good(disk, ChildRoles)
    BY DEF QueueInv, BooksInv, BookOK
  <2>. QED
    BY <2>1, ReopenAccepted
<1>. QED
  BY <1>1, QueueInvariant, PTL

\* No step drops the record of a child with pending changes, failed
\* replacements included, but a restart on a file in which they are reviewed
\* (remove_item, complete_run, finalize_requested_removals, mutate, open).
THEOREM PendingReviewNeverDropped == PromptQueueSpec => PendingReviewKept
<1>1. QueueInv /\ [PromptQueueNext]_vars => [RestartKeepsPending]_vars
  BY QueueStep DEF StepOK
<1>. QED
  BY <1>1, QueueInvariant, PTL DEF PromptQueueSpec, PendingReviewKept, RestartKeepsPending

\* No message is started twice and none a provider may have seen goes back to
\* the queue, failed replacements and restarts included (begin_run,
\* complete_run, submit_pending_steers, open).
THEOREM NoWorkRepeats == PromptQueueSpec => WorkNeverRepeats
<1>1. QueueInv /\ [PromptQueueNext]_vars =>
        [\A o \in Ids :
            /\ StageOf(o) \in {"Running", "Ended"} =>
                    StageOf(o)' \in {"Running", "Ended", "Removed"}
            /\ StageOf(o) \in {"Handed", "Settled"} =>
                    StageOf(o)' \in {"Handed", "Settled", "Removed"}]_vars
  <2>. SUFFICES ASSUME QueueInv, [PromptQueueNext]_vars, NEW o \in Ids
                PROVE  /\ StageOf(o) \in {"Running", "Ended"} =>
                              StageOf(o)' \in {"Running", "Ended", "Removed"}
                       /\ StageOf(o) \in {"Handed", "Settled"} =>
                              StageOf(o)' \in {"Handed", "Settled", "Removed"}
    OBVIOUS
  <2>1. StepOK
    BY QueueStep
  <2>2. StageOf(o) = StageIn(book, o) /\ StageOf(o)' = StageIn(book', o)
    BY DEF StageOf, StageIn
  <2>. QED
    BY <2>1, <2>2 DEF StepOK
<1>. QED
  BY <1>1, QueueInvariant, PTL DEF PromptQueueSpec, WorkNeverRepeats

\* No run starts while an older message of its project is free to start
\* (schedule_available, release_held, complete_run).
THEOREM ProjectsStartInOrder == PromptQueueSpec => ProjectOrderKept
<1>1. QueueInv /\ [PromptQueueNext]_vars =>
        [\A o \in Queued(book) :
            o \in DOMAIN book'.runs =>
                ~ \E older \in Queued(book) :
                    /\ older < o
                    /\ book.items[older].project = book.items[o].project
                    /\ book.items[older].auto]_vars
  <2>. SUFFICES ASSUME QueueInv, [PromptQueueNext]_vars, NEW o \in Queued(book),
                       o \in DOMAIN book'.runs
                PROVE  NoOlder(book, o)
    BY DEF NoOlder
  <2>1. StepOK
    BY QueueStep
  <2>. QED
    BY <2>1 DEF StepOK, StartsInOrder
<1>. QED
  BY <1>1, QueueInvariant, PTL DEF PromptQueueSpec, ProjectOrderKept

\* No run, continuation or child is given a model lease while the session
\* stays locked, as long as no replacement of the file failed after its rename
\* (try_acquire_execution, running_parent).
THEOREM LockedSessionTakesNoLease == PromptQueueSpec => NoLeaseWhileSuspended
<1>1. QueueInv /\ [PromptQueueNext]_vars =>
        [suspended /\ suspended' /\ faults = 0 =>
            \A r \in HeldRuns(book'.ex) : r \in HeldRuns(book.ex)]_vars
  <2>. SUFFICES ASSUME QueueInv, [PromptQueueNext]_vars, suspended, suspended', faults = 0
                PROVE  \A r \in HeldRuns(book'.ex) : r \in HeldRuns(book.ex)
    OBVIOUS
  <2>1. StepOK
    BY QueueStep
  <2>. QED
    BY <2>1 DEF StepOK, NoLeaseTaken
<1>. QED
  BY <1>1, QueueInvariant, PTL DEF PromptQueueSpec, NoLeaseWhileSuspended

=============================================================================
