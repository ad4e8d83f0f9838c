----------------------------- MODULE PromptQueue -----------------------------
(***************************************************************************)
(* QueueCoordinator (grok-build-tauri/src/queue.rs): the prompt book of    *)
(* QueueBook behind one state mutex, its file, the registry of             *)
(* cancellation handles, the scheduler pass that holds the scheduler mutex *)
(* while it starts work, and the app restarting at any point.              *)
(*                                                                         *)
(* Every operation goes through mutate(): the closure's result is kept     *)
(* only if validate_book() accepts it and the file is replaced; otherwise  *)
(* the book is as before.  A refused operation changes nothing and is      *)
(* therefore no step.  A replacement can also fail after its rename (the   *)
(* directory sync): memory is then rolled back although the file already   *)
(* holds the new book.  Faulty(new) is that outcome.                       *)
(*                                                                         *)
(* The cleanup proof of a handle is external: complete_run() and           *)
(* finish_child() take effect only once the run's processes are reaped,    *)
(* which here may be any time.                                             *)
(***************************************************************************)
EXTENDS QueueBook

CONSTANTS
    ChildRoles,    \* PlusChildRole
    AgentsEnabled, \* projects whose AgentSettings allow child agents
    Reviewed,      \* projects whose own review outcome changes
    SessionSwitches, \* bound of this model: the macOS session is locked and unlocked
    Outcomes,      \* bound of this model: how runs and children end
    MaxOrdinal,    \* bound of this model: positions handed out
    MaxSignals,    \* bound of this model: stop requests not yet signalled
    MaxRestarts,   \* bound of this model: restarts of the app
    MaxFaults      \* bound of this model: replacements that fail after renaming

ASSUME PromptQueueAssumption ==
    /\ "None" \notin ChildRoles
    /\ AgentsEnabled \subseteq Projects
    /\ Reviewed \subseteq Projects
    /\ SessionSwitches \in BOOLEAN
    /\ Outcomes \subseteq CompletionStates
    /\ MaxOrdinal \in Nat
    /\ MaxSignals \in Nat
    /\ MaxRestarts \in Nat
    /\ MaxFaults \in Nat

VARIABLES
    book,        \* CoordinatorState.book, when available
    available,   \* book is Ok
    disk,        \* the book in plus-queue.json
    cancels,     \* cancellation registry: id :> the handle was signalled
    pass,        \* candidates the current scheduler pass has still to handle
    signals,     \* recorded stop requests that have not been signalled yet
    suspended,   \* lifecycle_suspended
    restarts,
    faults

volatile == <<cancels, pass, signals, suspended>>

vars == <<book, available, disk, volatile, restarts, faults>>

PromptQueueInit ==
    /\ book = EmptyQueue
    /\ available = TRUE
    /\ disk = EmptyQueue
    /\ cancels = [r \in {} |-> FALSE]
    /\ pass = {}
    /\ signals = {}
    /\ suspended = FALSE
    /\ restarts = 0
    /\ faults = 0

-----------------------------------------------------------------------------
(* mutate() *)

\* Validated and saved.
Saved(new) ==
    /\ available
    /\ ValidateBook(RetainChildren(new))
    /\ book' = RetainChildren(new)
    /\ disk' = book'
    /\ UNCHANGED <<available, restarts, faults>>

\* Validated and renamed into place, then reported as failed.
Faulty(new) ==
    /\ available
    /\ faults < MaxFaults
    /\ ValidateBook(RetainChildren(new))
    /\ disk' = RetainChildren(new)
    /\ faults' = faults + 1
    /\ UNCHANGED <<book, available, restarts>>

Mutate(new) == (Saved(new) \/ Faulty(new)) /\ UNCHANGED volatile

\* A stop request: cancel_run_ids() takes the children along, remove_item()
\* signals its run alone and still holds the scheduler mutex.
Signal(ids, family) == [ids |-> ids, family |-> family]

\* The scheduler mutex is free.
SchedulerFree == pass = {} /\ \A s \in signals : s.family

OrdinalLeft == book.nextOrdinal <= MaxOrdinal

SignalLeft == Cardinality(signals) < MaxSignals

-----------------------------------------------------------------------------
(* Commands on waiting work *)

Enqueue(project, transport) ==
    /\ OrdinalLeft
    /\ EnqueueOk(book)
    /\ Mutate(EnqueueTo(book, NewItem(project, transport, "None", TRUE, NoRun)))

EnqueueSendNext(pred) ==
    /\ OrdinalLeft
    /\ pred \in DOMAIN book.runs
    /\ LET run == book.runs[pred]
       IN  /\ EnqueueSendNextOk(book, run.project, run.transport, pred)
           /\ Mutate(EnqueueTo(book, NewItem(run.project, run.transport, "None", TRUE, pred)))

EnqueueWorkflow(project, transport, ticket) ==
    /\ SchedulerFree
    /\ OrdinalLeft
    /\ EnqueueWorkflowOk(book, ticket)
    /\ Mutate(EnqueueTo(book, NewItem(project, transport, ticket, TRUE, NoRun)))

Retry(run) ==
    /\ SchedulerFree
    /\ OrdinalLeft
    /\ RetryOk(book, run)
    /\ Mutate(RetryTo(book, run))

\* Mutant: the scheduler mutex is not taken.
ReleaseHeldUnlocked(o) ==
    /\ ReleaseHeldOk(book, o)
    /\ Mutate(ReleaseHeldTo(book, o))

ReleaseHeld(o) ==
    /\ SchedulerFree
    /\ ReleaseHeldOk(book, o)
    /\ Mutate(ReleaseHeldTo(book, o))

RebindWaitingTransport(transport) ==
    /\ RebindWaitingTransportTo(book, transport) # book
    /\ Mutate(RebindWaitingTransportTo(book, transport))

HoldForEngineChange ==
    /\ SchedulerFree
    /\ ~suspended
    /\ HoldForEngineChangeOk(book)
    /\ HoldForEngineChangeTo(book) # book
    /\ Mutate(HoldForEngineChangeTo(book))

SetReviewBlocked(project, blocked) ==
    /\ SetReviewBlockedTo(book, project, blocked) # book
    /\ Mutate(SetReviewBlockedTo(book, project, blocked))

ReconcileReviewBlocks(projects) ==
    /\ ReconcileReviewBlocksTo(book, projects) # book
    /\ Mutate(ReconcileReviewBlocksTo(book, projects))

-----------------------------------------------------------------------------
(* Steering *)

EnqueueSteer(run) ==
    /\ OrdinalLeft
    /\ \E trimmed \in TrimChoices(book.steers, MaxSteerRecords - 1) :
        /\ EnqueueSteerOk(book, run, trimmed)
        /\ Mutate(EnqueueSteerTo(book, run, trimmed))

SteerQueuedItem(o, run) ==
    /\ SchedulerFree
    /\ \E trimmed \in TrimChoices(Without(book.steers, {o}), MaxSteerRecords - 1) :
        /\ SteerQueuedItemOk(book, o, run, trimmed)
        /\ Mutate(SteerQueuedItemTo(book, o, run, trimmed))

SubmitPendingSteers(run) ==
    /\ SubmitPendingSteersOk(book, run)
    /\ Mutate(SubmitPendingSteersTo(book, run))

RecordSteerDelivery(run, o, next) ==
    /\ RecordSteerDeliveryOk(book, run, o, next)
    /\ Mutate(RecordSteerDeliveryTo(book, o, next))

-----------------------------------------------------------------------------
(* The scheduler pass: schedule_available() under the scheduler mutex *)

\* schedule_available() looks at every project, or at one after a held message
\* of it was released.
StartPass(projects) ==
    /\ available
    /\ SchedulerFree
    /\ ~suspended
    /\ pass' = Candidates(book, projects)
    /\ pass' # {}
    /\ UNCHANGED <<book, available, disk, cancels, signals, suspended, restarts, faults>>

NextCandidate(o) == o \in pass /\ \A other \in pass : o <= other

\* prepare_queued_run() failed and the pass goes on.
MarkBlocked(o) ==
    /\ NextCandidate(o)
    /\ MarkBlockedOk(book, o)
    /\ \/ Saved(MarkBlockedTo(book, o)) /\ pass' = pass \ {o}
       \/ Faulty(MarkBlockedTo(book, o)) /\ pass' = {}
    /\ UNCHANGED <<cancels, signals, suspended>>

\* The registry lock is held across the durable Running transition, so the
\* handle is there before any stop can look for it.
BeginRun(o) ==
    /\ NextCandidate(o)
    /\ ~suspended
    /\ BeginRunOk(book, o)
    /\ \/ /\ Saved(BeginRunTo(book, o))
          /\ cancels' = Put(cancels, o, FALSE)
          /\ pass' = pass \ {o}
       \/ /\ Faulty(BeginRunTo(book, o))
          /\ pass' = {}
          /\ UNCHANGED cancels
    /\ UNCHANGED <<signals, suspended>>

\* A refused begin_run(), a refused mark_blocked() or an error in between
\* ends the pass.
AbandonPass ==
    /\ pass # {}
    /\ pass' = {}
    /\ UNCHANGED <<book, available, disk, cancels, signals, suspended, restarts, faults>>

-----------------------------------------------------------------------------
(* Stopping, completing and removing runs *)

\* The intent is durable first; the mutex is released before the signal.
RecordStop(runs) ==
    /\ SignalLeft
    /\ \/ Saved(StopTo(book, runs)) /\ signals' = signals \cup {Signal(runs, TRUE)}
       \/ Faulty(StopTo(book, runs)) /\ UNCHANGED signals
    /\ UNCHANGED <<cancels, pass, suspended>>

RequestStop(project) ==
    \E r \in ActiveRuns(book) : book.runs[r].project = project /\ RecordStop({r})

RequestStopAll == ActiveRuns(book) # {} /\ RecordStop(ActiveRuns(book))

StopWorkflow(r) ==
    /\ SchedulerFree
    /\ r \in ActiveRuns(book)
    /\ ~IsChat(book, r)
    /\ RecordStop({r})

\* Signals the requested runs and their active children, all or none; a
\* failed call is not repeated.
CancelRunIds(s) ==
    /\ s \in signals /\ s.family
    /\ CancelRunIdsOk(book, s.ids)
    /\ LET selected == CancelSelection(book, s.ids)
       IN  \/ /\ Saved(CancelRunIdsTo(book, s.ids))
              /\ cancels' = IF selected \subseteq DOMAIN cancels
                            THEN [r \in DOMAIN cancels |-> cancels[r] \/ r \in selected]
                            ELSE cancels
           \/ Faulty(CancelRunIdsTo(book, s.ids)) /\ UNCHANGED cancels
    /\ signals' = signals \ {s}
    /\ UNCHANGED <<pass, suspended>>

CancelRefused(s) ==
    /\ s \in signals /\ s.family
    /\ ~CancelRunIdsOk(book, s.ids)
    /\ signals' = signals \ {s}
    /\ UNCHANGED <<book, available, disk, cancels, pass, suspended, restarts, faults>>

SignalRemoval(s) ==
    /\ s \in signals /\ ~s.family
    /\ cancels' = [r \in DOMAIN cancels |-> cancels[r] \/ r \in s.ids]
    /\ signals' = signals \ {s}
    /\ UNCHANGED <<book, available, disk, pass, suspended, restarts, faults>>

\* Mutant: the handle is dropped although the completion was rolled back.
CompleteRunForgets(r, completion) ==
    /\ r \in DOMAIN cancels
    /\ CompleteRunOk(book, r)
    /\ Saved(CompleteRunTo(book, r, completion)) \/ Faulty(CompleteRunTo(book, r, completion))
    /\ cancels' = Without(cancels, {r})
    /\ UNCHANGED <<pass, signals, suspended>>

\* The worker read is_stop_requested() before this call, so a run that is
\* stopped meanwhile may end with any outcome, one that is not cannot end as
\* Stopped.
CompleteRun(r, completion) ==
    /\ r \in DOMAIN cancels
    /\ CompleteRunOk(book, r)
    /\ completion = "Stopped" => book.runs[r].state = "StopRequested"
    /\ \/ /\ Saved(CompleteRunTo(book, r, completion))
          /\ cancels' = Without(cancels, {r})
       \/ Faulty(CompleteRunTo(book, r, completion)) /\ UNCHANGED cancels
    /\ UNCHANGED <<pass, signals, suspended>>

\* A running task is asked to stop; its signal follows.
RemoveItem(o) ==
    /\ SchedulerFree
    /\ SignalLeft
    /\ RemoveItemOk(book, o)
    /\ \/ /\ Saved(RemoveItemTo(book, o))
          /\ signals' = IF book.items[o].state = "Running"
                        THEN signals \cup {Signal({o}, FALSE)} ELSE signals
       \/ Faulty(RemoveItemTo(book, o)) /\ UNCHANGED signals
    /\ UNCHANGED <<cancels, pass, suspended>>

\* persist_session_resign_intent(): suspended and every intent recorded under
\* the scheduler mutex; the cancellations follow.
ResignSession ==
    /\ SessionSwitches
    /\ SchedulerFree
    /\ SignalLeft
    /\ ~suspended
    /\ suspended' = TRUE
    /\ \/ /\ Saved(StopTo(book, ActiveRuns(book)))
          /\ signals' = IF ActiveRuns(book) = {} THEN signals
                        ELSE signals \cup {Signal(ActiveRuns(book), TRUE)}
       \/ Faulty(StopTo(book, ActiveRuns(book))) /\ UNCHANGED signals
    /\ UNCHANGED <<cancels, pass>>

ActivateSession ==
    /\ suspended
    /\ suspended' = FALSE
    /\ UNCHANGED <<book, available, disk, cancels, pass, signals, restarts, faults>>

-----------------------------------------------------------------------------
(* Child families: FamilyController calls these from the parent's run.  The *)
(* suspension flag is read before the registry lock is taken and may be     *)
(* stale when the book is changed, so no action here depends on it.         *)

Admissions == [role : ChildRoles, isolated : BOOLEAN, predecessor : 0 .. MaxOrdinal]

\* FamilyController::new(): a workflow brings its own budget, a chat has a
\* controller only where child agents are enabled.
ConfigureFamily(r, maximum) ==
    /\ RunningParent(book, r)
    /\ IsChat(book, r) => book.runs[r].project \in AgentsEnabled
    /\ ConfigureRunOk(book, r, ~IsChat(book, r), maximum)
    /\ Mutate(ConfigureRunTo(book, r, ~IsChat(book, r), maximum))

HasController(r) == r \in DOMAIN book.ex.budgets

YieldParent(r) ==
    /\ HasController(r)
    /\ YieldRunOk(book, r)
    /\ Mutate(YieldRunTo(book, r))

RequestParentResume(r) ==
    /\ HasController(r)
    /\ OrdinalLeft
    /\ ResumeRunOk(book, r)
    /\ Mutate(ResumeRunTo(book, r))

AdmitChild(parent, admission) ==
    /\ OrdinalLeft
    /\ AdmitChildRunOk(book, parent, admission)
    /\ \/ /\ Saved(AdmitChildRunTo(book, parent, admission))
          /\ cancels' = Put(cancels, book.nextOrdinal, FALSE)
       \/ Faulty(AdmitChildRunTo(book, parent, admission)) /\ UNCHANGED cancels
    /\ UNCHANGED <<pass, signals, suspended>>

TryAcquireExecution(r) ==
    /\ r \in DOMAIN cancels
    /\ ~cancels[r]
    /\ AcquireRunOk(book, r)
    /\ Mutate(AcquireRunTo(book, r))

ReserveChildMessage(parent, c) ==
    ReserveMessageOk(book, parent, c) /\ Mutate(ReserveMessageTo(book, parent))

ChildReviewResult(c, pending) ==
    /\ ChildReviewResultOk(book, c, pending)
    /\ ChildReviewResultTo(book, c, pending) # book
    /\ Mutate(ChildReviewResultTo(book, c, pending))

\* NeedsReview is reported with pending changes of a Worker only.
FinishChild(c, outcome) ==
    /\ c \in DOMAIN cancels
    /\ FinishChildRunOk(book, c, outcome)
    /\ outcome = "NeedsReview" => book.children[c].reviewPending
    /\ \/ /\ Saved(FinishChildRunTo(book, c, outcome))
          /\ cancels' = Without(cancels, {c})
       \/ Faulty(FinishChildRunTo(book, c, outcome)) /\ UNCHANGED cancels
    /\ UNCHANGED <<pass, signals, suspended>>

StopChild(c) ==
    /\ SignalLeft
    /\ StopChildOk(book, c)
    /\ \/ /\ Saved(StopChildTo(book, c))
          /\ signals' = signals \cup {Signal({c}, TRUE)}
       \/ Faulty(StopChildTo(book, c)) /\ UNCHANGED signals
    /\ UNCHANGED <<cancels, pass, suspended>>

-----------------------------------------------------------------------------
(* QueueCoordinator::open() on the file a previous process left *)

Finalized(b) == FinalizeRemovalsTo(InterruptTo(b))

Reopened(b) == RecoverSteersTo(Finalized(b))

ReopenChanges(b) ==
    \/ ActiveRuns(b) # {}
    \/ b.removeAfterStop # {}
    \/ UnsettledTerminalRuns(Finalized(b)) # {}

ReopenOk(b) ==
    /\ RecoverSteersOk(Finalized(b))
    /\ ReopenChanges(b) => ValidateBook(Reopened(b))

Restart ==
    /\ restarts < MaxRestarts
    /\ restarts' = restarts + 1
    /\ cancels' = [r \in {} |-> FALSE]
    /\ pass' = {}
    /\ signals' = {}
    /\ suspended' = FALSE
    /\ IF ReopenOk(disk)
       THEN /\ available' = TRUE
            /\ book' = Reopened(disk)
            /\ disk' = IF ReopenChanges(disk) THEN book' ELSE disk
       ELSE /\ available' = FALSE
            /\ book' = disk
            /\ UNCHANGED disk
    /\ UNCHANGED faults

-----------------------------------------------------------------------------
(* Specification *)

Ids == 1 .. MaxOrdinal

CommandNext ==
    \/ \E p \in Projects, t \in Transports : Enqueue(p, t)
    \/ \E r \in Ids : EnqueueSendNext(r)
    \/ \E p \in Projects, t \in Transports, k \in Tickets : EnqueueWorkflow(p, t, k)
    \/ \E r \in Ids : Retry(r)
    \/ \E o \in Ids : ReleaseHeld(o)
    \/ \E t \in Transports : RebindWaitingTransport(t)
    \/ HoldForEngineChange
    \/ \E p \in Reviewed, blocked \in BOOLEAN : SetReviewBlocked(p, blocked)
    \/ \E P \in SUBSET Reviewed : ReconcileReviewBlocks(P)

SteeringNext ==
    \/ \E r \in Ids : EnqueueSteer(r)
    \/ \E o, r \in Ids : SteerQueuedItem(o, r)
    \/ \E r \in Ids : SubmitPendingSteers(r)
    \/ \E r, o \in Ids, next \in DeliveryStates : RecordSteerDelivery(r, o, next)

RunNext ==
    \/ StartPass(Projects)
    \/ \E p \in Projects : StartPass({p})
    \/ \E o \in Ids : MarkBlocked(o)
    \/ \E o \in Ids : BeginRun(o)
    \/ AbandonPass
    \/ \E p \in Projects : RequestStop(p)
    \/ RequestStopAll
    \/ \E r \in Ids : StopWorkflow(r)
    \/ \E s \in signals : CancelRunIds(s)
    \/ \E s \in signals : CancelRefused(s)
    \/ \E s \in signals : SignalRemoval(s)
    \/ \E r \in Ids, completion \in Outcomes : CompleteRun(r, completion)
    \/ \E o \in Ids : RemoveItem(o)
    \/ ResignSession
    \/ ActivateSession

FamilyNext ==
    \/ \E r \in Ids, n \in 1 .. WorkflowCeiling : ConfigureFamily(r, n)
    \/ \E r \in Ids : YieldParent(r)
    \/ \E r \in Ids : RequestParentResume(r)
    \/ \E r \in Ids, a \in Admissions : AdmitChild(r, a)
    \/ \E r \in Ids : TryAcquireExecution(r)
    \/ \E r, c \in Ids : ReserveChildMessage(r, c)
    \/ \E c \in Ids, pending \in BOOLEAN : ChildReviewResult(c, pending)
    \/ \E c \in Ids, outcome \in Outcomes : FinishChild(c, outcome)
    \/ \E c \in Ids : StopChild(c)

PromptQueueNext == CommandNext \/ SteeringNext \/ RunNext \/ FamilyNext \/ Restart

PromptQueueSpec == PromptQueueInit /\ [][PromptQueueNext]_vars

-----------------------------------------------------------------------------
(* Properties *)

\* The message an ordinal stands for, as MessageLifecycle sees it.
StageIn(b, o) ==
    IF o \in DOMAIN b.items
    THEN CASE b.items[o].state = "Queued" -> "Waiting"
           [] b.items[o].state = "Running" -> "Running"
           [] OTHER -> "Ended"
    ELSE IF o \in DOMAIN b.steers
    THEN CASE b.steers[o].state = "Pending" -> "Steering"
           [] b.steers[o].state \in {"Submitted", "AcknowledgedByCli"} -> "Handed"
           [] b.steers[o].state = "PromotedToNext" -> "Removed"
           [] OTHER -> "Settled"
    ELSE IF o < b.nextOrdinal THEN "Removed" ELSE "Unused"

StageOf(o) == StageIn(book, o)

Lifecycle == INSTANCE MessageLifecycle
                WITH Messages <- Ids, stage <- [o \in Ids |-> StageOf(o)]

\* Refinement: through every command, completion, removal and restart each
\* message keeps the promise of MessageLifecycle.  It is started at most
\* once, steering a provider may have seen is never queued again
\* (promote_pending_steers_in_book, recover_terminal_steers), and none is
\* lost between the queue and the run it is steered into.
MessagesKeepLifecycle == Lifecycle!LifecycleSpec

\* Type invariant of the book in memory and of the volatile registries; the
\* reason of a hold is kept only while the message waits for its user
\* (hold_for_engine_change, release_held).
PromptQueueTypeOK ==
    /\ BookTypeOK(book, ChildRoles)
    /\ cancels \in [DOMAIN cancels -> BOOLEAN]
    /\ pass \subseteq Ids
    /\ {available, suspended} \subseteq BOOLEAN

\* The leases of this queue, seen as the state machine of ModelLeases.
Leases == INSTANCE ModelLeases
            WITH Runs <- Ids, Snapshots <- {Snapshot},
                 Workspaces <- ({"project"} \X Projects) \cup ({"worktree"} \X Ids),
                 ex <- book.ex, nextOrdinal <- book.nextOrdinal

\* Refinement: whatever commands, stops, completions and restarts do to the
\* book, what happens to its leases is a behaviour of ModelLeases, so what is
\* proved there (validate() never refuses, budgets never reset, no active
\* child is dropped) holds of the queue, and a continuation never overtakes an
\* earlier one (try_acquire_execution, complete_run, finish_child, open).
LeasesImplemented == Leases!LeasesSpec

\* Exactly the active runs and children have a cancellation handle, so a stop
\* always finds the handle it must signal and none outlives its run
\* (begin_run, admit_child, complete_run, finish_child).
HandlesMatchActiveWork ==
    available => DOMAIN cancels = ActiveRuns(book) \cup ActiveChildren(book)

\* Pending changes of a child whose family has ended always block their
\* project, so no later run starts on files under review (complete_run,
\* recover_interrupted, set_review_blocked, reconcile_review_blocks).
PendingReviewBlocksProject ==
    \A c \in DOMAIN book.children :
        /\ book.children[c].reviewPending
        /\ book.children[c].parent \notin ActiveRuns(book)
        => book.children[c].project \in book.reviewBlocked

\* The record of a child with pending changes is never dropped with its task,
\* neither by a removal nor by one that waited for its run and is finished by
\* a restart, and also when a replacement was reported as failed after its
\* rename.  Only a restart may drop it, if the file, then one operation ahead,
\* already says that the changes were reviewed (remove_item, complete_run,
\* finalize_requested_removals, mutate, open).
PendingReviewKept ==
    [][\A c \in DOMAIN book.children :
        book.children[c].reviewPending =>
            \/ c \in DOMAIN book'.children
            \/ /\ Restart
               /\ c \in DOMAIN disk.children
               /\ ~disk.children[c].reviewPending]_vars

\* The steering history that blocks the removal of its run.
SteeredRemoval(b, r) ==
    r \in b.removeAfterStop /\ ReviewPendingOf(b, r) = {} /\ SteersOf(b, r) # {}

\* complete_run() is never refused once the family has ended, whatever
\* steering the run received and whatever the queue holds: the slot a pending
\* steering message reserved is always there, and the settled book validates.
\* The exception is a steered run whose task is to be removed.
CompletionNeverRefused ==
    available => \A r \in ActiveRuns(book) :
        FinishOk(book.ex, r, TRUE) /\ ~SteeredRemoval(book, r) =>
            /\ CompleteRunOk(book, r)
            /\ \A completion \in CompletionStates :
                    ValidateBook(RetainChildren(CompleteRunTo(book, r, completion)))

\* Whatever point the app stops at, open() can make a valid book of the file,
\* except when a steered run was to be removed.
RestartRecovers ==
    (\A r \in disk.removeAfterStop : ~SteeredRemoval(disk, r)) => ReopenOk(disk)

\* A removal that waits for its run is finished by the next start of the app:
\* the task is gone and the queue is usable, unless a child's changes are
\* still to be reviewed (finalize_requested_removals, as the test
\* restart_finishes_a_durable_remove_after_stop_without_replay has it).
RestartFinishesRemoval ==
    \A r \in disk.removeAfterStop :
        ReviewPendingOf(disk, r) = {} =>
            ReopenOk(disk) /\ r \notin DOMAIN Reopened(disk).items

\* Even when a replacement is reported as failed after its rename, and the
\* app then restarts on the newer file, no message is started a second time
\* and none that a provider may have seen goes back to the queue (begin_run,
\* complete_run, submit_pending_steers, open).
WorkNeverRepeats ==
    [][\A o \in Ids :
        /\ StageOf(o) \in {"Running", "Ended"} =>
                StageOf(o)' \in {"Running", "Ended", "Removed"}
        /\ StageOf(o) \in {"Handed", "Settled"} =>
                StageOf(o)' \in {"Handed", "Settled", "Removed"}]_vars

\* A project's messages start in their order: no run starts while an older
\* message of its project is free to start, although the pass works from a
\* list it read before (schedule_available, release_held, complete_run).
ProjectOrderKept ==
    [][\A o \in Queued(book) :
        o \in DOMAIN book'.runs =>
            ~ \E older \in Queued(book) :
                /\ older < o
                /\ book.items[older].project = book.items[o].project
                /\ book.items[older].auto]_vars

\* After the macOS session resigned, every active run has its stop recorded
\* until the session is active again: no scheduler pass slips a run past the
\* flag.  This holds as long as no replacement of the file failed after its
\* rename (persist_session_resign_intent, begin_run).
SuspensionStopsAllRuns ==
    suspended /\ faults = 0 =>
        \A r \in ActiveRuns(book) : book.runs[r].state = "StopRequested"

\* While the session stays locked no run, continuation or child is given a
\* model lease, although the flag is read before the book is locked: the
\* recorded stop refuses them.  This holds as long as no replacement of the
\* file failed after its rename: then the stop may not have been recorded
\* (try_acquire_execution, running_parent).
NoLeaseWhileSuspended ==
    [][suspended /\ suspended' /\ faults = 0 =>
        \A r \in HeldRuns(book'.ex) : r \in HeldRuns(book.ex)]_vars
=============================================================================
