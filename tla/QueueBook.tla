------------------------------ MODULE QueueBook ------------------------------
(***************************************************************************)
(* The durable prompt book of the desktop app (QueueBook in                *)
(* grok-build-tauri/src/queue.rs and its submodules) as operators on a     *)
(* value.  As in LeaseBook, XOk(b, ...) says when the closure an operation *)
(* hands to QueueCoordinator::mutate returns Ok and XTo(b, ...) is the     *)
(* book it leaves; ValidateBook is validate_book().                        *)
(*                                                                         *)
(* One counter, next_ordinal, orders prompts, steering messages, children  *)
(* and continuations, and this model names each of them by its position:   *)
(* a queue item, the steering intent made from it and the item a promotion *)
(* makes of that intent are one message with one ordinal; the single run   *)
(* of an item carries the item's ordinal; a child run the ordinal it was   *)
(* admitted with.  The code names them by hashes and checks that each item *)
(* has one run.                                                            *)
(*                                                                         *)
(* Left out: prompt text, timestamps, textual checks, retry provenance and *)
(* sessions (a project has one).  paused_projects is left out because only *)
(* tests write it, MAX_RUN_RECORDS because runs are never more than items, *)
(* the invocation digest of a child because every admission here carries a *)
(* fresh one, and its transient mark because nothing in the book reads it. *)
(***************************************************************************)
EXTENDS LeaseBook

CONSTANTS
    Projects,
    Transports,       \* RuntimeTransport
    Tickets,          \* workflow tickets, job and attempt
    MaxGlobalRuns,    \* MAX_GLOBAL_RUNS, 2 in the code
    MaxQueueItems,    \* MAX_QUEUE_ITEMS, 5000 in the code
    MaxSteerRecords,  \* MAX_STEER_RECORDS, 2000 in the code
    MaxChildRecords   \* MAX_CHILD_RECORDS, 1024 in the code

ASSUME QueueBookAssumption ==
    /\ MaxGlobalRuns \in Nat \ {0}
    /\ MaxQueueItems \in Nat
    /\ MaxSteerRecords \in Nat
    /\ MaxChildRecords \in Nat
    /\ "None" \notin Tickets

NoRun == 0            \* an absent predecessor; ordinals start at 1

EmptyQueue ==
    [nextOrdinal |-> 1, reviewBlocked |-> {}, removeAfterStop |-> {},
     items |-> [o \in {} |-> 0], runs |-> [o \in {} |-> 0],
     steers |-> [o \in {} |-> 0], children |-> [o \in {} |-> 0],
     ex |-> EmptyBook]

Put(f, k, v) == [x \in DOMAIN f \cup {k} |-> IF x = k THEN v ELSE f[x]]

Without(f, S) == [x \in DOMAIN f \ S |-> f[x]]

-----------------------------------------------------------------------------
(* Queries *)

ActiveRunStates == {"Running", "StopRequested"}

TerminalStates == {"NeedsReview", "Done", "Failed", "Stopped", "Interrupted"}

ActiveChildStates == {"Waiting", "Running", "StopRequested"}

ActiveRuns(b) == {r \in DOMAIN b.runs : b.runs[r].state \in ActiveRunStates}

ActiveProjects(b) == {b.runs[r].project : r \in ActiveRuns(b)}

ActiveChildren(b) ==
    {c \in DOMAIN b.children : b.children[c].state \in ActiveChildStates}

Queued(b) == {o \in DOMAIN b.items : b.items[o].state = "Queued"}

PendingSteers(b) == {o \in DOMAIN b.steers : b.steers[o].state = "Pending"}

SteersOf(b, run) == {o \in DOMAIN b.steers : b.steers[o].run = run}

\* A pending steering message keeps a slot, so that it can always go back to
\* the queue.
HasRoom(b) ==
    Cardinality(DOMAIN b.items) + Cardinality(PendingSteers(b)) < MaxQueueItems

RunningParent(b, run) == run \in DOMAIN b.runs /\ b.runs[run].state = "Running"

IsChat(b, o) == b.items[o].workflow = "None"

ReviewPendingOf(b, run) ==
    {c \in DOMAIN b.children : b.children[c].parent = run /\ b.children[c].reviewPending}

\* The positions first_admissible_root() takes the minimum of.
AdmissibleRoots(b) ==
    IF Cardinality(ActiveRuns(b)) >= MaxGlobalRuns
    THEN {}
    ELSE {o \in Queued(b) :
            /\ b.items[o].auto
            /\ b.items[o].blocked = "None"
            /\ b.items[o].project \notin ActiveProjects(b) \cup b.reviewBlocked}

\* candidates(): the oldest startable item of each of the projects that has no
\* active run, as many as there are free leases and runs, oldest first.  Every
\* caller passes include_manual = false.
Startable(b, o, projects) ==
    /\ o \in Queued(b)
    /\ b.items[o].project \in projects
    /\ b.items[o].auto
    /\ b.items[o].project \notin b.reviewBlocked \cup ActiveProjects(b)
    /\ ~ \E n \in EligibleOrdinals(b.ex) : n < o

Candidates(b, projects) ==
    LET oldest == {o \in Queued(b) :
                    /\ Startable(b, o, projects)
                    /\ ~ \E older \in Queued(b) :
                            /\ older < o
                            /\ b.items[older].project = b.items[o].project
                            /\ Startable(b, older, projects)}
        taken == IF Cardinality(HeldRuns(b.ex)) > Cardinality(ActiveRuns(b))
                 THEN Cardinality(HeldRuns(b.ex))
                 ELSE Cardinality(ActiveRuns(b))
    IN  {o \in oldest :
            Cardinality({older \in oldest : older < o}) + taken < MaxGlobalRuns}

-----------------------------------------------------------------------------
(* Waiting work *)

NewItem(project, transport, workflow, auto, pred) ==
    [project |-> project, transport |-> transport, workflow |-> workflow,
     auto |-> auto, pred |-> pred, state |-> "Queued", blocked |-> "None"]

\* enqueue_in_book(): enqueue, enqueue_workflow, retry and send next end here.
EnqueueOk(b) == HasRoom(b)

EnqueueTo(b, item) ==
    [b EXCEPT !.items = Put(@, b.nextOrdinal, item), !.nextOrdinal = @ + 1]

EnqueueSendNextOk(b, project, transport, pred) ==
    /\ pred \in ActiveRuns(b)
    /\ b.runs[pred].project = project
    /\ b.runs[pred].transport = transport
    /\ EnqueueOk(b)

EnqueueWorkflowOk(b, ticket) ==
    /\ \A o \in DOMAIN b.items : b.items[o].workflow # ticket
    /\ EnqueueOk(b)

RetryOk(b, run) ==
    /\ run \in DOMAIN b.runs
    /\ b.runs[run].state \in {"Failed", "Stopped", "Interrupted"}
    /\ IsChat(b, run)
    /\ EnqueueOk(b)

RetryTo(b, run) ==
    EnqueueTo(b, NewItem(b.items[run].project, b.items[run].transport, "None",
                         TRUE, NoRun))

ReleaseHeldOk(b, o) == o \in Queued(b) /\ ~b.items[o].auto

\* Mutant: the reason of the hold stays.
ReleaseHeldKeepsReason(b, o) == [b EXCEPT !.items[o].auto = TRUE]

ReleaseHeldTo(b, o) ==
    [b EXCEPT !.items[o].auto = TRUE,
              !.items[o].blocked = IF @ = "Hold" THEN "None" ELSE @]

RebindWaitingTransportTo(b, transport) ==
    [b EXCEPT !.items = [o \in DOMAIN @ |->
        IF o \in Queued(b) /\ b.items[o].transport # transport
        THEN [b.items[o] EXCEPT !.transport = transport,
                                !.blocked = IF b.items[o].auto THEN "None" ELSE @]
        ELSE b.items[o]]]

MarkBlockedOk(b, o) == o \in Queued(b)

MarkBlockedTo(b, o) == [b EXCEPT !.items[o].blocked = "Prepare"]

\* hold_for_engine_change()
HoldForEngineChangeOk(b) ==
    /\ ActiveRuns(b) = {}
    /\ HeldRuns(b.ex) = {}
    /\ \A o \in DOMAIN b.items : b.items[o].state # "Running"

HoldForEngineChangeTo(b) ==
    [b EXCEPT !.items = [o \in DOMAIN @ |->
        IF o \in Queued(b) /\ b.items[o].auto
        THEN [b.items[o] EXCEPT !.auto = FALSE, !.blocked = "Hold"]
        ELSE b.items[o]]]

\* set_review_blocked() and reconcile_review_blocks(): a child's pending
\* review keeps its project blocked whatever the caller found.
ReviewReasons(b, projects, blocked) ==
    [b EXCEPT !.reviewBlocked = blocked,
              !.items = [o \in DOMAIN @ |->
        IF o \notin Queued(b) \/ b.items[o].project \notin projects
        THEN b.items[o]
        ELSE [b.items[o] EXCEPT !.blocked =
                IF b.items[o].project \in blocked THEN "Review"
                ELSE IF @ = "Review" THEN "None" ELSE @]]]

ChildReviewProjects(b) ==
    {b.children[c].project : c \in {d \in DOMAIN b.children : b.children[d].reviewPending}}

SetReviewBlockedTo(b, project, blocked) ==
    ReviewReasons(b, {project},
        IF blocked \/ project \in ChildReviewProjects(b)
        THEN b.reviewBlocked \cup {project}
        ELSE b.reviewBlocked \ {project})

ReconcileReviewBlocksTo(b, projects) ==
    ReviewReasons(b, Projects, projects \cup ChildReviewProjects(b))

-----------------------------------------------------------------------------
(* Steering *)

\* The sets trim_steer_history() may remove to come down to target.  The code
\* takes the oldest resolved records; which of them go is left open here.
TrimChoices(steers, target) ==
    LET resolved == {o \in DOMAIN steers : steers[o].state \in
                        {"ObservedInProviderHistory", "PromotedToNext", "Refused"}}
        excess == IF Cardinality(DOMAIN steers) > target
                  THEN Cardinality(DOMAIN steers) - target ELSE 0
        n == IF excess < Cardinality(resolved) THEN excess ELSE Cardinality(resolved)
    IN  {S \in SUBSET resolved : Cardinality(S) = n}

\* trimmed is one of TrimChoices(b.steers, MaxSteerRecords - 1).
EnqueueSteerOk(b, run, trimmed) ==
    /\ RunningParent(b, run)
    /\ IsChat(b, run)
    /\ Cardinality(DOMAIN b.steers \ trimmed) < MaxSteerRecords
    /\ HasRoom(b)

EnqueueSteerTo(b, run, trimmed) ==
    [b EXCEPT !.steers = Put(Without(@, trimmed), b.nextOrdinal,
                             [project |-> b.runs[run].project, run |-> run,
                              state |-> "Pending"]),
              !.nextOrdinal = @ + 1]

\* The message leaves the queue and keeps its position; the record of an
\* earlier promotion of the same message is replaced.  trimmed is one of
\* TrimChoices(Without(b.steers, {o}), MaxSteerRecords - 1).
SteerQueuedItemOk(b, o, run, trimmed) ==
    /\ RunningParent(b, run)
    /\ o \in Queued(b)
    /\ b.items[o].project = b.runs[run].project
    /\ b.items[o].transport = b.runs[run].transport
    /\ o \in DOMAIN b.steers =>
            /\ b.steers[o].state = "PromotedToNext"
            /\ b.steers[o].project = b.items[o].project
            /\ b.steers[o].run = b.items[o].pred
    /\ IsChat(b, run)
    /\ IsChat(b, o)
    /\ Cardinality((DOMAIN b.steers \ {o}) \ trimmed) < MaxSteerRecords

SteerQueuedItemTo(b, o, run, trimmed) ==
    [b EXCEPT !.items = Without(@, {o}),
              !.steers = Put(Without(@, trimmed), o,
                             [project |-> b.items[o].project, run |-> run,
                              state |-> "Pending"])]

SubmitPendingSteersOk(b, run) ==
    /\ SteersOf(b, run) \cap PendingSteers(b) # {}
    /\ RunningParent(b, run)

SubmitPendingSteersTo(b, run) ==
    [b EXCEPT !.steers = [o \in DOMAIN @ |->
        IF o \in SteersOf(b, run) \cap PendingSteers(b)
        THEN [b.steers[o] EXCEPT !.state = "Submitted"]
        ELSE b.steers[o]]]

\* The evidence a transport may add to what is already recorded.
DeliverySteps ==
    {<<"Submitted", "AcknowledgedByCli">>,
     <<"Submitted", "ObservedInProviderHistory">>,
     <<"Submitted", "Refused">>,
     <<"Submitted", "Uncertain">>,
     <<"AcknowledgedByCli", "ObservedInProviderHistory">>,
     <<"AcknowledgedByCli", "Uncertain">>,
     <<"Uncertain", "ObservedInProviderHistory">>}

DeliveryStates == {"AcknowledgedByCli", "ObservedInProviderHistory", "Refused", "Uncertain"}

RecordSteerDeliveryOk(b, run, o, next) ==
    /\ run \in ActiveRuns(b)
    /\ o \in SteersOf(b, run)
    /\ <<b.steers[o].state, next>> \in DeliverySteps

RecordSteerDeliveryTo(b, o, next) == [b EXCEPT !.steers[o].state = next]

\* Mutant: the reserved slot is counted before the message gives it up.
PromoteIntoFullQueue(b, ended) ==
    \A o \in PendingSteers(b) : b.steers[o].run \in ended =>
        /\ o \notin DOMAIN b.items
        /\ Cardinality(DOMAIN b.items) + Cardinality(PendingSteers(b)) < MaxQueueItems

\* promote_pending_steers_in_book() for each run of a set: what was handed to
\* the provider becomes uncertain; what was not goes back to the queue at its
\* old position.
PromoteOk(b, ended) ==
    \A o \in PendingSteers(b) : b.steers[o].run \in ended =>
        /\ o \notin DOMAIN b.items
        /\ Cardinality(DOMAIN b.items) + Cardinality(PendingSteers(b)) - 1 < MaxQueueItems

SettledState(state) ==
    IF state \in {"Submitted", "AcknowledgedByCli"} THEN "Uncertain"
    ELSE IF state = "Pending" THEN "PromotedToNext"
    ELSE state

\* Mutant: what was handed to the provider goes back to the queue too.
PromoteSubmitted(b, ended) ==
    LET promoted == {o \in DOMAIN b.steers :
            b.steers[o].run \in ended /\ b.steers[o].state \in {"Pending", "Submitted"}}
    IN  [b EXCEPT
            !.steers = [o \in DOMAIN @ |->
                IF o \in promoted THEN [b.steers[o] EXCEPT !.state = "PromotedToNext"]
                ELSE b.steers[o]],
            !.items = [o \in DOMAIN @ \cup promoted |->
                IF o \in promoted
                THEN NewItem(b.steers[o].project, b.items[b.steers[o].run].transport,
                             "None", TRUE, b.steers[o].run)
                ELSE b.items[o]]]

PromoteTo(b, ended) ==
    LET mine == {o \in DOMAIN b.steers : b.steers[o].run \in ended}
        promoted == mine \cap PendingSteers(b)
    IN  [b EXCEPT
            !.steers = [o \in DOMAIN @ |->
                IF o \in mine
                THEN [b.steers[o] EXCEPT !.state = SettledState(b.steers[o].state)]
                ELSE b.steers[o]],
            !.items = [o \in DOMAIN @ \cup promoted |->
                IF o \in promoted
                THEN NewItem(b.steers[o].project, b.items[b.steers[o].run].transport,
                             "None", TRUE, b.steers[o].run)
                ELSE b.items[o]]]

-----------------------------------------------------------------------------
(* Runs *)

BeginRunOk(b, o) ==
    /\ Cardinality(ActiveRuns(b)) < MaxGlobalRuns
    /\ Cardinality(HeldRuns(b.ex)) < MaxGlobalRuns
    /\ o \in Queued(b)
    /\ b.items[o].project \notin b.reviewBlocked \cup ActiveProjects(b)
    /\ ~ \E n \in EligibleOrdinals(b.ex) : n < o
    /\ AdmitParentOk(b.ex, o, b.items[o].project)

ProjectWorkspace(project) == <<"project", project>>

BeginRunTo(b, o) ==
    LET project == b.items[o].project
    IN  [b EXCEPT
            !.ex = AdmitParentTo(@, o, project, ProjectWorkspace(project)),
            !.items[o].state = "Running",
            !.items[o].blocked = "None",
            !.runs = Put(@, o, [project |-> project,
                                transport |-> b.items[o].transport,
                                state |-> "Running"])]

\* Mutant: only one of the runs is marked.
StopOne(b, runs) ==
    [b EXCEPT !.runs = [r \in DOMAIN @ |->
        IF r \in runs /\ \A other \in runs : r <= other
        THEN [b.runs[r] EXCEPT !.state = "StopRequested"]
        ELSE b.runs[r]]]

\* request_stop(), persist_stop_all_intents() and stop_workflow() record the
\* intent only; the signal follows in cancel_run_ids().
StopTo(b, runs) ==
    [b EXCEPT !.runs = [r \in DOMAIN @ |->
        IF r \in runs THEN [b.runs[r] EXCEPT !.state = "StopRequested"]
        ELSE b.runs[r]]]

\* cancel_run_ids(): every requested identity must still be retained.
CancelRunIdsOk(b, requested) == requested \subseteq DOMAIN b.runs \cup DOMAIN b.children

CancelSelection(b, requested) ==
    (requested \cap (ActiveRuns(b) \cup ActiveChildren(b)))
        \cup {c \in ActiveChildren(b) : b.children[c].parent \in requested}

CancelRunIdsTo(b, requested) ==
    [b EXCEPT !.children = [c \in DOMAIN @ |->
        IF c \in ActiveChildren(b) /\ b.children[c].parent \in requested
        THEN [b.children[c] EXCEPT !.state = "StopRequested"]
        ELSE b.children[c]]]

CompletionStates == {"NeedsReview", "Done", "Failed", "Stopped"}

\* The settled book of complete_run() before a requested removal.
SettledRun(b, run, completion) ==
    LET childReview == ReviewPendingOf(b, run) # {}
        outcome == IF childReview /\ completion = "Done" THEN "NeedsReview" ELSE completion
        settled == [b EXCEPT
            !.ex = FinishTo(@, run),
            !.reviewBlocked = IF childReview \/ outcome = "NeedsReview"
                              THEN @ \cup {b.runs[run].project} ELSE @,
            !.items[run].state = outcome,
            !.items[run].blocked = "None",
            !.runs[run].state = outcome]
    IN  PromoteTo(settled, {run})

CompleteRunOk(b, run) ==
    /\ run \in ActiveRuns(b)
    /\ FinishOk(b.ex, run, TRUE)
    /\ PromoteOk(b, {run})

CompleteRunTo(b, run, completion) ==
    LET settled == SettledRun(b, run, completion)
        removed == IF run \in b.removeAfterStop /\ ReviewPendingOf(b, run) = {}
                   THEN {run} ELSE {}
    IN  [settled EXCEPT !.removeAfterStop = @ \ {run},
                        !.items = Without(@, removed),
                        !.runs = Without(@, removed)]

RemoveItemOk(b, o) ==
    /\ o \in DOMAIN b.items
    /\ o \in DOMAIN b.runs \ ActiveRuns(b) => ReviewPendingOf(b, o) = {}
    /\ b.items[o].state = "Running" => o \in ActiveRuns(b)

RemoveItemTo(b, o) ==
    IF b.items[o].state = "Running"
    THEN [StopTo(b, {o}) EXCEPT !.removeAfterStop = @ \cup {o}]
    ELSE [b EXCEPT !.items = Without(@, {o}), !.runs = Without(@, {o}),
                   !.removeAfterStop = @ \ {o}]

-----------------------------------------------------------------------------
(* Child families: queue/children.rs *)

Snapshot == "snapshot"   \* one family captures its working files once

ChildWorkspace(project, agent, isolated) ==
    IF isolated THEN <<"worktree", agent>> ELSE ProjectWorkspace(project)

ConfigureRunOk(b, run, workflow, maximum) ==
    RunningParent(b, run) /\ ConfigureFamilyOk(b.ex, run, workflow, maximum)

ConfigureRunTo(b, run, workflow, maximum) ==
    [b EXCEPT !.ex = ConfigureFamilyTo(@, run, workflow, maximum)]

YieldRunOk(b, run) == RunningParent(b, run) /\ YieldParentOk(b.ex, run)

YieldRunTo(b, run) == [b EXCEPT !.ex = YieldParentTo(@, run)]

ResumeRunOk(b, run) ==
    RunningParent(b, run) /\ RequestResumeOk(b.ex, run, b.nextOrdinal)

ResumeRunTo(b, run) ==
    [b EXCEPT !.ex = RequestResumeTo(@, run, b.nextOrdinal), !.nextOrdinal = @ + 1]

\* admission = [role, isolated, predecessor]; a continuation keeps its
\* predecessor's agent and so its worktree.
AgentOf(b, admission) ==
    IF admission.predecessor = NoRun THEN b.nextOrdinal
    ELSE b.children[admission.predecessor].agent

AdmittedMember(b, parent, admission) ==
    ChildMember(parent, b.runs[parent].project,
        [workspace |-> ChildWorkspace(b.runs[parent].project, AgentOf(b, admission),
                                      admission.isolated),
         role |-> admission.role, snapshot |-> Snapshot,
         isolated |-> admission.isolated],
        b.nextOrdinal)

ContinuationOk(b, parent, admission) ==
    /\ admission.predecessor \in DOMAIN b.children
    /\ LET previous == b.children[admission.predecessor]
       IN  /\ previous.parent = parent
           /\ previous.state \notin ActiveChildStates \cup {"Interrupted"}
           /\ previous.role = admission.role
           /\ previous.isolated = admission.isolated
    /\ \A c \in DOMAIN b.children : b.children[c].predecessor # admission.predecessor

AdmitChildRunOk(b, parent, admission) ==
    /\ RunningParent(b, parent)
    /\ Cardinality(DOMAIN b.children) < MaxChildRecords
    /\ admission.predecessor # NoRun => ContinuationOk(b, parent, admission)
    /\ AdmitChildOk(b.ex, parent, b.nextOrdinal, AdmittedMember(b, parent, admission),
                    b.nextOrdinal)

AdmitChildRunTo(b, parent, admission) ==
    [b EXCEPT
        !.ex = AdmitChildTo(@, parent, b.nextOrdinal, AdmittedMember(b, parent, admission)),
        !.children = Put(@, b.nextOrdinal,
            [parent |-> parent, project |-> b.runs[parent].project,
             agent |-> AgentOf(b, admission), role |-> admission.role,
             isolated |-> admission.isolated, transport |-> b.runs[parent].transport,
             predecessor |-> admission.predecessor,
             reviewPending |-> admission.role = "Worker", state |-> "Waiting"]),
        !.nextOrdinal = @ + 1]

\* Mutant: a parent that was asked to stop still gets its lease.
AcquireIgnoringStop(b, run) == TryAcquireOk(b.ex, run, AdmissibleRoots(b))

\* Mutant: a free lease goes to whoever asks first.
AcquireOutOfTurn(b, run) ==
    /\ IF run \in DOMAIN b.children
       THEN /\ RunningParent(b, b.children[run].parent)
            /\ b.children[run].state = "Waiting"
       ELSE RunningParent(b, run)
    /\ run \in DOMAIN b.ex.members
    /\ Eligible(b.ex, run)
    /\ Cardinality(HeldRuns(b.ex)) < MaxLeases

\* try_acquire_execution() returning Ok(true), for a parent or a child.
AcquireRunOk(b, run) ==
    /\ IF run \in DOMAIN b.children
       THEN /\ RunningParent(b, b.children[run].parent)
            /\ b.children[run].state = "Waiting"
       ELSE RunningParent(b, run)
    /\ TryAcquireOk(b.ex, run, AdmissibleRoots(b))

AcquireRunTo(b, run) ==
    [b EXCEPT !.ex = TryAcquireTo(@, run),
              !.children = [c \in DOMAIN @ |->
                IF c = run THEN [b.children[c] EXCEPT !.state = "Running"]
                ELSE b.children[c]]]

ChildReviewResultOk(b, child, pending) ==
    /\ child \in DOMAIN b.children
    /\ pending => b.children[child].role = "Worker"

ChildReviewResultTo(b, child, pending) ==
    [b EXCEPT !.children[child].reviewPending = pending,
              !.reviewBlocked = IF pending THEN @ \cup {b.children[child].project} ELSE @]

\* reserve_child_message() answering that the child is live.
ReserveMessageOk(b, parent, child) ==
    /\ RunningParent(b, parent)
    /\ child \in DOMAIN b.children
    /\ b.children[child].parent = parent
    /\ b.children[child].state \in {"Waiting", "Running"}
    /\ ReserveChildMessageOk(b.ex, parent, child)

ReserveMessageTo(b, parent) == [b EXCEPT !.ex = ReserveChildMessageTo(@, parent)]

FinishChildRunOk(b, child, outcome) ==
    /\ child \in ActiveChildren(b)
    /\ outcome \in {"Done", "NeedsReview"} => b.children[child].state = "Running"
    /\ FinishOk(b.ex, child, TRUE)

\* Mutant: the lease is given back and the record stays.
FinishLeaseOnly(b, child, outcome) == [b EXCEPT !.ex = FinishTo(@, child)]

FinishChildRunTo(b, child, outcome) ==
    [b EXCEPT !.ex = FinishTo(@, child), !.children[child].state = outcome]

StopChildOk(b, child) == child \in ActiveChildren(b)

StopChildTo(b, child) == [b EXCEPT !.children[child].state = "StopRequested"]

\* mutate(): child histories live as long as their parent's run record.
RetainChildren(b) ==
    [b EXCEPT !.children =
        Without(@, {c \in DOMAIN @ : b.children[c].parent \notin DOMAIN b.runs})]

-----------------------------------------------------------------------------
(* Reopening the book: recover_interrupted(), finalize_requested_removals() *)
(* and recover_terminal_steers(), in this order                             *)

\* Mutant: the leases of the previous process are kept.
InterruptKeepsLeases(b) ==
    [b EXCEPT
        !.reviewBlocked = @ \cup ChildReviewProjects(b),
        !.runs = [r \in DOMAIN @ |->
            IF r \in ActiveRuns(b)
            THEN [b.runs[r] EXCEPT !.state = "Interrupted"] ELSE b.runs[r]],
        !.items = [o \in DOMAIN @ |->
            IF o \in ActiveRuns(b)
            THEN [b.items[o] EXCEPT !.state = "Interrupted", !.blocked = "None"]
            ELSE b.items[o]]]

\* Mutant: interrupted work is queued again.
InterruptRequeues(b) ==
    [b EXCEPT
        !.ex = RecoverInterruptedTo(@),
        !.runs = Without(@, ActiveRuns(b)),
        !.items = [o \in DOMAIN @ |->
            IF o \in ActiveRuns(b)
            THEN [b.items[o] EXCEPT !.state = "Queued"] ELSE b.items[o]]]

\* Mutant: the changes of interrupted children block nothing.
InterruptUnblocked(b) ==
    [b EXCEPT
        !.ex = RecoverInterruptedTo(@),
        !.children = [c \in DOMAIN @ |->
            IF c \in ActiveChildren(b)
            THEN [b.children[c] EXCEPT !.state = "Interrupted"] ELSE b.children[c]],
        !.runs = [r \in DOMAIN @ |->
            IF r \in ActiveRuns(b)
            THEN [b.runs[r] EXCEPT !.state = "Interrupted"] ELSE b.runs[r]],
        !.items = [o \in DOMAIN @ |->
            IF o \in ActiveRuns(b)
            THEN [b.items[o] EXCEPT !.state = "Interrupted", !.blocked = "None"]
            ELSE b.items[o]]]

InterruptTo(b) ==
    [b EXCEPT
        !.ex = RecoverInterruptedTo(@),
        !.children = [c \in DOMAIN @ |->
            IF c \in ActiveChildren(b)
            THEN [b.children[c] EXCEPT !.state = "Interrupted"] ELSE b.children[c]],
        !.reviewBlocked = @ \cup ChildReviewProjects(b),
        !.runs = [r \in DOMAIN @ |->
            IF r \in ActiveRuns(b)
            THEN [b.runs[r] EXCEPT !.state = "Interrupted"] ELSE b.runs[r]],
        !.items = [o \in DOMAIN @ |->
            IF b.items[o].state = "Running" \/ o \in ActiveRuns(b)
            THEN [b.items[o] EXCEPT !.state = "Interrupted", !.blocked = "None"]
            ELSE b.items[o]]]

\* Mutant: a requested removal takes unreviewed changes along.
FinalizeIgnoringReview(b) ==
    RetainChildren([b EXCEPT !.removeAfterStop = {},
                             !.items = Without(@, b.removeAfterStop),
                             !.runs = Without(@, b.removeAfterStop)])

FinalizeRemovalsTo(b) ==
    LET remove == {o \in b.removeAfterStop : ReviewPendingOf(b, o) = {}}
    IN  RetainChildren([b EXCEPT !.removeAfterStop = {},
                                 !.items = Without(@, remove),
                                 !.runs = Without(@, remove)])

UnsettledTerminalRuns(b) ==
    {b.steers[o].run : o \in {s \in DOMAIN b.steers :
        /\ b.steers[s].state \in {"Pending", "Submitted", "AcknowledgedByCli"}
        /\ b.steers[s].run \in DOMAIN b.runs \ ActiveRuns(b)}}

RecoverSteersOk(b) == PromoteOk(b, UnsettledTerminalRuns(b))

\* Mutant: the steering of interrupted runs is left as it is.
RecoverSteersSkipped(b) == b

RecoverSteersTo(b) == PromoteTo(b, UnsettledTerminalRuns(b))

-----------------------------------------------------------------------------
(* The types of a book *)

ItemRecord ==
    [project : Projects, transport : Transports, workflow : Tickets \cup {"None"},
     auto : BOOLEAN, pred : Nat, state : {"Queued", "Running"} \cup TerminalStates,
     blocked : {"None", "Hold", "Review", "Prepare"}]

RunRecord ==
    [project : Projects, transport : Transports, state : ActiveRunStates \cup TerminalStates]

SteerRecord ==
    [project : Projects, run : Nat,
     state : {"Pending", "Submitted", "PromotedToNext"} \cup DeliveryStates]

ChildRecord(roles) ==
    [parent : Nat, project : Projects, agent : Nat, role : roles,
     isolated : BOOLEAN, transport : Transports, predecessor : Nat,
     reviewPending : BOOLEAN, state : ActiveChildStates \cup TerminalStates]

LeaseRecord(roles) ==
    [family : Nat, project : Projects,
     workspace : ({"project"} \X Projects) \cup ({"worktree"} \X Nat),
     role : roles \cup {"None"}, snapshot : {Snapshot, "None"},
     isolated : BOOLEAN, st : LeaseStates, ord : Nat]

BudgetRecord == [workflow : BOOLEAN, used : Nat, maximum : Nat]

\* The records of a book, with children of these roles.  The reason of a hold
\* is kept only while the message waits for its user
\* (hold_for_engine_change, release_held).
BookTypeOK(b, roles) ==
    /\ DOMAIN b = {"nextOrdinal", "reviewBlocked", "removeAfterStop", "items",
                   "runs", "steers", "children", "ex"}
    /\ b.nextOrdinal \in Nat
    /\ b.reviewBlocked \subseteq Projects
    /\ b.items \in [DOMAIN b.items -> ItemRecord]
    /\ \A o \in DOMAIN b.items : b.items[o].blocked = "Hold" => ~b.items[o].auto
    /\ b.runs \in [DOMAIN b.runs -> RunRecord]
    /\ b.steers \in [DOMAIN b.steers -> SteerRecord]
    /\ DOMAIN b.children \subseteq 1 .. b.nextOrdinal - 1
    /\ b.children \in [DOMAIN b.children -> ChildRecord(roles)]
    /\ b.ex = [members |-> b.ex.members, budgets |-> b.ex.budgets]
    /\ b.ex.members \in [DOMAIN b.ex.members -> LeaseRecord(roles)]
    /\ b.ex.budgets \in [DOMAIN b.ex.budgets -> BudgetRecord]

-----------------------------------------------------------------------------
(* validate_book() *)

CountsValid(b) ==
    /\ b.nextOrdinal # 0
    /\ Cardinality(DOMAIN b.steers) <= MaxSteerRecords
    /\ Cardinality(DOMAIN b.items) + Cardinality(PendingSteers(b)) <= MaxQueueItems

ItemsValid(b) ==
    /\ \A o \in DOMAIN b.items :
        /\ o \in 1 .. b.nextOrdinal - 1
        /\ ~IsChat(b, o) =>
            /\ b.items[o].pred = NoRun
            /\ \A p \in DOMAIN b.items :
                    b.items[p].workflow = b.items[o].workflow => p = o
        /\ b.items[o].blocked # "None" => o \in Queued(b)
    /\ \A o \in b.removeAfterStop :
        /\ o \in DOMAIN b.items
        /\ o \in DOMAIN b.runs
        /\ b.items[o].state = "Running"
        /\ b.runs[o].state = "StopRequested"

\* "Steering references a missing run." is the second conjunct.
SteeringValid(b) ==
    \A o \in DOMAIN b.steers :
        /\ o \in 1 .. b.nextOrdinal - 1
        /\ b.steers[o].run \in DOMAIN b.runs
        /\ b.runs[b.steers[o].run].project = b.steers[o].project
        /\ b.steers[o].state = "Pending" => b.steers[o].run \in ActiveRuns(b)
        /\ o \in DOMAIN b.items =>
            /\ b.steers[o].state = "PromotedToNext"
            /\ b.items[o].project = b.steers[o].project
            /\ b.items[o].pred = b.steers[o].run

RunsValid(b) ==
    /\ \A r \in DOMAIN b.runs :
        /\ r \in DOMAIN b.items
        /\ b.items[r].project = b.runs[r].project
        /\ b.items[r].transport = b.runs[r].transport
    /\ \A r, s \in ActiveRuns(b) : b.runs[r].project = b.runs[s].project => r = s
    /\ Cardinality(ActiveProjects(b)) <= MaxGlobalRuns

\* The state of an item is the state of its run.
ItemRunStates(b) ==
    \A o \in DOMAIN b.items :
        IF o \in DOMAIN b.runs
        THEN b.items[o].state = IF o \in ActiveRuns(b) THEN "Running" ELSE b.runs[o].state
        ELSE b.items[o].state = "Queued"

ChildLeaseStates(state) ==
    CASE state = "Waiting" -> {"Waiting"}
      [] state = "Running" -> {"Held", "Retiring"}
      [] state = "StopRequested" -> {"Waiting", "Held", "Retiring"}
      [] OTHER -> {"Terminal"}

ChildrenValid(b) ==
    /\ Cardinality(DOMAIN b.children) <= MaxChildRecords
    /\ \A c \in DOMAIN b.children :
        LET child == b.children[c]
        IN  /\ c \notin DOMAIN b.runs
            /\ child.state = "NeedsReview" \/ child.reviewPending => child.role = "Worker"
            /\ child.parent \in DOMAIN b.runs
            /\ child.project = b.runs[child.parent].project
            /\ child.transport = b.runs[child.parent].transport
            /\ c \in ActiveChildren(b) =>
                /\ child.parent \in ActiveRuns(b)
                /\ \A d \in ActiveChildren(b) : b.children[d].agent = child.agent => d = c
            /\ IF child.predecessor = NoRun
               THEN child.agent = c
               ELSE /\ child.predecessor \in DOMAIN b.children \ {c}
                    /\ LET previous == b.children[child.predecessor]
                       IN  /\ previous.state \notin ActiveChildStates \cup {"Interrupted"}
                           /\ previous.parent = child.parent
                           /\ previous.agent = child.agent
                           /\ previous.role = child.role
                           /\ previous.isolated = child.isolated
                    /\ \A d \in DOMAIN b.children :
                            b.children[d].predecessor = child.predecessor => d = c
            /\ IF c \in DOMAIN b.ex.members
               THEN LET m == b.ex.members[c]
                    IN  /\ m.family = child.parent
                        /\ m.project = child.project
                        /\ m.workspace = ChildWorkspace(child.project, child.agent,
                                                        child.isolated)
                        /\ m.role = child.role
                        /\ m.isolated = child.isolated
                        /\ m.st \in ChildLeaseStates(child.state)
               ELSE c \notin ActiveChildren(b) /\ child.parent \notin ActiveRuns(b)

\* executions::validate_bindings()
BindingsValid(b) ==
    /\ Validate(b.ex)
    /\ Roots(b.ex) = ActiveRuns(b)
    /\ \A r \in DOMAIN b.ex.members :
        LET m == b.ex.members[r]
        IN  /\ m.family \in ActiveRuns(b)
            /\ m.project = b.runs[m.family].project
            /\ ~IsChild(m) => m.workspace = ProjectWorkspace(m.project)
            /\ IsChild(m) => r \in DOMAIN b.children
            /\ m.st = "Waiting" =>
                m.ord < b.nextOrdinal /\ m.ord \notin DOMAIN b.items \cup DOMAIN b.steers

ValidateBook(b) ==
    /\ CountsValid(b)
    /\ ItemsValid(b)
    /\ SteeringValid(b)
    /\ RunsValid(b)
    /\ ItemRunStates(b)
    /\ ChildrenValid(b)
    /\ BindingsValid(b)
=============================================================================
