--------------------------- MODULE FamilyController ---------------------------
(***************************************************************************)
(* The family controller (grok-build-tauri/src/collaboration/mod.rs): one  *)
(* parent run, the child workers it starts, and the queue worker that ends *)
(* the run (commands/scheduling.rs).  The book is the value of QueueBook;  *)
(* the controller adds the threads that act on it:                         *)
(*                                                                         *)
(*   - the parent's worker, which serves the collaboration commands of its *)
(*     turn and then drains and closes the family and completes the run;   *)
(*   - one worker per child, which waits for a lease, runs the child's     *)
(*     turn and stores its outcome in the child's slot;                    *)
(*   - finish_ready(), called by every worker, which moves stored outcomes *)
(*     to the book under the controller's state lock;                      *)
(*   - the user, who stops a child or the run at any moment;               *)
(*   - the reaper of the processes a turn leaves behind.                   *)
(*                                                                         *)
(* The parent run is already started and its family configured.  Left out: *)
(* the contents of the family journal (a failing journal is a fault), the  *)
(* mark of transient context, and the suspension of the session, which     *)
(* PromptQueue has.                                                        *)
(***************************************************************************)
EXTENDS QueueBook

CONSTANTS
    Roles,          \* the roles a spawned child may have
    Isolations,     \* whether its workspace is a worktree of its own
    Results,        \* what a child's turn may return, a part of TurnResults
    MaxCommands,    \* bound on the commands of the parent's turn
    MaxStops,       \* bound on the stops of the user
    MaxFaults       \* bound on failing writes, wakes, signals and threads

\* ChildRunner::run(): no turn, or one that completed or not, with or without
\* staged changes.
TurnResults == {"Error", "Failed", "FailedWithChanges", "Completed", "CompletedWithChanges"}

ASSUME FamilyAssumption ==
    /\ MaxQueueItems # 0          \* the message of the parent has room
    /\ Roles \subseteq {"Worker", "Explore"}
    /\ Isolations \subseteq BOOLEAN
    /\ Results \subseteq TurnResults
    /\ MaxCommands \in Nat
    /\ MaxStops \in Nat
    /\ MaxFaults \in Nat

VARIABLES
    book,       \* the durable prompt book
    cancels,    \* registered cancellation handles: run :> signalled
    live,       \* runs with a process whose end is not proven
    closed,     \* Family::closed
    slots,      \* FamilyState::slots: child :> finished outcome or "None"
    worker,     \* child :> [pc, result] of its thread
    parent,     \* [pc, ok, stop, todo, commands] of the parent's worker
    finishing,  \* the finish_ready() that holds the state lock, or NoFinish
    signals,    \* stops a user recorded and has not signalled yet
    stops,      \* the number of stops the user has asked for
    hindered    \* [faults, late, raced]: what has gone wrong so far

familyVars == <<book, cancels, live, closed, slots, worker, parent, finishing,
                signals, stops, hindered>>

Root == 1           \* the parent run, the first position of the book

NoFinish == [by |-> NoRun, todo |-> {}, stopped |-> {}]

ChildIds == 2 .. 2 * MaxCommands

FamilyInit ==
    /\ \E p \in Projects, t \in Transports :
        book = ConfigureRunTo(
                 BeginRunTo(EnqueueTo(EmptyQueue, NewItem(p, t, "None", TRUE, NoRun)), Root),
                 Root, FALSE, OrdinaryBudget)
    /\ cancels = [r \in {Root} |-> FALSE]
    /\ live = {Root}
    /\ closed = FALSE
    /\ slots = [c \in {} |-> "None"]
    /\ worker = [c \in {} |-> "None"]
    /\ parent = [pc |-> "turn", ok |-> TRUE, stop |-> FALSE, todo |-> {}, commands |-> 0]
    /\ finishing = NoFinish
    /\ signals = {}
    /\ stops = 0
    /\ hindered = [faults |-> 0, late |-> FALSE, raced |-> FALSE]

-----------------------------------------------------------------------------
(* Common parts *)

Fault ==
    /\ hindered.faults < MaxFaults
    /\ hindered' = [hindered EXCEPT !.faults = @ + 1]

Late == hindered' = [hindered EXCEPT !.late = TRUE]

InTurn(r) ==
    IF r = Root THEN parent.pc \in {"turn", "command", "stopping", "wait", "request", "resume"}
    ELSE worker[r].pc = "turn"

\* The processes a turn left behind, owned by the bounded reaper: while there
\* is one, model_cleanup_pending() keeps every lease where it is.
Reaping == {r \in live : ~InTurn(r)}

\* Mutant: the end of the turn counts as the end of its processes.
ProvenByReturn(r) == r \in DOMAIN cancels /\ ~InTurn(r)

\* run_cleanup_proven()
CleanupProven(r) == r \in DOMAIN cancels /\ r \notin live

\* A turn returns with its processes reaped, or hands them to the reaper.
LeaveProcesses(r) == live' \in {live, live \ {r}}

\* try_acquire_execution() returning Ok(true), and Err.
Acquires(r) == Reaping = {} /\ ~cancels[r] /\ AcquireRunOk(book, r)

AcquireFails(r) ==
    /\ Reaping = {}
    /\ \/ cancels[r]
       \/ ~RunningParent(book, Root)
       \/ r # Root /\ book.children[r].state # "Waiting"

AllInactive == ActiveChildren(book) = {}

\* latest(): the newest record of the agent of c.
Latest(c) ==
    /\ c \in DOMAIN book.children
    /\ \A d \in DOMAIN book.children :
            book.children[d].agent = book.children[c].agent => d <= c

\* The parent's worker is not inside finish_ready().
AtParent(pc) == parent.pc = pc /\ finishing.by # Root

Goto(pc) == parent' = [parent EXCEPT !.pc = pc]

\* execute() returned Err, or the provider's turn ended.
EndTurn(ok) ==
    /\ parent' = [parent EXCEPT !.pc = "over", !.ok = ok]
    /\ LeaveProcesses(Root)

\* finish_after_parent() returned.
Return(ok) == parent' = [parent EXCEPT !.pc = "await", !.ok = @ /\ ok]

\* close() up to its list of the children to stop.
StartClose(ok) ==
    /\ closed' = TRUE
    /\ parent' = [parent EXCEPT !.pc = "closing", !.ok = @ /\ ok,
                                !.todo = ActiveChildren(book)]

-----------------------------------------------------------------------------
(* The commands of the parent's turn: execute() *)

\* yield_parent(); the lease is free while the command runs.  When execute()
\* refuses before that, the turn has failed: TurnEnds.
CommandBegins ==
    /\ AtParent("turn")
    /\ parent.commands < MaxCommands
    /\ ~closed
    /\ ~cancels[Root]
    /\ YieldRunOk(book, Root)
    /\ book' = YieldRunTo(book, Root)
    /\ parent' = [parent EXCEPT !.pc = "command", !.commands = @ + 1]
    /\ UNCHANGED <<cancels, live, closed, slots, worker, finishing, signals, stops, hindered>>

\* The command is answered with an error: the wake failed, the agent is not
\* known, the child is active, the admission is refused.
CommandErrs ==
    /\ AtParent("command")
    /\ Goto("request")
    /\ UNCHANGED <<book, cancels, live, closed, slots, worker, finishing, signals, stops, hindered>>

\* The admissions of Spawn and Continue.  A continuation needs the workspace
\* that the slot of its predecessor still keeps.
Admissions ==
    {[role |-> role, isolated |-> isolated, predecessor |-> NoRun] :
        role \in Roles, isolated \in Isolations}
    \cup
    {[role |-> book.children[c].role, isolated |-> book.children[c].isolated,
      predecessor |-> c] :
        c \in {d \in DOMAIN slots : Latest(d) /\ d \notin ActiveChildren(book)}}

Admit(admission) ==
    /\ AtParent("command")
    /\ finishing = NoFinish
    /\ ~cancels[Root]
    /\ AdmitChildRunOk(book, Root, admission)

Spawn(admission) ==
    LET c == book.nextOrdinal
    IN  /\ Admit(admission)
        /\ book' = AdmitChildRunTo(book, Root, admission)
        /\ cancels' = Put(cancels, c, FALSE)
        /\ slots' = Put(slots, c, "None")
        /\ worker' = Put(worker, c, [pc |-> "acquire", result |-> "None"])
        /\ Goto("request")
        /\ UNCHANGED <<live, closed, finishing, signals, stops, hindered>>

\* The journal or the thread fails after the admission: the child is finished
\* as Failed, unless the same trouble (a full disk) fails that write as well.
SpawnFails(admission) ==
    LET c == book.nextOrdinal
        admitted == AdmitChildRunTo(book, Root, admission)
    IN  /\ Admit(admission)
        /\ Fault
        /\ \/ /\ book' = FinishChildRunTo(admitted, c, "Failed")
              /\ UNCHANGED cancels
           \/ /\ book' = admitted
              /\ cancels' = Put(cancels, c, FALSE)
        /\ slots' \in {slots, Put(slots, c, "None")}
        /\ Goto("request")
        /\ UNCHANGED <<live, closed, worker, finishing, signals, stops>>

Message(c) ==
    /\ AtParent("command")
    /\ Latest(c)
    /\ ReserveMessageOk(book, Root, c)
    /\ book' = ReserveMessageTo(book, Root)
    /\ Goto("request")
    /\ UNCHANGED <<cancels, live, closed, slots, worker, finishing, signals, stops, hindered>>

WaitBegins ==
    /\ AtParent("command")
    /\ book.children # << >>
    /\ Goto("wait")
    /\ UNCHANGED <<book, cancels, live, closed, slots, worker, finishing, signals, stops, hindered>>

\* wait() returns at its deadline, when one of the agents is inactive, or with
\* an error after a stop.
WaitEnds ==
    /\ AtParent("wait")
    /\ Goto("request")
    /\ UNCHANGED <<book, cancels, live, closed, slots, worker, finishing, signals, stops, hindered>>

\* Stop: stop_child() records the stop, then signals it.
StopCommand(c) ==
    /\ AtParent("command")
    /\ Latest(c)
    /\ StopChildOk(book, c)
    /\ book' = StopChildTo(book, c)
    /\ parent' = [parent EXCEPT !.pc = "stopping", !.todo = {c}]
    /\ UNCHANGED <<cancels, live, closed, slots, worker, finishing, signals, stops, hindered>>

\* cancel_run_ids() for the child in todo.
Signalled(requested) ==
    [r \in DOMAIN cancels |-> cancels[r] \/ r \in CancelSelection(book, requested)]

StopSignalled ==
    /\ AtParent("stopping")
    /\ \/ cancels' = Signalled(parent.todo) /\ UNCHANGED hindered
       \/ Fault /\ UNCHANGED cancels
    /\ parent' = [parent EXCEPT !.pc = "request", !.todo = {}]
    /\ UNCHANGED <<book, live, closed, slots, worker, finishing, signals, stops>>

RequestResume ==
    /\ AtParent("request")
    /\ IF ResumeRunOk(book, Root)
       THEN \/ /\ book' = ResumeRunTo(book, Root)
               /\ Goto("resume")
               /\ UNCHANGED <<live, hindered>>
            \/ Fault /\ EndTurn(FALSE) /\ UNCHANGED book
       ELSE EndTurn(FALSE) /\ UNCHANGED <<book, hindered>>
    /\ UNCHANGED <<cancels, closed, slots, worker, finishing, signals, stops>>

ResumeAcquires ==
    /\ AtParent("resume")
    /\ Acquires(Root)
    /\ book' = AcquireRunTo(book, Root)
    /\ Goto("turn")
    /\ UNCHANGED <<cancels, live, closed, slots, worker, finishing, signals, stops, hindered>>

ResumeFails ==
    /\ AtParent("resume")
    /\ cancels[Root] \/ AcquireFails(Root)
    /\ EndTurn(FALSE)
    /\ UNCHANGED <<book, cancels, closed, slots, worker, finishing, signals, stops, hindered>>

TurnEnds ==
    /\ AtParent("turn")
    /\ \E ok \in BOOLEAN : EndTurn(ok)
    /\ UNCHANGED <<book, cancels, closed, slots, worker, finishing, signals, stops, hindered>>

\* A turn that was signalled ends.
SignalledTurnEnds == AtParent("turn") /\ cancels[Root] /\ TurnEnds

-----------------------------------------------------------------------------
(* After the turn: finish_after_parent(), close() and the queue worker *)

\* A successful turn whose processes are gone hands its lease to the children
\* that are still active.
FinishAfterParent ==
    /\ AtParent("over")
    /\ IF parent.ok /\ CleanupProven(Root) /\ ~AllInactive /\ YieldRunOk(book, Root)
       THEN \/ /\ book' = YieldRunTo(book, Root)
               /\ Goto("drain")
               /\ UNCHANGED <<closed, hindered>>
            \/ /\ Fault                                  \* yield_parent fails
               /\ StartClose(TRUE)
               /\ UNCHANGED book
            \/ /\ Fault                                  \* the wake fails
               /\ book' = YieldRunTo(book, Root)
               /\ Return(FALSE)
               /\ UNCHANGED closed
       ELSE StartClose(TRUE) /\ UNCHANGED <<book, hindered>>
    /\ UNCHANGED <<cancels, live, slots, worker, finishing, signals, stops>>

DrainEnds ==
    /\ AtParent("drain")
    /\ \/ AllInactive /\ StartClose(TRUE) /\ UNCHANGED hindered
       \/ ~AllInactive /\ StartClose(FALSE) /\ Late        \* 15 minutes
    /\ UNCHANGED <<book, cancels, live, slots, worker, finishing, signals, stops>>

NextToStop == CHOOSE c \in parent.todo : \A d \in parent.todo : c <= d

\* stop_child() for the next child of the list: the record, then the signal.
CloseStops ==
    /\ AtParent("closing")
    /\ parent.todo # {}
    /\ \/ /\ NextToStop \in ActiveChildren(book)
          /\ book' = StopChildTo(book, NextToStop)
          /\ Goto("signalling")
          /\ UNCHANGED hindered
       \/ /\ NextToStop \notin ActiveChildren(book)
          /\ parent' = [parent EXCEPT !.todo = @ \ {NextToStop}]
          /\ UNCHANGED <<book, hindered>>
       \/ Fault /\ Return(FALSE) /\ UNCHANGED book
    /\ UNCHANGED <<cancels, live, closed, slots, worker, finishing, signals, stops>>

CloseSignals ==
    /\ AtParent("signalling")
    /\ \/ /\ cancels' = Signalled({NextToStop})
          /\ parent' = [parent EXCEPT !.pc = "closing", !.todo = @ \ {NextToStop}]
          /\ UNCHANGED hindered
       \/ Fault /\ Return(FALSE) /\ UNCHANGED cancels
    /\ UNCHANGED <<book, live, closed, slots, worker, finishing, signals, stops>>

\* Mutant: close() waits for its children without a deadline.
CloseEndsUnbounded ==
    /\ AtParent("closing")
    /\ parent.todo = {}
    /\ AllInactive
    /\ Return(TRUE)
    /\ UNCHANGED <<book, cancels, live, closed, slots, worker, finishing, signals, stops, hindered>>

\* Mutant: close() does not wait for its children.
CloseEndsAtOnce ==
    /\ AtParent("closing")
    /\ parent.todo = {}
    /\ Return(TRUE)
    /\ UNCHANGED <<book, cancels, live, closed, slots, worker, finishing, signals, stops, hindered>>

CloseEnds ==
    /\ AtParent("closing")
    /\ parent.todo = {}
    /\ \/ AllInactive /\ Return(TRUE) /\ UNCHANGED hindered
       \/ ~AllInactive /\ Return(FALSE) /\ Late            \* 30 seconds
    /\ UNCHANGED <<book, cancels, live, closed, slots, worker, finishing, signals, stops>>

\* spawn_queue_worker(): the run keeps its slot until the parent's processes
\* are gone, however long that takes; then the stop is read, then completed.
CleanupAwaited ==
    /\ AtParent("await")
    /\ CleanupProven(Root)
    /\ parent' = [parent EXCEPT !.pc = "completing",
                                !.stop = book.runs[Root].state = "StopRequested"]
    /\ UNCHANGED <<book, cancels, live, closed, slots, worker, finishing, signals, stops, hindered>>

\* resolve_queue_completion()
Completions ==
    IF parent.stop THEN {"Stopped"}
    ELSE IF parent.ok THEN {"Done", "NeedsReview", "Failed"}
    ELSE {"Failed"}

\* complete_run() is tried once; what it refuses stays active until a restart.
CompleteRun ==
    /\ AtParent("completing")
    /\ IF CleanupProven(Root) /\ CompleteRunOk(book, Root)
       THEN \/ \E completion \in Completions :
                 /\ book' = CompleteRunTo(book, Root, completion)
                 /\ cancels' = Without(cancels, {Root})
                 /\ Goto("completed")
                 /\ UNCHANGED hindered
            \/ Fault /\ Goto("refused") /\ UNCHANGED <<book, cancels>>
       ELSE Goto("refused") /\ UNCHANGED <<book, cancels, hindered>>
    /\ UNCHANGED <<live, closed, slots, worker, finishing, signals, stops>>

-----------------------------------------------------------------------------
(* The child workers: run_child() *)

WorkerGoto(c, pc, result) == worker' = [worker EXCEPT ![c] = [pc |-> pc, result |-> result]]

\* closed is read before try_acquire_execution(), so a lease may still be
\* taken just after close() set it.
WorkerAcquires(c) ==
    /\ worker[c].pc = "acquire"
    /\ Acquires(c)
    /\ book' = AcquireRunTo(book, c)
    /\ live' = live \cup {c}
    /\ WorkerGoto(c, "turn", "None")
    /\ UNCHANGED <<cancels, closed, slots, parent, finishing, signals, stops, hindered>>

\* Mutant: only the close of the family ends the wait for a lease.
WorkerWaitsOn(c) ==
    /\ worker[c].pc = "acquire"
    /\ closed
    /\ cancels' = [cancels EXCEPT ![c] = TRUE]
    /\ WorkerGoto(c, "ending", "Error")
    /\ UNCHANGED <<book, live, closed, slots, parent, finishing, signals, stops, hindered>>

WorkerRefused(c) ==
    /\ worker[c].pc = "acquire"
    /\ \/ (closed \/ cancels[c] \/ AcquireFails(c)) /\ UNCHANGED hindered
       \/ Fault
    /\ cancels' = [cancels EXCEPT ![c] = @ \/ closed]
    /\ WorkerGoto(c, "ending", "Error")
    /\ UNCHANGED <<book, live, closed, slots, parent, finishing, signals, stops>>

WorkerTurnEnds(c) ==
    /\ worker[c].pc = "turn"
    /\ \E result \in Results : WorkerGoto(c, "ending", result)
    /\ LeaveProcesses(c)
    /\ UNCHANGED <<book, cancels, closed, slots, parent, finishing, signals, stops, hindered>>

SignalledWorkerTurnEnds(c) ==
    /\ worker[c].pc = "turn"
    /\ cancels[c]
    /\ WorkerTurnEnds(c)

\* The outcome as the worker sees it: a stop of the app decides Stopped, and
\* a result that cannot be recorded is Failed.
JudgedOutcome(c, recorded) ==
    LET result == worker[c].result
    IN  IF result # "Error" /\ ~recorded THEN "Failed"
        ELSE IF closed \/ book.children[c].state = "StopRequested" THEN "Stopped"
        ELSE IF result = "Completed" THEN "Done"
        ELSE IF result = "CompletedWithChanges" THEN "NeedsReview"
        ELSE "Failed"

WorkerStores(c) ==
    LET changes == worker[c].result \in {"FailedWithChanges", "CompletedWithChanges"}
    IN  /\ worker[c].pc = "ending"
        /\ finishing = NoFinish
        /\ IF worker[c].result # "Error" /\ ChildReviewResultOk(book, c, changes)
           THEN \/ /\ book' = ChildReviewResultTo(book, c, changes)
                   /\ slots' = [slots EXCEPT ![c] = JudgedOutcome(c, TRUE)]
                   /\ UNCHANGED hindered
                \/ /\ Fault
                   /\ slots' = [slots EXCEPT ![c] = "Failed"]
                   /\ UNCHANGED book
           ELSE /\ slots' = [slots EXCEPT ![c] = JudgedOutcome(c, FALSE)]
                /\ UNCHANGED <<book, hindered>>
        /\ WorkerGoto(c, "finish", "None")
        /\ UNCHANGED <<cancels, live, closed, parent, finishing, signals, stops>>

\* catch_unwind(): a panic of the turn stops the child and stores Failed.
WorkerPanics(c) ==
    /\ worker[c].pc = "turn"
    /\ finishing = NoFinish
    /\ Fault
    /\ book' = StopChildTo(book, c)
    /\ cancels' = [cancels EXCEPT ![c] = TRUE]
    /\ slots' = [slots EXCEPT ![c] = "Failed"]
    /\ WorkerGoto(c, "finish", "None")
    /\ LeaveProcesses(c)
    /\ UNCHANGED <<closed, parent, finishing, signals, stops>>

-----------------------------------------------------------------------------
(* finish_ready() *)

Finished == {c \in DOMAIN slots : slots[c] # "None"}

\* Its callers: a worker once, the parent's worker at each poll.  A poll that
\* would finish nobody is left out.
CallsFinish(by) ==
    IF by = Root
    THEN /\ parent.pc \in {"wait", "resume", "drain"} \/ (parent.pc = "closing" /\ parent.todo = {})
         /\ \E c \in Finished \cap ActiveChildren(book) : CleanupProven(c)
    ELSE worker[by].pc = "finish"

\* finish_ready() goes on with todo, or returns: a worker is done then, and
\* the parent polls again.
FinishGoesOn(by, todo, stopped) ==
    /\ finishing' = IF todo = {} THEN NoFinish
                    ELSE [by |-> by, todo |-> todo, stopped |-> stopped]
    /\ worker' = [c \in DOMAIN worker |->
            IF c = by /\ todo = {} THEN [worker[c] EXCEPT !.pc = "ended"] ELSE worker[c]]

\* The state lock is taken and the records are read.
FinishBegins(by) ==
    /\ finishing = NoFinish
    /\ CallsFinish(by)
    /\ FinishGoesOn(by, Finished \cap ActiveChildren(book),
                    {c \in Finished : book.children[c].state = "StopRequested"})
    /\ UNCHANGED <<book, cancels, live, closed, slots, parent, signals, stops, hindered>>

NextToFinish == CHOOSE c \in finishing.todo : \A d \in finishing.todo : c <= d

\* A stop that the records already showed wins over the stored outcome.
FinishOutcome(c) == IF c \in finishing.stopped THEN "Stopped" ELSE slots[c]

FinishChild ==
    /\ finishing.todo # {}
    /\ LET c == NextToFinish
       IN  \/ /\ CleanupProven(c)
              /\ FinishChildRunOk(book, c, FinishOutcome(c))
              /\ book' = FinishChildRunTo(book, c, FinishOutcome(c))
              /\ cancels' = Without(cancels, {c})
           \/ ~CleanupProven(c) /\ UNCHANGED <<book, cancels>>
    /\ FinishGoesOn(finishing.by, finishing.todo \ {NextToFinish}, finishing.stopped)
    /\ UNCHANGED <<live, closed, slots, parent, signals, stops, hindered>>

\* A refused finish_child() ends the call, and for the parent what it was
\* waiting in: a wait is answered with the error, a resume fails the turn, and
\* a drain or a close returns without having ended the children.
FinishAborts ==
    /\ finishing.todo # {}
    /\ \/ /\ CleanupProven(NextToFinish)
          /\ ~FinishChildRunOk(book, NextToFinish, FinishOutcome(NextToFinish))
          /\ hindered' = [hindered EXCEPT !.raced = TRUE]
       \/ CleanupProven(NextToFinish) /\ Fault
    /\ FinishGoesOn(finishing.by, {}, {})
    /\ \/ finishing.by # Root /\ UNCHANGED <<parent, live>>
       \/ finishing.by = Root /\ parent.pc = "wait" /\ Goto("request") /\ UNCHANGED live
       \/ finishing.by = Root /\ parent.pc = "resume" /\ EndTurn(FALSE)
       \/ finishing.by = Root /\ parent.pc \in {"drain", "closing"} /\ Return(FALSE)
            /\ UNCHANGED live
    /\ UNCHANGED <<book, cancels, closed, slots, signals, stops>>

-----------------------------------------------------------------------------
(* The user and the reaper *)

UserStop(r) ==
    /\ stops < MaxStops
    /\ stops' = stops + 1
    /\ signals' = signals \cup {r}

\* AgentFamilies::stop() and QueueCoordinator::request_stop(): the record.
UserStopsChild(c) ==
    /\ StopChildOk(book, c)
    /\ book.children[c].state # "StopRequested"
    /\ book' = StopChildTo(book, c)
    /\ UserStop(c)
    /\ UNCHANGED <<cancels, live, closed, slots, worker, parent, finishing, hindered>>

UserStopsRun ==
    /\ RunningParent(book, Root)
    /\ book' = StopTo(book, {Root})
    /\ UserStop(Root)
    /\ UNCHANGED <<cancels, live, closed, slots, worker, parent, finishing, hindered>>

\* cancel_run_ids() for it: a stopped run stops its children.
UserSignals(r) ==
    /\ \/ /\ book' = CancelRunIdsTo(book, {r})
          /\ cancels' = Signalled({r})
          /\ UNCHANGED hindered
       \/ Fault /\ UNCHANGED <<book, cancels>>
    /\ signals' = signals \ {r}
    /\ UNCHANGED <<stops, live, closed, slots, worker, parent, finishing>>

Reap(r) ==
    /\ live' = live \ {r}
    /\ UNCHANGED <<book, cancels, closed, slots, worker, parent, finishing, signals, stops, hindered>>

-----------------------------------------------------------------------------
(* Specification *)

ParentStep ==
    \/ CommandBegins \/ CommandErrs \/ WaitBegins \/ WaitEnds \/ StopSignalled
    \/ \E admission \in Admissions : Spawn(admission) \/ SpawnFails(admission)
    \/ \E c \in DOMAIN book.children : Message(c) \/ StopCommand(c)
    \/ RequestResume \/ ResumeAcquires \/ ResumeFails \/ TurnEnds
    \/ FinishAfterParent \/ DrainEnds \/ CloseStops \/ CloseSignals
    \/ CloseEnds \/ CleanupAwaited \/ CompleteRun

WorkerStep(c) ==
    \/ WorkerAcquires(c) \/ WorkerRefused(c) \/ WorkerTurnEnds(c)
    \/ WorkerStores(c) \/ WorkerPanics(c)

FinishStep == FinishChild \/ FinishAborts

FamilyNext ==
    \/ ParentStep
    \/ \E c \in DOMAIN worker : WorkerStep(c)
    \/ \E by \in {Root} \cup DOMAIN worker : FinishBegins(by)
    \/ FinishStep
    \/ \E c \in DOMAIN book.children : UserStopsChild(c)
    \/ UserStopsRun
    \/ \E r \in signals : UserSignals(r)
    \/ \E r \in Reaping : Reap(r)

\* Threads run, timers fire, a recorded stop is signalled and the reaper keeps
\* trying.  A turn must end only once it was signalled, and nobody has to issue
\* a command or a stop.  One condition for all of them is enough: every thread
\* takes finitely many steps, so none can starve another for ever.
Progress ==
    \/ \E r \in Reaping : Reap(r)
    \/ \E r \in signals : UserSignals(r)
    \/ FinishStep
    \/ \E by \in {Root} \cup DOMAIN worker : FinishBegins(by)
    \/ \E c \in DOMAIN worker :
            \/ WorkerAcquires(c) \/ WorkerRefused(c) \/ SignalledWorkerTurnEnds(c)
            \/ WorkerStores(c)
    \/ CommandErrs \/ WaitEnds \/ StopSignalled \/ RequestResume \/ ResumeAcquires
    \/ ResumeFails \/ SignalledTurnEnds
    \/ FinishAfterParent \/ DrainEnds \/ CloseStops \/ CloseSignals
    \/ CloseEnds \/ CleanupAwaited \/ CompleteRun

FamilyFairness == WF_familyVars(Progress)

FamilySpec == FamilyInit /\ [][FamilyNext]_familyVars /\ FamilyFairness

-----------------------------------------------------------------------------
(* Properties *)

\* The state is well formed: the book passes validate_book(), every active
\* run and child has a handle and nobody else has, and a slot belongs to a
\* child of the book.
FamilyTypeOK ==
    /\ ValidateBook(book)
    /\ DOMAIN cancels = ActiveRuns(book) \cup ActiveChildren(book)
    /\ \A r \in DOMAIN cancels : cancels[r] \in BOOLEAN
    /\ live \subseteq {Root} \cup DOMAIN worker
    /\ DOMAIN worker \subseteq DOMAIN slots
    /\ DOMAIN slots \subseteq DOMAIN book.children
    /\ DOMAIN book.children \subseteq ChildIds
    /\ finishing.by \in {NoRun, Root} \cup DOMAIN worker
    /\ parent.todo \subseteq DOMAIN book.children
    /\ signals \subseteq {Root} \cup DOMAIN book.children

\* Model capacity is never given back early (the comment of
\* spawn_queue_worker: a timeout must never manufacture cleanup evidence or
\* release model execution capacity).  A child with a process keeps its lease,
\* the parent executes only with its own, and a run with a process is active.
CapacityKeptUntilReaped ==
    /\ live \ {Root} \subseteq HeldRuns(book.ex)
    /\ parent.pc = "turn" => Root \in HeldRuns(book.ex)
    /\ Root \in live => Root \in ActiveRuns(book)

\* Completion of the parent is refused, and the run then stays active until a
\* restart, only after something went wrong: a failed write, wake or signal, a
\* deadline, or a stop that overtook finish_ready() between its read of the
\* records and finish_child().
RefusedOnlyWhenHindered ==
    parent.pc = "refused" => hindered.faults > 0 \/ hindered.late \/ hindered.raced

\* Once its turn is over, the queue worker of the parent always comes to
\* complete_run(), whatever the children, the user and the disk do.
ParentSettles == parent.pc = "over" ~> parent.pc \in {"completed", "refused"}

\* A stopped child that has a worker ends, unless an effect failed, the run was
\* refused or the provider never ends the parent's turn.
StopTakesEffect ==
    \A c \in ChildIds :
        [](c \in DOMAIN worker /\ book.children[c].state = "StopRequested"
            => <>(\/ c \notin ActiveChildren(book)
                  \/ hindered.faults > 0
                  \/ parent.pc = "refused"
                  \/ [](parent.pc = "turn")))
=============================================================================
