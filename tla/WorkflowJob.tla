----------------------------- MODULE WorkflowJob -----------------------------
(***************************************************************************)
(* One workflow job of grok-build-tauri: its checkpoint                    *)
(* (workflows/journal.rs) in memory and on disk, the item each attempt has *)
(* in the prompt queue, the commands that start, resume and list it        *)
(* (commands/workflows.rs, workflows/store.rs), and the worker that runs   *)
(* its script (commands/scheduling/workflow.rs, workflows/runner.rs and    *)
(* grok-build-workflow/src/engine.rs).                                     *)
(*                                                                         *)
(* Each step makes at most one durable write, to the checkpoint or to the  *)
(* queue, and each write can fail before or after the file changed; the    *)
(* app can stop between any two.  start and resume write three times and   *)
(* hold the scheduler's mutex meanwhile, list holds it too; the worker     *)
(* does not.                                                               *)
(*                                                                         *)
(* A script is taken to ask anything at each position, which includes      *)
(* every deterministic script.  A request stands for its fingerprint.  The *)
(* queue item of an attempt and its one run are named by the attempt.      *)
(* Left out: arguments, phase, scratch values and the stored outcome; the  *)
(* frozen script, workspace, session and transport of a job, whose checks  *)
(* may refuse at any time here; other jobs and other runs, which can only  *)
(* keep a resume from starting.                                            *)
(***************************************************************************)
EXTENDS Naturals, Sequences

CONSTANTS
    Requests,          \* what a script can ask of its host
    Cost,              \* the children a request starts
    Pauses,            \* the requests that end an attempt as paused
    Values,            \* results
    Maximum,           \* JobInput.maximum
    MaxCalls,          \* MAX_HOST_CALLS, 256 in the code
    MaxAttempts,       \* 32 in the code
    MaxRestarts,       \* bound of this model: stops and crashes of the app
    MaxFaults          \* bound of this model: failing writes

NoValue == "no value"

ASSUME WorkflowAssumption ==
    /\ Cost \in [Requests -> Nat]
    /\ Pauses \subseteq {r \in Requests : Cost[r] = 0}
    /\ NoValue \notin Values
    /\ {Maximum, MaxCalls, MaxRestarts, MaxFaults} \subseteq Nat
    /\ MaxAttempts \in Nat \ {0}

VARIABLES
    mem,        \* the job in WorkflowRegistry.jobs
    disk,       \* its checkpoint file
    queue,      \* the item of each attempt in the queue book
    queueDisk,  \* the same in the book's file
    cmd,        \* the next write of a start or resume that is under way
    list,       \* where a list is that did not find the job in the registry
    copy,       \* the job that list has loaded
    pc,         \* where the worker is
    w,          \* its attempt, current call, outcome and cancellation
    replies,    \* the answers its script has got, one per call
    executed,   \* history: how often each call was carried out
    produced,   \* history: what each call asked and brought
    spawned,    \* history: children started for the job
    reverted,   \* history: a list has saved a copy with another journal
    restarts,
    faults

queues == <<queue, queueDisk>>

commands == <<cmd, list, copy>>

worker == <<pc, w, replies>>

history == <<executed, produced, spawned, reverted>>

vars == <<mem, disk, queues, commands, worker, history, restarts, faults>>

Attempts == 1 .. MaxAttempts

Calls == 1 .. MaxCalls

NewJob(transient) ==
    [state |-> "Ready", attempt |-> 1, item |-> 0, run |-> 0, used |-> 0,
     effects |-> <<>>, transient |-> transient, available |-> TRUE]

NoJob == [NewJob(FALSE) EXCEPT !.state = "Absent"]

NoWork ==
    [attempt |-> 0, request |-> NoValue, value |-> NoValue,
     outcome |-> "None", failed |-> FALSE, cancelled |-> FALSE]

WorkflowInit ==
    /\ mem = NoJob
    /\ disk = NoJob
    /\ queue = [a \in Attempts |-> "None"]
    /\ queueDisk = queue
    /\ cmd = "none"
    /\ list = "none"
    /\ copy = NoJob
    /\ pc = "idle"
    /\ w = NoWork
    /\ replies = <<>>
    /\ executed = [i \in Calls |-> 0]
    /\ produced = [i \in Calls |-> [request |-> NoValue, value |-> NoValue]]
    /\ spawned = 0
    /\ reverted = FALSE
    /\ restarts = 0
    /\ faults = 0

-----------------------------------------------------------------------------
(* The checkpoint *)

\* save(): the file of a transient job holds no results.
Save(job) ==
    IF ~job.transient THEN job
    ELSE [job EXCEPT
            !.available = FALSE,
            !.effects = [i \in DOMAIN @ |-> [job.effects[i] EXCEPT !.value = NoValue]]]

\* Mutant: loading drops the entry that did not complete.
LoadTrims(job) ==
    IF job.state # "Running" THEN job
    ELSE [job EXCEPT !.state = "Interrupted",
                     !.effects = SelectSeq(@, LAMBDA e : e.done)]

\* load(): whoever was running it is gone.
Load(job) == IF job.state = "Running" THEN [job EXCEPT !.state = "Interrupted"] ELSE job

Pending(q, attempt) == q[attempt] \in {"Queued", "Running"}

\* Mutant: an attempt whose item is not linked counts as lost.
ReconcileUnlinked(job, q) ==
    IF job.state = "Ready" /\ (job.item = 0 \/ ~Pending(q, job.attempt))
    THEN [job EXCEPT !.state = "Interrupted"] ELSE job

\* reconcile_ready(): a failed enqueue, a removed item or a failed start has
\* left the job without its item.
Reconcile(job, q) ==
    IF job.state = "Ready" /\ ~Pending(q, job.attempt)
    THEN [job EXCEPT !.state = "Interrupted"] ELSE job

Fails == faults < MaxFaults /\ faults' = faults + 1

Works == UNCHANGED faults

\* mutate(): an error puts the job in memory back, whatever the file now holds.
Saved(job) == Works /\ mem' = job /\ disk' = Save(job)

NotSaved(job) == Fails /\ mem' = mem /\ disk' \in {disk, Save(job)}

\* QueueCoordinator::mutate()
Queue(q) == Works /\ queue' = q /\ queueDisk' = q

NotQueued(q) == Fails /\ queue' = queue /\ queueDisk' \in {queueDisk, q}

-----------------------------------------------------------------------------
(* Commands *)

SchedulerFree == cmd = "none" /\ list = "none"

Idle == \A a \in Attempts : queue[a] # "Running"

\* start_project_workflow(), first write: create() of the registry.
Start(transient) ==
    /\ SchedulerFree
    /\ disk = NoJob
    /\ \/ Saved(NewJob(transient)) /\ cmd' = "enqueue"
       \/ NotSaved(NewJob(transient)) /\ UNCHANGED cmd
    /\ UNCHANGED <<queues, list, copy, worker, history, restarts>>

\* enqueue_workflow(); the queue may also be full.
Enqueue ==
    /\ cmd = "enqueue"
    /\ LET q == [queue EXCEPT ![mem.attempt] = "Queued"]
       IN  \/ queue[mem.attempt] = "None" /\ Queue(q) /\ cmd' = "link"
           \/ NotQueued(q) /\ cmd' = "none"
           \/ cmd' = "none" /\ UNCHANGED <<queues, faults>>
    /\ UNCHANGED <<mem, disk, list, copy, worker, history, restarts>>

Link ==
    /\ cmd = "link"
    /\ LET job == [mem EXCEPT !.item = mem.attempt] IN Saved(job) \/ NotSaved(job)
    /\ cmd' = "none"
    /\ UNCHANGED <<queues, list, copy, worker, history, restarts>>

\* get() of the registry, for workflow_result and the other commands.
Open ==
    /\ mem = NoJob
    /\ disk # NoJob
    /\ \/ Works /\ mem' = Load(disk) /\ disk' = Load(disk)
       \/ Load(disk) # disk /\ Fails /\ UNCHANGED mem /\ disk' \in {disk, Load(disk)}
    /\ UNCHANGED <<queues, commands, worker, history, restarts>>

\* resume_project_workflow(), after its get().
RequestResume ==
    /\ SchedulerFree
    /\ Idle
    /\ mem.state \notin {"Absent", "Running"}
    /\ LET job == Reconcile(mem, queue)
       IN  IF job = mem
           THEN cmd' = "resume" /\ UNCHANGED <<mem, disk, faults>>
           ELSE \/ Saved(job) /\ cmd' = "resume"
                \/ NotSaved(job) /\ UNCHANGED cmd
    /\ UNCHANGED <<queues, list, copy, worker, history, restarts>>

Resumable(job) ==
    /\ job.available
    /\ job.state \in {"Paused", "Interrupted", "Stopped", "Failed"}
    /\ job.attempt < MaxAttempts
    /\ \A i \in DOMAIN job.effects : job.effects[i].done

\* Mutant: the next attempt gets the whole budget again.
NextAttemptRefunds(job) ==
    [job EXCEPT !.attempt = @ + 1, !.state = "Ready", !.item = 0, !.run = 0, !.used = 0]

NextAttempt(job) ==
    [job EXCEPT !.attempt = @ + 1, !.state = "Ready", !.item = 0, !.run = 0]

Resume ==
    /\ cmd = "resume"
    /\ \/ Resumable(mem) /\ Saved(NextAttempt(mem)) /\ cmd' = "enqueue"
       \/ Resumable(mem) /\ NotSaved(NextAttempt(mem)) /\ cmd' = "none"
       \/ ~Resumable(mem) /\ cmd' = "none" /\ UNCHANGED <<mem, disk, faults>>
    /\ UNCHANGED <<queues, list, copy, worker, history, restarts>>

\* view() of the registry, when it has the job: it is reconciled under its
\* lock, and when that changes nothing a copy once more after the lock is given
\* up, while the worker goes on.
List ==
    /\ SchedulerFree
    /\ mem # NoJob
    /\ LET job == Reconcile(mem, queue)
       IN  \/ /\ job # mem
              /\ Saved(job) \/ NotSaved(job)
              /\ UNCHANGED <<list, copy>>
           \/ /\ job = mem
              /\ list' = "reconcile"
              /\ copy' = mem
              /\ UNCHANGED <<mem, disk, faults>>
    /\ UNCHANGED <<queues, cmd, worker, history, restarts>>

\* view(), when it has not: load() happens outside any lock on the job.
ListMisses ==
    /\ SchedulerFree
    /\ mem = NoJob /\ disk # NoJob
    /\ list' = "load"
    /\ UNCHANGED <<mem, disk, queues, cmd, copy, worker, history, restarts, faults>>

ListLoads ==
    /\ list = "load"
    /\ copy' = Load(disk)
    /\ list' = IF Load(disk) = disk THEN "reconcile" ELSE "save"
    /\ UNCHANGED <<mem, disk, queues, cmd, worker, history, restarts, faults>>

\* The journal of the job as it is now is not the one that is written.
Reverts(job) ==
    LET now == IF mem = NoJob THEN disk ELSE Save(mem)
    IN  job.used # now.used \/ job.effects # now.effects

\* The copy is saved, whatever has become of the job since it was made.
Writes(job) ==
    \/ /\ Works \/ Fails
       /\ disk' = job
       /\ reverted' = (reverted \/ Reverts(job))
    \/ Fails /\ UNCHANGED <<disk, reverted>>

ListSaves ==
    /\ list = "save"
    /\ Writes(copy)
    /\ list' = "none"
    /\ copy' = NoJob
    /\ UNCHANGED <<mem, queues, cmd, worker, executed, produced, spawned, restarts>>

ListReconciles ==
    /\ list = "reconcile"
    /\ LET job == Reconcile(copy, queue)
       IN  \/ job = copy /\ UNCHANGED <<disk, reverted, faults>>
           \/ job # copy /\ Writes(Save(job))
    /\ list' = "none"
    /\ copy' = NoJob
    /\ UNCHANGED <<mem, queues, cmd, worker, executed, produced, spawned, restarts>>

\* remove() of the queue; a running item is stopped first.
Remove(a) ==
    /\ queue[a] \in {"Queued", "Ended"}
    /\ LET q == [queue EXCEPT ![a] = "None"] IN Queue(q) \/ NotQueued(q)
    /\ UNCHANGED <<mem, disk, commands, worker, history, restarts>>

-----------------------------------------------------------------------------
(* The worker of an attempt *)

\* begin_run() for the item, and the thread that carries it out.
Begin(a) ==
    /\ SchedulerFree
    /\ pc = "idle"
    /\ Idle
    /\ queue[a] = "Queued"
    /\ LET q == [queue EXCEPT ![a] = "Running"]
       IN  \/ Queue(q) /\ pc' = "check" /\ w' = [NoWork EXCEPT !.attempt = a]
           \/ NotQueued(q) /\ UNCHANGED <<pc, w>>
    /\ UNCHANGED <<mem, disk, commands, replies, history, restarts>>

\* stop_workflow(), any other stop of the run, and the deadline of 30 minutes.
Cancel ==
    /\ pc # "idle"
    /\ ~w.cancelled
    /\ w' = [w EXCEPT !.cancelled = TRUE]
    /\ UNCHANGED <<mem, disk, queues, commands, pc, replies, history, restarts, faults>>

GoTo(point) == pc' = point /\ UNCHANGED <<w, replies>>

\* The error of a step ends the worker without an outcome.
Breaks == pc' = "close" /\ w' = [w EXCEPT !.failed = TRUE] /\ UNCHANGED replies

Bound(job) ==
    /\ job.state = "Ready"
    /\ job.attempt = w.attempt
    /\ job.available
    /\ job.item \in {0, w.attempt}

\* The first half of execute(): get() and the checks, after which the lock on
\* the job is given up.
Check ==
    /\ pc = "check"
    /\ LET job == IF mem = NoJob THEN Load(disk) ELSE mem
       IN  /\ \/ /\ Works
                 /\ mem' = job
                 /\ disk' = IF mem = NoJob THEN job ELSE disk
                 /\ (Bound(job) /\ GoTo("start")) \/ Breaks
              \/ /\ mem = NoJob /\ job # disk
                 /\ Fails
                 /\ UNCHANGED mem
                 /\ disk' \in {disk, job}
                 /\ Breaks
    /\ UNCHANGED <<queues, commands, history, restarts>>

\* The second half: Running is written whatever the job has become meanwhile.
Run ==
    /\ pc = "start"
    /\ LET job == [mem EXCEPT !.state = "Running", !.item = w.attempt, !.run = w.attempt]
       IN  \/ Saved(job) /\ GoTo("freeze")
           \/ NotSaved(job) /\ Breaks
    /\ UNCHANGED <<queues, commands, history, restarts>>

\* prepare_workflow() and what follows may refuse; the snapshot is saved.
Freeze ==
    /\ pc = "freeze"
    /\ \/ Saved(mem) /\ GoTo("script")
       \/ NotSaved(mem) /\ Breaks
       \/ Breaks /\ UNCHANGED <<mem, disk, faults>>
    /\ UNCHANGED <<queues, commands, history, restarts>>

Ends(outcome) ==
    pc' = "outcome" /\ w' = [w EXCEPT !.outcome = outcome] /\ UNCHANGED replies

\* The script returns, throws, or is found cancelled.
Finish ==
    /\ pc = "script"
    /\ \/ Ends("Completed")
       \/ Ends("Failed")
       \/ w.cancelled /\ Ends("Stopped")
    /\ UNCHANGED <<mem, disk, queues, commands, history, restarts, faults>>

\* The position of the current call.
Position == Len(replies) + 1

Answered(request, value) ==
    replies' = Append(replies, [request |-> request, value |-> value])

\* Mutant: a replay does not compare the request with the recorded one.
ReplaysAny(job, i, request) ==
    i \in DOMAIN job.effects /\ job.effects[i].done /\ job.effects[i].value # NoValue

\* begin() finding the call in the journal.
Replays(job, i, request) ==
    /\ i \in DOMAIN job.effects
    /\ job.effects[i].request = request
    /\ job.effects[i].done
    /\ job.effects[i].value # NoValue

\* Mutant: the budget is what one request may cost.
AffordsEach(job, request) == Cost[request] <= Maximum

Affords(job, request) == job.used + Cost[request] <= Maximum

Admits(job, i, request) ==
    /\ i = Len(job.effects) + 1
    /\ i <= MaxCalls
    /\ Affords(job, request)

Intend(job, request) ==
    [job EXCEPT !.used = @ + Cost[request],
                !.effects = Append(@, [request |-> request, done |-> FALSE,
                                       value |-> NoValue])]

Active(job) == job.state = "Running" /\ job.available

\* Host::call() up to its effect: begin() replays, records the intent, or
\* refuses.
Call(request) ==
    LET i == Position
    IN  /\ pc = "script"
        /\ \/ /\ Active(mem) /\ Replays(mem, i, request)
              /\ Answered(request, mem.effects[i].value)
              /\ UNCHANGED <<mem, disk, pc, w, faults>>
           \/ /\ Active(mem) /\ Admits(mem, i, request)
              /\ \/ /\ Saved(Intend(mem, request))
                    /\ pc' = "effect" /\ w' = [w EXCEPT !.request = request]
                    /\ UNCHANGED replies
                 \/ NotSaved(Intend(mem, request)) /\ Ends("Failed")
           \/ /\ ~ (Active(mem) /\ (Replays(mem, i, request) \/ Admits(mem, i, request)))
              /\ Ends("Failed")
              /\ UNCHANGED <<mem, disk, faults>>
        /\ UNCHANGED <<queues, commands, history, restarts>>

\* A hook, or the call itself, refuses before anything happens.
Refuse ==
    /\ pc = "effect"
    /\ Ends("Failed")
    /\ UNCHANGED <<mem, disk, queues, commands, history, restarts, faults>>

Brings(value) ==
    /\ produced' = [produced EXCEPT ![Position] = [request |-> w.request, value |-> value]]
    /\ w' = [w EXCEPT !.value = value]
    /\ pc' = "complete"
    /\ UNCHANGED replies

\* agents(): children may be started and the call fail all the same, when a
\* later one is refused or the wait for them ends.
StartChildren(value) ==
    /\ pc = "effect"
    /\ Cost[w.request] > 0
    /\ executed' = [executed EXCEPT ![Position] = @ + 1]
    /\ \/ spawned' = spawned + Cost[w.request] /\ Brings(value)
       \/ /\ \E n \in 0 .. Cost[w.request] : spawned' = spawned + n
          /\ Ends("Failed")
          /\ UNCHANGED produced
    /\ UNCHANGED <<mem, disk, queues, commands, reverted, restarts, faults>>

\* local_call() saves what it changes in the job.
LocalCall(value) ==
    /\ pc = "effect"
    /\ Cost[w.request] = 0
    /\ executed' = [executed EXCEPT ![Position] = @ + 1]
    /\ \/ Saved(mem) /\ Brings(value)
       \/ NotSaved(mem) /\ Ends("Failed") /\ UNCHANGED produced
    /\ UNCHANGED <<queues, commands, spawned, reverted, restarts>>

CompleteTo(job, i, value) ==
    [job EXCEPT !.effects[i] = [@ EXCEPT !.done = TRUE, !.value = value]]

\* complete(), and what request() and pause() of the engine make of the reply.
Complete ==
    LET job == CompleteTo(mem, Position, w.value)
    IN  /\ pc = "complete"
        /\ \/ Saved(job) /\ w.cancelled /\ Ends("Stopped")
           \/ /\ Saved(job) /\ ~w.cancelled
              /\ Answered(w.request, w.value)
              /\ \/ /\ w.request \in Pauses
                    /\ pc' = "outcome" /\ w' = [w EXCEPT !.outcome = "Paused"]
                 \/ /\ w.request \notin Pauses
                    /\ pc' = "script"
                    /\ w' = [w EXCEPT !.request = NoValue, !.value = NoValue]
           \/ NotSaved(job) /\ Ends("Failed")
        /\ UNCHANGED <<queues, commands, history, restarts>>

\* The end of workflows::execute().
RecordOutcome ==
    /\ pc = "outcome"
    /\ LET job == [mem EXCEPT !.state = w.outcome]
       IN  \/ Saved(job) /\ GoTo("close")
           \/ NotSaved(job) /\ Breaks
    /\ UNCHANGED <<queues, commands, history, restarts>>

\* Mutant: the job is left as it is.
CloseUnmarked ==
    /\ pc = "close"
    /\ pc' = "end"
    /\ w' = [NoWork EXCEPT !.attempt = w.attempt]
    /\ replies' = <<>>
    /\ UNCHANGED <<mem, disk, queues, commands, history, restarts, faults>>

\* Closing the runtime and the family may fail too; then, or after an error,
\* mark_interrupted() is tried once.
Close ==
    /\ pc = "close"
    /\ \/ ~w.failed /\ UNCHANGED <<mem, disk, faults>>
       \/ IF mem.run = w.attempt /\ mem.state = "Running"
          THEN LET job == [mem EXCEPT !.state = "Interrupted"]
               IN  Saved(job) \/ NotSaved(job)
          ELSE UNCHANGED <<mem, disk, faults>>
    /\ pc' = "end"
    /\ w' = [NoWork EXCEPT !.attempt = w.attempt]
    /\ replies' = <<>>
    /\ UNCHANGED <<queues, commands, history, restarts>>

\* complete_run(); when it fails the item stays as it is until a restart.
End ==
    /\ pc = "end"
    /\ LET q == [queue EXCEPT ![w.attempt] = "Ended"] IN Queue(q) \/ NotQueued(q)
    /\ pc' = "idle"
    /\ w' = NoWork
    /\ UNCHANGED <<mem, disk, commands, replies, history, restarts>>

\* The app stops or crashes and is started again; recover_interrupted() ends
\* what was running.
Restart ==
    /\ restarts < MaxRestarts
    /\ restarts' = restarts + 1
    /\ mem' = NoJob
    /\ queue' = [a \in Attempts |-> IF queueDisk[a] = "Running" THEN "Ended" ELSE queueDisk[a]]
    /\ queueDisk' = queue'
    /\ cmd' = "none"
    /\ list' = "none"
    /\ copy' = NoJob
    /\ pc' = "idle"
    /\ w' = NoWork
    /\ replies' = <<>>
    /\ UNCHANGED <<disk, history, faults>>

-----------------------------------------------------------------------------
(* The specification *)

CommandNext ==
    \/ \E transient \in BOOLEAN : Start(transient)
    \/ Enqueue
    \/ Link
    \/ Open
    \/ RequestResume
    \/ Resume
    \/ List
    \/ ListMisses
    \/ ListLoads
    \/ ListSaves
    \/ ListReconciles
    \/ \E a \in Attempts : Remove(a)

WorkerNext ==
    \/ \E a \in Attempts : Begin(a)
    \/ Cancel
    \/ Check
    \/ Run
    \/ Freeze
    \/ Finish
    \/ \E request \in Requests : Call(request)
    \/ Refuse
    \/ \E value \in Values : StartChildren(value) \/ LocalCall(value)
    \/ Complete
    \/ RecordOutcome
    \/ Close
    \/ End

WorkflowNext == CommandNext \/ WorkerNext \/ Restart

WorkflowSpec == WorkflowInit /\ [][WorkflowNext]_vars
-----------------------------------------------------------------------------
(* Properties *)

JobStates ==
    {"Absent", "Ready", "Running", "Completed", "Paused", "Interrupted", "Failed", "Stopped"}

EffectRecord == [request : Requests, done : BOOLEAN, value : Values \cup {NoValue}]

Job ==
    [state : JobStates, attempt : Attempts, item : 0 .. MaxAttempts, run : 0 .. MaxAttempts,
     used : 0 .. Maximum, effects : Seq(EffectRecord), transient : BOOLEAN,
     available : BOOLEAN]

ItemStates == {"None", "Queued", "Running", "Ended"}

Reply == [request : Requests \cup {NoValue}, value : Values \cup {NoValue}]

Points ==
    {"idle", "check", "start", "freeze", "script", "effect", "complete", "outcome",
     "close", "end"}

Work ==
    [attempt : 0 .. MaxAttempts, request : Requests \cup {NoValue},
     value : Values \cup {NoValue}, failed : BOOLEAN, cancelled : BOOLEAN,
     outcome : {"None", "Completed", "Paused", "Failed", "Stopped"}]

\* Checkpoints, queue items and the worker have the shape the code gives them
\* (validate() of the checkpoint; the used budget never passes the maximum).
WorkflowTypeOK ==
    /\ {mem, disk, copy} \subseteq Job
    /\ queue \in [Attempts -> ItemStates]
    /\ queueDisk \in [Attempts -> ItemStates]
    /\ cmd \in {"none", "enqueue", "link", "resume"}
    /\ list \in {"none", "load", "save", "reconcile"}
    /\ pc \in Points
    /\ w \in Work
    /\ replies \in Seq(Reply)
    /\ executed \in [Calls -> Nat]
    /\ produced \in [Calls -> Reply]
    /\ spawned \in Nat
    /\ reverted \in BOOLEAN
    /\ restarts \in Nat
    /\ faults \in Nat

\* "Durable intent precedes each host effect; uncertain entries cannot replay":
\* no host call of a job is carried out twice, over all its attempts, crashes
\* and failed writes (begin() and resume() of the journal).
EffectsNeverRepeat == \A i \in Calls : executed[i] <= 1

\* The same as long as no list has put an older journal in its place (view()).
EffectsAtMostOnce == ~reverted => EffectsNeverRepeat

\* Whatever attempt it is, a script gets as its i-th answer what its i-th call
\* once brought, and to the same request: begin() replays nothing else.  This
\* holds as long as no list has put an older journal in its place.
ReplayFaithful ==
    ~reverted => \A i \in DOMAIN replies : i \in Calls /\ replies[i] = produced[i]

\* All attempts of a job together start at most input.maximum children: what
\* begin() charges is never given back after a child may have started, as long
\* as no list has put an older journal, and the charges of then, in its place.
BudgetHolds == ~reverted => spawned <= Maximum

\* The worker that runs a script owns the checkpoint, although it gives up the
\* lock between its checks and the Running it writes (execute() in
\* scheduling/workflow.rs); and unless a write failed a job is Running only
\* while it has a worker.
AttemptOwned ==
    /\ pc \in {"freeze", "script", "effect", "complete", "outcome"} =>
        mem.state = "Running" /\ mem.attempt = w.attempt /\ mem.run = w.attempt
    /\ mem.state = "Running" /\ pc \in {"idle", "check", "start", "end"} => faults > 0

\* "An existing exact queued attempt keeps ownership even if the crash preceded
\* writing its item link into the workflow store": as long as no write fails,
\* a queued item is the current attempt of a job that is ready, whatever crash
\* came between the writes to the two stores.
QueuedAttemptRunnable ==
    \A a \in Attempts : queue[a] = "Queued" /\ faults = 0 =>
        LET job == IF mem = NoJob THEN disk ELSE mem
        IN  job.state = "Ready" /\ job.attempt = a
=============================================================================
