# GB Plus: a TLA+ development

This directory holds TLA+ modules for the parts of GB Plus that decide what is
carried out, in which order, and what survives a crash: the prompt queue of the
Tauri application and the model-execution leases it hands out, the controller of
a family of child agents, the journal of a workflow job, the lock and unlock of
the session, and the accept transaction that writes accepted changes into the
user's files. The modules are translated from the Rust source and checked with
TLC on small instances; the safety of the lease book, the queue, the family
controller, the accept transaction and the workflow journal is proved with TLAPS
for every size.

## 1. Inventory of the system

| part | state | operations | interacts with |
|---|---|---|---|
| **execution leases** `grok-build-plus-host/src/plus_execution.rs` | members (parent or child, lease state, waiting position), one budget per family | admit, configure, reserve a message, yield, resume, acquire, retire, finish, recover, validate | a value inside the queue book |
| **prompt queue** `grok-build-tauri/src/queue.rs`, `queue/*` | one book: items, runs, steering intents, children, leases, review blocks, removal requests; its file; cancellation handles; suspension flag | 30 commands, each through `mutate()`: clone, change, validate, replace the file, or roll back | scheduler, workers, family controllers, session events |
| **scheduler pass** `commands/scheduling.rs` | scheduler mutex, candidate list | `schedule_available` prepares and starts candidates, blocks or gives up | queue, provider runtime |
| **family controller** `collaboration/mod.rs` | slots of finished children, child worker threads, `closed`, message journal | spawn, message, wait, stop, resume, drain and close with deadlines; `finish_ready` under the state lock | queue (children, leases, cancellation), worktrees |
| **session lifecycle** `session_lifecycle.rs`, `runtime/manager.rs` | one task per notification, suspension flag, account connection, reconnect mark, bridge grants | resign: record all stops, then cancel and revoke; become active: reconnect, resume, schedule | queue, runtime manager, bridges |
| **owner state** `owner_state.rs` | files in an owner-only directory | lock, load, write-sync-rename-sync replacement | every durable part |
| **accept transaction** `accept_transaction.rs` | journal of an acceptance, workspace files, pending set in memory and in the session book | begin, apply, decide, commit, roll back, recover | review commands of `backend.rs`, `plus_proposal.rs`, `plus_session.rs` |
| **workflows** `workflows/*`, `commands/workflows.rs`, `scheduling/workflow.rs`, crate `grok-build-workflow` | a checkpoint per job, in memory and on disk: attempt, journal of host calls, charges; a registry; one queue item per attempt | start, resume, list, stop; the worker: check, run, intend, carry out, complete, replay, close | queue (workflow items), family (children) |
| **bounded processes** | children of the operating system, a reaper | spawn, kill, prove the end | leases: capacity is kept until the end is proven |
| **worktrees, git review, bridges** (browser, capture, desktop, pty, voice), **extensions, events, notifications** | files, processes, small queues | mostly operating-system I/O | application commands |
| **plus host** (`plus_session`, `plus_live`, `plus_mcp`, `plus_services`, `plus_tools`) | conversation, tools, MCP connections | one turn of a model conversation | provider runtime |
| **core** (`ledger.rs`, `scheduler.rs`, `live_state.rs`, `completion.rs`, `optimal_finish.rs`, `trust.rs`) | SQLite event ledger and reducers over it | attempts, effects, approvals, evidence | desktop coordinator, runner |
| **runner, runner client** | journals, held launches, snapshots, services | launch, contain, apply, capture output, recover | core contracts |
| **desktop coordinator, providers, keychain broker, native origin** | coordinator over the ledger; recordings; secrets | | ledger, runner |

What is hard here: three mutexes taken in a fixed order (scheduler, cancellation
registry, book), with user commands, a scheduler pass, worker and child threads
and session notifications between them; a book that is replaced on disk as a
whole, where the caller may be told that a replacement failed although the
rename took effect; steering that may or may not have reached a provider when
the process dies; a bounded queue in which steering reserves a slot it may need
later; two leases shared by parents and children of several families, in the
order of their positions, with isolation between worktrees; reviews that outlive
the run that caused them; a workflow attempt that is created, queued and linked
by three writes to two files; a host call that may have happened when its record
says it only began; threads of a family that act on records read under an
earlier lock; notifications whose tasks overlap. `PROJECT.json` lists each hazard at its line.

What makes the parts correct: a message starts at most once and is not lost; a
recorded stop reaches its handle; a completion or a restart is never refused by
the book's own validation; unreviewed changes block their project until they are
reviewed; leases respect capacity, order and isolation; budgets never refill; an
accepted set of changes is written or undone as a whole, and no edit of the user
is overwritten; a host call of a workflow is carried out at most once over all
attempts, and its budget holds over all of them (sections 5 and 6 say where the
code falls short of these two); model capacity is kept until
the processes that use it are gone; a stop ends the child it is for, and the
worker of a run always comes to completing it; nothing granted survives a lock.

## 2. Modules

| module | models | state and actions |
|---|---|---|
| `LeaseBook` | `PlusExecutionBook` as a value | for each method `XOk` (when it returns Ok) and `XTo` (the book it leaves); `Validate` |
| `LeaseBook_proofs` | what each way of changing an execution book does to `validate()` | lemmas only, shared by the proofs of the leases, the queue and the family |
| `ModelLeases` | the same book owned by one caller with one position counter | `ex`, `nextOrdinal`; one action per method |
| `ModelLeases_proofs` | the theorems on `ModelLeases` | |
| `QueueBook` | the queue book, its mutations and `validate_book` | operators on a book value, again `XOk` and `XTo`; contains a `LeaseBook` value in `b.ex` |
| `QueueBook_proofs` | what every operation does to a book that `validate_book` accepts | lemmas only |
| `MessageLifecycle` | what the queue promises a message | abstract specification over a stage per message |
| `PromptQueue` | `QueueCoordinator` with its file, handles, scheduler pass, signals, session flag and restarts | `book`, `disk`, `available`, `cancels`, `pass`, `signals`, `suspended`; one action per operation |
| `PromptQueue_proofs` | the theorems on `PromptQueue` | |
| `QueueRefinement_proofs` | that the queue implements `ModelLeases` and `MessageLifecycle` | |
| `AcceptTransaction` | `accept_all` with its journal, `accept_file`, the rejections and the recovery at the start | `files`, `pending`, `stored` (the session book), `journal`, `pc` and `left` for the running command; one action per effect of a command |
| `AcceptTransaction_proofs` | the theorems on `AcceptTransaction` | |
| `WorkflowJob` | a workflow job, its checkpoint, the queue items of its attempts, the commands and the worker | `mem` and `disk` (the checkpoint), `queue` and `queueDisk`, `cmd`, `list` and `copy` (commands under way), `pc`, `w`, `replies` (the worker), a history of what was carried out |
| `WorkflowJob_proofs` | the theorems on `WorkflowJob` | |
| `FamilyController` | one family over a `QueueBook` value | `book`, `cancels`, `live` (processes), `closed`, `slots`, `worker` (one thread per child), `parent` (the queue worker), `finishing` (the state lock), `signals`, `stops`, `hindered`; one action per step of a thread |
| `FamilyController_proofs` | the theorems on `FamilyController` | |
| `SessionLifecycle` | lock and unlock notifications | `tasks` (one per notification), the suspension flag, runs, the account and the grants; one action per step of a task |
| `MCModelLeases`, `MCPromptQueue`, `MCAcceptTransaction`, `MCWorkflowJob`, `MCFamilyController`, `MCSessionLifecycle` | symmetry sets and instances for TLC | |

`PromptQueue` composes the book with its environment. A command holds the book's
mutex throughout and is one step; where the code releases a mutex between two
parts of an operation, the model has two steps: a stop is recorded
(`RecordStop`, `StopChild`, `RemoveItem`, `ResignSession`) and later signalled
(`CancelRunIds`, `CancelRefused`, `SignalRemoval`); a scheduler pass reads its
candidates (`StartPass`) and works through them one at a time (`BeginRun`,
`MarkBlocked`, `AbandonPass`) while other commands run. `SchedulerFree` is the
scheduler mutex. An item, its run and its position share one number, since
an item is started at most once; a child and its position likewise.

`mutate()` is `Saved` or `Faulty`. A refused command changes nothing and is not
a step. `Faulty` is `OwnerFile::replace` failing after its rename: the file is
new, memory is old. A failure before the rename leaves both old and is no step
either. `Restart` is a crash at any point followed by `open()`: it settles the
file in the order of the code (leases, children and runs; removals; steering),
saves if something changed, and leaves the queue unavailable if that is refused.

Abstractions: prompt texts, titles, attachments, models, timestamps, digests and
the formatting of views are left out; a transport is a model value; what the
review of a project says is an input (`SetReviewBlocked`,
`ReconcileReviewBlocks`); cleanup proofs are external and may arrive at any time.
The trimming of old steering records removes the first settled ones in the order
of the list; the book keeps its steering as a set, so the model lets it choose
(`TrimChoices`).

`AcceptTransaction` splits a command after every effect on a workspace file, the
journal or the session book, since a crash, or an edit by the user, can fall
between any two, and splits the comparison of a file from the write or unlink
that follows (`Apply` and `Overwrite`, `RollBack` and `Restore`, `AcceptFile` and
`AcceptWrite`; lines 720 and 730, 650 and 657 of `plus_proposal.rs`). `window`
says what the user did in between: an edit in place is overwritten, while a file
that was replaced or created makes the write fail, except an unlink, which takes
whatever has the name. An effect may fail: a replacement of the journal or the
book before its rename (no step) or after it, a write of a file with the file
untouched, torn or complete; files are written in place, so a crash tears them
too.

A content is a text, a new number for each edit, proposal or torn write, and
whether it ends with a newline. `compose_current_bytes` does not return the bytes
it was given: it ends the lines of one side with a newline if either side has
one. `Composed` says so, and the three comparisons are made with what it returns:
`Expected` is what an Accept must find and a rollback writes back, `Undoable` what
a rollback must find. So a file without the final newline whose proposal adds it
is always refused, and an accepted proposal that takes it away can be compared
but not rolled back. The other alterations of that function (two-byte line ends,
invalid UTF-8) have the same two consequences and are left out, and so are edits
that change the final newline only, remove a file or restore an old text. The
history variables `edited`, `torn`, `accepted`, `overtaken` (a command ran beside
an outstanding journal) and `doubted` (the save of a decision failed after its
rename) are for the properties only. Staging is the end of a run of the queue, and
the review gate a command refreshes at its end is `SetReviewBlocked` of
`PromptQueue`.

`WorkflowJob` has a step per durable write, to the checkpoint or to the queue:
each can fail before or after the file changed, and the app can stop between any
two. `Start` or `Resume`, `Enqueue` and `Link` are the three writes of one
command, which holds the scheduler mutex; `List` takes it too, but reads a job
without the lock of the registry, which `ListLoads`, `ListSaves` and
`ListReconciles` show. The worker holds neither: `Begin`, `Check` and `Run` are
separate, and a host call is `Call` (replay, refusal, or the durable intent),
`StartChildren` or `LocalCall` (the effect) and `Complete`. A script may ask
anything at each position, which includes every deterministic script; a request
stands for its fingerprint. Arguments, phases, scratch values and the stored
outcome are left out. A worker may act on the job while a list holds a copy of
it, and the list then saves the copy over what the worker wrote; `reverted`
records that a list has saved a copy with another journal (calls or charges) than
the job had at that moment.

`FamilyController` starts from a started parent run with its budget. A step is
what a thread does under one lock. `FinishBegins` reads the finished slots and
the records under the state lock, `FinishChild` takes the book's lock anew for
each of them, and a user's stop falls between the two. `Fault` is a failing
write, wake, signal or thread; a deadline (30 seconds in `close()`, the wait for
the cleanup proof) may pass at any time, which `hindered.late` records. The
family journal is only a write that may fail. `Reap` is the reaper of processes;
`Reaping` is what `model_cleanup_pending()` sees.

`SessionLifecycle` models each notification as a task whose steps take the
backend lock one by one, so tasks of successive notifications interleave; the
stops are recorded within the resign notification itself.

Definitions whose comment begins with "Mutant" are plausible bugs of the
definition after them. No specification uses them; substituting one makes TLC
report the property it is listed with in `PROJECT.json`.

## 3. Runs

| run | instance | what it shows |
|---|---|---|
| `leases` | 3 runs, 2 projects, 3 workspaces, 2 snapshots, budget 2, positions up to 3 (132 262 states) | the guards of the methods alone keep `validate()` true; budgets only grow; no active child is dropped; no deadlock |
| `queue_steering` | 1 project, 2 slots, 2 steering records, 4 positions, 1 restart (85 673) | completion and reopening are never refused; every message keeps `MessageLifecycle`; messages of a project start in order |
| `queue_leases` | 2 projects, one with an Explore child, budget 1, 4 positions, session locks, 1 restart (about 217 000) | refinement: the leases in the queue behave as `ModelLeases`; a locked session has no run without a recorded stop and gives no lease; a parent can complete once its family is done |
| `queue_faults` | 1 project, 2 transports, a workflow ticket, steering, a child, budget 2, review blocks, 1 fault, 1 restart (304 596) | after a replacement that failed late nothing starts twice; handles match active work; the file can be reopened; a child with unreviewed changes stays, unless the restart continues from a file that already holds the user's answer |
| `queue_removal` | 1 project, 1 steering record | **violated**: see section 6 |
| `accept` | 2 files, one of them new, one with or without a final newline, 4 texts, 2 failing effects, 2 restarts (about 3 304 000) | a journal goes only with its set completely applied or completely undone, a decision in doubt apart; edits of the user are overwritten only between a comparison and its write; a durable acceptance is not taken back; recovery refuses only over files it does not know or cannot compare |
| `accept_decision` | 2 files, 1 failing effect, 1 restart | **violated**: see section 6 |
| `accept_outstanding` | 2 files, 1 failing effect, 1 restart | **violated**: see section 6 |
| `workflow` | a parallel call of two children and a pause, 2 calls, 3 attempts, maximum 2, 2 failing writes, 1 restart, lists at any time (6 378 323) | until a list has saved an older journal no host call is carried out twice, replays answer what was answered, and the budget holds over all attempts; in any case a running worker owns its checkpoint and a queued item can be run whatever crash came before |
| `workflow_list` | 1 call, 2 attempts, 2 restarts | **violated**: see section 6 |
| `family` | 1 child, budget 2, 2 commands, 1 fault, 2 stops by the user (about 520 000) | the book stays valid with exactly the handles of what is active; capacity is kept until the processes are gone; completion is refused only after a fault, a deadline or a race; the parent's worker always comes to `complete_run`; a stopped child ends |
| `session` | 1 run, 3 notifications | **violated**: see section 6 |

Bounds. Two leases and two families are the values of the code. Budgets (8 and
32 in the code) become 1 or 2: with 2 a budget is spent by an admission and a
message, by two children, and is exhausted. `MaxQueueItems` 2 makes the queue
full with one running item and one waiting, or one reserved for steering.
Positions up to 4 allow a parent, a child, a resumed parent behind it and another
project, or four messages. One restart suffices for what one process can leave
behind, since the restarted book is again a book of the first process's shape
and the run continues after it; one fault is one late failure at any operation.
`MaxSignals` 1 allows one recorded and not yet signalled stop, during which
everything else happens. The steering, leases and faults instances
are separate because their product is out of reach; the operations they share
are the same definitions.

In `accept`, two files are the least for which a set can be half written; one is
absent at first, so that a rollback removes it, and one may lack its final
newline before or after; four texts are the first content, a set, and two more
for a second set, an edit of each file or torn writes; two faults and two crashes interrupt a rollback or a recovery that is
itself the answer to a fault or a crash.

In `workflow`, a maximum of 2 is spent by one parallel call, which may also start
fewer, and would be exceeded by a second one; a pause costs nothing and ends the
attempt; three attempts are a first run, a resume after
a crash, and one more after a failed write; two faults let the answer to a
failed write fail as well. In `family`, one child record with a fault at every
step and two stops lets the child, the parent's own turn, the drain and the close
meet in every order; the two commands spawn it, and message, wait for or stop it.
Two children multiply this beyond reach. For them `FamilyTypeOK`,
`CapacityKeptUntilReaped` and `RefusedOnlyWhenHindered` are theorems (section 4);
the liveness of a second child behind a first is not checked. In `session`, three
notifications are lock, unlock, lock.

Only `leases` checks deadlock: elsewhere an idle application may stay idle, and a
behaviour that has used its bounds stops.

Fairness. `FamilySpec` assumes weak fairness of `Progress` and nothing else: the
threads of the family run (each polls every 50 ms), timers fire, a recorded stop
is signalled, and the reaper keeps trying. A provider's turn has to end only once
its handle was signalled, which is what cancellation is for; nobody has to
issue a command, and no stop has to come. One condition for all threads is
enough because each of them takes finitely many steps, so none can keep another
waiting for ever. `ParentSettles` and `StopTakesEffect` are the liveness
properties. The other modules state safety only: when a user accepts, resumes or
unlocks is up to the user.

## 4. What is proved

`ModelLeases_proofs` proves for every number of leases, families, runs, projects,
workspaces and for every budget ceiling allowed by `LeaseBookAssumption` and
`ModelLeasesAssumption`:

- `LeasesTypeCorrect`: `LeasesSpec => []LeasesTypeOK`;
- `ValidationInvariant`: `LeasesSpec => []ValidationNeverRefuses`, that is, the
  final `validate()` of every method accepts what its guards let through;
- `BudgetsOnlyGrow`: `LeasesSpec => BudgetNeverResets`;
- `ActiveChildrenKept`: `LeasesSpec => NoActiveChildDropped`.

The argument. `LeasesTypeOK` is inductive by itself: positions come from the
counter, so every waiting position lies below it. The inductive invariant of the
second theorem is `LeasesInv == LeasesTypeOK /\ Validate(ex)`: validity of the
book before a step is needed to keep it (that a parent's children are of one
snapshot and separate workspaces, that positions are distinct), and the type
invariant supplies that a new position differs from all old ones. The methods
change the book in four ways, each with a lemma: one member's lease
(`SetLeaseValid`), a budget (`AddBudgetValid`, `SpendValid`), one more member
(`AdmitParentValid`, `AddChildValid`), and a family removed
(`FinishParentValid`); what does not depend on how runs are numbered is in
`LeaseBook_proofs`. The bound on entries needs counting: `EntriesCounted`
bounds the members by the families times one plus the ceiling. Cardinalities use
the library's theorems on finite sets. The two action properties follow per
action from the same invariant (`NextCharged`, `NextKeepsChildren`).

`QueueImplementsLeases` (below) carries all of this over to the queue.

`PromptQueue_proofs` proves, for every set of projects, transports and tickets and
all bounds (`PromptQueueAssumption`, `QueueBookAssumption`), one theorem for each
safety property of the runs of the queue: `QueueTypeCorrect`, `HandlesMatch`,
`ReviewBlocks`, `SuspensionStops`, `CompletionAlwaysAccepted`,
`RestartAlwaysRecovers`, and the action properties `PendingReviewNeverDropped`,
`NoWorkRepeats`, `ProjectsStartInOrder` and `LockedSessionTakesNoLease`. They hold
with any number of crashes and of replacements of the file that fail after the
rename, except where the property itself speaks of executions without one
(section 5). The argument has two layers.

- `QueueBook_proofs` is about values. For a book that is well typed and accepted
  by `validate_book` (`Good`), every operation leaves a well typed book, and a
  lemma per operation says what it does to the active runs and children, the
  leases, the waiting items, their order and the pending reviews. For completion
  and for the settlement at a restart they show more: the result is again
  accepted by `validate_book` (unless `SteeredRemoval`, the finding of section 6),
  which `CompletionNeverRefused` and `RestartRecovers` are about.
- `PromptQueue_proofs` lifts this to the coordinator. The inductive invariant
  `QueueInv` says that the book in memory and the book in the file are both good,
  that the file is at most one operation ahead of memory, so that a message never
  goes back between the two and no message overtakes another of its project, that
  both agree while nothing failed, that the handles are those of the active work,
  that a suspended session has all its runs stopped, and that the items a
  scheduler pass has still to start are the first ones of their projects. The
  relation between memory and file is needed for the restart, which continues
  from the file. `StepOK` is what a step does; the action properties follow
  from it.

`QueueRefinement_proofs` proves the two refinements that the runs check,
`QueueImplementsLeases` (`LeasesImplemented`) and `QueueKeepsLifecycle`
(`MessagesKeepLifecycle`): the initial states map to initial states, and each step
of the coordinator is one step of `ModelLeases`, and one of `MessageLifecycle`, or a
stutter. Both assume `MaxFaults = 0`. After a replacement that failed late, the
app may restart from an operation it has reported as refused, and settle it in
the same step: that is two steps of the abstract specification in one. What is
promised then is stated by the theorems above. The instances TLC checks have the
same bound.

`AcceptTransaction_proofs` proves, for every finite set of files and every number
of contents, faults and restarts (`AcceptAssumption`): `AcceptTypeCorrect`,
`UserEditsSafe`, `RollbacksComplete`, `AllOrNothing`, `AcceptanceKept` and
`RefusalsJustified`, one for each property of the `accept` run. They rest on the
inductive invariant `AcceptInv`, whose parts are

- `AcceptTypeOK`;
- `EditsForeign`: every text was used once and lies below `fresh`, and a file the
  user changed holds the text of neither side of any proposal, so every comparison
  the code makes before a write fails on it;
- `WindowOK`: the one file about to be written has been compared, so it is the
  user's only if he saved it after that, which is the window `UserEditsKept`
  excepts;
- `Undone`: a rollback has restored (to `Expected`) the files behind it, and a
  journal that is about to be removed without a durable decision has all of them
  restored;
- `Done`: an Accept has written the files behind it, and while no command ran
  beside a journal and no decision is in doubt (`Orderly`), the journal is decided
  only with all of them written and is never rolled back once decided;
- `Durable`: while `Orderly`, an accepted content is in its file, or is what the
  outstanding journal will restore.

`Effects` and `NoNewProposals` classify the steps (what can happen to a file, and
to a set of proposals); the other lemmas have one step per action.
`RefusalsJustified` needs a second invariant on top, `RefusalInv`, about executions
that are `Orderly` and without a failed effect (`Clean`): a file of the journal
holds one side of its proposal unless somebody else wrote it or a crash tore it
(`Intact`), memory and the session book agree outside a decision, so that the
state recovery calls mixed never arises (`Agreed`), and an unbound project has in
its journal a file that is foreign, or whose proposal composes to other bytes
than the ones that were written (`Refused`). TLC confirmed each part on the
instance of `accept` before it was proved.

`WorkflowJob_proofs` proves, for all requests, costs, maxima, numbers of calls,
attempts, restarts and faults (`WorkflowAssumption`): `WorkflowTypeCorrect`
(which includes that `begin()` never charges beyond the maximum),
`JournalCorrect`, `EffectsOnce`, `RepliesFaithful` and `BudgetKept`. Nothing is
assumed about the interleaving of commands and worker. The last three properties
say `~reverted =>`: they hold until a list has saved an older journal, which is
the finding of `workflow_list`. The inductive invariant is
`TypeInv /\ (reverted \/ JournalInv)`, where `TypeInv` is `WorkflowTypeOK` with what each point
of the worker knows of its own call (its request, value or outcome), and `JournalInv` says

- both stores account for everything that was done: a call that was carried out
  has an entry, a completed entry has what the call brought, and the charges
  cover the children that were started and those a running call may start;
- the intent of the current call is in both stores before its effect begins,
  and the job of a worker is in memory while it runs;
- replies are what was produced, and nothing was carried out twice.

Both stores are needed, since a write reported as failed may have changed the
file, and a restart then continues from it. The lemmas first reduce a step to
what it adds to the history (`KeepAccounts`): saving, loading and reconciling
keep the journal of a job, so only a call, an effect, a completion and a start
need an argument of their own. A copy that a list saves has, unless it reverts the
journal, the calls and charges that a save of the job in memory would write.

`AttemptAlwaysOwned` and `QueuedAttemptsRunnable` hold whatever lists save.
Their inductive invariant is `OwnerInv`: a job that exists stays (`Presented`), a
worker holds its queue item, which keeps every command from its job, and leaves
no job Running behind unless a write failed (`Owned`), and while no write failed
whoever reads the job of a queued item, in memory, in the file or in the copy of
a list, finds it ready for that attempt (`Matched`).

`FamilyController_proofs` proves, for any number of leases, child records, commands,
stops by the user and faults (`FamilyAssumption` and the assumptions of the
books), the safety properties of the runs of the family: `FamilyWellFormed`
(`FamilyTypeOK`), `CapacityKept` (`CapacityKeptUntilReaped`) and `RefusalsExplained`
(`RefusedOnlyWhenHindered`). `FamilyAssumption` asks that `MaxQueueItems` is not 0
(it is 5000 in the code), since the family starts with the message of its parent
in the queue.

The first half of the module is about values: each operation on a family leaves
a book that `validate_book` accepts. `PromptQueue` asks `validate_book` before
it saves; `FamilyController` does not, so here the guards have to suffice.
That is true of a `FamilyBook` only: a good book with one parent and nothing
else (`OneParent`) in which the invocations of an agent form one chain
(`Chained`), which is what makes the guard of a continuation, that the invocation
has no successor, enough for the agent's next one. The second half shows that
`FamilyInv` is inductive, with a lemma per action. Its parts and why they are
needed:

- `ParentInv`: a command takes at most two positions, one for the admission and
  one for the resumption of the parent, so the children's numbers are bounded by
  the commands; the parent has its run until it completes, and a lease during
  its turn;
- `WorkerInv`: a worker thread that still works has an active child and has stored
  no outcome, so nobody finishes that child while its process lives;
- `HandleInv`: the handles are those of the active runs and children, and a child
  with a process holds its lease, which is the content of
  `CapacityKeptUntilReaped`;
- `FinishInv`: a `finish_ready()` under way moves stored outcomes only, whatever
  stops came after it read the records;
- `HinderInv`: as long as no fault, deadline or race happened, no child is active
  when the parent waits for its own cleanup and completes, so that completion
  cannot be refused.

TLC confirmed `FamilyInv` on the instance of `family` and on one of two children
without faults.

Only model-checked: `SessionLifecycle`, whose one property the code violates, and
all liveness (`ParentSettles`, `StopTakesEffect`), which is out of reach of the
prover and stays with TLC.

## 5. Properties and what they exclude

`CompletionNeverRefused` and `RestartRecovers` exclude one case by name,
`SteeredRemoval`: the finding below. `SuspensionStopsAllRuns` and
`NoLeaseWhileSuspended` speak of executions without a late failure of the file;
with one, memory and file differ until the restart and the code makes no such
promise. `PendingReviewKept` holds with late failures as well and excludes one
step: a restart may drop a child that is pending in memory if the file it
continues from, one operation ahead, already says that the user has reviewed it
(`child_review_result()` reported as failed after the rename). The user gave that
answer, so nothing is lost, but memory blocked the project until then.

`AllOrRollback`, `AcceptedStays` and `RecoveryOnlyRefusesForeign` hold while no
other review command runs beside an outstanding journal (`overtaken`). The code
enforces this contract in `begin()` only, which is the finding of
`accept_outstanding`. `AllOrRollback` and `AcceptedStays` also exclude executions
in which the save of a decision failed after its rename (`doubted`), which is the
finding of `accept_decision`. `RollbackComplete` and `UserEditsKept` need neither.

`UserEditsKept` excludes an edit saved between the comparison of its file and the
write or unlink that follows: no lock and no rename closes that window in
`write_verified_workspace_bytes` and `remove_verified_accepted_file`, and such an
edit is overwritten. `RecoveryOnlyRefusesForeign` admits, beside edits, torn
writes and failed effects, a file whose accepted content the comparison of the
rollback alters (`Undoable(q) # q.after`, an Accept that took the final newline
away): the rollback refuses it with nothing wrong, and the project stays unbound.

`EffectsAtMostOnce`, `ReplayFaithful` and `BudgetHolds` exclude executions in
which a list has saved an older journal over the job's (`reverted`), the finding
of `workflow_list`.

`AttemptOwned` allows a job that says Running without a worker after a failed
write, and `QueuedAttemptRunnable` speaks of executions without one: a queue item
written by a command that was told otherwise is refused by the worker's check.
Both hold across crashes.

`RefusedOnlyWhenHindered` lists what a refused completion of a parent can come
from: a fault, a deadline, or a race. The race: while a drain waits, the user
stops a child between the records `finish_ready()` read and `finish_child()`; the
finish is refused, the drain returns without closing the family, `complete_run()`
is refused once, and the run stays active until the app starts again. The comment
"A concurrent stop wins over a completed success result." covers the outcome of
the child and not this return. `ParentSettles` counts a refusal as settled.

`StopTakesEffect` is about a child with a worker thread and about executions
without a failed effect: when a spawn fails after
the admission and the finish of the child fails too, a Waiting child without a
thread stays until a restart. It excludes a run that was refused, and a provider
that never ends the parent's turn, since only the parent's commands and its end
serve the slots then.

## 6. Findings

`queue_removal` violates `RestartFinishesRemoval`. A running task that received
any steering message cannot be removed: the removal drops its run record
(`complete_run`, `finalize_requested_removals`), but `validate_steering` refuses
a book with a steering record whose run is missing ("Steering references a
missing run.", `queue.rs:1711`), and settled steering is kept until it is
trimmed. The completion is rolled back every time, so the run stays
StopRequested with its lease; after a restart `open()` cannot save and the queue
is unavailable. The test
`restart_finishes_a_durable_remove_after_stop_without_replay`
(`queue/tests.rs:1137`) states the intended behaviour and covers a run without
steering.

`accept_outstanding` violates `AcceptWaitsForRecovery`. `begin()` refuses with
"Accept is blocked until the previous change transaction is recovered."
(`accept_transaction.rs:56`), but only `accept_all()` goes through it. A save of
the journal that fails after its rename in `begin()`, or between two writes in
`apply_using()` (line 101, no rollback there), leaves a journal on disk while
the application goes on. `accept_scoped_file()` (`backend.rs:1464`) then writes
one file and saves its decision; at the next start
`recover_accept_transaction()` finds the journal in phase Applying and restores
that file as well. The acceptance is gone and nothing is pending.

`accept_decision` violates `AllOrRollbackAlways`: "Crash-recoverable
all-or-rollback application for an accepted proposal set."
(`accept_transaction.rs:1`). `write_owner_only_text()` reports an error when the
directory cannot be synced after the rename (`plus_session.rs:1398`); the session
book then holds the empty pending set while `accept_all()` takes the save for
failed and rolls the files back, under a journal in phase Applied. If that
rollback is interrupted, by a crash or by a file it refuses, the next start sees
phase Applied and nothing pending (`accept_transaction.rs:141`), concludes that the
acceptance was decided, and removes the journal: the files already rolled back
have the old content, the others the new one.

`workflow_list` violates `EffectsNeverRepeat`, where the journal says "Durable
intent precedes each host effect; uncertain entries cannot replay."
(`workflows/journal.rs:1`). `view()` loads a job that is not in the registry
without the lock of the registry or of the job (`workflows/store.rs:83`), while
the worker of a queued attempt may open the same job. `Job::load()` marks a
Running job Interrupted and saves its copy (`journal.rs:123`); an intent the
worker recorded between the read and that save is gone from the file. If the app
stops during the effect, the checkpoint it left does not know of the call, and a
resumed attempt carries it out again. The charge goes with the intent, since the older
copy has the `used` of then: the attempts of a job together can start more
children than `input.maximum`. The second `reconcile_ready()` on the copy
(`store.rs:86`) has the same window.

`session` violates `NothingSurvivesLock`, where the code says "Credential leases
and high-power grants must not survive a session lock"
(`session_lifecycle.rs:186`). The task of an unlock may still run when the
session is locked again: `begin_unlock_reconnect()` has marked the account as
reconnecting, `suspend_for_lock()` (`runtime/manager.rs:1382`) disconnects and
leaves that mark, and `finish_unlock_reconnect()` (line 1429) then connects the
account of the locked session. The same task lifts the suspension of the queue
(`session_lifecycle.rs:222`).

## 7. Not modelled, and the plan

In this order:

1. **Accept transaction**, continued: an abstract all-or-nothing specification and
   the refinement; **ProposalGroups**, the line groups of a proposal and
   the decisions on them against a reference; the session store with several
   sessions. **Owner state**: the cut points of a replacement.
2. **Proofs**: the refinement of that abstract specification; what
   `SessionLifecycle` does guarantee, once stated apart from its finding.
3. **Collaboration journal** (delivery records of messages, the review of child
   worktrees) and **worktrees**; a clock that may step back in the queue book.
4. **Runner**: `apply`, `capability_apply`, the command-output journal; **core**:
   `scheduler`, `live_state`, attempts and effects of the ledger. These are by far
   the largest part of the repository; the application reaches them through the
   plus host, as the tools of a turn, and keeps its own state in the parts
   modelled here.

Left out for good: the SQL schema and its migrations, platform containment
(cgroups, held launchers, the virtual machine guest), the browser, capture and
voice bridges, user-interface projection, and the rhai interpreter: I/O, generated
or third-party code without state that the properties above depend on.
