------------------------- MODULE WorkflowJob_proofs -------------------------
(***************************************************************************)
(* Proofs about WorkflowJob, for any requests, budget and bounds.          *)
(***************************************************************************)
EXTENDS WorkflowJob, SequenceTheorems, TLAPS

-----------------------------------------------------------------------------
(* The inductive invariant *)

\* What a point of the worker knows of its own call.
Stepwise ==
    /\ pc \in {"effect", "complete"} => w.request \in Requests
    /\ pc = "complete" => w.value \in Values
    /\ pc = "outcome" => w.outcome # "None"

\* The parts of WorkflowTypeOK, by who changes them.
StoreType == mem \in Job /\ disk \in Job /\ faults \in Nat

QueueType == queue \in [Attempts -> ItemStates] /\ queueDisk \in [Attempts -> ItemStates]

CommandType ==
    /\ copy \in Job
    /\ cmd \in {"none", "enqueue", "link", "resume"}
    /\ list \in {"none", "load", "save", "reconcile"}

WorkerType == pc \in Points /\ w \in Work /\ replies \in Seq(Reply) /\ Stepwise

HistoryType ==
    /\ executed \in [Calls -> Nat] /\ produced \in [Calls -> Reply] /\ spawned \in Nat
    /\ reverted \in BOOLEAN

TypeInv ==
    /\ StoreType
    /\ QueueType
    /\ CommandType
    /\ WorkerType
    /\ HistoryType
    /\ restarts \in Nat

\* A checkpoint that accounts for what the job has done: every call that was
\* carried out is in its journal, every child is charged, and the results it
\* holds are the ones the calls brought.
Accounts(job, done, children, brought) ==
    /\ \A i \in Calls : done[i] > 0 => i <= Len(job.effects)
    /\ Len(job.effects) <= MaxCalls
    /\ children <= job.used
    /\ \A i \in 1 .. Len(job.effects) : job.effects[i].value # NoValue =>
        brought[i] = [request |-> job.effects[i].request, value |-> job.effects[i].value]

\* The charge of a call that is about to be carried out.
Reserved == IF pc = "effect" THEN Cost[w.request] ELSE 0

Accounted(job) == Accounts(job, executed, spawned + Reserved, produced)

StoreInv ==
    /\ mem.state = "Absent" => mem = NoJob
    /\ disk.state = "Absent" => disk = NoJob
    /\ disk = NoJob => mem = NoJob
    /\ Accounted(disk)
    /\ mem # NoJob => Accounted(mem)

Working == {"start", "freeze", "script", "effect", "complete", "outcome"}

\* Whoever is under way has the job in memory; a list has found its file.
Presence ==
    /\ cmd # "none" \/ pc \in Working => mem # NoJob
    /\ list # "none" => cmd = "none" /\ disk # NoJob
    /\ list \in {"save", "reconcile"} => copy.state # "Absent"

\* The journal ends with the intent of request r at position i.
Intends(job, i, r) ==
    /\ Len(job.effects) = i
    /\ job.effects[i].request = r
    /\ job.effects[i].value = NoValue

Current ==
    /\ pc = "effect" =>
        /\ Position \in Calls
        /\ executed[Position] = 0
        /\ Intends(mem, Position, w.request)
        /\ Intends(disk, Position, w.request)
    /\ pc = "complete" =>
        /\ Position \in Calls
        /\ Intends(mem, Position, w.request)
        /\ produced[Position] = [request |-> w.request, value |-> w.value]

Faithful == \A i \in DOMAIN replies : i \in Calls /\ replies[i] = produced[i]

\* The inductive invariant behind EffectsAtMostOnce, ReplayFaithful and
\* BudgetHolds, for as long as no list has reverted the journal.
JournalInv ==
    /\ StoreInv
    /\ Presence
    /\ Current
    /\ Faithful
    /\ EffectsNeverRepeat

\* What has been done for the job.
deeds == <<executed, produced, spawned>>

-----------------------------------------------------------------------------
(* Lemmas *)

\* An append and a change of one entry keep a journal a journal.
LEMMA JournalAppend ==
    ASSUME NEW s \in Seq(EffectRecord), NEW e \in EffectRecord
    PROVE  /\ Append(s, e) \in Seq(EffectRecord)
           /\ Len(Append(s, e)) = Len(s) + 1
           /\ \A i \in 1 .. Len(s) : Append(s, e)[i] = s[i]
           /\ Append(s, e)[Len(s) + 1] = e
BY AppendProperties

\* A function on the first numbers is a journal.
LEMMA JournalOf ==
    ASSUME NEW n \in Nat, NEW f \in [1 .. n -> EffectRecord]
    PROVE  f \in Seq(EffectRecord) /\ Len(f) = n
<1>1. f \in Seq(EffectRecord)
  BY SeqDef
<1>2. Len(f) \in Nat /\ DOMAIN f = 1 .. Len(f)
  BY <1>1, LenProperties
<1>3. 1 .. Len(f) = 1 .. n
  BY <1>2
<1>4. Len(f) = n
  BY <1>2, <1>3
<1>5. QED
  BY <1>1, <1>4

\* The file of a job is a job with the same charges and requests.
LEMMA SaveType ==
    ASSUME NEW job \in Job
    PROVE  /\ Save(job) \in Job
           /\ Save(job).used = job.used
           /\ Save(job).state = job.state
           /\ Save(job).attempt = job.attempt
           /\ Len(Save(job).effects) = Len(job.effects)
           /\ \A i \in 1 .. Len(job.effects) :
                /\ Save(job).effects[i].request = job.effects[i].request
                /\ Save(job).effects[i].value \in {NoValue, job.effects[i].value}
<1>1. CASE ~job.transient
  BY <1>1 DEF Save, Job, EffectRecord
<1>2. CASE job.transient
  <2> DEFINE hidden == [i \in DOMAIN job.effects |->
                          [job.effects[i] EXCEPT !.value = NoValue]]
  <2>1. \A i \in 1 .. Len(job.effects) : job.effects[i] \in EffectRecord
    BY DEF Job
  <2>2. hidden = [i \in 1 .. Len(job.effects) |-> [job.effects[i] EXCEPT !.value = NoValue]]
    BY DEF Job
  <2>3. \A i \in 1 .. Len(job.effects) :
          /\ hidden[i] \in EffectRecord
          /\ hidden[i].request = job.effects[i].request
          /\ hidden[i].value = NoValue
    BY <2>1, <2>2 DEF EffectRecord
  <2>4. hidden \in Seq(EffectRecord) /\ Len(hidden) = Len(job.effects)
    <3>1. Len(job.effects) \in Nat
      BY LenProperties DEF Job
    <3>2. hidden = [i \in 1 .. Len(job.effects) |-> hidden[i]]
      BY <2>2
    <3>. HIDE DEF hidden
    <3>3. hidden \in [1 .. Len(job.effects) -> EffectRecord]
      BY <2>3, <3>2
    <3>4. QED
      BY <3>1, <3>3, JournalOf
  <2>5. Save(job) = [job EXCEPT !.available = FALSE, !.effects = hidden]
    BY <1>2 DEF Save
  <2>. HIDE DEF hidden
  <2>6. /\ Save(job).effects = hidden
        /\ Save(job).used = job.used
        /\ Save(job).state = job.state
        /\ Save(job).attempt = job.attempt
    BY <2>5 DEF Job
  <2>7. Save(job) \in Job
    BY <2>4, <2>5 DEF Job
  <2>8. QED
    BY <2>3, <2>4, <2>6, <2>7
<1>3. QED
  BY <1>1, <1>2 DEF Job

\* Loading and reconciling change the state of a job only.
LEMMA LoadType ==
    ASSUME NEW job \in Job
    PROVE  Load(job) \in Job /\ Load(job).effects = job.effects /\ Load(job).used = job.used
BY DEF Load, Job, JobStates

\* As LoadType.
LEMMA ReconcileType ==
    ASSUME NEW job \in Job, NEW q
    PROVE  /\ Reconcile(job, q) \in Job
           /\ Reconcile(job, q).effects = job.effects
           /\ Reconcile(job, q).used = job.used
BY DEF Reconcile, Job, JobStates

\* A new job and the absent one are jobs.
LEMMA NewType ==
    /\ \A transient \in BOOLEAN : NewJob(transient) \in Job
    /\ NoJob \in Job
    /\ NoJob.state = "Absent"
    /\ NoJob.effects = <<>>
    /\ NoJob.used = 0
<1>1. <<>> \in Seq(EffectRecord)
  BY EmptySeq
<1>2. 0 \in 0 .. Maximum /\ 0 \in 0 .. MaxAttempts /\ 1 \in Attempts
  BY WorkflowAssumption DEF Attempts
<1>3. \A transient \in BOOLEAN : NewJob(transient) \in Job
  BY <1>1, <1>2 DEF NewJob, Job, JobStates
<1>4. QED
  BY <1>3 DEF NewJob, NoJob, Job, JobStates

\* The next attempt of a job that may resume.
LEMMA NextType ==
    ASSUME NEW job \in Job, Resumable(job)
    PROVE  NextAttempt(job) \in Job
<1>1. job.attempt + 1 \in Attempts /\ 0 \in 0 .. MaxAttempts
  BY WorkflowAssumption DEF Resumable, Job, Attempts
<1>2. "Ready" \in JobStates
  BY DEF JobStates
<1>3. QED
  BY <1>1, <1>2 DEF NextAttempt, Job

\* The intent of a call, and its completion.
LEMMA IntendType ==
    ASSUME NEW job \in Job, NEW request \in Requests, Affords(job, request)
    PROVE  Intend(job, request) \in Job
<1> DEFINE e == [request |-> request, done |-> FALSE, value |-> NoValue]
<1>1. e \in EffectRecord
  BY DEF EffectRecord
<1>2. Append(job.effects, e) \in Seq(EffectRecord)
  BY <1>1, JournalAppend DEF Job
<1>3. job.used + Cost[request] \in 0 .. Maximum
  BY WorkflowAssumption DEF Affords, Job
<1>4. QED
  BY <1>2, <1>3 DEF Intend, Job

\* As IntendType.
LEMMA CompleteType ==
    ASSUME NEW job \in Job, NEW i \in Nat, NEW value \in Values
    PROVE  CompleteTo(job, i, value) \in Job
<1> DEFINE s == job.effects
           e == [s[i] EXCEPT !.done = TRUE, !.value = value]
           t == [s EXCEPT ![i] = e]
<1>1. s \in Seq(EffectRecord)
  BY DEF Job
<1>2. CompleteTo(job, i, value) = [job EXCEPT !.effects = t]
  BY DEF CompleteTo, Job
<1>3. t \in Seq(EffectRecord)
  <2>1. CASE i \in 1 .. Len(s)
    <3>1. s[i] \in EffectRecord
      BY <1>1, <2>1, ElementOfSeq
    <3>2. e \in EffectRecord
      BY <3>1 DEF EffectRecord
    <3>. HIDE DEF e, s
    <3>3. QED
      BY <1>1, <2>1, <3>2, ExceptSeq
  <2>2. CASE i \notin 1 .. Len(s)
    <3>1. t = s
      BY <1>1, <2>2
    <3>2. QED
      BY <1>1, <3>1
  <2>3. QED
    BY <2>1, <2>2
<1>. HIDE DEF t
<1>4. QED
  BY <1>2, <1>3 DEF Job

\* A write of the checkpoint, of the queue.
LEMMA SavedType ==
    ASSUME StoreType, NEW job \in Job, Saved(job) \/ NotSaved(job)
    PROVE  StoreType'
<1>1. Save(job) \in Job
  BY SaveType
<1>2. QED
  BY <1>1 DEF StoreType, Saved, NotSaved, Works, Fails

\* A write of the copy of a list.
LEMMA WritesType ==
    ASSUME StoreType, reverted \in BOOLEAN, NEW job \in Job, Writes(job), UNCHANGED mem
    PROVE  StoreType' /\ reverted' \in BOOLEAN
<1>1. StoreType'
  BY DEF StoreType, Writes, Works, Fails
<1>2. reverted' \in BOOLEAN
  BY DEF Writes, Reverts
<1>3. QED
  BY <1>1, <1>2

\* As SavedType.
LEMMA QueuedType ==
    ASSUME QueueType, faults \in Nat, NEW q \in [Attempts -> ItemStates],
           Queue(q) \/ NotQueued(q)
    PROVE  QueueType' /\ faults' \in Nat
BY DEF QueueType, Queue, NotQueued, Works, Fails

\* The moves of the worker.
LEMMA MoveType ==
    ASSUME WorkerType
    PROVE  /\ \A p \in {"start", "freeze", "script", "close"} : GoTo(p) => WorkerType'
           /\ Breaks => WorkerType'
           /\ \A o \in {"Completed", "Failed", "Stopped"} : Ends(o) => WorkerType'
<1>1. \A p \in {"start", "freeze", "script", "close"} : GoTo(p) => WorkerType'
  BY DEF WorkerType, Stepwise, GoTo, Points
<1>2. Breaks => WorkerType'
  BY DEF WorkerType, Stepwise, Breaks, Points, Work
<1>3. \A o \in {"Completed", "Failed", "Stopped"} : Ends(o) => WorkerType'
  BY DEF WorkerType, Stepwise, Ends, Points, Work
<1>4. QED
  BY <1>1, <1>2, <1>3

\* An answer keeps the replies a sequence of replies.
LEMMA AnswerType ==
    ASSUME replies \in Seq(Reply), NEW r \in Requests, NEW v \in Values, Answered(r, v)
    PROVE  /\ replies' \in Seq(Reply)
           /\ Len(replies') = Len(replies) + 1
           /\ \A i \in 1 .. Len(replies) : replies'[i] = replies[i]
           /\ replies'[Len(replies) + 1] = [request |-> r, value |-> v]
<1>1. [request |-> r, value |-> v] \in Reply
  BY DEF Reply
<1>2. QED
  BY <1>1, AppendProperties DEF Answered

\* A worker without work.
LEMMA NoWorkType ==
    /\ NoWork \in Work
    /\ \A a \in Attempts : [NoWork EXCEPT !.attempt = a] \in Work
    /\ <<>> \in Seq(Reply)
<1>1. 0 \in 0 .. MaxAttempts /\ Attempts \subseteq 0 .. MaxAttempts
  BY WorkflowAssumption DEF Attempts
<1>2. NoWork \in Work
  BY <1>1 DEF NoWork, Work
<1>3. ASSUME NEW a \in Attempts PROVE [NoWork EXCEPT !.attempt = a] \in Work
  BY <1>1 DEF NoWork, Work
<1>4. <<>> \in Seq(Reply)
  BY EmptySeq
<1>5. QED
  BY <1>2, <1>3, <1>4

-----------------------------------------------------------------------------
(* Types *)

\* TypeInv is WorkflowTypeOK and Stepwise.
LEMMA TypeParts == TypeInv <=> WorkflowTypeOK /\ Stepwise
BY DEF TypeInv, StoreType, QueueType, CommandType, WorkerType, HistoryType, WorkflowTypeOK

\* TypeInv holds initially.
LEMMA TypeInit == WorkflowInit => TypeInv
<1> SUFFICES ASSUME WorkflowInit PROVE TypeInv
  OBVIOUS
<1>1. StoreType /\ QueueType /\ CommandType
  BY NewType DEF WorkflowInit, StoreType, QueueType, CommandType, ItemStates
<1>2. WorkerType
  BY NoWorkType DEF WorkflowInit, WorkerType, Stepwise, Points
<1>3. HistoryType
  BY DEF WorkflowInit, HistoryType, Reply
<1>4. QED
  BY <1>1, <1>2, <1>3 DEF WorkflowInit, TypeInv

\* The commands preserve TypeInv.
LEMMA TypeCommands == TypeInv /\ CommandNext => TypeInv'
<1> SUFFICES ASSUME TypeInv, CommandNext PROVE TypeInv'
  OBVIOUS
<1> USE DEF TypeInv
<1>1. UNCHANGED <<worker, history, restarts>> =>
        WorkerType' /\ HistoryType' /\ restarts' \in Nat
  BY DEF worker, history, WorkerType, Stepwise, HistoryType
<1>2. UNCHANGED queues => QueueType'
  BY DEF queues, QueueType
<1>3. UNCHANGED <<mem, disk, faults>> => StoreType'
  BY DEF StoreType
<1>4. ASSUME NEW transient \in BOOLEAN, Start(transient) PROVE TypeInv'
  <2>1. StoreType'
    BY <1>4, NewType, SavedType DEF Start
  <2>2. QED
    BY <1>1, <1>2, <1>4, <2>1 DEF Start, CommandType
<1>5. CASE Enqueue
  <2>1. [queue EXCEPT ![mem.attempt] = "Queued"] \in [Attempts -> ItemStates]
    BY DEF QueueType, ItemStates
  <2>2. QueueType' /\ faults' \in Nat
    BY <1>5, <2>1, <1>2, QueuedType DEF Enqueue, StoreType
  <2>3. QED
    BY <1>1, <1>5, <2>2 DEF Enqueue, CommandType, StoreType
<1>6. CASE Link
  <2>1. [mem EXCEPT !.item = mem.attempt] \in Job
    <3>1. mem.attempt \in 0 .. MaxAttempts
      BY WorkflowAssumption DEF StoreType, Job, Attempts
    <3>2. QED
      BY <3>1 DEF StoreType, Job
  <2>2. StoreType'
    BY <1>6, <2>1, SavedType DEF Link
  <2>3. QED
    BY <1>1, <1>2, <1>6, <2>2 DEF Link, CommandType
<1>7. CASE Open
  <2>1. StoreType'
    BY <1>7, LoadType DEF Open, StoreType, Works, Fails
  <2>2. QED
    BY <1>1, <1>2, <1>7, <2>1 DEF Open, CommandType, commands
<1>8. CASE RequestResume
  <2>1. StoreType'
    BY <1>8, <1>3, ReconcileType, SavedType DEF RequestResume, StoreType
  <2>2. QED
    BY <1>1, <1>2, <1>8, <2>1 DEF RequestResume, CommandType
<1>9. CASE Resume
  <2>1. StoreType'
    BY <1>9, <1>3, NextType, SavedType DEF Resume, StoreType
  <2>2. QED
    BY <1>1, <1>2, <1>9, <2>1 DEF Resume, CommandType
<1>10. CASE List
  <2>1. StoreType'
    BY <1>10, ReconcileType, SavedType DEF List, StoreType
  <2>2. CommandType'
    BY <1>10 DEF List, CommandType, StoreType
  <2>3. QED
    BY <1>1, <1>2, <1>10, <2>1, <2>2 DEF List
<1>11. CASE ListMisses
  BY <1>1, <1>2, <1>3, <1>11 DEF ListMisses, CommandType
<1>12. CASE ListLoads
  BY <1>1, <1>2, <1>3, <1>12, LoadType DEF ListLoads, CommandType, StoreType
<1>13. CASE ListSaves
  <2>1. StoreType' /\ reverted' \in BOOLEAN
    BY <1>13, WritesType DEF ListSaves, CommandType, HistoryType
  <2>2. WorkerType' /\ HistoryType'
    BY <1>13, <2>1 DEF ListSaves, worker, WorkerType, Stepwise, HistoryType
  <2>3. QED
    BY <1>2, <1>13, <2>1, <2>2, NewType DEF ListSaves, CommandType
<1>14. CASE ListReconciles
  <2>1. Save(Reconcile(copy, queue)) \in Job
    BY ReconcileType, SaveType DEF CommandType
  <2>2. StoreType' /\ reverted' \in BOOLEAN
    BY <1>14, <2>1, WritesType DEF ListReconciles, StoreType, HistoryType
  <2>3. WorkerType' /\ HistoryType'
    BY <1>14, <2>2 DEF ListReconciles, worker, WorkerType, Stepwise, HistoryType
  <2>4. QED
    BY <1>2, <1>14, <2>2, <2>3, NewType DEF ListReconciles, CommandType
<1>15. ASSUME NEW a \in Attempts, Remove(a) PROVE TypeInv'
  <2>1. [queue EXCEPT ![a] = "None"] \in [Attempts -> ItemStates]
    BY DEF QueueType, ItemStates
  <2>2. QueueType' /\ faults' \in Nat
    BY <1>15, <2>1, QueuedType DEF Remove, StoreType
  <2>3. QED
    BY <1>1, <1>15, <2>2 DEF Remove, CommandType, commands, StoreType
<1>16. QED
  BY <1>4, <1>5, <1>6, <1>7, <1>8, <1>9, <1>10, <1>11, <1>12, <1>13, <1>14, <1>15
     DEF CommandNext

\* The worker preserves TypeInv.
LEMMA TypeWorker == TypeInv /\ WorkerNext => TypeInv'
<1> SUFFICES ASSUME TypeInv, WorkerNext PROVE TypeInv'
  OBVIOUS
<1> USE DEF TypeInv
<1>1. UNCHANGED commands => CommandType'
  BY DEF commands, CommandType
<1>2. UNCHANGED queues => QueueType'
  BY DEF queues, QueueType
<1>3. UNCHANGED <<mem, disk, faults>> => StoreType'
  BY DEF StoreType
<1>4. UNCHANGED history => HistoryType'
  BY DEF history, HistoryType
<1>5. ASSUME NEW a \in Attempts, Begin(a) PROVE TypeInv'
  <2>1. [queue EXCEPT ![a] = "Running"] \in [Attempts -> ItemStates]
    BY DEF QueueType, ItemStates
  <2>2. QueueType' /\ faults' \in Nat
    BY <1>5, <2>1, QueuedType DEF Begin, StoreType
  <2>3. WorkerType'
    BY <1>5, NoWorkType DEF Begin, WorkerType, Stepwise, Points
  <2>4. QED
    BY <1>1, <1>4, <1>5, <2>2, <2>3 DEF Begin, StoreType
<1>6. CASE Cancel
  <2>1. WorkerType'
    BY <1>6 DEF Cancel, WorkerType, Stepwise, Work
  <2>2. QED
    BY <1>1, <1>2, <1>3, <1>4, <1>6, <2>1 DEF Cancel
<1>7. CASE Check
  <2>1. StoreType'
    BY <1>7, LoadType DEF Check, StoreType, Works, Fails
  <2>2. WorkerType'
    BY <1>7, MoveType DEF Check
  <2>3. QED
    BY <1>1, <1>2, <1>4, <1>7, <2>1, <2>2 DEF Check
<1>8. CASE Run
  <2>1. [mem EXCEPT !.state = "Running", !.item = w.attempt, !.run = w.attempt] \in Job
    BY DEF StoreType, WorkerType, Work, Job, JobStates
  <2>2. StoreType'
    BY <1>8, <2>1, SavedType DEF Run
  <2>3. WorkerType'
    BY <1>8, MoveType DEF Run
  <2>4. QED
    BY <1>1, <1>2, <1>4, <1>8, <2>2, <2>3 DEF Run
<1>9. CASE Freeze
  <2>1. StoreType'
    BY <1>9, <1>3, SavedType DEF Freeze, StoreType
  <2>2. WorkerType'
    BY <1>9, MoveType DEF Freeze
  <2>3. QED
    BY <1>1, <1>2, <1>4, <1>9, <2>1, <2>2 DEF Freeze
<1>10. CASE Finish
  <2>1. WorkerType'
    BY <1>10, MoveType DEF Finish
  <2>2. QED
    BY <1>1, <1>2, <1>3, <1>4, <1>10, <2>1 DEF Finish
<1>11. ASSUME NEW r \in Requests, Call(r) PROVE TypeInv'
  <2>1. StoreType'
    BY <1>11, <1>3, IntendType, SavedType DEF Call, Admits, StoreType
  <2>2. WorkerType'
    <3>1. CASE Replays(mem, Position, r) /\ Answered(r, mem.effects[Position].value)
               /\ UNCHANGED <<pc, w>>
      <4>1. mem.effects[Position].value \in Values
        <5>1. mem.effects \in Seq(EffectRecord)
          BY DEF StoreType, Job
        <5>2. Position \in 1 .. Len(mem.effects)
          BY <3>1, <5>1, LenProperties DEF Replays
        <5>3. mem.effects[Position] \in EffectRecord
          BY <5>1, <5>2, ElementOfSeq
        <5>4. QED
          BY <3>1, <5>3 DEF Replays, EffectRecord
      <4>2. replies' \in Seq(Reply)
        BY <3>1, <4>1, AnswerType DEF WorkerType
      <4>3. QED
        BY <3>1, <4>2 DEF WorkerType, Stepwise
    <3>2. CASE pc' = "effect" /\ w' = [w EXCEPT !.request = r] /\ UNCHANGED replies
      BY <3>2 DEF WorkerType, Stepwise, Points, Work
    <3>3. CASE Ends("Failed")
      BY <3>3, MoveType
    <3>4. QED
      BY <1>11, <3>1, <3>2, <3>3 DEF Call, Position
  <2>3. QED
    BY <1>1, <1>2, <1>4, <1>11, <2>1, <2>2 DEF Call
<1>12. CASE Refuse
  <2>1. WorkerType'
    BY <1>12, MoveType DEF Refuse
  <2>2. QED
    BY <1>1, <1>2, <1>3, <1>4, <1>12, <2>1 DEF Refuse
<1>13. ASSUME NEW v \in Values, pc = "effect", Brings(v)
       PROVE  WorkerType' /\ produced' \in [Calls -> Reply]
  <2>1. WorkerType'
    BY <1>13 DEF Brings, WorkerType, Stepwise, Points, Work
  <2>2. [request |-> w.request, value |-> v] \in Reply
    BY <1>13 DEF WorkerType, Stepwise, Reply
  <2>3. QED
    BY <1>13, <2>1, <2>2 DEF Brings, HistoryType
<1>14. pc = "effect" => Cost[w.request] \in Nat
  BY WorkflowAssumption DEF WorkerType, Stepwise
<1>15. executed' = [executed EXCEPT ![Position] = @ + 1] => executed' \in [Calls -> Nat]
  <2>1. \A i \in Calls : executed[i] + 1 \in Nat
    BY DEF HistoryType
  <2>2. CASE Position \in Calls
    BY <2>1, <2>2 DEF HistoryType
  <2>3. CASE Position \notin Calls
    BY <2>3 DEF HistoryType
  <2>4. QED
    BY <2>2, <2>3
<1>16. ASSUME NEW v \in Values, StartChildren(v) PROVE TypeInv'
  <2>1. WorkerType' /\ produced' \in [Calls -> Reply]
    BY <1>16, <1>13, MoveType DEF StartChildren, HistoryType
  <2>2. executed' \in [Calls -> Nat] /\ spawned' \in Nat
    BY <1>16, <1>14, <1>15 DEF StartChildren, HistoryType
  <2>3. QED
    BY <1>1, <1>2, <1>3, <1>16, <2>1, <2>2 DEF StartChildren, HistoryType
<1>17. ASSUME NEW v \in Values, LocalCall(v) PROVE TypeInv'
  <2>1. WorkerType' /\ produced' \in [Calls -> Reply]
    BY <1>17, <1>13, MoveType DEF LocalCall, HistoryType
  <2>2. executed' \in [Calls -> Nat] /\ spawned' \in Nat
    BY <1>17, <1>15 DEF LocalCall, HistoryType
  <2>3. StoreType'
    BY <1>17, SavedType DEF LocalCall, StoreType
  <2>4. QED
    BY <1>1, <1>2, <1>17, <2>1, <2>2, <2>3 DEF LocalCall, HistoryType
<1>18. CASE Complete
  <2>1. Position \in Nat
    BY LenProperties DEF Position, WorkerType
  <2>2. w.request \in Requests /\ w.value \in Values
    BY <1>18 DEF Complete, WorkerType, Stepwise
  <2>3. CompleteTo(mem, Position, w.value) \in Job
    BY <2>1, <2>2, CompleteType DEF StoreType
  <2>4. StoreType'
    BY <1>18, <2>3, SavedType DEF Complete
  <2>5. WorkerType'
    <3>1. CASE Ends("Stopped") \/ Ends("Failed")
      BY <3>1, MoveType
    <3>2. CASE Answered(w.request, w.value) /\ pc' = "outcome"
               /\ w' = [w EXCEPT !.outcome = "Paused"]
      <4>1. replies' \in Seq(Reply)
        BY <2>2, <3>2, AnswerType DEF WorkerType
      <4>2. QED
        BY <3>2, <4>1 DEF WorkerType, Stepwise, Points, Work
    <3>3. CASE Answered(w.request, w.value) /\ pc' = "script"
               /\ w' = [w EXCEPT !.request = NoValue, !.value = NoValue]
      <4>1. replies' \in Seq(Reply)
        BY <2>2, <3>3, AnswerType DEF WorkerType
      <4>2. QED
        BY <3>3, <4>1 DEF WorkerType, Stepwise, Points, Work
    <3>4. QED
      BY <1>18, <3>1, <3>2, <3>3 DEF Complete
  <2>6. QED
    BY <1>1, <1>2, <1>4, <1>18, <2>4, <2>5 DEF Complete
<1>19. CASE RecordOutcome
  <2>1. [mem EXCEPT !.state = w.outcome] \in Job
    BY <1>19 DEF RecordOutcome, StoreType, WorkerType, Stepwise, Work, Job, JobStates
  <2>2. StoreType'
    BY <1>19, <2>1, SavedType DEF RecordOutcome
  <2>3. WorkerType'
    BY <1>19, MoveType DEF RecordOutcome
  <2>4. QED
    BY <1>1, <1>2, <1>4, <1>19, <2>2, <2>3 DEF RecordOutcome
<1>20. CASE Close
  <2>1. [mem EXCEPT !.state = "Interrupted"] \in Job
    BY DEF StoreType, Job, JobStates
  <2>2. StoreType'
    BY <1>3, <1>20, <2>1, SavedType DEF Close
  <2>3. [NoWork EXCEPT !.attempt = w.attempt] \in Work
    BY DEF WorkerType, NoWork, Work
  <2>4. WorkerType'
    BY <1>20, <2>3, NoWorkType DEF Close, WorkerType, Stepwise, Points
  <2>5. QED
    BY <1>1, <1>2, <1>4, <1>20, <2>2, <2>4 DEF Close
<1>21. CASE End
  <2>1. [queue EXCEPT ![w.attempt] = "Ended"] \in [Attempts -> ItemStates]
    BY DEF QueueType, ItemStates
  <2>2. QueueType' /\ faults' \in Nat
    BY <1>21, <2>1, QueuedType DEF End, StoreType
  <2>3. WorkerType'
    BY <1>21, NoWorkType DEF End, WorkerType, Stepwise, Points
  <2>4. QED
    BY <1>1, <1>4, <1>21, <2>2, <2>3 DEF End, StoreType
<1>22. QED
  BY <1>5, <1>6, <1>7, <1>8, <1>9, <1>10, <1>11, <1>12, <1>16, <1>17, <1>18, <1>19, <1>20,
     <1>21 DEF WorkerNext

\* TypeInv is inductive.
LEMMA TypeStep == TypeInv /\ [WorkflowNext]_vars => TypeInv'
<1> SUFFICES ASSUME TypeInv, [WorkflowNext]_vars PROVE TypeInv'
  OBVIOUS
<1>1. CASE Restart
  <2>1. QueueType'
    BY <1>1 DEF Restart, TypeInv, QueueType, ItemStates
  <2>2. StoreType' /\ CommandType'
    BY <1>1, NewType DEF Restart, TypeInv, StoreType, CommandType
  <2>3. WorkerType'
    BY <1>1, NoWorkType DEF Restart, WorkerType, Stepwise, Points
  <2>4. HistoryType' /\ restarts' \in Nat
    BY <1>1 DEF Restart, TypeInv, HistoryType, history
  <2>5. QED
    BY <2>1, <2>2, <2>3, <2>4 DEF TypeInv
<1>2. CASE UNCHANGED vars
  BY <1>2 DEF vars, queues, commands, worker, history, TypeInv, StoreType, QueueType,
              CommandType, WorkerType, Stepwise, HistoryType
<1>3. QED
  BY <1>1, <1>2, TypeCommands, TypeWorker DEF WorkflowNext

\* Every state of the specification satisfies WorkflowTypeOK; in particular
\* begin() never charges a job beyond its maximum.
THEOREM WorkflowTypeCorrect == WorkflowSpec => []WorkflowTypeOK
<1>1. TypeInv => WorkflowTypeOK
  BY TypeParts
<1>2. QED
  BY TypeInit, TypeStep, <1>1, PTL DEF WorkflowSpec

-----------------------------------------------------------------------------
(* The journal *)

\* What a job accounts for, every checkpoint with the same journal does.
LEMMA SameAccounts ==
    ASSUME NEW job \in Job, NEW other \in Job, NEW done, NEW children \in Nat,
           NEW fewer \in Nat, NEW brought,
           other.effects = job.effects, other.used = job.used, fewer <= children,
           Accounts(job, done, children, brought)
    PROVE  /\ Accounts(other, done, fewer, brought)
           /\ Accounts(Save(other), done, fewer, brought)
<1>1. Accounts(other, done, fewer, brought)
  BY DEF Accounts, Job
<1>2. Save(other) \in Job /\ Save(other).used = other.used
      /\ Len(Save(other).effects) = Len(other.effects)
  BY SaveType
<1>3. \A i \in 1 .. Len(other.effects) :
        /\ Save(other).effects[i].request = other.effects[i].request
        /\ Save(other).effects[i].value \in {NoValue, other.effects[i].value}
  BY SaveType
<1>4. QED
  BY <1>1, <1>2, <1>3 DEF Accounts

\* So is an intent kept.
LEMMA SameIntends ==
    ASSUME NEW job \in Job, NEW other \in Job, NEW i \in 1 .. Len(job.effects), NEW r,
           other.effects = job.effects, Intends(job, i, r)
    PROVE  Intends(other, i, r) /\ Intends(Save(other), i, r)
<1>1. Intends(other, i, r)
  BY DEF Intends
<1>2. /\ Len(Save(other).effects) = Len(other.effects)
      /\ Save(other).effects[i].request = other.effects[i].request
      /\ Save(other).effects[i].value \in {NoValue, other.effects[i].value}
  BY SaveType
<1>3. QED
  BY <1>1, <1>2 DEF Intends

\* The amounts are numbers.
LEMMA ReservedType ==
    ASSUME TypeInv
    PROVE  Reserved \in Nat /\ spawned + Reserved \in Nat
<1>1. pc = "effect" => Cost[w.request] \in Nat
  BY WorkflowAssumption DEF TypeInv, WorkerType, Stepwise
<1>2. QED
  BY <1>1 DEF Reserved, TypeInv, HistoryType

\* As ReservedType, after a step.
LEMMA ReservedTypeNext ==
    ASSUME TypeInv'
    PROVE  Reserved' \in Nat /\ spawned' + Reserved' \in Nat
<1>1. pc' = "effect" => Cost[w'.request] \in Nat
  BY WorkflowAssumption DEF TypeInv, WorkerType, Stepwise
<1>2. spawned' \in Nat
  BY DEF TypeInv, HistoryType
<1>3. Reserved' \in Nat
  BY <1>1 DEF Reserved
<1>4. \A m, n \in Nat : m + n \in Nat
  OBVIOUS
<1>5. QED
  BY <1>2, <1>3, <1>4

\* A step that adds nothing to the deeds leaves every account in order.
LEMMA KeepAccounts ==
    ASSUME TypeInv, TypeInv', UNCHANGED deeds, Reserved' <= Reserved,
           NEW job \in Job, NEW other \in Job, Accounted(job),
           other.effects = job.effects, other.used = job.used
    PROVE  /\ Accounts(other, executed', spawned' + Reserved', produced')
           /\ Accounts(Save(other), executed', spawned' + Reserved', produced')
<1>1. spawned + Reserved \in Nat /\ spawned' + Reserved' \in Nat
  BY ReservedType, ReservedTypeNext
<1>2. spawned' + Reserved' <= spawned + Reserved
  BY ReservedType, ReservedTypeNext DEF deeds, TypeInv, HistoryType
<1>3. Accounts(job, executed', spawned + Reserved, produced')
  BY DEF Accounted, deeds
<1>4. QED
  BY <1>1, <1>2, <1>3, SameAccounts

\* A write that leaves the journal as it is keeps the stores in order.
LEMMA KeepStores ==
    ASSUME TypeInv, TypeInv', JournalInv, UNCHANGED deeds, Reserved' <= Reserved,
           NEW job \in Job, job.state # "Absent", mem # NoJob,
           job.effects = mem.effects, job.used = mem.used,
           Saved(job) \/ NotSaved(job)
    PROVE  /\ StoreInv'
           /\ mem' # NoJob
           /\ disk' # NoJob
           /\ mem'.effects = mem.effects
           /\ disk' \in {disk, Save(job)}
<1>1. mem \in Job /\ disk \in Job /\ Accounted(mem) /\ Accounted(disk) /\ disk # NoJob
  BY DEF TypeInv, StoreType, JournalInv, StoreInv
<1>2. /\ Accounts(job, executed', spawned' + Reserved', produced')
      /\ Accounts(Save(job), executed', spawned' + Reserved', produced')
  BY <1>1, KeepAccounts
<1>3. /\ Accounts(mem, executed', spawned' + Reserved', produced')
      /\ Accounts(disk, executed', spawned' + Reserved', produced')
  BY <1>1, KeepAccounts
<1>4. Save(job).state = job.state /\ NoJob.state = "Absent"
  BY SaveType, NewType
<1>5. mem.state # "Absent" /\ disk.state # "Absent"
  BY <1>1 DEF JournalInv, StoreInv
<1>6. mem' \in {mem, job} /\ disk' \in {disk, Save(job)}
  BY DEF Saved, NotSaved
<1>7. QED
  BY <1>1, <1>2, <1>3, <1>4, <1>5, <1>6 DEF StoreInv, Accounted

\* A step that leaves the stores and the deeds alone keeps them in order.
LEMMA KeepStill ==
    ASSUME TypeInv, TypeInv', JournalInv, UNCHANGED deeds, Reserved' <= Reserved,
           UNCHANGED <<mem, disk>>
    PROVE  StoreInv'
<1>1. /\ Accounted(disk) => Accounts(disk, executed', spawned' + Reserved', produced')
      /\ Accounted(mem) => Accounts(mem, executed', spawned' + Reserved', produced')
  BY KeepAccounts DEF TypeInv, StoreType
<1>2. QED
  BY <1>1 DEF JournalInv, StoreInv, Accounted

\* A step of somebody else that keeps the journal leaves the worker's call.
LEMMA KeepCurrent ==
    ASSUME TypeInv, JournalInv, UNCHANGED deeds, UNCHANGED <<pc, replies>>,
           w'.request = w.request, w'.value = w.value,
           mem'.effects = mem.effects, mem' \in Job,
           \/ disk' = disk
           \/ \E job \in Job : job.effects = mem.effects /\ disk' = Save(job)
    PROVE  Current' /\ Faithful' /\ EffectsNeverRepeat'
<1>1. Position' = Position /\ executed' = executed /\ produced' = produced
  BY DEF Position, deeds
<1>2. Faithful' /\ EffectsNeverRepeat'
  BY <1>1 DEF JournalInv, Faithful, EffectsNeverRepeat
<1>3. CASE pc = "effect"
  <2>1. /\ Position \in Calls
        /\ executed[Position] = 0
        /\ Intends(mem, Position, w.request)
        /\ Intends(disk, Position, w.request)
    BY <1>3 DEF JournalInv, Current
  <2>2. Position \in 1 .. Len(mem.effects)
    BY <2>1 DEF Intends, Calls
  <2>3. Intends(mem', Position, w.request)
    BY <2>1 DEF Intends
  <2>4. Intends(disk', Position, w.request)
    <3>1. ASSUME NEW job \in Job, job.effects = mem.effects, disk' = Save(job)
          PROVE  Intends(disk', Position, w.request)
      BY <2>1, <2>2, <3>1, SameIntends DEF TypeInv, StoreType
    <3>2. QED
      BY <2>1, <3>1
  <2>5. QED
    BY <1>1, <1>2, <1>3, <2>1, <2>3, <2>4 DEF Current
<1>4. CASE pc = "complete"
  <2>1. /\ Position \in Calls
        /\ Intends(mem, Position, w.request)
        /\ produced[Position] = [request |-> w.request, value |-> w.value]
    BY <1>4 DEF JournalInv, Current
  <2>2. Intends(mem', Position, w.request)
    BY <2>1 DEF Intends
  <2>3. QED
    BY <1>1, <1>2, <1>4, <2>1, <2>2 DEF Current
<1>5. QED
  BY <1>2, <1>3, <1>4 DEF Current

\* JournalInv holds initially.
LEMMA JournalInit == WorkflowInit => JournalInv
<1> SUFFICES ASSUME WorkflowInit PROVE JournalInv
  OBVIOUS
<1>1. Accounted(NoJob)
  <2>1. Len(NoJob.effects) = 0 /\ NoJob.used = 0
    BY NewType
  <2>2. Reserved = 0 /\ spawned + Reserved = 0
    BY DEF WorkflowInit, Reserved
  <2>3. \A i \in Calls : executed[i] = 0
    BY DEF WorkflowInit
  <2>4. QED
    BY <2>1, <2>2, <2>3, WorkflowAssumption DEF Accounted, Accounts
<1>2. StoreInv
  BY <1>1 DEF WorkflowInit, StoreInv
<1>3. Presence /\ Current
  BY DEF WorkflowInit, Presence, Current, Working
<1>4. Faithful /\ EffectsNeverRepeat
  BY DEF WorkflowInit, Faithful, EffectsNeverRepeat
<1>5. QED
  BY <1>2, <1>3, <1>4 DEF JournalInv

\* A new job accounts for nothing, and nothing has happened before it.
LEMMA StartAccounts ==
    ASSUME TypeInv, TypeInv', JournalInv, disk = NoJob, UNCHANGED <<worker, deeds>>,
           NEW transient \in BOOLEAN
    PROVE  /\ pc \notin Working
           /\ mem = NoJob
           /\ NewJob(transient).state = "Ready"
           /\ Accounts(NewJob(transient), executed', spawned' + Reserved', produced')
           /\ Accounts(Save(NewJob(transient)), executed', spawned' + Reserved', produced')
           /\ Accounts(NoJob, executed', spawned' + Reserved', produced')
<1>1. mem = NoJob /\ pc \notin Working /\ Accounted(NoJob)
  BY DEF JournalInv, StoreInv, Presence
<1>2. NewJob(transient) \in Job /\ NoJob \in Job
  BY NewType
<1>3. NewJob(transient).effects = NoJob.effects /\ NewJob(transient).used = NoJob.used
  BY DEF NewJob, NoJob
<1>4. Reserved' = Reserved
  BY DEF worker, Reserved
<1>5. Reserved' <= Reserved
  BY <1>4, ReservedType
<1>6. /\ Accounts(NewJob(transient), executed', spawned' + Reserved', produced')
      /\ Accounts(Save(NewJob(transient)), executed', spawned' + Reserved', produced')
  BY <1>1, <1>2, <1>3, <1>5, KeepAccounts
<1>7. Accounts(NoJob, executed', spawned' + Reserved', produced')
  BY <1>1, <1>2, <1>5, KeepAccounts
<1>8. QED
  BY <1>1, <1>6, <1>7 DEF NewJob

\* The commands preserve JournalInv, unless a list reverts the journal.
LEMMA JournalCommands ==
    ASSUME TypeInv, TypeInv', JournalInv, CommandNext, ~reverted'
    PROVE  JournalInv'
<1>1. UNCHANGED <<worker, deeds>>
  BY DEF CommandNext, Start, Enqueue, Link, Open, RequestResume, Resume, List, ListMisses,
         ListLoads, ListSaves, ListReconciles, Remove, history, deeds
<1>2. Reserved' = Reserved
  BY <1>1 DEF worker, Reserved
<1>3. Reserved' <= Reserved /\ UNCHANGED deeds
  BY <1>1, <1>2, ReservedType
<1>4. UNCHANGED <<pc, replies>> /\ w'.request = w.request /\ w'.value = w.value
  BY <1>1 DEF worker
<1>5. mem \in Job /\ disk \in Job /\ copy \in Job /\ mem' \in Job
  BY DEF TypeInv, StoreType, CommandType
<1>6. ASSUME UNCHANGED mem, disk' = disk PROVE StoreInv' /\ Current' /\ Faithful' /\ EffectsNeverRepeat'
  BY <1>3, <1>4, <1>5, <1>6, KeepStill, KeepCurrent
<1>7. ASSUME NEW job \in Job, job.state # "Absent", mem # NoJob,
             job.effects = mem.effects, job.used = mem.used, Saved(job) \/ NotSaved(job)
      PROVE  /\ StoreInv' /\ mem' # NoJob /\ disk' # NoJob
             /\ Current' /\ Faithful' /\ EffectsNeverRepeat'
  <2>1. /\ StoreInv'
        /\ mem' # NoJob
        /\ disk' # NoJob
        /\ mem'.effects = mem.effects
        /\ disk' \in {disk, Save(job)}
    BY <1>3, <1>7, KeepStores
  <2>2. Current' /\ Faithful' /\ EffectsNeverRepeat'
    BY <1>3, <1>4, <1>5, <1>7, <2>1, KeepCurrent
  <2>3. QED
    BY <2>1, <2>2
<1>8. ASSUME NEW job \in Job, job.effects = disk.effects, job.used = disk.used,
             job.state # "Absent", disk # NoJob, mem = NoJob,
             mem' \in {mem, job}, disk' \in {disk, job}
      PROVE  StoreInv' /\ disk' # NoJob /\ Current' /\ Faithful' /\ EffectsNeverRepeat'
  <2>1. /\ Accounts(job, executed', spawned' + Reserved', produced')
        /\ Accounts(disk, executed', spawned' + Reserved', produced')
    BY <1>3, <1>5, <1>8, KeepAccounts DEF JournalInv, StoreInv
  <2>2. job # NoJob /\ disk.state # "Absent"
    BY <1>8, NewType DEF JournalInv, StoreInv
  <2>3. StoreInv'
    BY <1>8, <2>1, <2>2 DEF StoreInv, Accounted
  <2>4. pc \notin {"effect", "complete"}
    BY <1>8 DEF JournalInv, Presence, Working
  <2>5. Faithful' /\ EffectsNeverRepeat'
    BY <1>3, <1>4 DEF JournalInv, Faithful, EffectsNeverRepeat, deeds
  <2>6. QED
    BY <1>4, <1>8, <2>2, <2>3, <2>4, <2>5 DEF Current
<1>9. ASSUME NEW transient \in BOOLEAN, Start(transient) PROVE JournalInv'
  <2>1. disk = NoJob /\ list = "none" /\ UNCHANGED <<list, copy>>
    BY <1>9 DEF Start, SchedulerFree
  <2>2. /\ pc \notin Working
        /\ mem = NoJob
        /\ NewJob(transient).state = "Ready"
        /\ Accounts(NewJob(transient), executed', spawned' + Reserved', produced')
        /\ Accounts(Save(NewJob(transient)), executed', spawned' + Reserved', produced')
        /\ Accounts(NoJob, executed', spawned' + Reserved', produced')
    BY <1>1, <2>1, StartAccounts
  <2>3. Save(NewJob(transient)).state = "Ready" /\ NoJob.state = "Absent"
    BY <2>2, NewType, SaveType
  <2>4. StoreInv' /\ (cmd' # "none" => mem' # NoJob)
    BY <1>9, <2>1, <2>2, <2>3 DEF Start, SchedulerFree, Saved, NotSaved, StoreInv, Accounted
  <2>5. Presence'
    BY <1>4, <2>1, <2>2, <2>4 DEF Presence
  <2>6. Current'
    BY <1>4, <2>2 DEF Current, Working
  <2>7. Faithful' /\ EffectsNeverRepeat'
    BY <1>3, <1>4 DEF JournalInv, Faithful, EffectsNeverRepeat, deeds
  <2>8. QED
    BY <2>4, <2>5, <2>6, <2>7 DEF JournalInv
<1>10. ASSUME list = "none", list' = "none", mem' # NoJob PROVE Presence'
  BY <1>10 DEF Presence
<1>11. CASE Enqueue
  <2>1. UNCHANGED <<mem, disk, list, copy>> /\ mem # NoJob /\ list = "none"
    BY <1>11 DEF Enqueue, JournalInv, Presence
  <2>2. QED
    BY <1>6, <1>10, <2>1 DEF JournalInv
<1>12. CASE Link
  <2>1. mem # NoJob /\ list = "none" /\ UNCHANGED list
    BY <1>12 DEF Link, JournalInv, Presence
  <2> DEFINE job == [mem EXCEPT !.item = mem.attempt]
  <2>2. job.effects = mem.effects /\ job.used = mem.used /\ job.state = mem.state
    BY <1>5 DEF Job
  <2>3. job \in Job
    <3>1. mem.attempt \in 0 .. MaxAttempts
      <4>1. mem.attempt \in Attempts
        BY <1>5 DEF Job
      <4>2. QED
        BY <4>1, WorkflowAssumption DEF Attempts
    <3>2. QED
      BY <1>5, <3>1 DEF Job
  <2>4. mem.state # "Absent"
    BY <2>1 DEF JournalInv, StoreInv
  <2>5. Saved(job) \/ NotSaved(job)
    BY <1>12 DEF Link
  <2>. HIDE DEF job
  <2>6. QED
    BY <1>7, <1>10, <2>1, <2>2, <2>3, <2>4, <2>5 DEF JournalInv
<1>13. CASE Open
  <2>1. mem = NoJob /\ disk # NoJob /\ UNCHANGED <<cmd, list, copy>>
    BY <1>13 DEF Open, commands
  <2>2. Load(disk) \in Job /\ Load(disk).effects = disk.effects /\ Load(disk).used = disk.used
    BY <1>5, LoadType
  <2>3. Load(disk).state # "Absent"
    BY <1>5, <2>1 DEF Load, Job, JournalInv, StoreInv
  <2>4. mem' \in {mem, Load(disk)} /\ disk' \in {disk, Load(disk)}
    BY <1>13 DEF Open
  <2>5. StoreInv' /\ disk' # NoJob /\ Current' /\ Faithful' /\ EffectsNeverRepeat'
    BY <1>8, <2>1, <2>2, <2>3, <2>4
  <2>6. Presence'
    <3>1. cmd = "none" /\ pc \notin Working
      BY <2>1 DEF JournalInv, Presence
    <3>2. QED
      BY <1>4, <2>1, <2>5, <3>1 DEF JournalInv, Presence
  <2>7. QED
    BY <2>5, <2>6 DEF JournalInv
<1>14. CASE RequestResume
  <2>1. mem # NoJob /\ list = "none" /\ UNCHANGED list
    BY <1>14, NewType DEF RequestResume, SchedulerFree
  <2>2. /\ Reconcile(mem, queue) \in Job
        /\ Reconcile(mem, queue).effects = mem.effects
        /\ Reconcile(mem, queue).used = mem.used
    BY <1>5, ReconcileType
  <2>3. Reconcile(mem, queue).state # "Absent"
    BY <1>5, <2>1 DEF Reconcile, Job, JournalInv, StoreInv
  <2>4. CASE UNCHANGED <<mem, disk>>
    BY <1>6, <1>10, <2>1, <2>4 DEF JournalInv
  <2>5. CASE Saved(Reconcile(mem, queue)) \/ NotSaved(Reconcile(mem, queue))
    BY <1>7, <1>10, <2>1, <2>2, <2>3, <2>5 DEF JournalInv
  <2>6. QED
    BY <1>14, <2>4, <2>5 DEF RequestResume
<1>15. CASE Resume
  <2>1. mem # NoJob /\ list = "none" /\ UNCHANGED list
    BY <1>15 DEF Resume, JournalInv, Presence
  <2>2. CASE UNCHANGED <<mem, disk>>
    BY <1>6, <1>10, <2>1, <2>2 DEF JournalInv
  <2>3. CASE Resumable(mem) /\ (Saved(NextAttempt(mem)) \/ NotSaved(NextAttempt(mem)))
    <3>1. NextAttempt(mem) \in Job
      BY <1>5, <2>3, NextType
    <3>2. /\ NextAttempt(mem).effects = mem.effects
          /\ NextAttempt(mem).used = mem.used
          /\ NextAttempt(mem).state = "Ready"
      BY <1>5 DEF NextAttempt, Job
    <3>3. QED
      BY <1>7, <1>10, <2>1, <2>3, <3>1, <3>2 DEF JournalInv
  <2>4. QED
    BY <1>15, <2>2, <2>3 DEF Resume
<1>16. CASE List
  <2>1. mem # NoJob /\ list = "none" /\ cmd = "none" /\ UNCHANGED cmd
    BY <1>16 DEF List, SchedulerFree
  <2>2. /\ Reconcile(mem, queue) \in Job
        /\ Reconcile(mem, queue).effects = mem.effects
        /\ Reconcile(mem, queue).used = mem.used
    BY <1>5, ReconcileType
  <2>3. Reconcile(mem, queue).state # "Absent"
    BY <1>5, <2>1 DEF Reconcile, Job, JournalInv, StoreInv
  <2>4. CASE (Saved(Reconcile(mem, queue)) \/ NotSaved(Reconcile(mem, queue))) /\ UNCHANGED list
    BY <1>7, <1>10, <2>1, <2>2, <2>3, <2>4 DEF JournalInv
  <2>5. CASE UNCHANGED <<mem, disk>> /\ copy' = mem
    <3>1. mem.state # "Absent" /\ disk # NoJob
      BY <2>1 DEF JournalInv, StoreInv
    <3>2. Presence'
      BY <2>1, <2>5, <3>1 DEF Presence
    <3>3. QED
      BY <1>6, <2>5, <3>2 DEF JournalInv
  <2>6. QED
    BY <1>16, <2>4, <2>5 DEF List
<1>17. CASE ListMisses
  <2>1. mem = NoJob /\ disk # NoJob /\ UNCHANGED <<mem, disk, cmd, copy>> /\ list' = "load" /\ cmd = "none"
    BY <1>17 DEF ListMisses, SchedulerFree
  <2>2. pc \notin Working
    BY <2>1 DEF JournalInv, Presence
  <2>3. Presence'
    BY <1>4, <2>1, <2>2 DEF Presence
  <2>4. QED
    BY <1>6, <2>1, <2>3 DEF JournalInv
<1>18. CASE ListLoads
  <2>1. UNCHANGED <<mem, disk, cmd>> /\ copy' = Load(disk) /\ list = "load"
    BY <1>18 DEF ListLoads
  <2>2. cmd = "none" /\ disk # NoJob
    BY <2>1 DEF JournalInv, Presence
  <2>3. Load(disk).state # "Absent"
    BY <1>5, <2>2 DEF Load, Job, JournalInv, StoreInv
  <2>4. Presence'
    BY <1>4, <2>1, <2>2, <2>3 DEF JournalInv, Presence
  <2>5. QED
    BY <1>6, <2>1, <2>4 DEF JournalInv
<1>19. ASSUME NEW job \in Job, job.state # "Absent", list \in {"save", "reconcile"},
              ~Reverts(job), UNCHANGED mem, disk' = job
       PROVE  StoreInv' /\ disk' # NoJob /\ Current' /\ Faithful' /\ EffectsNeverRepeat'
  <2> DEFINE now == IF mem = NoJob THEN disk ELSE Save(mem)
  <2>1. job.effects = now.effects /\ job.used = now.used
    BY <1>19 DEF Reverts
  <2>2. now \in Job /\ Accounts(now, executed', spawned' + Reserved', produced')
    <3>1. CASE mem = NoJob
      BY <1>3, <1>5, <3>1, KeepAccounts DEF JournalInv, StoreInv
    <3>2. CASE mem # NoJob
      BY <1>3, <1>5, <3>2, SaveType, KeepAccounts DEF JournalInv, StoreInv
    <3>3. QED
      BY <3>1, <3>2
  <2>3. mem # NoJob => job.effects = Save(mem).effects
    BY <2>1
  <2>. HIDE DEF now
  <2>4. Accounts(job, executed', spawned' + Reserved', produced')
    BY <1>19, <2>1, <2>2, ReservedTypeNext, SameAccounts
  <2>5. mem # NoJob => Accounts(mem, executed', spawned' + Reserved', produced')
    BY <1>3, <1>5, KeepAccounts DEF JournalInv, StoreInv
  <2>6. StoreInv' /\ disk' # NoJob
    BY <1>19, <2>4, <2>5, NewType DEF JournalInv, StoreInv, Accounted
  <2>7. Faithful' /\ EffectsNeverRepeat'
    BY <1>3, <1>4 DEF JournalInv, Faithful, EffectsNeverRepeat, deeds
  <2>8. Position' = Position /\ executed' = executed /\ produced' = produced
    BY <1>3, <1>4 DEF Position, deeds
  <2>9. CASE pc = "effect"
    <3>1. /\ Position \in Calls
          /\ executed[Position] = 0
          /\ Intends(mem, Position, w.request)
          /\ mem # NoJob
      BY <2>9 DEF JournalInv, Current, Presence, Working
    <3>2. Position \in 1 .. Len(mem.effects)
      BY <3>1 DEF Intends, Calls
    <3>3. Intends(Save(mem), Position, w.request)
      BY <1>5, <3>1, <3>2, SameIntends
    <3>4. Intends(job, Position, w.request)
      BY <2>3, <3>1, <3>3 DEF Intends
    <3>5. QED
      BY <1>4, <1>19, <2>6, <2>7, <2>8, <2>9, <3>1, <3>4 DEF Current
  <2>10. CASE pc # "effect"
    BY <1>4, <1>19, <2>6, <2>7, <2>8, <2>10 DEF JournalInv, Current
  <2>11. QED
    BY <2>9, <2>10
<1>20. ASSUME UNCHANGED <<mem, cmd>>, list' = "none" PROVE Presence'
  BY <1>4, <1>20 DEF JournalInv, Presence
<1>21. CASE ListSaves
  <2>1. list = "save" /\ list' = "none" /\ UNCHANGED <<mem, cmd>>
    BY <1>21 DEF ListSaves
  <2>2. copy.state # "Absent"
    BY <2>1 DEF JournalInv, Presence
  <2>3. UNCHANGED disk \/ (disk' = copy /\ ~Reverts(copy))
    BY <1>21 DEF ListSaves, Writes
  <2>4. QED
    BY <1>5, <1>6, <1>19, <1>20, <2>1, <2>2, <2>3 DEF JournalInv
<1>22. CASE ListReconciles
  <2> DEFINE job == Save(Reconcile(copy, queue))
  <2>1. list = "reconcile" /\ list' = "none" /\ UNCHANGED <<mem, cmd>>
    BY <1>22 DEF ListReconciles
  <2>2. copy.state # "Absent"
    BY <2>1 DEF JournalInv, Presence
  <2>3. Reconcile(copy, queue) \in Job /\ Reconcile(copy, queue).state # "Absent"
    BY <1>5, <2>2, ReconcileType DEF Reconcile, Job
  <2>4. job \in Job /\ job.state # "Absent"
    BY <2>3, SaveType
  <2>5. UNCHANGED disk \/ (disk' = job /\ ~Reverts(job))
    BY <1>22 DEF ListReconciles, Writes
  <2>. HIDE DEF job
  <2>6. QED
    BY <1>6, <1>19, <1>20, <2>1, <2>4, <2>5 DEF JournalInv
<1>23. ASSUME NEW a \in Attempts, Remove(a) PROVE JournalInv'
  <2>1. UNCHANGED <<mem, disk, cmd, list, copy>>
    BY <1>23 DEF Remove, commands
  <2>2. Presence'
    BY <1>4, <2>1 DEF JournalInv, Presence
  <2>3. QED
    BY <1>6, <2>1, <2>2 DEF JournalInv
<1>24. QED
  BY <1>9, <1>11, <1>12, <1>13, <1>14, <1>15, <1>16, <1>17, <1>18, <1>21, <1>22, <1>23
     DEF CommandNext

\* The intent of a call is charged before the call is carried out.
LEMMA IntendAccounts ==
    ASSUME NEW job \in Job, NEW r \in Requests, NEW done, NEW children \in Nat, NEW brought,
           Admits(job, Len(job.effects) + 1, r), Accounts(job, done, children, brought)
    PROVE  /\ Accounts(Intend(job, r), done, children + Cost[r], brought)
           /\ Intends(Intend(job, r), Len(job.effects) + 1, r)
           /\ Intend(job, r).state = job.state
<1> DEFINE e == [request |-> r, done |-> FALSE, value |-> NoValue]
           s == Append(job.effects, e)
<1>1. e \in EffectRecord /\ e.request = r /\ e.value = NoValue
  BY DEF EffectRecord
<1>2. job.effects \in Seq(EffectRecord) /\ Len(job.effects) \in Nat
  BY LenProperties DEF Job
<1>. HIDE DEF e
<1>3. /\ s \in Seq(EffectRecord)
      /\ Len(s) = Len(job.effects) + 1
      /\ \A i \in 1 .. Len(job.effects) : s[i] = job.effects[i]
      /\ s[Len(job.effects) + 1] = e
  BY <1>1, <1>2, JournalAppend
<1>4. /\ Intend(job, r).effects = s
      /\ Intend(job, r).used = job.used + Cost[r]
      /\ Intend(job, r).state = job.state
  BY DEF Intend, Job, e
<1>. HIDE DEF s
<1>5. Cost[r] \in Nat /\ job.used \in Nat
  BY WorkflowAssumption DEF Job
<1>6. \A i \in 1 .. Len(s) : i \in 1 .. Len(job.effects) \/ i = Len(job.effects) + 1
  BY <1>2, <1>3
<1>7. \A i \in 1 .. Len(s) : s[i].value # NoValue =>
        brought[i] = [request |-> s[i].request, value |-> s[i].value]
  BY <1>1, <1>3, <1>6 DEF Accounts
<1>8. Len(s) <= MaxCalls
  BY <1>3 DEF Admits
<1>9. \A i \in Calls : done[i] > 0 => i <= Len(s)
  BY <1>2, <1>3 DEF Accounts, Calls
<1>10. children + Cost[r] <= job.used + Cost[r]
  BY <1>5 DEF Accounts
<1>11. QED
  BY <1>1, <1>3, <1>4, <1>7, <1>8, <1>9, <1>10 DEF Accounts, Intends

\* A call that is in the journal may be carried out.
LEMMA EffectAccounts ==
    ASSUME NEW job \in Job, NEW i \in Calls, NEW r, NEW done \in [Calls -> Nat],
           NEW children \in Nat, NEW fewer \in Nat, fewer <= children,
           NEW brought, NEW now, \A k \in Calls : k # i => now[k] = brought[k],
           Intends(job, i, r), Accounts(job, done, children, brought)
    PROVE  Accounts(job, [done EXCEPT ![i] = @ + 1], fewer, now)
<1>1. Len(job.effects) = i /\ job.effects[i].value = NoValue
  BY DEF Intends
<1>2. \A k \in Calls : [done EXCEPT ![i] = @ + 1][k] > 0 => k <= Len(job.effects)
  BY <1>1 DEF Accounts, Calls
<1>3. \A k \in 1 .. Len(job.effects) : k # i => now[k] = brought[k]
  <2>1. \A k \in 1 .. Len(job.effects) : k \in Calls
    BY <1>1, WorkflowAssumption DEF Calls
  <2>2. QED
    BY <2>1
<1>4. \A k \in 1 .. Len(job.effects) : job.effects[k].value # NoValue =>
        now[k] = [request |-> job.effects[k].request, value |-> job.effects[k].value]
  BY <1>1, <1>3 DEF Accounts
<1>5. fewer <= job.used
  BY DEF Accounts, Job
<1>6. QED
  BY <1>2, <1>4, <1>5 DEF Accounts

\* The result a call brought may be recorded.
LEMMA CompleteAccounts ==
    ASSUME NEW job \in Job, NEW i \in Calls, NEW r, NEW v \in Values, NEW done,
           NEW children, NEW brought,
           Intends(job, i, r), Accounts(job, done, children, brought),
           brought[i] = [request |-> r, value |-> v]
    PROVE  /\ Accounts(CompleteTo(job, i, v), done, children, brought)
           /\ CompleteTo(job, i, v).state = job.state
<1> DEFINE s == job.effects
           e == [s[i] EXCEPT !.done = TRUE, !.value = v]
           t == [s EXCEPT ![i] = e]
<1>1. s \in Seq(EffectRecord) /\ i \in 1 .. Len(s)
  BY DEF Job, Intends, Calls
<1>2. s[i] \in EffectRecord /\ s[i].request = r
  BY <1>1, ElementOfSeq DEF Intends
<1>3. e \in EffectRecord /\ e.request = r /\ e.value = v
  BY <1>2 DEF EffectRecord
<1>4. /\ CompleteTo(job, i, v).effects = t
      /\ CompleteTo(job, i, v).used = job.used
      /\ CompleteTo(job, i, v).state = job.state
  BY DEF CompleteTo, Job
<1>. HIDE DEF e
<1>5. /\ Len(t) = Len(s)
      /\ \A k \in 1 .. Len(s) : t[k] = IF k = i THEN e ELSE s[k]
  BY <1>1, <1>3, ExceptSeq
<1>. HIDE DEF t
<1>6. \A k \in 1 .. Len(t) : t[k].value # NoValue =>
        brought[k] = [request |-> t[k].request, value |-> t[k].value]
  BY <1>3, <1>5 DEF Accounts
<1>7. QED
  BY <1>4, <1>5, <1>6 DEF Accounts

\* The worker preserves JournalInv.
LEMMA JournalWorker ==
    ASSUME TypeInv, TypeInv', JournalInv, WorkerNext
    PROVE  JournalInv'
<1>1. UNCHANGED commands
  BY DEF WorkerNext, Begin, Cancel, Check, Run, Freeze, Finish, Call, Refuse, StartChildren,
         LocalCall, Complete, RecordOutcome, Close, End
<1>2. UNCHANGED <<cmd, list, copy>>
  BY <1>1 DEF commands
<1>3. mem \in Job /\ disk \in Job /\ mem' \in Job
  BY DEF TypeInv, StoreType
<1>4. Reserved \in Nat /\ spawned + Reserved \in Nat /\ spawned \in Nat
  BY ReservedType DEF TypeInv, HistoryType
<1>5. pc' # "effect" => Reserved' = 0 /\ Reserved' <= Reserved
  BY <1>4 DEF Reserved
<1>6. pc' \notin {"effect", "complete"} => Current'
  BY DEF Current
<1>7. UNCHANGED deeds => EffectsNeverRepeat'
  BY DEF JournalInv, EffectsNeverRepeat, deeds
<1>8. UNCHANGED deeds /\ (UNCHANGED replies \/ replies' = <<>>) => Faithful'
  BY DEF JournalInv, Faithful, deeds
<1>9. ASSUME pc \in Working PROVE mem # NoJob /\ mem.state # "Absent"
  BY <1>9 DEF JournalInv, Presence, StoreInv
<1>10. ASSUME mem' # NoJob, StoreInv' PROVE Presence'
  BY <1>2, <1>10 DEF JournalInv, Presence, StoreInv
<1>11. ASSUME NEW a \in Attempts, Begin(a) PROVE JournalInv'
  <2>1. UNCHANGED <<mem, disk, replies, deeds>> /\ pc' \in {"idle", "check"} /\ list = "none"
    BY <1>11 DEF Begin, SchedulerFree, history, deeds
  <2>2. StoreInv'
    BY <1>5, <2>1, KeepStill
  <2>3. Presence'
    BY <1>2, <2>1 DEF JournalInv, Presence, Working
  <2>4. QED
    BY <1>6, <1>7, <1>8, <2>1, <2>2, <2>3 DEF JournalInv
<1>12. CASE Cancel
  <2>1. UNCHANGED <<mem, disk, pc, replies, deeds>>
    BY <1>12 DEF Cancel, history, deeds
  <2>2. w'.request = w.request /\ w'.value = w.value
    BY <1>12 DEF Cancel, TypeInv, WorkerType, Work
  <2>3. Reserved' <= Reserved
    BY <1>4, <2>1, <2>2 DEF Reserved
  <2>4. StoreInv' /\ Current' /\ Faithful' /\ EffectsNeverRepeat'
    BY <1>3, <2>1, <2>2, <2>3, KeepStill, KeepCurrent
  <2>5. Presence'
    BY <1>2, <2>1 DEF JournalInv, Presence
  <2>6. QED
    BY <2>4, <2>5 DEF JournalInv
<1>13. CASE Check
  <2>1. pc' \in {"start", "close"} /\ UNCHANGED <<replies, deeds>>
    BY <1>13 DEF Check, GoTo, Breaks, history, deeds
  <2>2. Reserved' <= Reserved
    BY <1>5, <2>1
  <2>3. CASE mem # NoJob
    <3>1. UNCHANGED <<mem, disk>>
      BY <1>13, <2>3 DEF Check
    <3>2. StoreInv'
      BY <2>1, <2>2, <3>1, KeepStill
    <3>3. Presence'
      BY <1>2, <2>3, <3>1 DEF JournalInv, Presence
    <3>4. QED
      BY <1>6, <1>7, <1>8, <2>1, <3>2, <3>3 DEF JournalInv
  <2>4. CASE mem = NoJob
    <3>1. Load(disk) \in Job /\ Load(disk).effects = disk.effects /\ Load(disk).used = disk.used
      BY <1>3, LoadType
    <3>2. mem' \in {NoJob, Load(disk)} /\ disk' \in {disk, Load(disk)}
      BY <1>13, <2>4 DEF Check
    <3>3. mem' = Load(disk) => Load(disk).state # "Absent" \/ pc' = "close"
      BY <1>13, <2>4 DEF Check, Bound, GoTo, Breaks
    <3>4. pc' = "start" => mem' # NoJob
      BY <1>13, <2>4, NewType DEF Check, Bound, GoTo, Breaks
    <3>5. /\ Accounts(Load(disk), executed', spawned' + Reserved', produced')
          /\ Accounts(disk, executed', spawned' + Reserved', produced')
      BY <1>3, <2>1, <2>2, <3>1, KeepAccounts DEF JournalInv, StoreInv
    <3>6. disk = NoJob => Load(disk) = NoJob
      BY NewType DEF Load
    <3>7. disk # NoJob => Load(disk).state # "Absent"
      BY <1>3 DEF Load, Job, JournalInv, StoreInv
    <3>8. StoreInv'
      BY <2>4, <3>2, <3>5, <3>6, <3>7, NewType DEF JournalInv, StoreInv, Accounted
    <3>9. cmd = "none" /\ (list # "none" => disk' # NoJob)
      BY <2>4, <3>2, <3>7, NewType DEF JournalInv, Presence
    <3>10. Presence'
      BY <1>2, <2>1, <3>4, <3>9 DEF JournalInv, Presence, Working
    <3>11. QED
      BY <1>6, <1>7, <1>8, <2>1, <3>8, <3>10 DEF JournalInv
  <2>5. QED
    BY <2>3, <2>4
<1>14. ASSUME NEW job \in Job, job.state # "Absent", job.effects = mem.effects,
              job.used = mem.used, pc \in Working, pc' \notin {"effect", "complete"},
              UNCHANGED <<replies, deeds>>,
              Saved(job) \/ NotSaved(job) \/ UNCHANGED <<mem, disk>>
       PROVE  JournalInv'
  <2>1. mem # NoJob
    BY <1>9, <1>14
  <2>2. CASE Saved(job) \/ NotSaved(job)
    <3>1. StoreInv' /\ mem' # NoJob
      BY <1>5, <1>14, <2>1, <2>2, KeepStores
    <3>2. QED
      BY <1>6, <1>7, <1>8, <1>10, <1>14, <3>1 DEF JournalInv
  <2>3. CASE UNCHANGED <<mem, disk>>
    <3>1. StoreInv'
      BY <1>5, <1>14, <2>3, KeepStill
    <3>2. QED
      BY <1>6, <1>7, <1>8, <1>10, <1>14, <2>1, <2>3, <3>1 DEF JournalInv
  <2>4. QED
    BY <1>14, <2>2, <2>3
<1>15. CASE Run
  <2> DEFINE job == [mem EXCEPT !.state = "Running", !.item = w.attempt, !.run = w.attempt]
  <2>1. job \in Job
    BY <1>3 DEF TypeInv, WorkerType, Work, Job, JobStates
  <2>2. job.state # "Absent" /\ job.effects = mem.effects /\ job.used = mem.used
    BY <1>3 DEF Job
  <2>3. Saved(job) \/ NotSaved(job)
    BY <1>15 DEF Run
  <2>. HIDE DEF job
  <2>4. pc \in Working /\ pc' \in {"freeze", "close"} /\ UNCHANGED <<replies, deeds>>
    BY <1>15 DEF Run, GoTo, Breaks, Working, history, deeds
  <2>5. QED
    BY <1>14, <2>1, <2>2, <2>3, <2>4
<1>16. CASE Freeze
  <2>1. pc \in Working /\ pc' \in {"script", "close"} /\ UNCHANGED <<replies, deeds>>
    BY <1>16 DEF Freeze, GoTo, Breaks, Working, history, deeds
  <2>2. QED
    BY <1>3, <1>9, <1>14, <1>16, <2>1 DEF Freeze
<1>17. CASE Finish
  <2>1. pc \in Working /\ pc' = "outcome" /\ UNCHANGED <<mem, disk, replies, deeds>>
    BY <1>17 DEF Finish, Ends, Working, history, deeds
  <2>2. QED
    BY <1>3, <1>9, <1>14, <2>1
<1>18. CASE Refuse
  <2>1. pc \in Working /\ pc' = "outcome" /\ UNCHANGED <<mem, disk, replies, deeds>>
    BY <1>18 DEF Refuse, Ends, Working, history, deeds
  <2>2. QED
    BY <1>3, <1>9, <1>14, <2>1
<1>19. CASE RecordOutcome
  <2> DEFINE job == [mem EXCEPT !.state = w.outcome]
  <2>1. job \in Job /\ job.state # "Absent"
    BY <1>3, <1>19 DEF RecordOutcome, TypeInv, WorkerType, Stepwise, Work, Job, JobStates
  <2>2. job.effects = mem.effects /\ job.used = mem.used
    BY <1>3 DEF Job
  <2>3. Saved(job) \/ NotSaved(job)
    BY <1>19 DEF RecordOutcome
  <2>. HIDE DEF job
  <2>4. pc \in Working /\ pc' = "close" /\ UNCHANGED <<replies, deeds>>
    BY <1>19 DEF RecordOutcome, GoTo, Breaks, Working, history, deeds
  <2>5. QED
    BY <1>14, <2>1, <2>2, <2>3, <2>4
<1>20. CASE Close
  <2> DEFINE job == [mem EXCEPT !.state = "Interrupted"]
  <2>1. /\ pc' = "end" /\ pc \notin Working /\ replies' = <<>> /\ UNCHANGED deeds
        /\ Reserved' <= Reserved
    BY <1>5, <1>20 DEF Close, Working, history, deeds
  <2>2. CASE UNCHANGED <<mem, disk>>
    <3>1. StoreInv'
      BY <2>1, <2>2, KeepStill
    <3>2. Presence'
      BY <1>2, <2>1, <2>2 DEF JournalInv, Presence, Working
    <3>3. QED
      BY <1>6, <1>7, <1>8, <2>1, <3>1, <3>2 DEF JournalInv
  <2>3. CASE mem.state = "Running" /\ (Saved(job) \/ NotSaved(job))
    <3>1. job \in Job /\ job.state # "Absent" /\ job.effects = mem.effects /\ job.used = mem.used
      BY <1>3 DEF Job, JobStates
    <3>2. mem # NoJob
      BY <2>3, NewType
    <3>. HIDE DEF job
    <3>3. StoreInv' /\ mem' # NoJob /\ disk' # NoJob
      BY <2>1, <2>3, <3>1, <3>2, KeepStores
    <3>4. Presence'
      BY <1>2, <2>1, <3>3 DEF JournalInv, Presence, Working
    <3>5. QED
      BY <1>6, <1>7, <1>8, <2>1, <3>3, <3>4 DEF JournalInv
  <2>4. QED
    BY <1>20, <2>2, <2>3 DEF Close
<1>21. CASE End
  <2>1. /\ UNCHANGED <<mem, disk, replies, deeds>> /\ pc' = "idle"
        /\ Reserved' <= Reserved
    BY <1>5, <1>21 DEF End, history, deeds
  <2>2. StoreInv'
    BY <2>1, KeepStill
  <2>3. Presence'
    BY <1>2, <2>1 DEF JournalInv, Presence, Working
  <2>4. QED
    BY <1>6, <1>7, <1>8, <2>1, <2>2, <2>3 DEF JournalInv
<1>22. Position \in Nat /\ Position = Len(replies) + 1 /\ Len(mem.effects) \in Nat
       /\ mem.effects \in Seq(EffectRecord)
  BY <1>3, LenProperties DEF Position, TypeInv, WorkerType, Job
<1>23. ASSUME NEW r \in Requests, Call(r) PROVE JournalInv'
  <2>1. pc = "script" /\ pc \in Working /\ Reserved = 0 /\ UNCHANGED deeds
    BY <1>23 DEF Call, Working, Reserved, history, deeds
  <2>2. mem # NoJob /\ mem.state # "Absent" /\ Accounted(mem) /\ Accounted(disk)
    BY <1>9, <2>1 DEF JournalInv, StoreInv
  <2>3. CASE UNCHANGED <<mem, disk>> /\ Ends("Failed")
    BY <1>3, <1>14, <2>1, <2>2, <2>3 DEF Ends
  <2>4. CASE Replays(mem, Position, r) /\ Answered(r, mem.effects[Position].value)
             /\ UNCHANGED <<mem, disk, pc, w>>
    <3>1. Position \in 1 .. Len(mem.effects)
      BY <1>22, <2>4, LenProperties DEF Replays
    <3>2. mem.effects[Position] \in EffectRecord
      BY <1>22, <3>1, ElementOfSeq
    <3>3. mem.effects[Position].value \in Values
      BY <2>4, <3>2 DEF Replays, EffectRecord
    <3>4. Position \in Calls
      BY <1>22, <2>2, <3>1, WorkflowAssumption DEF Accounted, Accounts, Calls
    <3>5. produced[Position] = [request |-> r, value |-> mem.effects[Position].value]
      BY <2>2, <2>4, <3>1 DEF Accounted, Accounts, Replays
    <3>6. /\ replies' \in Seq(Reply)
          /\ Len(replies') = Position
          /\ \A i \in 1 .. Len(replies) : replies'[i] = replies[i]
          /\ replies'[Position] = produced[Position]
      BY <1>22, <2>4, <3>3, <3>5, AnswerType DEF TypeInv, WorkerType
    <3>7. DOMAIN replies' = 1 .. Position /\ DOMAIN replies = 1 .. Len(replies)
      BY <3>6, LenProperties DEF TypeInv, WorkerType
    <3>8. \A i \in 1 .. Position : i \in 1 .. Len(replies) \/ i = Position
      BY <1>22
    <3>9. Faithful'
      BY <2>1, <3>4, <3>6, <3>7, <3>8 DEF JournalInv, Faithful, deeds
    <3>10. StoreInv'
      BY <1>5, <2>1, <2>4, KeepStill
    <3>11. QED
      BY <1>6, <1>7, <1>10, <2>1, <2>2, <2>4, <3>9, <3>10 DEF JournalInv
  <2>5. CASE Admits(mem, Position, r) /\ (Saved(Intend(mem, r)) \/ NotSaved(Intend(mem, r)))
    <3> DEFINE job == Intend(mem, r)
    <3>1. Position = Len(mem.effects) + 1 /\ Position \in Calls
      BY <1>22, <2>5 DEF Admits, Calls
    <3>2. job \in Job
      BY <1>3, <2>5, IntendType DEF Admits
    <3>3. /\ Accounts(job, executed, spawned + Cost[r], produced)
          /\ Intends(job, Position, r)
          /\ job.state = mem.state
      BY <1>3, <1>4, <2>1, <2>2, <2>5, <3>1, IntendAccounts DEF Accounted
    <3>4. Cost[r] \in Nat
      BY WorkflowAssumption
    <3>5. Position \in 1 .. Len(job.effects)
      BY <1>22, <3>3 DEF Intends
    <3>6. Save(job) \in Job /\ Save(job).state = job.state /\ Intends(Save(job), Position, r)
      BY <3>2, <3>3, <3>5, SaveType, SameIntends
    <3>7. executed[Position] = 0
      BY <1>22, <2>2, <3>1 DEF Accounted, Accounts, TypeInv, HistoryType
    <3>. HIDE DEF job
    <3>8. CASE Saved(job) /\ pc' = "effect" /\ w' = [w EXCEPT !.request = r] /\ UNCHANGED replies
      <4>1. w'.request = r /\ Reserved' = Cost[r] /\ Position' = Position
        BY <3>8 DEF Reserved, Position, TypeInv, WorkerType, Work
      <4>2. spawned' + Reserved' = spawned + Cost[r] /\ spawned + Cost[r] \in Nat
        BY <1>4, <2>1, <3>4, <4>1 DEF deeds
      <4>3. Accounts(Save(job), executed, spawned + Cost[r], produced)
        BY <3>2, <3>3, <4>2, SameAccounts
      <4>4. mem' = job /\ disk' = Save(job)
        BY <3>8 DEF Saved
      <4>5. mem' # NoJob /\ disk' # NoJob
        BY <2>2, <3>3, <3>6, <4>4, NewType
      <4>6. mem'.state # "Absent" /\ disk'.state # "Absent"
        BY <2>2, <3>3, <3>6, <4>4
      <4>7. executed' = executed /\ produced' = produced
        BY <2>1 DEF deeds
      <4>8. StoreInv'
        BY <3>3, <4>2, <4>3, <4>4, <4>5, <4>6, <4>7 DEF StoreInv, Accounted
      <4>9. Current'
        BY <3>1, <3>3, <3>6, <3>7, <3>8, <4>1, <4>4, <4>7 DEF Current
      <4>10. QED
        BY <1>7, <1>8, <1>10, <2>1, <3>8, <4>5, <4>8, <4>9 DEF JournalInv
    <3>9. CASE NotSaved(job) /\ Ends("Failed")
      <4>1. pc' = "outcome" /\ UNCHANGED replies /\ mem' = mem /\ disk' \in {disk, Save(job)}
        BY <3>9 DEF Ends, NotSaved
      <4>2. Reserved' = 0 /\ Reserved' <= Reserved /\ spawned' + Reserved' = spawned
        BY <1>4, <1>5, <2>1, <4>1 DEF deeds
      <4>3. spawned <= spawned + Cost[r] /\ spawned + Cost[r] \in Nat
        BY <1>4, <3>4
      <4>4. Accounts(Save(job), executed', spawned' + Reserved', produced')
        BY <1>4, <2>1, <3>2, <3>3, <4>2, <4>3, SameAccounts DEF deeds
      <4>5. /\ Accounts(mem, executed', spawned' + Reserved', produced')
            /\ Accounts(disk, executed', spawned' + Reserved', produced')
        BY <1>3, <2>1, <2>2, <4>2, KeepAccounts
      <4>6. disk.state # "Absent" /\ disk # NoJob
        BY <2>2 DEF JournalInv, StoreInv
      <4>7. Save(job).state # "Absent" /\ Save(job) # NoJob
        BY <2>2, <3>3, <3>6, NewType
      <4>8. StoreInv'
        BY <2>2, <4>1, <4>4, <4>5, <4>6, <4>7 DEF StoreInv, Accounted
      <4>9. QED
        BY <1>6, <1>7, <1>8, <1>10, <2>1, <2>2, <4>1, <4>8 DEF JournalInv
    <3>10. QED
      BY <1>23, <2>3, <2>4, <3>8, <3>9 DEF Call, job
  <2>6. QED
    BY <1>23, <2>3, <2>4, <2>5 DEF Call
<1>24. ASSUME NEW v \in Values, pc = "effect",
              executed' = [executed EXCEPT ![Position] = @ + 1],
              spawned' \in Nat, spawned' <= spawned + Cost[w.request],
              Brings(v) \/ (Ends("Failed") /\ UNCHANGED produced),
              mem' = mem, disk' \in {disk, Save(mem)}
       PROVE  JournalInv'
  <2>1. /\ Position \in Calls
        /\ executed[Position] = 0
        /\ Intends(mem, Position, w.request)
        /\ Intends(disk, Position, w.request)
        /\ pc \in Working
    BY <1>24 DEF JournalInv, Current, Working
  <2>2. mem # NoJob /\ mem.state # "Absent" /\ Accounted(mem) /\ Accounted(disk)
        /\ disk # NoJob /\ disk.state # "Absent"
    BY <1>9, <2>1 DEF JournalInv, StoreInv
  <2>3. pc' \in {"complete", "outcome"} /\ UNCHANGED replies /\ Position' = Position
    BY <1>24 DEF Brings, Ends, Position
  <2>4. Reserved' = 0 /\ spawned' + Reserved' = spawned' /\ Reserved = Cost[w.request]
    BY <1>5, <1>24, <2>3 DEF Reserved
  <2>5. spawned' <= spawned + Reserved
    BY <1>24, <2>4
  <2> DEFINE x == [request |-> w.request, value |-> v]
  <2>6. produced' \in {produced, [produced EXCEPT ![Position] = x]}
    BY <1>24 DEF Brings
  <2>7. executed \in [Calls -> Nat] /\ produced \in [Calls -> Reply]
    BY DEF TypeInv, HistoryType
  <2>. HIDE DEF x
  <2>8. /\ Accounts(mem, executed', spawned', produced')
        /\ Accounts(disk, executed', spawned', produced')
    <3>1. ASSUME NEW job \in {mem, disk}
          PROVE  Accounts(job, [executed EXCEPT ![Position] = @ + 1], spawned', produced')
      <4>1. /\ job \in Job
            /\ Intends(job, Position, w.request)
            /\ Accounts(job, executed, spawned + Reserved, produced)
        BY <1>3, <2>1, <2>2, <3>1 DEF Accounted
      <4>2. \A k \in Calls : k # Position => produced'[k] = produced[k]
        BY <2>6, <2>7
      <4>3. executed \in [Calls -> Nat] /\ spawned' \in Nat /\ spawned + Reserved \in Nat
        BY <1>4, <1>24, <2>7
      <4>4. QED
        BY <2>1, <2>5, <4>1, <4>2, <4>3, EffectAccounts
    <3>2. QED
      BY <1>24, <3>1
  <2>9. Accounts(Save(mem), executed', spawned', produced')
    BY <1>3, <1>24, <2>8, SameAccounts
  <2>10. Save(mem).state # "Absent" /\ Save(mem) # NoJob
    BY <1>3, <2>2, SaveType, NewType
  <2>11. StoreInv'
    BY <1>24, <2>2, <2>4, <2>8, <2>9, <2>10 DEF StoreInv, Accounted
  <2>12. Current'
    <3>1. CASE pc' = "outcome"
      BY <3>1 DEF Current
    <3>2. CASE pc' = "complete"
      <4>1. Brings(v)
        BY <1>24, <3>2 DEF Ends
      <4>2. w'.request = w.request /\ w'.value = v
        BY <4>1 DEF Brings, TypeInv, WorkerType, Work
      <4>3. produced'[Position] = [request |-> w.request, value |-> v]
        BY <2>1, <2>7, <4>1 DEF Brings
      <4>4. QED
        BY <1>24, <2>1, <2>3, <3>2, <4>2, <4>3 DEF Current
    <3>3. QED
      BY <2>3, <3>1, <3>2
  <2>13. Faithful'
    <3>1. DOMAIN replies = 1 .. Len(replies) /\ Len(replies) \in Nat
      BY LenProperties DEF TypeInv, WorkerType
    <3>2. \A i \in DOMAIN replies : i \in Calls /\ i # Position /\ replies[i] = produced[i]
      BY <1>22, <3>1 DEF JournalInv, Faithful
    <3>3. \A i \in DOMAIN replies : produced'[i] = produced[i]
      BY <2>6, <2>7, <3>2
    <3>4. QED
      BY <2>3, <3>2, <3>3 DEF Faithful
  <2>14. EffectsNeverRepeat'
    BY <1>24, <2>1, <2>7 DEF JournalInv, EffectsNeverRepeat
  <2>15. QED
    BY <1>10, <1>24, <2>1, <2>2, <2>11, <2>12, <2>13, <2>14 DEF JournalInv
<1>25. pc = "effect" => Cost[w.request] \in Nat
  BY WorkflowAssumption DEF TypeInv, WorkerType, Stepwise
<1>26. ASSUME NEW v \in Values, StartChildren(v) PROVE JournalInv'
  <2>1. /\ pc = "effect"
        /\ executed' = [executed EXCEPT ![Position] = @ + 1]
        /\ Brings(v) \/ (Ends("Failed") /\ UNCHANGED produced)
        /\ mem' = mem /\ disk' = disk
    BY <1>26 DEF StartChildren
  <2>2. spawned' \in Nat /\ spawned' <= spawned + Cost[w.request]
    BY <1>4, <1>25, <1>26, <2>1 DEF StartChildren
  <2>3. QED
    BY <1>24, <2>1, <2>2
<1>27. ASSUME NEW v \in Values, LocalCall(v) PROVE JournalInv'
  <2>1. /\ pc = "effect"
        /\ executed' = [executed EXCEPT ![Position] = @ + 1]
        /\ Brings(v) \/ (Ends("Failed") /\ UNCHANGED produced)
        /\ mem' = mem /\ disk' \in {disk, Save(mem)}
    BY <1>27 DEF LocalCall, Saved, NotSaved
  <2>2. spawned' \in Nat /\ spawned' <= spawned + Cost[w.request]
    BY <1>4, <1>25, <1>27, <2>1 DEF LocalCall
  <2>3. QED
    BY <1>24, <2>1, <2>2
<1>28. CASE Complete
  <2> DEFINE job == CompleteTo(mem, Position, w.value)
  <2>1. /\ pc = "complete" /\ pc \in Working /\ UNCHANGED deeds
        /\ pc' \in {"outcome", "script"}
        /\ Saved(job) \/ NotSaved(job)
    BY <1>28 DEF Complete, Ends, Working, history, deeds
  <2>2. /\ Position \in Calls
        /\ Intends(mem, Position, w.request)
        /\ produced[Position] = [request |-> w.request, value |-> w.value]
        /\ w.request \in Requests /\ w.value \in Values
    BY <2>1 DEF JournalInv, Current, TypeInv, WorkerType, Stepwise
  <2>3. mem # NoJob /\ mem.state # "Absent" /\ Accounted(mem) /\ Accounted(disk)
        /\ disk # NoJob /\ disk.state # "Absent"
    BY <1>9, <2>1 DEF JournalInv, StoreInv
  <2>4. job \in Job
    BY <1>3, <1>22, <2>2, CompleteType
  <2>5. Accounted(job) /\ job.state = mem.state
    BY <1>3, <2>2, <2>3, CompleteAccounts DEF Accounted
  <2>. HIDE DEF job
  <2>6. Reserved' <= Reserved
    BY <1>5, <2>1
  <2>7. /\ Accounts(job, executed', spawned' + Reserved', produced')
        /\ Accounts(Save(job), executed', spawned' + Reserved', produced')
        /\ Accounts(mem, executed', spawned' + Reserved', produced')
        /\ Accounts(disk, executed', spawned' + Reserved', produced')
    BY <1>3, <2>1, <2>3, <2>4, <2>5, <2>6, KeepAccounts
  <2>8. Save(job).state = job.state /\ job # NoJob /\ Save(job) # NoJob
    BY <2>3, <2>4, <2>5, SaveType, NewType
  <2>9. mem' \in {mem, job} /\ disk' \in {disk, Save(job)}
    BY <2>1 DEF Saved, NotSaved
  <2>10. StoreInv' /\ mem' # NoJob
    BY <2>3, <2>5, <2>7, <2>8, <2>9 DEF StoreInv, Accounted
  <2>11. Faithful'
    <3>1. CASE UNCHANGED replies
      BY <1>8, <2>1, <3>1
    <3>2. CASE Answered(w.request, w.value)
      <4>1. /\ replies' \in Seq(Reply)
            /\ Len(replies') = Position
            /\ \A i \in 1 .. Len(replies) : replies'[i] = replies[i]
            /\ replies'[Position] = produced[Position]
        BY <1>22, <2>2, <3>2, AnswerType DEF TypeInv, WorkerType
      <4>2. DOMAIN replies' = 1 .. Position /\ DOMAIN replies = 1 .. Len(replies)
        BY <4>1, LenProperties DEF TypeInv, WorkerType
      <4>3. \A i \in 1 .. Position : i \in 1 .. Len(replies) \/ i = Position
        BY <1>22
      <4>4. QED
        BY <2>1, <2>2, <4>1, <4>2, <4>3 DEF JournalInv, Faithful, deeds
    <3>3. QED
      BY <1>28, <3>1, <3>2 DEF Complete, Ends
  <2>12. QED
    BY <1>6, <1>7, <1>10, <2>1, <2>10, <2>11 DEF JournalInv
<1>29. QED
  BY <1>11, <1>12, <1>13, <1>15, <1>16, <1>17, <1>18, <1>19, <1>20, <1>21, <1>23, <1>26,
     <1>27, <1>28 DEF WorkerNext

\* A restart preserves JournalInv.
LEMMA JournalRestart ==
    ASSUME TypeInv, TypeInv', JournalInv, Restart
    PROVE  JournalInv'
<1>1. /\ mem' = NoJob /\ disk' = disk /\ UNCHANGED deeds /\ pc' = "idle"
      /\ cmd' = "none" /\ list' = "none" /\ replies' = <<>>
  BY DEF Restart, history, deeds
<1>2. Reserved' <= Reserved
  BY <1>1, ReservedType DEF Reserved
<1>3. Accounts(disk, executed', spawned' + Reserved', produced')
  BY <1>1, <1>2, KeepAccounts DEF TypeInv, StoreType, JournalInv, StoreInv
<1>4. StoreInv'
  BY <1>1, <1>3 DEF JournalInv, StoreInv, Accounted
<1>5. Presence' /\ Current'
  BY <1>1 DEF Presence, Current, Working
<1>6. Faithful' /\ EffectsNeverRepeat'
  BY <1>1 DEF JournalInv, Faithful, EffectsNeverRepeat, deeds
<1>7. QED
  BY <1>4, <1>5, <1>6 DEF JournalInv

\* JournalInv is inductive with TypeInv, until a list reverts the journal.
LEMMA JournalStep ==
    ASSUME TypeInv, TypeInv', reverted \/ JournalInv, [WorkflowNext]_vars
    PROVE  (reverted \/ JournalInv)'
<1>1. reverted => reverted'
  BY DEF WorkflowNext, CommandNext, WorkerNext, Start, Enqueue, Link, Open, RequestResume,
         Resume, List, ListMisses, ListLoads, ListSaves, ListReconciles, Writes, Remove, Begin,
         Cancel, Check, Run, Freeze, Finish, Call, Refuse, StartChildren, LocalCall, Complete,
         RecordOutcome, Close, End, Restart, vars, history
<1>2. CASE UNCHANGED vars
  BY <1>2 DEF vars, queues, commands, worker, history, JournalInv, StoreInv, Presence, Current,
              Accounted, Reserved, Position, Faithful, EffectsNeverRepeat
<1>3. QED
  BY <1>1, <1>2, JournalCommands, JournalWorker, JournalRestart DEF WorkflowNext

\* The journal of a job accounts for everything it has done, as long as no
\* list (view() of the registry) has saved an older one in its place.
THEOREM JournalCorrect == WorkflowSpec => [](TypeInv /\ (reverted \/ JournalInv))
<1>1. TypeInv /\ (reverted \/ JournalInv) /\ [WorkflowNext]_vars =>
        (TypeInv /\ (reverted \/ JournalInv))'
  BY TypeStep, JournalStep
<1>2. QED
  BY TypeInit, JournalInit, <1>1, PTL DEF WorkflowSpec

\* No host call of a job is carried out twice, over any number of attempts,
\* crashes and failed writes, as long as no list has saved an older journal:
\* begin() saves the intent first, resume() refuses a job with an uncertain one.
THEOREM EffectsOnce == WorkflowSpec => []EffectsAtMostOnce
<1>1. reverted \/ JournalInv => EffectsAtMostOnce
  BY DEF JournalInv, EffectsAtMostOnce
<1>2. QED
  BY <1>1, JournalCorrect, PTL

\* A script gets the answers its calls once brought, as long as no list has
\* saved an older journal of the job.
THEOREM RepliesFaithful == WorkflowSpec => []ReplayFaithful
<1>1. reverted \/ JournalInv => ReplayFaithful
  BY DEF JournalInv, Faithful, ReplayFaithful
<1>2. QED
  BY <1>1, JournalCorrect, PTL

\* The children of all attempts of a job stay within its maximum, as long as
\* no list has saved an older journal, with the charges of then.
THEOREM BudgetKept == WorkflowSpec => []BudgetHolds
<1>1. TypeInv /\ (reverted \/ JournalInv) => BudgetHolds
  <2> SUFFICES ASSUME TypeInv, JournalInv PROVE spawned <= Maximum
    BY DEF BudgetHolds
  <2>1. spawned + Reserved <= disk.used
    BY DEF JournalInv, StoreInv, Accounted, Accounts
  <2>2. disk.used \in 0 .. Maximum
    BY DEF TypeInv, StoreType, Job
  <2>3. QED
    BY <2>1, <2>2, ReservedType, WorkflowAssumption DEF TypeInv, HistoryType
<1>2. QED
  BY <1>1, JournalCorrect, PTL

-----------------------------------------------------------------------------
(* Attempts and their items *)

\* Once a job exists it stays, in memory while anybody is at it and in its
\* file; items come after the file.
Presented ==
    /\ mem.state = "Absent" => mem = NoJob
    /\ disk.state = "Absent" => disk = NoJob
    /\ mem.state # "Absent" \/ list # "none" => disk.state # "Absent"
    /\ list # "none" => cmd = "none"
    /\ list \in {"save", "reconcile"} => copy.state # "Absent"
    /\ cmd # "none" \/ pc \in Working => mem.state # "Absent"
    /\ disk.state = "Absent" =>
        \A a \in Attempts : queue[a] = "None" /\ queueDisk[a] = "None"

\* A worker holds its item, which keeps every command from the job, and until
\* a write fails it leaves no job Running behind.
Owned ==
    /\ pc # "idle" => cmd = "none" /\ w.attempt \in Attempts /\ queue[w.attempt] = "Running"
    /\ pc = "start" => mem.attempt = w.attempt
    /\ pc = "close" /\ mem.state = "Running" /\ faults = 0 => w.failed /\ mem.run = w.attempt
    /\ AttemptOwned

\* The job waits for its attempt a.
Waits(job, a) == job.state = "Ready" /\ job.attempt = a

\* As long as no write failed, whoever reads the job of a queued item finds it
\* ready, in memory, in the file and in the copy of a list.
Matched ==
    faults = 0 =>
        /\ queueDisk = queue
        /\ cmd = "enqueue" => Waits(mem, mem.attempt) /\ Waits(disk, mem.attempt)
        /\ \A a \in Attempts : queue[a] = "Queued" =>
            /\ Waits(disk, a)
            /\ mem.state # "Absent" => Waits(mem, a)
            /\ list \in {"save", "reconcile"} => Waits(copy, a)

\* The inductive invariant behind AttemptOwned and QueuedAttemptRunnable.
OwnerInv == Presented /\ Owned /\ Matched
\* A write of the checkpoint, seen by the two readers.
Written(job) ==
    \/ /\ faults' = faults /\ mem' = job
       /\ disk'.state = job.state /\ disk'.attempt = job.attempt
    \/ /\ faults' > 0 /\ mem' = mem
       /\ disk' = disk \/ disk'.state = job.state

\* That is what mutate() leaves, whether it reports success or an error.
LEMMA JobWritten ==
    ASSUME TypeInv, NEW job \in Job, Saved(job) \/ NotSaved(job)
    PROVE  Written(job)
<1>1. Save(job).state = job.state /\ Save(job).attempt = job.attempt
  BY SaveType
<1>2. faults \in Nat
  BY DEF TypeInv, StoreType
<1>. QED
  BY <1>1, <1>2 DEF Saved, NotSaved, Works, Fails, Written

\* A write of the queue.
LEMMA ItemWritten ==
    ASSUME TypeInv, NEW a \in Attempts, NEW s, NEW q, q = [queue EXCEPT ![a] = s],
           Queue(q) \/ NotQueued(q)
    PROVE  \/ /\ faults' = faults /\ queueDisk' = queue'
              /\ queue'[a] = s /\ \A b \in Attempts \ {a} : queue'[b] = queue[b]
           \/ faults' > 0 /\ queue' = queue
<1>1. faults \in Nat /\ queue \in [Attempts -> ItemStates]
  BY DEF TypeInv, StoreType, QueueType
<1>. QED
  BY <1>1 DEF Queue, NotQueued, Works, Fails

\* The commands that write the checkpoint, with no worker at it.
LEMMA CommandWrites ==
    ASSUME TypeInv, OwnerInv, NEW job \in Job, Written(job), job.state # "Absent",
           job.state = "Running" => mem.state = "Running" /\ pc = "idle",
           UNCHANGED <<queues, worker>>, pc \notin Working,
           cmd' # "none" => pc = "idle" /\ mem'.state # "Absent",
           list' = "none",
           faults' = 0 =>
             /\ cmd' = "enqueue" => job.state = "Ready"
             /\ \A a \in Attempts : queue[a] = "Queued" => Waits(job, a)
    PROVE  OwnerInv'
<1>1. Presented'
  BY DEF OwnerInv, Presented, Written, queues, worker, Working
<1>2. Owned'
  BY DEF OwnerInv, Owned, AttemptOwned, Written, queues, worker, Working
<1>3. Matched'
  BY DEF OwnerInv, Matched, Written, queues, Waits
<1>. QED
  BY <1>1, <1>2, <1>3 DEF OwnerInv
\* The commands keep OwnerInv.
LEMMA OwnerCommands ==
    ASSUME TypeInv, OwnerInv, CommandNext
    PROVE  OwnerInv'
<1>t. /\ mem \in Job /\ disk \in Job /\ copy \in Job /\ faults \in Nat
      /\ queue \in [Attempts -> ItemStates] /\ queueDisk \in [Attempts -> ItemStates]
      /\ mem.attempt \in Attempts
  BY DEF TypeInv, StoreType, QueueType, CommandType, Job
<1>i. Presented /\ Owned /\ Matched
  BY DEF OwnerInv
<1>1. ASSUME NEW transient \in BOOLEAN, Start(transient) PROVE OwnerInv'
  <2>1. /\ disk = NoJob
        /\ Saved(NewJob(transient)) \/ NotSaved(NewJob(transient))
        /\ cmd' = "none" \/ (cmd' = "enqueue" /\ mem' = NewJob(transient))
        /\ list = "none" /\ list' = "none" /\ UNCHANGED <<queues, worker>>
    BY <1>1 DEF Start, SchedulerFree, Saved
  <2>2. /\ NewJob(transient) \in Job /\ NewJob(transient).state = "Ready"
        /\ disk.state = "Absent"
    BY <2>1, NewType DEF NewJob
  <2>3. pc = "idle" /\ \A a \in Attempts : queue[a] # "Queued"
    BY <1>i, <2>2 DEF Presented, Owned
  <2>4. Written(NewJob(transient))
    BY <2>1, <2>2, JobWritten
  <2>. QED
    BY <2>1, <2>2, <2>3, <2>4, CommandWrites DEF Working
<1>2. CASE Enqueue
  <2>1. /\ cmd = "enqueue" /\ pc = "idle" /\ list = "none" /\ mem.state # "Absent"
        /\ UNCHANGED <<mem, disk, list, copy, worker>> /\ cmd' \in {"none", "link"}
    BY <1>2, <1>i DEF Enqueue, Presented, Owned
  <2>2. CASE queue' = queue /\ faults' = faults /\ queueDisk' = queueDisk
    BY <1>i, <2>1, <2>2 DEF OwnerInv, Presented, Owned, AttemptOwned, Matched, worker, Working
  <2>3. CASE /\ faults' = faults /\ queueDisk' = queue'
             /\ queue'[mem.attempt] = "Queued"
             /\ \A b \in Attempts \ {mem.attempt} : queue'[b] = queue[b]
    <3>1. Presented'
      BY <1>i, <2>1, <2>3 DEF Presented, worker
    <3>2. Owned'
      BY <1>i, <2>1, <2>3 DEF Owned, AttemptOwned, worker
    <3>3. Matched'
      BY <1>i, <2>1, <2>3 DEF Matched, Waits
    <3>. QED
      BY <3>1, <3>2, <3>3 DEF OwnerInv
  <2>4. CASE faults' > 0 /\ queue' = queue
    <3>1. Presented'
      BY <1>i, <2>1, <2>4 DEF Presented, worker
    <3>2. Owned' /\ Matched'
      BY <1>i, <2>1, <2>4 DEF Owned, AttemptOwned, worker, Matched
    <3>. QED
      BY <3>1, <3>2 DEF OwnerInv
  <2>5. PICK q : q = [queue EXCEPT ![mem.attempt] = "Queued"]
    OBVIOUS
  <2>6. Queue(q) \/ NotQueued(q) \/ UNCHANGED <<queues, faults>>
    BY <1>2, <2>5 DEF Enqueue
  <2>7. CASE Queue(q) \/ NotQueued(q)
    BY <1>t, <2>3, <2>4, <2>5, <2>7, ItemWritten
  <2>. QED
    BY <2>2, <2>6, <2>7 DEF queues
<1>3. CASE Link
  <2>1. PICK job : job = [mem EXCEPT !.item = mem.attempt]
    OBVIOUS
  <2>2. job \in Job /\ job.state = mem.state /\ job.attempt = mem.attempt
    <3>1. mem.attempt \in 0 .. MaxAttempts
      BY <1>t, WorkflowAssumption DEF Attempts
    <3>. QED
      BY <1>t, <2>1, <3>1 DEF Job
  <2>3. /\ cmd = "link" /\ cmd' = "none" /\ list' = list
        /\ UNCHANGED <<queues, worker>>
        /\ Saved(job) \/ NotSaved(job)
    BY <1>3, <2>1 DEF Link
  <2>4. Written(job)
    BY <2>2, <2>3, JobWritten
  <2>5. list = "none" /\ pc = "idle" /\ mem.state # "Absent"
    BY <1>i, <2>3 DEF Presented, Owned
  <2>6. faults' = 0 => \A a \in Attempts : queue[a] = "Queued" => Waits(job, a)
    BY <1>i, <2>2, <2>4, <2>5 DEF Matched, Written, Waits
  <2>. QED
    BY <2>2, <2>3, <2>4, <2>5, <2>6, CommandWrites DEF Working
<1>4. CASE Open
  <2>1. /\ mem = NoJob /\ disk # NoJob /\ UNCHANGED <<queues, commands, worker>>
        /\ \/ faults' = faults /\ mem' = Load(disk) /\ disk' = Load(disk)
           \/ faults' > 0 /\ mem' = mem /\ disk' \in {disk, Load(disk)}
    BY <1>4, <1>t DEF Open, Works, Fails
  <2>2. /\ mem.state = "Absent" /\ disk.state # "Absent"
        /\ Load(disk).state \notin {"Absent", "Running"}
        /\ disk.state # "Running" => Load(disk) = disk
    BY <1>i, <1>t, <2>1, NewType DEF Presented, Load, Job
  <2>3. Presented'
    BY <1>i, <2>1, <2>2 DEF Presented, queues, commands, worker
  <2>4. Owned'
    BY <1>i, <2>1, <2>2 DEF Presented, Owned, AttemptOwned, queues, commands, worker, Working
  <2>5. Matched'
    BY <1>i, <2>1, <2>2 DEF Presented, Matched, Waits, queues, commands
  <2>. QED
    BY <2>3, <2>4, <2>5 DEF OwnerInv
<1>5. ASSUME Reconcile(mem, queue) # mem, mem.state # "Absent",
             Saved(Reconcile(mem, queue)) \/ NotSaved(Reconcile(mem, queue)),
             UNCHANGED <<queues, worker>>, list' = "none",
             cmd' # "none" => pc = "idle"
      PROVE  cmd' # "enqueue" => OwnerInv'
  <2>1. PICK job : job = Reconcile(mem, queue)
    OBVIOUS
  <2>2. /\ job \in Job /\ job.state = "Interrupted" /\ mem.state = "Ready"
        /\ ~Pending(queue, mem.attempt)
    BY <1>t, <1>5, <2>1, ReconcileType DEF Reconcile, Job
  <2>3. Written(job)
    BY <1>5, <2>1, <2>2, JobWritten
  <2>4. pc \notin Working
    BY <1>i, <2>2 DEF Owned, AttemptOwned, Pending, Working
  <2>5. mem'.state # "Absent"
    BY <1>5, <2>2, <2>3 DEF Written
  <2>6. ASSUME faults' = 0, NEW a \in Attempts, queue[a] = "Queued" PROVE FALSE
    <3>1. faults = 0
      BY <2>3, <2>6 DEF Written
    <3>. QED
      BY <1>i, <1>5, <2>2, <2>6, <3>1 DEF Matched, Waits, Pending
  <2>. QED
    BY <1>5, <2>2, <2>3, <2>4, <2>5, <2>6, CommandWrites
<1>6. CASE RequestResume
  <2>1. /\ list = "none" /\ cmd = "none" /\ list' = list
        /\ UNCHANGED <<queues, worker, copy>>
        /\ mem.state \notin {"Absent", "Running"}
    BY <1>6 DEF RequestResume, SchedulerFree
  <2>2. pc = "idle"
    BY <1>6, <1>i DEF RequestResume, Idle, Owned
  <2>3. CASE Reconcile(mem, queue) = mem
    <3>1. cmd' = "resume" /\ UNCHANGED <<mem, disk, faults>>
      BY <1>6, <2>3 DEF RequestResume
    <3>. QED
      BY <1>i, <2>1, <2>2, <3>1 DEF OwnerInv, Presented, Owned, AttemptOwned, Matched, Waits,
                                    queues, worker
  <2>4. CASE Reconcile(mem, queue) # mem
    <3>1. /\ Saved(Reconcile(mem, queue)) \/ NotSaved(Reconcile(mem, queue))
          /\ cmd' \in {"none", "resume"}
      BY <1>6, <2>1, <2>4 DEF RequestResume
    <3>. QED
      BY <1>5, <2>1, <2>2, <2>4, <3>1
  <2>. QED
    BY <2>3, <2>4
<1>7. CASE Resume
  <2>1. /\ cmd = "resume" /\ list' = list /\ UNCHANGED <<queues, worker, copy>>
    BY <1>7 DEF Resume
  <2>2. pc = "idle" /\ list = "none" /\ mem.state # "Absent"
    BY <1>i, <2>1 DEF Presented, Owned
  <2>3. CASE ~Resumable(mem)
    <3>1. cmd' = "none" /\ UNCHANGED <<mem, disk, faults>>
      BY <1>7, <2>3 DEF Resume
    <3>. QED
      BY <1>i, <2>1, <2>2, <3>1 DEF OwnerInv, Presented, Owned, AttemptOwned, Matched, Waits,
                                    queues, worker, Working
  <2>4. CASE Resumable(mem)
    <3>1. PICK job : job = NextAttempt(mem)
      OBVIOUS
    <3>2. job \in Job /\ job.state = "Ready" /\ mem.state # "Ready"
      BY <1>t, <2>4, <3>1, NextType DEF NextAttempt, Job, Resumable
    <3>3. /\ Saved(job) \/ NotSaved(job)
          /\ \/ cmd' = "enqueue" /\ mem' = job
             \/ cmd' = "none"
      BY <1>7, <2>4, <3>1 DEF Resume, Saved
    <3>4. Written(job)
      BY <3>2, <3>3, JobWritten
    <3>5. ASSUME faults' = 0, NEW a \in Attempts, queue[a] = "Queued" PROVE FALSE
      <4>1. faults = 0
        BY <3>4, <3>5 DEF Written
      <4>. QED
        BY <1>i, <2>2, <3>2, <3>5, <4>1 DEF Matched, Waits
    <3>. QED
      BY <2>1, <2>2, <3>2, <3>3, <3>4, <3>5, CommandWrites DEF Working
  <2>. QED
    BY <2>3, <2>4
<1>8. CASE List
  <2>1. /\ list = "none" /\ cmd = "none" /\ cmd' = cmd /\ mem # NoJob
        /\ UNCHANGED <<queues, worker>>
    BY <1>8 DEF List, SchedulerFree
  <2>2. mem.state # "Absent"
    BY <1>i, <2>1 DEF Presented
  <2>3. CASE Reconcile(mem, queue) # mem
    <3>1. /\ Saved(Reconcile(mem, queue)) \/ NotSaved(Reconcile(mem, queue))
          /\ list' = list
      BY <1>8, <2>3 DEF List
    <3>. QED
      BY <1>5, <2>1, <2>2, <2>3, <3>1
  <2>4. CASE Reconcile(mem, queue) = mem
    <3>1. list' = "reconcile" /\ copy' = mem /\ UNCHANGED <<mem, disk, faults>>
      BY <1>8, <2>4 DEF List
    <3>2. Presented'
      BY <1>i, <2>1, <2>2, <3>1 DEF Presented, queues, worker
    <3>3. Owned' /\ Matched'
      BY <1>i, <2>1, <2>2, <3>1 DEF Owned, AttemptOwned, Matched, Waits, queues, worker
    <3>. QED
      BY <3>2, <3>3 DEF OwnerInv
  <2>. QED
    BY <2>3, <2>4
<1>9. CASE ListMisses
  <2>1. /\ list = "none" /\ cmd = "none" /\ cmd' = cmd /\ disk # NoJob /\ list' = "load"
        /\ UNCHANGED <<mem, disk, queues, copy, worker, faults>>
    BY <1>9 DEF ListMisses, SchedulerFree
  <2>2. Presented'
    BY <1>i, <2>1 DEF Presented, queues, worker
  <2>3. Owned' /\ Matched'
    BY <1>i, <2>1 DEF Owned, AttemptOwned, Matched, Waits, queues, worker
  <2>. QED
    BY <2>2, <2>3 DEF OwnerInv
<1>10. CASE ListLoads
  <2>1. /\ list = "load" /\ cmd' = cmd /\ list' \in {"reconcile", "save"} /\ copy' = Load(disk)
        /\ UNCHANGED <<mem, disk, queues, worker, faults>>
    BY <1>10 DEF ListLoads
  <2>2. /\ disk.state # "Absent" => Load(disk).state # "Absent"
        /\ disk.state # "Running" => Load(disk) = disk
    BY <1>t DEF Load, Job
  <2>3. Presented'
    BY <1>i, <2>1, <2>2 DEF Presented, queues, worker
  <2>4. Owned' /\ Matched'
    BY <1>i, <2>1, <2>2 DEF Owned, AttemptOwned, Matched, Waits, queues, worker
  <2>. QED
    BY <2>3, <2>4 DEF OwnerInv
<1>11. ASSUME NEW job, list \in {"save", "reconcile"}, list' = "none", UNCHANGED <<mem, cmd, queues, worker>>,
              job.state # "Absent",
              \/ faults' = faults /\ (disk' = disk \/ disk' = job)
              \/ faults' > 0 /\ (disk' = disk \/ disk' = job),
              faults = 0 => \A a \in Attempts : queue[a] = "Queued" => disk' = disk \/ Waits(job, a)
       PROVE  OwnerInv'
  <2>1. cmd = "none" /\ disk.state # "Absent"
    BY <1>i, <1>11 DEF Presented
  <2>2. Presented'
    BY <1>i, <1>11, <2>1 DEF Presented, queues, worker
  <2>3. Owned'
    BY <1>i, <1>11 DEF Owned, AttemptOwned, queues, worker
  <2>4. Matched'
    BY <1>i, <1>11, <2>1 DEF Matched, Waits, queues
  <2>. QED
    BY <2>2, <2>3, <2>4 DEF OwnerInv
<1>12. CASE ListSaves
  <2>1. /\ list = "save" /\ list' = "none" /\ UNCHANGED <<mem, cmd, queues, worker>>
        /\ \/ faults' = faults /\ disk' = copy
           \/ faults' > 0 /\ (disk' = disk \/ disk' = copy)
    BY <1>12, <1>t DEF ListSaves, Writes, Works, Fails
  <2>2. copy.state # "Absent"
    BY <1>i, <2>1 DEF Presented
  <2>3. faults = 0 => \A a \in Attempts : queue[a] = "Queued" => Waits(copy, a)
    BY <1>i, <2>1 DEF Matched
  <2>. QED
    BY <1>11, <2>1, <2>2, <2>3
<1>13. CASE ListReconciles
  <2>1. PICK job : job = Reconcile(copy, queue)
    OBVIOUS
  <2>2. /\ list = "reconcile" /\ list' = "none" /\ UNCHANGED <<mem, cmd, queues, worker>>
        /\ \/ faults' = faults /\ (disk' = disk \/ (job # copy /\ disk' = Save(job)))
           \/ faults' > 0 /\ (disk' = disk \/ (job # copy /\ disk' = Save(job)))
    BY <1>13, <1>t, <2>1 DEF ListReconciles, Writes, Works, Fails
  <2>3. copy.state # "Absent"
    BY <1>i, <2>2 DEF Presented
  <2>4. job \in Job /\ job.state # "Absent"
    BY <1>t, <2>1, <2>3, ReconcileType DEF Reconcile, Job
  <2>5. Save(job).state # "Absent"
    BY <2>4, SaveType
  <2>6. faults = 0 => \A a \in Attempts : queue[a] = "Queued" => job = copy
    BY <1>i, <2>1, <2>2 DEF Matched, Waits, Reconcile, Pending
  <2>. QED
    BY <1>11, <2>2, <2>5, <2>6
<1>14. ASSUME NEW a \in Attempts, Remove(a) PROVE OwnerInv'
  <2>1. PICK q : q = [queue EXCEPT ![a] = "None"]
    OBVIOUS
  <2>2. /\ queue[a] \in {"Queued", "Ended"} /\ UNCHANGED <<mem, disk, commands, worker>>
        /\ Queue(q) \/ NotQueued(q)
    BY <1>14, <2>1 DEF Remove
  <2>3. \/ /\ faults' = faults /\ queueDisk' = queue' /\ queue'[a] = "None"
           /\ \A b \in Attempts \ {a} : queue'[b] = queue[b]
        \/ faults' > 0 /\ queue' = queue
    BY <2>1, <2>2, ItemWritten
  <2>4. disk.state # "Absent"
    BY <1>i, <2>2 DEF Presented
  <2>5. Presented'
    BY <1>i, <2>2, <2>4 DEF Presented, commands, worker
  <2>6. Owned'
    BY <1>i, <1>t, <2>2, <2>3 DEF Owned, AttemptOwned, commands, worker
  <2>7. Matched'
    BY <1>i, <2>2, <2>3 DEF Matched, Waits, commands
  <2>. QED
    BY <2>5, <2>6, <2>7 DEF OwnerInv
<1>. QED
  BY <1>1, <1>2, <1>3, <1>4, <1>6, <1>7, <1>8, <1>9, <1>10, <1>12, <1>13, <1>14 DEF CommandNext
\* A step of the worker that writes a job of the same state, attempt and run,
\* or nothing.
LEMMA WorkerWrites ==
    ASSUME TypeInv, OwnerInv, pc \in {"freeze", "script", "effect", "complete"},
           NEW job \in Job,
           job.state = mem.state, job.attempt = mem.attempt, job.run = mem.run,
           Written(job) \/ UNCHANGED <<mem, disk, faults>>,
           UNCHANGED <<queues, commands>>, w'.attempt = w.attempt,
           \/ pc' \in {"script", "effect", "complete", "outcome"}
           \/ pc' = "close" /\ w'.failed
    PROVE  OwnerInv'
<1>1. /\ mem.state = "Running" /\ mem.attempt = w.attempt /\ mem.run = w.attempt
      /\ pc # "idle" /\ pc \in Working
  BY DEF OwnerInv, Owned, AttemptOwned, Working
<1>2. \A a \in Attempts : queue[a] = "Queued" => faults # 0
  BY <1>1 DEF OwnerInv, Matched, Waits
<1>3. mem'.state = "Running" /\ mem'.attempt = w.attempt /\ mem'.run = w.attempt
  BY <1>1 DEF Written
<1>4. disk.state # "Absent" /\ (disk' = disk \/ disk'.state = "Running")
  BY <1>1 DEF OwnerInv, Presented, Written
<1>5. Presented'
  BY <1>1, <1>3, <1>4 DEF OwnerInv, Presented, queues, commands, Working
<1>6. Owned'
  BY <1>1, <1>3 DEF OwnerInv, Owned, AttemptOwned, queues, commands
<1>7. Matched'
  <2>1. faults' = 0 => faults = 0
    BY DEF Written
  <2>2. cmd = "none"
    BY <1>1 DEF OwnerInv, Owned
  <2>. QED
    BY <1>2, <2>1, <2>2 DEF OwnerInv, Matched, queues, commands
<1>. QED
  BY <1>5, <1>6, <1>7 DEF OwnerInv

\* The worker keeps OwnerInv.
LEMMA OwnerWorker ==
    ASSUME TypeInv, OwnerInv, WorkerNext
    PROVE  OwnerInv'
<1>t. /\ mem \in Job /\ disk \in Job /\ copy \in Job /\ faults \in Nat
      /\ queue \in [Attempts -> ItemStates] /\ queueDisk \in [Attempts -> ItemStates]
      /\ w \in Work
  BY DEF TypeInv, StoreType, QueueType, CommandType, WorkerType
<1>i. Presented /\ Owned /\ Matched
  BY DEF OwnerInv
<1>e. \A o : Ends(o) => pc' = "outcome" /\ w'.attempt = w.attempt
  BY <1>t DEF Ends, Work
<1>b. Breaks => pc' = "close" /\ w'.attempt = w.attempt /\ w'.failed
  BY <1>t DEF Breaks, Work
<1>g. \A p : GoTo(p) => pc' = p /\ w' = w
  BY DEF GoTo
<1>1. ASSUME NEW a \in Attempts, Begin(a) PROVE OwnerInv'
  <2>1. PICK q : q = [queue EXCEPT ![a] = "Running"]
    OBVIOUS
  <2>2. /\ cmd = "none" /\ list = "none" /\ pc = "idle" /\ queue[a] = "Queued"
        /\ UNCHANGED <<mem, disk, commands>>
        /\ \/ Queue(q) /\ pc' = "check" /\ w'.attempt = a
           \/ NotQueued(q) /\ UNCHANGED <<pc, w>>
    BY <1>1, <2>1 DEF Begin, SchedulerFree, NoWork
  <2>3. \/ /\ faults' = faults /\ queueDisk' = queue' /\ queue'[a] = "Running"
           /\ \A b \in Attempts \ {a} : queue'[b] = queue[b]
           /\ pc' = "check" /\ w'.attempt = a
        \/ faults' > 0 /\ queue' = queue /\ UNCHANGED <<pc, w>>
    <3>1. CASE Queue(q)
      BY <1>t, <2>1, <2>2, <3>1 DEF Queue, Works, NotQueued, Fails
    <3>2. CASE NotQueued(q)
      BY <1>t, <2>1, <2>2, <3>2 DEF NotQueued, Fails, Queue, Works
    <3>. QED
      BY <2>2, <3>1, <3>2
  <2>4. disk.state # "Absent"
    BY <1>i, <2>2 DEF Presented
  <2>5. Presented'
    BY <1>i, <2>2, <2>3, <2>4 DEF Presented, commands, Working
  <2>6. Owned'
    BY <1>i, <2>2, <2>3 DEF Owned, AttemptOwned, commands
  <2>7. Matched'
    BY <1>i, <2>2, <2>3 DEF Matched, Waits, commands
  <2>. QED
    BY <2>5, <2>6, <2>7 DEF OwnerInv
<1>2. CASE Cancel
  <2>1. /\ UNCHANGED <<mem, disk, queues, commands, pc, faults>>
        /\ w'.attempt = w.attempt /\ w'.failed = w.failed
    BY <1>2, <1>t DEF Cancel, Work
  <2>. QED
    BY <1>i, <2>1 DEF OwnerInv, Presented, Owned, AttemptOwned, Matched, queues, commands
<1>3. CASE Check
  <2>1. PICK job : job = IF mem = NoJob THEN Load(disk) ELSE mem
    OBVIOUS
  <2>2. /\ pc = "check" /\ UNCHANGED <<queues, commands>>
        /\ \/ /\ faults' = faults /\ mem' = job
              /\ disk' = IF mem = NoJob THEN job ELSE disk
              /\ \/ Bound(job) /\ pc' = "start" /\ w' = w
                 \/ Breaks
           \/ /\ mem = NoJob /\ faults' > 0 /\ mem' = mem /\ disk' \in {disk, job}
              /\ Breaks
    BY <1>3, <1>t, <1>g, <2>1 DEF Check, Works, Fails
  <2>3. cmd = "none" /\ queue[w.attempt] = "Running" /\ w.attempt \in Attempts
    BY <1>i, <2>2 DEF Owned
  <2>4. disk.state # "Absent"
    BY <1>i, <2>3 DEF Presented
  <2>5. /\ job.state # "Absent"
        /\ mem = NoJob => job.state # "Running"
        /\ mem = NoJob /\ disk.state # "Running" => job = disk
    BY <1>i, <1>t, <2>1, <2>4 DEF Presented, Load, Job
  <2>6. mem = NoJob => mem.state = "Absent"
    BY NewType
  <2>7. Presented'
    BY <1>i, <2>1, <2>2, <2>3, <2>4, <2>5, <2>6, <1>b DEF Presented, queues, commands, Working
  <2>8. Owned'
    <3>1. mem'.state = "Running" => faults' > 0
      BY <1>i, <1>t, <2>1, <2>2, <2>5, <2>6 DEF Owned, AttemptOwned
    <3>. QED
      BY <1>i, <1>b, <2>2, <2>3, <3>1 DEF Owned, AttemptOwned, queues, commands, Bound
  <2>9. Matched'
    BY <1>i, <2>1, <2>2, <2>3, <2>5, <2>6 DEF Matched, Waits, queues, commands, Presented
  <2>. QED
    BY <2>7, <2>8, <2>9 DEF OwnerInv
<1>4. CASE Run
  <2>1. PICK job : job = [mem EXCEPT !.state = "Running", !.item = w.attempt, !.run = w.attempt]
    OBVIOUS
  <2>2. /\ job \in Job /\ job.state = "Running" /\ job.run = w.attempt
        /\ job.attempt = mem.attempt
    BY <1>t, <2>1 DEF Work, Job, JobStates
  <2>3. /\ pc = "start" /\ UNCHANGED <<queues, commands>>
        /\ \/ Saved(job) /\ pc' = "freeze" /\ w' = w
           \/ NotSaved(job) /\ Breaks
    BY <1>4, <1>g, <2>1 DEF Run
  <2>4. \/ /\ faults' = faults /\ mem' = job /\ pc' = "freeze" /\ w' = w
        \/ /\ faults' > 0 /\ mem' = mem /\ pc' = "close" /\ w'.attempt = w.attempt
    BY <1>t, <1>b, <2>3 DEF Saved, NotSaved, Works, Fails
  <2>5. Written(job)
    BY <2>2, <2>3, JobWritten
  <2>6. /\ cmd = "none" /\ queue[w.attempt] = "Running" /\ w.attempt \in Attempts
        /\ mem.attempt = w.attempt /\ mem.state # "Absent" /\ disk.state # "Absent"
    BY <1>i, <2>3 DEF Owned, Presented, Working
  <2>7. Presented'
    BY <1>i, <2>2, <2>3, <2>4, <2>5, <2>6 DEF Presented, Written, queues, commands
  <2>8. Owned'
    BY <1>i, <2>2, <2>3, <2>4, <2>6 DEF Owned, AttemptOwned, queues, commands
  <2>9. Matched'
    BY <1>i, <2>3, <2>4, <2>6 DEF Matched, Waits, queues, commands
  <2>. QED
    BY <2>7, <2>8, <2>9 DEF OwnerInv
<1>5. CASE Freeze
  <2>1. /\ pc = "freeze" /\ UNCHANGED <<queues, commands>>
        /\ Saved(mem) \/ NotSaved(mem) \/ UNCHANGED <<mem, disk, faults>>
        /\ (pc' = "script" /\ w' = w) \/ Breaks
    BY <1>5, <1>g DEF Freeze
  <2>2. Written(mem) \/ UNCHANGED <<mem, disk, faults>>
    BY <1>t, <2>1, JobWritten
  <2>. QED
    BY <1>t, <1>b, <2>1, <2>2, WorkerWrites
<1>6. CASE Finish
  <2>1. /\ pc = "script" /\ pc' = "outcome" /\ w'.attempt = w.attempt
        /\ UNCHANGED <<mem, disk, queues, commands, faults>>
    BY <1>6, <1>e DEF Finish
  <2>. QED
    BY <1>t, <2>1, WorkerWrites
<1>7. ASSUME NEW r \in Requests, Call(r) PROVE OwnerInv'
  <2>1. /\ pc = "script" /\ UNCHANGED <<queues, commands>>
        /\ \/ /\ UNCHANGED <<mem, disk, faults>>
              /\ UNCHANGED <<pc, w>> \/ Ends("Failed")
           \/ /\ Admits(mem, Position, r)
              /\ Saved(Intend(mem, r)) \/ NotSaved(Intend(mem, r))
              /\ Ends("Failed") \/ (pc' = "effect" /\ w' = [w EXCEPT !.request = r])
    BY <1>7 DEF Call
  <2>2. pc' \in {"script", "effect", "outcome"} /\ w'.attempt = w.attempt
    BY <1>t, <1>e, <2>1 DEF Work
  <2>3. CASE UNCHANGED <<mem, disk, faults>>
    BY <1>t, <2>1, <2>2, <2>3, WorkerWrites
  <2>4. CASE /\ Admits(mem, Position, r)
             /\ Saved(Intend(mem, r)) \/ NotSaved(Intend(mem, r))
    <3>1. PICK job : job = Intend(mem, r)
      OBVIOUS
    <3>2. /\ job \in Job /\ job.state = mem.state /\ job.attempt = mem.attempt
          /\ job.run = mem.run
      BY <1>t, <2>4, <3>1, IntendType DEF Admits, Intend, Job
    <3>3. Written(job)
      BY <2>4, <3>1, <3>2, JobWritten
    <3>. QED
      BY <2>1, <2>2, <3>2, <3>3, WorkerWrites
  <2>. QED
    BY <2>1, <2>3, <2>4
<1>8. CASE Refuse
  <2>1. /\ pc = "effect" /\ pc' = "outcome" /\ w'.attempt = w.attempt
        /\ UNCHANGED <<mem, disk, queues, commands, faults>>
    BY <1>8, <1>e DEF Refuse
  <2>. QED
    BY <1>t, <2>1, WorkerWrites
<1>9. ASSUME NEW v \in Values, StartChildren(v) \/ LocalCall(v) PROVE OwnerInv'
  <2>1. Brings(v) => pc' = "complete" /\ w'.attempt = w.attempt
    BY <1>t DEF Brings, Work
  <2>2. /\ pc = "effect" /\ UNCHANGED <<queues, commands>>
        /\ Brings(v) \/ Ends("Failed")
        /\ Saved(mem) \/ NotSaved(mem) \/ UNCHANGED <<mem, disk, faults>>
    BY <1>9 DEF StartChildren, LocalCall
  <2>3. Written(mem) \/ UNCHANGED <<mem, disk, faults>>
    BY <1>t, <2>2, JobWritten
  <2>. QED
    BY <1>t, <1>e, <2>1, <2>2, <2>3, WorkerWrites
<1>10. CASE Complete
  <2>1. PICK job : job = CompleteTo(mem, Position, w.value)
    OBVIOUS
  <2>2. /\ pc = "complete" /\ UNCHANGED <<queues, commands>>
        /\ Saved(job) \/ NotSaved(job)
        /\ \/ Ends("Stopped")
           \/ Ends("Failed")
           \/ pc' = "outcome" /\ w' = [w EXCEPT !.outcome = "Paused"]
           \/ pc' = "script" /\ w' = [w EXCEPT !.request = NoValue, !.value = NoValue]
    BY <1>10, <2>1 DEF Complete
  <2>3. pc' \in {"outcome", "script"} /\ w'.attempt = w.attempt
    BY <1>t, <1>e, <2>2 DEF Work
  <2>4. w.value \in Values /\ Position \in Nat
    BY <2>2, LenProperties DEF TypeInv, WorkerType, Stepwise, Position
  <2>5. /\ job \in Job /\ job.state = mem.state /\ job.attempt = mem.attempt
        /\ job.run = mem.run
    <3>1. job \in Job
      BY <1>t, <2>1, <2>4, CompleteType
    <3>. QED
      BY <1>t, <2>1, <3>1 DEF CompleteTo, Job
  <2>6. Written(job)
    BY <2>2, <2>5, JobWritten
  <2>. QED
    BY <2>2, <2>3, <2>5, <2>6, WorkerWrites
<1>11. CASE RecordOutcome
  <2>1. PICK job : job = [mem EXCEPT !.state = w.outcome]
    OBVIOUS
  <2>2. /\ pc = "outcome" /\ UNCHANGED <<queues, commands>>
        /\ \/ Saved(job) /\ pc' = "close" /\ w' = w
           \/ NotSaved(job) /\ Breaks
    BY <1>11, <1>g, <2>1 DEF RecordOutcome
  <2>3. w.outcome \in {"Completed", "Paused", "Failed", "Stopped"}
    BY <1>t, <2>2 DEF TypeInv, WorkerType, Stepwise, Work
  <2>4. /\ job \in Job /\ job.state = w.outcome /\ job.state \notin {"Absent", "Running"}
    BY <1>t, <2>1, <2>3 DEF Job, JobStates
  <2>5. Written(job)
    BY <2>2, <2>4, JobWritten
  <2>6. \/ faults' = faults /\ mem' = job /\ pc' = "close" /\ w' = w
        \/ faults' > 0 /\ mem' = mem /\ pc' = "close" /\ w'.attempt = w.attempt
    BY <1>t, <1>b, <2>2 DEF Saved, NotSaved, Works, Fails
  <2>7. /\ cmd = "none" /\ mem.state = "Running" /\ disk.state # "Absent"
        /\ w.attempt \in Attempts /\ queue[w.attempt] = "Running"
    BY <1>i, <2>2 DEF Owned, AttemptOwned, Presented
  <2>8. Presented'
    BY <1>i, <2>2, <2>4, <2>5, <2>6, <2>7 DEF Presented, Written, queues, commands, Working
  <2>9. Owned'
    BY <1>i, <2>2, <2>4, <2>6, <2>7 DEF Owned, AttemptOwned, queues, commands
  <2>10. Matched'
    BY <1>i, <2>2, <2>6, <2>7 DEF Matched, Waits, queues, commands
  <2>. QED
    BY <2>8, <2>9, <2>10 DEF OwnerInv
<1>12. CASE Close
  <2>1. PICK job : job = [mem EXCEPT !.state = "Interrupted"]
    OBVIOUS
  <2>2. job \in Job /\ job.state = "Interrupted"
    BY <1>t, <2>1 DEF Job, JobStates
  <2>3. /\ pc = "close" /\ pc' = "end" /\ UNCHANGED <<queues, commands>>
        /\ w'.attempt = w.attempt
        /\ \/ /\ UNCHANGED <<mem, disk, faults>>
              /\ ~w.failed \/ mem.run # w.attempt \/ mem.state # "Running"
           \/ mem.state = "Running" /\ (Saved(job) \/ NotSaved(job))
    BY <1>12, <2>1 DEF Close, NoWork
  <2>4. cmd = "none" /\ w.attempt \in Attempts /\ queue[w.attempt] = "Running"
    BY <1>i, <2>3 DEF Owned
  <2>5. CASE UNCHANGED <<mem, disk, faults>> /\ (~w.failed \/ mem.run # w.attempt \/ mem.state # "Running")
    <3>1. mem.state = "Running" => faults > 0
      BY <1>i, <1>t, <2>3, <2>5 DEF Owned
    <3>2. Presented'
      BY <1>i, <2>3, <2>5 DEF Presented, queues, commands, Working
    <3>3. Owned' /\ Matched'
      BY <1>i, <2>3, <2>4, <2>5, <3>1 DEF Owned, AttemptOwned, Matched, queues, commands
    <3>. QED
      BY <3>2, <3>3 DEF OwnerInv
  <2>6. CASE mem.state = "Running" /\ (Saved(job) \/ NotSaved(job))
    <3>1. Written(job)
      BY <2>2, <2>6, JobWritten
    <3>2. disk.state # "Absent"
      BY <1>i, <2>6 DEF Presented
    <3>3. Presented'
      BY <1>i, <2>2, <2>3, <2>4, <2>6, <3>1, <3>2 DEF Presented, Written, queues, commands, Working
    <3>4. Owned'
      BY <1>i, <2>2, <2>3, <2>4, <3>1 DEF Owned, AttemptOwned, Written, queues, commands
    <3>5. Matched'
      BY <1>i, <2>3, <2>4, <2>6, <3>1 DEF Matched, Waits, Written, queues, commands
    <3>. QED
      BY <3>3, <3>4, <3>5 DEF OwnerInv
  <2>. QED
    BY <2>3, <2>5, <2>6
<1>13. CASE End
  <2>1. PICK q : q = [queue EXCEPT ![w.attempt] = "Ended"]
    OBVIOUS
  <2>2. /\ pc = "end" /\ pc' = "idle" /\ UNCHANGED <<mem, disk, commands>>
        /\ Queue(q) \/ NotQueued(q)
    BY <1>13, <2>1 DEF End
  <2>3. w.attempt \in Attempts /\ cmd = "none" /\ queue[w.attempt] = "Running"
    BY <1>i, <2>2 DEF Owned
  <2>4. \/ /\ faults' = faults /\ queueDisk' = queue' /\ queue'[w.attempt] = "Ended"
           /\ \A b \in Attempts \ {w.attempt} : queue'[b] = queue[b]
        \/ faults' > 0 /\ queue' = queue
    BY <2>1, <2>2, <2>3, ItemWritten
  <2>5. Presented'
    BY <1>i, <2>2, <2>3 DEF Presented, commands, Working
  <2>6. Owned'
    BY <1>i, <2>2, <2>3, <2>4 DEF Owned, AttemptOwned, commands
  <2>7. Matched'
    BY <1>i, <2>2, <2>3, <2>4 DEF Matched, Waits, commands
  <2>. QED
    BY <2>5, <2>6, <2>7 DEF OwnerInv
<1>. QED
  BY <1>1, <1>2, <1>3, <1>4, <1>5, <1>6, <1>7, <1>8, <1>9, <1>10, <1>11, <1>12, <1>13
     DEF WorkerNext

\* OwnerInv is inductive with TypeInv.
LEMMA OwnerStep ==
    ASSUME TypeInv, OwnerInv, [WorkflowNext]_vars
    PROVE  OwnerInv'
<1>1. CASE UNCHANGED vars
  BY <1>1 DEF vars, queues, commands, worker, history, OwnerInv, Presented, Owned, Matched,
              AttemptOwned
<1>2. CASE Restart
  <2>1. /\ mem' = NoJob /\ disk' = disk /\ cmd' = "none" /\ list' = "none" /\ pc' = "idle"
        /\ queueDisk' = queue' /\ faults' = faults
        /\ \A a \in Attempts : queue'[a] = IF queueDisk[a] = "Running" THEN "Ended" ELSE queueDisk[a]
    BY <1>2 DEF Restart
  <2>2. mem'.state = "Absent"
    BY <2>1, NewType
  <2>3. Presented'
    BY <2>1, <2>2 DEF OwnerInv, Presented, Working
  <2>4. Owned'
    BY <2>1, <2>2 DEF Owned, AttemptOwned
  <2>5. Matched'
    BY <2>1, <2>2 DEF OwnerInv, Matched
  <2>. QED
    BY <2>3, <2>4, <2>5 DEF OwnerInv
<1>. QED
  BY <1>1, <1>2, OwnerCommands, OwnerWorker DEF WorkflowNext

\* OwnerInv holds, however a list and a worker overlap.
THEOREM OwnerCorrect == WorkflowSpec => [](TypeInv /\ OwnerInv)
<1>1. WorkflowInit => OwnerInv
  <2>. SUFFICES ASSUME WorkflowInit PROVE OwnerInv
    OBVIOUS
  <2>1. NoJob.state = "Absent"
    BY NewType
  <2>. QED
    BY <2>1 DEF WorkflowInit, OwnerInv, Presented, Owned, AttemptOwned, Matched, Working
<1>2. TypeInv /\ OwnerInv /\ [WorkflowNext]_vars => (TypeInv /\ OwnerInv)'
  BY TypeStep, OwnerStep
<1>. QED
  BY TypeInit, <1>1, <1>2, PTL DEF WorkflowSpec

\* The worker that runs a script owns the checkpoint although it gives up the
\* lock between its checks and the Running it writes, and unless a write failed
\* no job is left Running without a worker (execute() in
\* scheduling/workflow.rs).
THEOREM AttemptAlwaysOwned == WorkflowSpec => []AttemptOwned
<1>1. OwnerInv => AttemptOwned
  BY DEF OwnerInv, Owned
<1>. QED
  BY <1>1, OwnerCorrect, PTL

\* As long as no write fails, a queued item is the current attempt of a job
\* that is ready, whatever crash came between the writes to the two stores.
THEOREM QueuedAttemptsRunnable == WorkflowSpec => []QueuedAttemptRunnable
<1>1. TypeInv /\ OwnerInv => QueuedAttemptRunnable
  BY DEF OwnerInv, Presented, Matched, Waits, QueuedAttemptRunnable
<1>. QED
  BY <1>1, OwnerCorrect, PTL
=============================================================================
