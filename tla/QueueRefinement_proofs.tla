----------------------- MODULE QueueRefinement_proofs -----------------------
(***************************************************************************)
(* PromptQueue implements ModelLeases and MessageLifecycle, for every      *)
(* value of the constants.  PromptQueue_proofs shows that each step of the *)
(* coordinator does to the leases what LeaseStep says and to the messages  *)
(* what StageStep says; here both are read as steps of the two             *)
(* specifications.                                                         *)
(*                                                                         *)
(* Both refinements are about a coordinator whose replacements of the      *)
(* queue file do not fail after the rename (MaxFaults = 0): after such a   *)
(* failure the app may restart with the operation it reported as refused,  *)
(* which is two steps of either specification in one.  What then still     *)
(* holds is stated without this assumption in PromptQueue_proofs.          *)
(***************************************************************************)
EXTENDS PromptQueue_proofs

-----------------------------------------------------------------------------
(* The operators of LeaseBook are those ModelLeases uses *)

\* Cardinality through the instance.
LEMMA LeasesCardinality == ASSUME NEW S PROVE Leases!Cardinality(S) = Cardinality(S)
  BY Zenon DEF Leases!Cardinality, Cardinality

\* Queries.
LEMMA LeasesQueries ==
    ASSUME NEW e
    PROVE  /\ \A m : Leases!IsChild(m) <=> IsChild(m)
           /\ \A m : Leases!Active(m) <=> Active(m)
           /\ Leases!HeldRuns(e) = HeldRuns(e)
           /\ Leases!Roots(e) = Roots(e)
           /\ \A r : Leases!Family(e, r) = Family(e, r)
           /\ \A r : Leases!ChildrenOf(e, r) = ChildrenOf(e, r)
           /\ \A r : Leases!Eligible(e, r) <=> Eligible(e, r)
<1>1. /\ \A m : Leases!IsChild(m) <=> IsChild(m)
      /\ \A m : Leases!Active(m) <=> Active(m)
      /\ \A m : Leases!Occupies(m) <=> Occupies(m)
  BY DEF Leases!IsChild, IsChild, Leases!Active, Active, Leases!Occupies, Occupies
<1>2. /\ Leases!HeldRuns(e) = HeldRuns(e)
      /\ Leases!Roots(e) = Roots(e)
      /\ \A r : Leases!Family(e, r) = Family(e, r)
  BY <1>1 DEF Leases!HeldRuns, HeldRuns, Leases!Roots, Roots, Leases!Family, Family
<1>3. \A r : Leases!ChildrenOf(e, r) = ChildrenOf(e, r)
  BY <1>1, <1>2 DEF Leases!ChildrenOf, ChildrenOf
<1>4. \A a, b : Leases!MayRunTogether(a, b) <=> MayRunTogether(a, b)
  BY <1>1 DEF Leases!MayRunTogether, MayRunTogether
<1>5. \A r : Leases!Compatible(e, r) <=> Compatible(e, r)
  BY <1>2, <1>4 DEF Leases!Compatible, Compatible
<1>6. \A r : Leases!Eligible(e, r) <=> Eligible(e, r)
  BY <1>5 DEF Leases!Eligible, Eligible
<1>. QED
  BY <1>1, <1>2, <1>3, <1>6

\* The conditions of the methods.
LEMMA LeasesConditions ==
    ASSUME NEW e, NEW r
    PROVE  /\ \A p : AdmitParentOk(e, r, p) => Leases!AdmitParentOk(e, r, p)
           /\ \A w, k : ConfigureFamilyOk(e, r, w, k) => Leases!ConfigureFamilyOk(e, r, w, k)
           /\ \A c, m, o : AdmitChildOk(e, r, c, m, o) => Leases!AdmitChildOk(e, r, c, m, o)
           /\ \A m : SeparateWorktree(e, r, m) => Leases!SeparateWorktree(e, r, m)
           /\ \A c : ReserveChildMessageOk(e, r, c) => Leases!ReserveChildMessageOk(e, r, c)
           /\ YieldParentOk(e, r) => Leases!YieldParentOk(e, r)
           /\ \A o : RequestResumeOk(e, r, o) => Leases!RequestResumeOk(e, r, o)
           /\ \A t : TryAcquireOk(e, r, t) => Leases!TryAcquireOk(e, r, t)
           /\ FinishOk(e, r, TRUE) => Leases!FinishOk(e, r, TRUE)
<1>. USE LeasesQueries, LeasesCardinality
<1>1. \A p : AdmitParentOk(e, r, p) => Leases!AdmitParentOk(e, r, p)
  BY DEF AdmitParentOk, Leases!AdmitParentOk
<1>2. \A w, k : ConfigureFamilyOk(e, r, w, k) => Leases!ConfigureFamilyOk(e, r, w, k)
  BY DEF ConfigureFamilyOk, Leases!ConfigureFamilyOk
<1>3. \A c, m, o : AdmitChildOk(e, r, c, m, o) => Leases!AdmitChildOk(e, r, c, m, o)
  BY DEF AdmitChildOk, Leases!AdmitChildOk, MaxEntries, Leases!MaxEntries
<1>4. \A m : SeparateWorktree(e, r, m) => Leases!SeparateWorktree(e, r, m)
  BY DEF SeparateWorktree, Leases!SeparateWorktree
<1>5. \A c : ReserveChildMessageOk(e, r, c) => Leases!ReserveChildMessageOk(e, r, c)
  BY DEF ReserveChildMessageOk, Leases!ReserveChildMessageOk
<1>6. YieldParentOk(e, r) => Leases!YieldParentOk(e, r)
  BY DEF YieldParentOk, Leases!YieldParentOk
<1>7. \A o : RequestResumeOk(e, r, o) => Leases!RequestResumeOk(e, r, o)
  BY DEF RequestResumeOk, Leases!RequestResumeOk
<1>8. \A t : TryAcquireOk(e, r, t) => Leases!TryAcquireOk(e, r, t)
  BY DEF TryAcquireOk, Leases!TryAcquireOk
<1>9. FinishOk(e, r, TRUE) => Leases!FinishOk(e, r, TRUE)
  BY DEF FinishOk, Leases!FinishOk
<1>. QED
  BY <1>1, <1>2, <1>3, <1>4, <1>5, <1>6, <1>7, <1>8, <1>9

\* What the methods leave.
LEMMA LeasesEffects ==
    ASSUME NEW e, NEW r
    PROVE  /\ \A p, w : Leases!AdmitParentTo(e, r, p, w) = AdmitParentTo(e, r, p, w)
           /\ \A w, k : Leases!ConfigureFamilyTo(e, r, w, k) = ConfigureFamilyTo(e, r, w, k)
           /\ \A c, m : Leases!AdmitChildTo(e, r, c, m) = AdmitChildTo(e, r, c, m)
           /\ Leases!ReserveChildMessageTo(e, r) = ReserveChildMessageTo(e, r)
           /\ Leases!YieldParentTo(e, r) = YieldParentTo(e, r)
           /\ \A o : Leases!RequestResumeTo(e, r, o) = RequestResumeTo(e, r, o)
           /\ Leases!TryAcquireTo(e, r) = TryAcquireTo(e, r)
           /\ Leases!FinishTo(e, r) = FinishTo(e, r)
           /\ Leases!EmptyBook = EmptyBook
<1>1. \A p, w : Leases!AdmitParentTo(e, r, p, w) = AdmitParentTo(e, r, p, w)
  BY DEF AdmitParentTo, Leases!AdmitParentTo, AddMember, Leases!AddMember
<1>2. \A w, k : Leases!ConfigureFamilyTo(e, r, w, k) = ConfigureFamilyTo(e, r, w, k)
  BY DEF ConfigureFamilyTo, Leases!ConfigureFamilyTo, AddBudget, Leases!AddBudget
<1>3. \A c, m : Leases!AdmitChildTo(e, r, c, m) = AdmitChildTo(e, r, c, m)
  BY DEF AdmitChildTo, Leases!AdmitChildTo, AddMember, Leases!AddMember
<1>4. Leases!ReserveChildMessageTo(e, r) = ReserveChildMessageTo(e, r)
  BY DEF ReserveChildMessageTo, Leases!ReserveChildMessageTo
<1>5. \A x, st, o : Leases!SetLease(e, x, st, o) = SetLease(e, x, st, o)
  BY DEF SetLease, Leases!SetLease
<1>6. /\ Leases!YieldParentTo(e, r) = YieldParentTo(e, r)
      /\ \A o : Leases!RequestResumeTo(e, r, o) = RequestResumeTo(e, r, o)
      /\ Leases!TryAcquireTo(e, r) = TryAcquireTo(e, r)
  BY <1>5 DEF YieldParentTo, Leases!YieldParentTo, RequestResumeTo, Leases!RequestResumeTo,
              TryAcquireTo, Leases!TryAcquireTo
<1>7. Leases!FinishTo(e, r) = FinishTo(e, r)
  BY <1>5, LeasesQueries DEF FinishTo, Leases!FinishTo
<1>8. Leases!EmptyBook = EmptyBook
  BY DEF EmptyBook, Leases!EmptyBook
<1>. QED
  BY <1>1, <1>2, <1>3, <1>4, <1>6, <1>7, <1>8

-----------------------------------------------------------------------------
(* The leases *)

\* admit_child() as an action of ModelLeases: the member that was recorded is
\* the one its admission describes.
LEMMA AdmitChildRefines ==
    ASSUME NEW r \in Ids, NEW m, m \in LeaseRecord(ChildRoles),
           m.workspace \in ({"project"} \X Projects) \cup ({"worktree"} \X Ids),
           m.st = "Waiting", m.ord = book.nextOrdinal,
           book.nextOrdinal \in Ids, book'.nextOrdinal = book.nextOrdinal + 1,
           AdmitChildOk(book.ex, r, book.nextOrdinal, m, book.nextOrdinal),
           SeparateWorktree(book.ex, r, m),
           book'.ex = AdmitChildTo(book.ex, r, book.nextOrdinal, m)
    PROVE  Leases!LeasesNext
<1>. DEFINE a == [workspace |-> m.workspace, role |-> m.role, snapshot |-> m.snapshot,
                  isolated |-> m.isolated]
<1>1. /\ r \in DOMAIN book.ex.members /\ m.family = r /\ m.role # "None"
      /\ m.project = book.ex.members[r].project /\ m.snapshot # "None"
  BY DEF AdmitChildOk, IsChild
<1>2. m.role \in ChildRoles /\ m.snapshot = Snapshot /\ m.isolated \in BOOLEAN
  BY <1>1 DEF LeaseRecord
<1>3. a \in Leases!Admissions
  BY <1>2 DEF Leases!Admissions
<1>4. m = [family |-> r, project |-> book.ex.members[r].project, workspace |-> m.workspace,
           role |-> m.role, snapshot |-> m.snapshot, isolated |-> m.isolated,
           st |-> "Waiting", ord |-> book.nextOrdinal]
  BY <1>1 DEF LeaseRecord
<1>5. m = Leases!ChildMember(r, book.ex.members[r].project, a, book.nextOrdinal)
  BY <1>4 DEF Leases!ChildMember
<1>6. /\ Leases!AdmitChildOk(book.ex, r, book.nextOrdinal, m, book.nextOrdinal)
      /\ Leases!SeparateWorktree(book.ex, r, m)
  BY LeasesConditions
<1>7. book'.ex = Leases!AdmitChildTo(book.ex, r, book.nextOrdinal, m)
  <2>1. \A c, x : Leases!AdmitChildTo(book.ex, r, c, x) = AdmitChildTo(book.ex, r, c, x)
    BY LeasesEffects
  <2>. QED
    BY <2>1
<1>8. Leases!TakeOrdinal
  BY DEF Leases!TakeOrdinal, Ids
<1>. HIDE DEF a
<1>9. Leases!AdmitChild(r, book.nextOrdinal, a)
  BY <1>1, <1>5, <1>6, <1>7, <1>8 DEF Leases!AdmitChild
<1>. QED
  BY <1>3, <1>9 DEF Leases!LeasesNext

\* What LeaseStep lists are the actions of ModelLeases.
LEMMA LeaseStepRefines ==
    ASSUME book.nextOrdinal \in Nat \ {0}, LeaseStep(book, book')
    PROVE  [Leases!LeasesNext]_(Leases!vars)
<1>a. \A r : /\ \A p : AdmitParentOk(book.ex, r, p) => Leases!AdmitParentOk(book.ex, r, p)
             /\ \A w, k : ConfigureFamilyOk(book.ex, r, w, k) =>
                            Leases!ConfigureFamilyOk(book.ex, r, w, k)
             /\ \A c : ReserveChildMessageOk(book.ex, r, c) =>
                            Leases!ReserveChildMessageOk(book.ex, r, c)
             /\ YieldParentOk(book.ex, r) => Leases!YieldParentOk(book.ex, r)
             /\ \A o : RequestResumeOk(book.ex, r, o) => Leases!RequestResumeOk(book.ex, r, o)
             /\ \A t : TryAcquireOk(book.ex, r, t) => Leases!TryAcquireOk(book.ex, r, t)
             /\ FinishOk(book.ex, r, TRUE) => Leases!FinishOk(book.ex, r, TRUE)
  BY LeasesConditions
<1>1. CASE book'.ex = book.ex /\ book'.nextOrdinal = book.nextOrdinal
  BY <1>1 DEF Leases!vars
<1>2. CASE /\ book'.ex = book.ex /\ book.nextOrdinal <= MaxOrdinal
           /\ book'.nextOrdinal = book.nextOrdinal + 1
  BY <1>2 DEF Leases!LeasesNext, Leases!OtherPosition, Leases!TakeOrdinal
<1>3. CASE book'.ex = EmptyBook /\ book'.nextOrdinal = book.nextOrdinal
  <2>1. Leases!EmptyBook = EmptyBook
    BY LeasesEffects
  <2>2. Leases!RecoverInterrupted
    BY <1>3, <2>1 DEF Leases!RecoverInterrupted, Leases!RecoverInterruptedTo
  <2>. QED
    BY <2>2 DEF Leases!LeasesNext
<1>4. ASSUME NEW r \in Ids, NEW p \in Projects, book'.nextOrdinal = book.nextOrdinal,
             AdmitParentOk(book.ex, r, p),
             book'.ex = AdmitParentTo(book.ex, r, p, ProjectWorkspace(p))
      PROVE  Leases!LeasesNext
  <2>1. book'.ex = Leases!AdmitParentTo(book.ex, r, p, ProjectWorkspace(p))
    BY <1>4, LeasesEffects
  <2>2. Leases!AdmitParent(r, p, ProjectWorkspace(p))
    BY <1>a, <1>4, <2>1 DEF Leases!AdmitParent
  <2>3. ProjectWorkspace(p) \in ({"project"} \X Projects) \cup ({"worktree"} \X Ids)
    BY DEF ProjectWorkspace
  <2>. QED
    BY <2>2, <2>3 DEF Leases!LeasesNext
<1>5. ASSUME NEW r \in Ids, NEW w \in BOOLEAN, NEW k \in 1 .. WorkflowCeiling,
             book'.nextOrdinal = book.nextOrdinal,
             ConfigureFamilyOk(book.ex, r, w, k), book'.ex = ConfigureFamilyTo(book.ex, r, w, k)
      PROVE  Leases!LeasesNext
  <2>1. book'.ex = Leases!ConfigureFamilyTo(book.ex, r, w, k)
    BY <1>5, LeasesEffects
  <2>2. Leases!ConfigureFamily(r, w, k)
    BY <1>a, <1>5, <2>1 DEF Leases!ConfigureFamily
  <2>. QED
    BY <2>2 DEF Leases!LeasesNext
<1>6. ASSUME NEW r \in Ids, NEW c \in Ids, book'.nextOrdinal = book.nextOrdinal,
             ReserveChildMessageOk(book.ex, r, c), book'.ex = ReserveChildMessageTo(book.ex, r)
      PROVE  Leases!LeasesNext
  <2>1. book'.ex = Leases!ReserveChildMessageTo(book.ex, r)
    BY <1>6, LeasesEffects
  <2>2. Leases!ReserveChildMessage(r, c)
    BY <1>a, <1>6, <2>1 DEF Leases!ReserveChildMessage
  <2>. QED
    BY <2>2 DEF Leases!LeasesNext
<1>7. ASSUME NEW r \in Ids, book'.nextOrdinal = book.nextOrdinal,
             YieldParentOk(book.ex, r), book'.ex = YieldParentTo(book.ex, r)
      PROVE  Leases!LeasesNext
  <2>1. book'.ex = Leases!YieldParentTo(book.ex, r)
    BY <1>7, LeasesEffects
  <2>2. Leases!YieldParent(r)
    BY <1>a, <1>7, <2>1 DEF Leases!YieldParent
  <2>. QED
    BY <2>2 DEF Leases!LeasesNext
<1>8. ASSUME NEW r \in Ids, book'.nextOrdinal = book.nextOrdinal,
             TryAcquireOk(book.ex, r, {}), book'.ex = TryAcquireTo(book.ex, r)
      PROVE  Leases!LeasesNext
  <2>1. book'.ex = Leases!TryAcquireTo(book.ex, r)
    BY <1>8, LeasesEffects
  <2>2. Leases!TryAcquire(r, {})
    BY <1>a, <1>8, <2>1 DEF Leases!TryAcquire
  <2>3. {} \in Leases!TopLevelChoices
    BY DEF Leases!TopLevelChoices
  <2>. QED
    BY <2>2, <2>3 DEF Leases!LeasesNext
<1>9. ASSUME NEW r \in Ids, book'.nextOrdinal = book.nextOrdinal,
             FinishOk(book.ex, r, TRUE), book'.ex = FinishTo(book.ex, r)
      PROVE  Leases!LeasesNext
  <2>1. book'.ex = Leases!FinishTo(book.ex, r)
    BY <1>9, LeasesEffects
  <2>2. Leases!Finish(r)
    BY <1>a, <1>9, <2>1 DEF Leases!Finish
  <2>. QED
    BY <2>2 DEF Leases!LeasesNext
<1>10. ASSUME NEW r \in Ids, book.nextOrdinal <= MaxOrdinal,
              book'.nextOrdinal = book.nextOrdinal + 1,
              RequestResumeOk(book.ex, r, book.nextOrdinal),
              book'.ex = RequestResumeTo(book.ex, r, book.nextOrdinal)
       PROVE  Leases!LeasesNext
  <2>1. book'.ex = Leases!RequestResumeTo(book.ex, r, book.nextOrdinal)
    BY <1>10, LeasesEffects
  <2>2. Leases!RequestResume(r)
    BY <1>a, <1>10, <2>1 DEF Leases!RequestResume, Leases!TakeOrdinal
  <2>. QED
    BY <2>2 DEF Leases!LeasesNext
<1>11. ASSUME NEW r \in Ids, NEW m, book.nextOrdinal <= MaxOrdinal,
              book'.nextOrdinal = book.nextOrdinal + 1,
              m \in LeaseRecord(ChildRoles),
              m.workspace \in ({"project"} \X Projects) \cup ({"worktree"} \X Ids),
              m.st = "Waiting", m.ord = book.nextOrdinal,
              AdmitChildOk(book.ex, r, book.nextOrdinal, m, book.nextOrdinal),
              SeparateWorktree(book.ex, r, m),
              book'.ex = AdmitChildTo(book.ex, r, book.nextOrdinal, m)
       PROVE  Leases!LeasesNext
  <2>1. book.nextOrdinal \in Ids
    BY <1>11, PromptQueueAssumption DEF Ids
  <2>. QED
    BY <1>11, <2>1, AdmitChildRefines
<1>. QED
  BY <1>1, <1>2, <1>3, <1>4, <1>5, <1>6, <1>7, <1>8, <1>9, <1>10, <1>11 DEF LeaseStep

\* Refinement: whatever commands, stops, completions and restarts do to the
\* book, what happens to its leases is a behaviour of ModelLeases
\* (try_acquire_execution, complete_run, finish_child, open).
THEOREM QueueImplementsLeases ==
    ASSUME MaxFaults = 0
    PROVE  PromptQueueSpec => LeasesImplemented
<1>1. PromptQueueInit => Leases!LeasesInit
  <2>. SUFFICES ASSUME PromptQueueInit PROVE Leases!LeasesInit
    OBVIOUS
  <2>1. book.ex = EmptyBook /\ book.nextOrdinal = 1
    BY DEF PromptQueueInit, EmptyQueue
  <2>2. Leases!EmptyBook = EmptyBook
    BY LeasesEffects
  <2>. QED
    BY <2>1, <2>2 DEF Leases!LeasesInit
<1>2. QueueInv /\ QueueInv' /\ [PromptQueueNext]_vars => [Leases!LeasesNext]_(Leases!vars)
  <2>. SUFFICES ASSUME QueueInv, QueueInv', [PromptQueueNext]_vars
                PROVE  [Leases!LeasesNext]_(Leases!vars)
    OBVIOUS
  <2>1. faults' = 0
    BY DEF QueueInv, BooksInv
  <2>2. LeaseStep(book, book')
    BY <2>1, QueueStep DEF StepOK
  <2>3. book.nextOrdinal \in Nat \ {0}
    BY BookFacts, GoodFacts
  <2>. QED
    BY <2>2, <2>3, LeaseStepRefines
<1>. QED
  BY <1>1, <1>2, QueueInvariant, PTL DEF PromptQueueSpec, LeasesImplemented, Leases!LeasesSpec

-----------------------------------------------------------------------------
(* The messages *)

\* Every message has a stage.
LEMMA StagesKnown == ASSUME NEW b, NEW o PROVE StageIn(b, o) \in Lifecycle!Stages
  BY DEF StageIn, Lifecycle!Stages

\* Refinement: through every command, completion, removal and restart each
\* message keeps the promise of MessageLifecycle: it is started at most once,
\* steering a provider may have seen is never queued again, none is lost
\* (begin_run, promote_pending_steers_in_book, recover_terminal_steers).
THEOREM QueueKeepsLifecycle ==
    ASSUME MaxFaults = 0
    PROVE  PromptQueueSpec => MessagesKeepLifecycle
<1>1. PromptQueueInit => Lifecycle!LifecycleInit
  <2>. SUFFICES ASSUME PromptQueueInit, NEW o \in Ids PROVE StageIn(book, o) = "Unused"
    BY DEF Lifecycle!LifecycleInit, StageOf
  <2>1. DOMAIN book.items = {} /\ DOMAIN book.steers = {} /\ book.nextOrdinal = 1
    BY DEF PromptQueueInit, EmptyQueue
  <2>2. o \in Nat /\ ~(o < 1)
    BY PromptQueueAssumption DEF Ids
  <2>. QED
    BY <2>1, <2>2, StageCases
<1>2. QueueInv /\ QueueInv' /\ [PromptQueueNext]_vars =>
        [Lifecycle!LifecycleNext]_([o \in Ids |-> StageOf(o)])
  <2>. SUFFICES ASSUME QueueInv, QueueInv', [PromptQueueNext]_vars
                PROVE  Lifecycle!LifecycleNext
    OBVIOUS
  <2>1. faults' = 0
    BY DEF QueueInv, BooksInv
  <2>2. \A o \in Ids : Moved(StageIn(book, o), StageIn(book', o))
    BY <2>1, QueueStep DEF StepOK, StageStep
  <2>3. \A o \in Ids : StageOf(o) = StageIn(book, o) /\ StageOf(o)' = StageIn(book', o)
    BY DEF StageOf
  <2>4. \A o \in Ids : StageOf(o)' \in Lifecycle!Stages
    BY <2>3, StagesKnown
  <2>. QED
    BY <2>2, <2>3, <2>4 DEF Lifecycle!LifecycleNext, Moved
<1>. QED
  BY <1>1, <1>2, QueueInvariant, PTL
  DEF PromptQueueSpec, MessagesKeepLifecycle, Lifecycle!LifecycleSpec

=============================================================================
