----------------------------- MODULE ModelLeases -----------------------------
(***************************************************************************)
(* The execution book of LeaseBook as a state machine: every method of     *)
(* PlusExecutionBook is an action, called in any order its own guards      *)
(* allow.  The caller contributes two things the book depends on:          *)
(* positions come from one increasing counter (next_order() in             *)
(* grok-build-tauri/src/queue/children.rs), which also numbers prompts and *)
(* steering messages, and the top-level positions passed to try_acquire()  *)
(* are arbitrary here.  PromptQueue, the real caller, implements this      *)
(* specification.                                                          *)
(*                                                                         *)
(* The actions take only the guards of the methods, not the validate()     *)
(* that ends each of them.  Validate is instead the invariant: it holds    *)
(* in every reachable state, so the trailing check never refuses a change  *)
(* the guards let through.  The one condition a method leaves to           *)
(* validate() is SeparateWorktree, which AdmitChild therefore includes.    *)
(***************************************************************************)
EXTENDS LeaseBook

CONSTANTS
    Runs,        \* run identities, parents and children
    Projects,
    Workspaces,
    Snapshots,   \* digests of captured working files
    ChildRoles,  \* PlusChildRole
    MaxOrdinal   \* bound of this model on the shared order

ASSUME ModelLeasesAssumption ==
    /\ "None" \notin Snapshots
    /\ "None" \notin ChildRoles
    /\ MaxOrdinal \in Nat
    /\ IsFiniteSet(Runs)

VARIABLES
    ex,          \* the execution book
    nextOrdinal  \* the caller's next position in the shared order

vars == <<ex, nextOrdinal>>

Admissions == [workspace : Workspaces, role : ChildRoles,
               snapshot : Snapshots, isolated : BOOLEAN]

\* Only the minimum of the top-level positions matters to try_acquire().
TopLevelChoices == {{}} \cup {{n} : n \in 1 .. MaxOrdinal}

MemberRecord ==
    [family : Runs, project : Projects, workspace : Workspaces,
     role : ChildRoles \cup {"None"}, snapshot : Snapshots \cup {"None"},
     isolated : BOOLEAN, st : LeaseStates, ord : Nat]

BudgetRecord == [workflow : BOOLEAN, used : Nat, maximum : Nat]

LeasesInit == ex = EmptyBook /\ nextOrdinal = 1

TakeOrdinal == nextOrdinal <= MaxOrdinal /\ nextOrdinal' = nextOrdinal + 1

AdmitParent(run, project, workspace) ==
    /\ AdmitParentOk(ex, run, project)
    /\ ex' = AdmitParentTo(ex, run, project, workspace)
    /\ UNCHANGED nextOrdinal

ConfigureFamily(parent, workflow, maximum) ==
    /\ ConfigureFamilyOk(ex, parent, workflow, maximum)
    /\ ex' = ConfigureFamilyTo(ex, parent, workflow, maximum)
    /\ UNCHANGED nextOrdinal

AdmitChild(parent, run, admission) ==
    /\ TakeOrdinal
    /\ parent \in DOMAIN ex.members
    /\ LET child == ChildMember(parent, ex.members[parent].project, admission,
                                nextOrdinal)
       IN  /\ AdmitChildOk(ex, parent, run, child, nextOrdinal)
           /\ SeparateWorktree(ex, parent, child)
           /\ ex' = AdmitChildTo(ex, parent, run, child)

ReserveChildMessage(parent, child) ==
    /\ ReserveChildMessageOk(ex, parent, child)
    /\ ex' = ReserveChildMessageTo(ex, parent)
    /\ UNCHANGED nextOrdinal

YieldParent(run) ==
    /\ YieldParentOk(ex, run)
    /\ ex' = YieldParentTo(ex, run)
    /\ UNCHANGED nextOrdinal

RequestResume(run) ==
    /\ RequestResumeOk(ex, run, nextOrdinal)
    /\ ex' = RequestResumeTo(ex, run, nextOrdinal)
    /\ TakeOrdinal

TryAcquire(run, topLevel) ==
    /\ TryAcquireOk(ex, run, topLevel)
    /\ ex' = TryAcquireTo(ex, run)
    /\ UNCHANGED nextOrdinal

Retire(run) ==
    /\ RetireOk(ex, run)
    /\ ex' = RetireTo(ex, run)
    /\ UNCHANGED nextOrdinal

Finish(run) ==
    /\ FinishOk(ex, run, TRUE)
    /\ ex' = FinishTo(ex, run)
    /\ UNCHANGED nextOrdinal

\* The caller gives the next position to a prompt or a steering message.
OtherPosition == TakeOrdinal /\ UNCHANGED ex

RecoverInterrupted ==
    /\ ex' = RecoverInterruptedTo(ex)
    /\ UNCHANGED nextOrdinal

LeasesNext ==
    \/ \E r \in Runs, p \in Projects, w \in Workspaces : AdmitParent(r, p, w)
    \/ \E r \in Runs, f \in BOOLEAN, n \in 1 .. WorkflowCeiling :
            ConfigureFamily(r, f, n)
    \/ \E r, c \in Runs, a \in Admissions : AdmitChild(r, c, a)
    \/ \E r, c \in Runs : ReserveChildMessage(r, c)
    \/ \E r \in Runs : YieldParent(r)
    \/ \E r \in Runs : RequestResume(r)
    \/ \E r \in Runs, top \in TopLevelChoices : TryAcquire(r, top)
    \/ \E r \in Runs : Retire(r)
    \/ \E r \in Runs : Finish(r)
    \/ OtherPosition
    \/ RecoverInterrupted

LeasesSpec == LeasesInit /\ [][LeasesNext]_vars

-----------------------------------------------------------------------------
(* Properties *)

\* Type invariant: the book relates known identities, and a position is held
\* exactly while waiting and was taken from the counter.
LeasesTypeOK ==
    /\ nextOrdinal \in Nat \ {0}
    /\ DOMAIN ex = {"members", "budgets"}
    /\ DOMAIN ex.members \subseteq Runs
    /\ ex.members \in [DOMAIN ex.members -> MemberRecord]
    /\ DOMAIN ex.budgets \subseteq Runs
    /\ ex.budgets \in [DOMAIN ex.budgets -> BudgetRecord]
    /\ \A r \in DOMAIN ex.members :
            /\ ex.members[r].ord < nextOrdinal
            /\ ex.members[r].st = "Waiting" <=> ex.members[r].ord # 0

\* The validate() that ends every method of plus_execution.rs never refuses
\* what the method's own guards let through: capacities, one family per
\* project, distinct positions, family shape, isolation of concurrent
\* holders and budgets hold in every reachable book.
ValidationNeverRefuses == Validate(ex)

\* A family's ceiling is fixed once and its consumed invocations never go
\* back while the family lives (configure_family, admit_child,
\* reserve_child_message, finish).
BudgetNeverResets ==
    [][\A p \in DOMAIN ex.budgets \cap DOMAIN ex'.budgets :
            /\ ex'.budgets[p].maximum = ex.budgets[p].maximum
            /\ ex'.budgets[p].used >= ex.budgets[p].used
            /\ Cardinality(ChildrenOf(ex', p)) - Cardinality(ChildrenOf(ex, p))
                    <= ex'.budgets[p].used - ex.budgets[p].used]_vars

\* Outside a process restart, finish() never takes the authority of a child
\* that is still active out of the book, and a finished child never executes
\* again.
NoActiveChildDropped ==
    [][RecoverInterrupted \/
        \A r \in DOMAIN ex.members : IsChild(ex.members[r]) =>
            IF Active(ex.members[r])
            THEN r \in DOMAIN ex'.members
            ELSE r \in DOMAIN ex'.members => ~Active(ex'.members[r])]_vars
=============================================================================
