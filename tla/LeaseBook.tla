------------------------------ MODULE LeaseBook ------------------------------
(***************************************************************************)
(* The durable execution book shared by top-level runs and app-owned       *)
(* children (grok-build-plus-host/src/plus_execution.rs), as operators on  *)
(* a value                                                                 *)
(*                                                                         *)
(*    ex = [members |-> run id :> member, budgets |-> parent id :> budget] *)
(*                                                                         *)
(* The book is a plain value that its owner clones, changes and validates, *)
(* so every method is two operators: XOk(ex, ...) is the condition under   *)
(* which the method returns Ok (Ok(true) for try_acquire) and XTo(ex, ...) *)
(* the book it then leaves behind.  Validate(ex) is the method validate(). *)
(*                                                                         *)
(* Identities are opaque.  Their textual checks (length, control           *)
(* characters, hexadecimal digests) are left out.  A member's Option<..>   *)
(* fields use "None"; the state Waiting { ordinal } is st = "Waiting" with *)
(* the position in ord, which is 0 in every other state.                   *)
(*                                                                         *)
(* A definition whose comment starts with "Mutant" stands just before the  *)
(* one it varies: it is a plausible bug that a property of a run detects,  *)
(* and no specification uses it.                                           *)
(***************************************************************************)
EXTENDS Naturals, FiniteSets

CONSTANTS
    MaxLeases,        \* MAX_PLUS_MODEL_EXECUTIONS, 2 in the code
    MaxFamilies,      \* MAX_FAMILIES, 2 in the code
    OrdinaryBudget,   \* the only maximum without a workflow, 8 in the code
    WorkflowCeiling   \* the largest maximum of a workflow, 32 in the code

ASSUME LeaseBookAssumption ==
    /\ MaxLeases \in Nat \ {0}
    /\ MaxFamilies \in Nat \ {0}
    /\ WorkflowCeiling \in Nat
    /\ OrdinaryBudget \in 1 .. WorkflowCeiling

MaxEntries == MaxFamilies * (1 + WorkflowCeiling)

EmptyBook == [members |-> [r \in {} |-> 0], budgets |-> [p \in {} |-> 0]]

-----------------------------------------------------------------------------
(* Queries *)

LeaseStates == {"Held", "Yielded", "Waiting", "Retiring", "Terminal"}

Occupies(m) == m.st \in {"Held", "Retiring"}

Active(m) == m.st # "Terminal"

IsChild(m) == m.role # "None"

\* The runs whose lease counts against MaxLeases: held() is its cardinality.
HeldRuns(ex) == {r \in DOMAIN ex.members : Occupies(ex.members[r])}

Roots(ex) ==
    {r \in DOMAIN ex.members : ~IsChild(ex.members[r]) /\ Active(ex.members[r])}

Family(ex, parent) == {r \in DOMAIN ex.members : ex.members[r].family = parent}

ChildrenOf(ex, parent) == {r \in Family(ex, parent) : IsChild(ex.members[r])}

\* Two members of one family may hold leases together only if both are
\* children with separate worktrees of one snapshot, or one of them is a
\* child in a worktree of its own.
MayRunTogether(a, b) ==
    IF IsChild(a) /\ IsChild(b)
    THEN /\ a.isolated /\ b.isolated
         /\ a.workspace # b.workspace
         /\ a.snapshot = b.snapshot
    ELSE (IsChild(a) /\ a.isolated) \/ (IsChild(b) /\ b.isolated)

\* eligible_as_held(): the holders of r's family tolerate r.
Compatible(ex, r) ==
    \A other \in HeldRuns(ex) \ {r} :
        ex.members[other].family = ex.members[r].family
            => MayRunTogether(ex.members[r], ex.members[other])

Eligible(ex, r) == ex.members[r].st = "Waiting" /\ Compatible(ex, r)

\* The positions first_eligible_ordinal() takes the minimum of: None when
\* every lease is taken.
EligibleOrdinals(ex) ==
    IF Cardinality(HeldRuns(ex)) >= MaxLeases
    THEN {}
    ELSE {ex.members[r].ord : r \in {w \in DOMAIN ex.members : Eligible(ex, w)}}

-----------------------------------------------------------------------------
(* Changing one entry *)

SetLease(ex, r, st, ord) ==
    [ex EXCEPT !.members[r].st = st, !.members[r].ord = ord]

AddMember(ex, r, m) ==
    [ex EXCEPT !.members =
        [x \in DOMAIN ex.members \cup {r} |-> IF x = r THEN m ELSE ex.members[x]]]

AddBudget(ex, parent, b) ==
    [ex EXCEPT !.budgets =
        [x \in DOMAIN ex.budgets \cup {parent} |->
            IF x = parent THEN b ELSE ex.budgets[x]]]

-----------------------------------------------------------------------------
(* Methods *)

AdmitParentOk(ex, run, project) ==
    /\ Cardinality(HeldRuns(ex)) < MaxLeases
    /\ Cardinality(Roots(ex)) < MaxFamilies
    /\ run \notin DOMAIN ex.members
    /\ \A m \in DOMAIN ex.members :
            Active(ex.members[m]) => ex.members[m].project # project

AdmitParentTo(ex, run, project, workspace) ==
    AddMember(ex, run, [family |-> run, project |-> project,
                        workspace |-> workspace, role |-> "None",
                        snapshot |-> "None", isolated |-> FALSE,
                        st |-> "Held", ord |-> 0])

ConfigureFamilyOk(ex, parent, workflow, maximum) ==
    /\ parent \in DOMAIN ex.members
    /\ ~IsChild(ex.members[parent])
    /\ Active(ex.members[parent])
    /\ parent \notin DOMAIN ex.budgets
    /\ ~workflow => maximum = OrdinaryBudget
    /\ maximum \in 1 .. WorkflowCeiling

ConfigureFamilyTo(ex, parent, workflow, maximum) ==
    AddBudget(ex, parent, [workflow |-> workflow, used |-> 0, maximum |-> maximum])

\* The member an app-resolved admission describes; admit_child itself
\* overwrites its execution state.
ChildMember(parent, project, admission, ordinal) ==
    [family |-> parent, project |-> project, workspace |-> admission.workspace,
     role |-> admission.role, snapshot |-> admission.snapshot,
     isolated |-> admission.isolated, st |-> "Waiting", ord |-> ordinal]

AdmitChildOk(ex, parent, run, child, ordinal) ==
    /\ parent \in DOMAIN ex.members
    /\ parent \in DOMAIN ex.budgets
    /\ ~IsChild(ex.members[parent])
    /\ ex.members[parent].st = "Yielded"
    /\ ex.budgets[parent].used < ex.budgets[parent].maximum
    /\ Cardinality(DOMAIN ex.members) < MaxEntries
    /\ run # parent
    /\ child.family = parent
    /\ child.project = ex.members[parent].project
    /\ IsChild(child)
    /\ child.snapshot # "None"
    /\ ordinal # 0
    /\ run \notin DOMAIN ex.members
    /\ \A c \in ChildrenOf(ex, parent) : ex.members[c].snapshot = child.snapshot

\* The part of validate() that admit_child() relies on instead of a guard of
\* its own: an isolated child never shares its parent's workspace.
SeparateWorktree(ex, parent, child) ==
    child.isolated => child.workspace # ex.members[parent].workspace

\* Mutant: a child is admitted without paying for it.
AdmitChildUnpaid(ex, parent, run, child) == AddMember(ex, run, child)

AdmitChildTo(ex, parent, run, child) ==
    LET spent == [ex EXCEPT !.budgets[parent].used = @ + 1]
    IN  AddMember(spent, run, child)

ReserveChildMessageOk(ex, parent, child) ==
    /\ child \in DOMAIN ex.members
    /\ ex.members[child].family = parent
    /\ IsChild(ex.members[child])
    /\ Active(ex.members[child])
    /\ parent \in DOMAIN ex.budgets
    /\ ex.budgets[parent].used < ex.budgets[parent].maximum

ReserveChildMessageTo(ex, parent) == [ex EXCEPT !.budgets[parent].used = @ + 1]

YieldParentOk(ex, run) ==
    /\ run \in DOMAIN ex.members
    /\ ~IsChild(ex.members[run])
    /\ ex.members[run].st = "Held"

YieldParentTo(ex, run) == SetLease(ex, run, "Yielded", 0)

RequestResumeOk(ex, run, ordinal) ==
    /\ ordinal # 0
    /\ run \in DOMAIN ex.members
    /\ ex.members[run].st = "Yielded"

RequestResumeTo(ex, run, ordinal) == SetLease(ex, run, "Waiting", ordinal)

\* Mutant: the holders of the family are not looked at.
TryAcquireUnchecked(ex, run, topLevel) ==
    /\ Cardinality(HeldRuns(ex)) < MaxLeases
    /\ run \in DOMAIN ex.members
    /\ ex.members[run].st = "Waiting"
    /\ ~ \E earlier \in topLevel : earlier < ex.members[run].ord

\* try_acquire() returning Ok(true).  topLevel holds the positions of the
\* top-level items that could start now: earlier_top_level is its minimum,
\* so "Some(earlier) with earlier < ordinal" is a member below the position.
TryAcquireOk(ex, run, topLevel) ==
    /\ Cardinality(HeldRuns(ex)) < MaxLeases
    /\ run \in DOMAIN ex.members
    /\ ex.members[run].st = "Waiting"
    /\ ~ \E earlier \in topLevel : earlier < ex.members[run].ord
    /\ Eligible(ex, run)
    /\ \A w \in DOMAIN ex.members :
            Eligible(ex, w) => ex.members[run].ord <= ex.members[w].ord

\* Mutant: the position is kept with the lease.
TryAcquireKeepsPosition(ex, run) == SetLease(ex, run, "Held", ex.members[run].ord)

TryAcquireTo(ex, run) == SetLease(ex, run, "Held", 0)

RetireOk(ex, run) ==
    /\ run \in DOMAIN ex.members
    /\ ex.members[run].st = "Held"

RetireTo(ex, run) == SetLease(ex, run, "Retiring", 0)

\* Mutant: a parent may finish before its children.
FinishIgnoringFamily(ex, run, cleanupProven) ==
    cleanupProven /\ run \in DOMAIN ex.members

FinishOk(ex, run, cleanupProven) ==
    /\ cleanupProven
    /\ run \in DOMAIN ex.members
    /\ ~IsChild(ex.members[run]) =>
            \A m \in Family(ex, run) \ {run} : ~Active(ex.members[m])

\* Mutant: a parent leaves its finished children behind.
FinishAlone(ex, run) ==
    IF IsChild(ex.members[run])
    THEN SetLease(ex, run, "Terminal", 0)
    ELSE [members |-> [m \in DOMAIN ex.members \ {run} |-> ex.members[m]],
          budgets |-> [p \in DOMAIN ex.budgets \ {run} |-> ex.budgets[p]]]

\* A parent takes its whole family and budget out of the book, a child stays
\* as Terminal until then.
FinishTo(ex, run) ==
    IF IsChild(ex.members[run])
    THEN SetLease(ex, run, "Terminal", 0)
    ELSE [members |-> [m \in DOMAIN ex.members \ Family(ex, run) |-> ex.members[m]],
          budgets |-> [p \in DOMAIN ex.budgets \ {run} |-> ex.budgets[p]]]

RecoverInterruptedTo(ex) == EmptyBook

-----------------------------------------------------------------------------
(* validate() *)

\* At most MaxLeases executions hold a lease at once.
LeasesBounded(ex) == Cardinality(HeldRuns(ex)) <= MaxLeases

FamiliesBounded(ex) == Cardinality(Roots(ex)) <= MaxFamilies

EntriesBounded(ex) == Cardinality(DOMAIN ex.members) <= MaxEntries

\* Active members of one project belong to one family.
OneFamilyPerProject(ex) ==
    \A a, b \in DOMAIN ex.members :
        /\ Active(ex.members[a])
        /\ Active(ex.members[b])
        /\ ex.members[a].project = ex.members[b].project
        => ex.members[a].family = ex.members[b].family

\* Waiting members have distinct positive positions.
WaitsOrdered(ex) ==
    \A a \in DOMAIN ex.members : ex.members[a].st = "Waiting" =>
        /\ ex.members[a].ord # 0
        /\ \A b \in DOMAIN ex.members :
                ex.members[b].st = "Waiting" /\ ex.members[b].ord = ex.members[a].ord
                    => a = b

ParentsWellFormed(ex) ==
    \A r \in DOMAIN ex.members :
        LET m == ex.members[r]
        IN  ~IsChild(m) => /\ m.family = r
                           /\ m.snapshot = "None"
                           /\ ~m.isolated
                           /\ Active(m)

ChildrenWellFormed(ex) ==
    \A r \in DOMAIN ex.members :
        LET m == ex.members[r]
        IN  IsChild(m) =>
                /\ m.family \in DOMAIN ex.members
                /\ m.family \in DOMAIN ex.budgets
                /\ ~IsChild(ex.members[m.family])
                /\ ex.members[m.family].project = m.project
                /\ SeparateWorktree(ex, m.family, m)
                /\ m.snapshot # "None"
                /\ \A s \in ChildrenOf(ex, m.family) :
                        ex.members[s].snapshot = m.snapshot

\* A child holds a lease only beside holders of its family that tolerate it.
HoldersIsolated(ex) ==
    \A r \in HeldRuns(ex) : IsChild(ex.members[r]) => Compatible(ex, r)

BudgetsWellFormed(ex) ==
    \A p \in DOMAIN ex.budgets :
        /\ p \in DOMAIN ex.members
        /\ ~IsChild(ex.members[p])
        /\ ex.budgets[p].used <= ex.budgets[p].maximum
        /\ ex.budgets[p].maximum \in 1 .. WorkflowCeiling
        /\ ~ex.budgets[p].workflow => ex.budgets[p].maximum = OrdinaryBudget
        /\ Cardinality(ChildrenOf(ex, p)) <= ex.budgets[p].used

Validate(ex) ==
    /\ LeasesBounded(ex)
    /\ FamiliesBounded(ex)
    /\ EntriesBounded(ex)
    /\ OneFamilyPerProject(ex)
    /\ WaitsOrdered(ex)
    /\ ParentsWellFormed(ex)
    /\ ChildrenWellFormed(ex)
    /\ HoldersIsolated(ex)
    /\ BudgetsWellFormed(ex)
=============================================================================
