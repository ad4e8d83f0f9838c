-------------------------- MODULE LeaseBook_proofs --------------------------
(***************************************************************************)
(* What the ways of changing an execution book do to validate(), for any   *)
(* identities of its members: the facts that ModelLeases_proofs and        *)
(* QueueBook_proofs share.                                                 *)
(***************************************************************************)
EXTENDS LeaseBook, FiniteSetTheorems, FunctionTheorems, TLAPS

\* A book of finitely many members whose budgets are numbers.
Sized(e) ==
    /\ IsFiniteSet(DOMAIN e.members)
    /\ \A p \in DOMAIN e.budgets : e.budgets[p].used \in Nat /\ e.budgets[p].maximum \in Nat

\* Two entries of one member, whatever their leases.
SameIdentity(m, n) ==
    /\ m.family = n.family
    /\ m.project = n.project
    /\ m.workspace = n.workspace
    /\ m.role = n.role
    /\ m.snapshot = n.snapshot
    /\ m.isolated = n.isolated

-----------------------------------------------------------------------------
(* The ways of changing a book *)

\* One member changes the state of its lease.
LeaseSet(e, f, r, st, ord) ==
    /\ f.budgets = e.budgets
    /\ DOMAIN f.members = DOMAIN e.members
    /\ \A x \in DOMAIN e.members \ {r} : f.members[x] = e.members[x]
    /\ f.members[r].st = st
    /\ f.members[r].ord = ord
    /\ SameIdentity(f.members[r], e.members[r])

\* A member joins.
MemberAdded(e, f, r, m) ==
    /\ f.budgets = e.budgets
    /\ DOMAIN f.members = DOMAIN e.members \cup {r}
    /\ \A x \in DOMAIN e.members : f.members[x] = e.members[x]
    /\ f.members[r] = m

\* A parent gets a budget.
BudgetAdded(e, f, p, w, n) ==
    /\ f.members = e.members
    /\ DOMAIN f.budgets = DOMAIN e.budgets \cup {p}
    /\ \A x \in DOMAIN e.budgets : f.budgets[x] = e.budgets[x]
    /\ f.budgets[p].workflow = w
    /\ f.budgets[p].used = 0
    /\ f.budgets[p].maximum = n

\* One invocation of a budget is consumed.
Spent(e, f, p) ==
    /\ f.members = e.members
    /\ DOMAIN f.budgets = DOMAIN e.budgets
    /\ \A x \in DOMAIN e.budgets \ {p} : f.budgets[x] = e.budgets[x]
    /\ f.budgets[p].used = e.budgets[p].used + 1
    /\ f.budgets[p].maximum = e.budgets[p].maximum
    /\ f.budgets[p].workflow = e.budgets[p].workflow

\* A parent leaves with its family and its budget.
FamilyRemoved(e, f, r) ==
    /\ DOMAIN f.members = DOMAIN e.members \ Family(e, r)
    /\ \A x \in DOMAIN f.members : f.members[x] = e.members[x]
    /\ DOMAIN f.budgets = DOMAIN e.budgets \ {r}
    /\ \A x \in DOMAIN f.budgets : f.budgets[x] = e.budgets[x]

-----------------------------------------------------------------------------
(* What each of them does to validate() *)

\* Everything validate() counts is finite.
LEMMA SizedFinite ==
    ASSUME NEW e, Sized(e)
    PROVE  /\ IsFiniteSet(DOMAIN e.members)
           /\ IsFiniteSet(HeldRuns(e))
           /\ IsFiniteSet(Roots(e))
           /\ \A p : IsFiniteSet(ChildrenOf(e, p))
<1>1. IsFiniteSet(DOMAIN e.members)
  BY DEF Sized
<1>2. /\ HeldRuns(e) \subseteq DOMAIN e.members
      /\ Roots(e) \subseteq DOMAIN e.members
      /\ \A p : ChildrenOf(e, p) \subseteq DOMAIN e.members
  BY DEF HeldRuns, Roots, ChildrenOf, Family
<1>. QED
  BY <1>1, <1>2, FS_Subset

\* Whether two members may hold leases together depends on their identities,
\* and does not depend on their order.
LEMMA MayRunTogetherSymmetric ==
    ASSUME NEW a, NEW b PROVE MayRunTogether(a, b) <=> MayRunTogether(b, a)
  BY DEF MayRunTogether, IsChild

\* Whether two members may run together does not depend on their lease states.
LEMMA MayRunTogetherByIdentity ==
    ASSUME NEW a, NEW b, NEW c, NEW d, SameIdentity(a, c), SameIdentity(b, d)
    PROVE  MayRunTogether(a, b) <=> MayRunTogether(c, d)
  BY DEF MayRunTogether, IsChild, SameIdentity

\* A change of one lease keeps a valid book valid when the position is new,
\* only children become terminal, nothing terminal comes back, and a member
\* that starts to hold a lease finds one free and tolerant holders.
LEMMA LeaseSetValid ==
    ASSUME NEW e, Sized(e), Validate(e), NEW r \in DOMAIN e.members,
           NEW st \in LeaseStates, NEW ord \in Nat,
           NEW f, LeaseSet(e, f, r, st, ord),
           st = "Waiting" =>
                /\ ord # 0
                /\ \A x \in DOMAIN e.members :
                        e.members[x].st = "Waiting" => e.members[x].ord # ord,
           st = "Terminal" => IsChild(e.members[r]),
           st # "Terminal" => Active(e.members[r]),
           st \in {"Held", "Retiring"} =>
                \/ r \in HeldRuns(e)
                \/ Cardinality(HeldRuns(e)) < MaxLeases /\ Compatible(e, r)
    PROVE  Validate(f)
<1>1. /\ Sized(f)
      /\ f.budgets = e.budgets
      /\ DOMAIN f.members = DOMAIN e.members
      /\ \A x \in DOMAIN e.members \ {r} : f.members[x] = e.members[x]
      /\ f.members[r].st = st
      /\ f.members[r].ord = ord
      /\ SameIdentity(f.members[r], e.members[r])
  BY DEF LeaseSet, Sized
<1>2. \A x \in DOMAIN e.members : SameIdentity(f.members[x], e.members[x])
  BY <1>1 DEF SameIdentity
<1>3. \A x \in DOMAIN e.members :
        /\ IsChild(f.members[x]) <=> IsChild(e.members[x])
        /\ Active(f.members[x]) => Active(e.members[x])
  BY <1>1, <1>2 DEF SameIdentity, IsChild, Active
<1>4. \A p : Family(f, p) = Family(e, p) /\ ChildrenOf(f, p) = ChildrenOf(e, p)
  BY <1>1, <1>2, <1>3 DEF SameIdentity, Family, ChildrenOf
<1>5. HeldRuns(f) \ {r} = HeldRuns(e) \ {r}
  BY <1>1 DEF HeldRuns
<1>6. r \in HeldRuns(f) => st \in {"Held", "Retiring"}
  BY <1>1 DEF HeldRuns, Occupies
<1>7. LeasesBounded(f)
  <2>1. CASE HeldRuns(f) \subseteq HeldRuns(e)
    <3>1. Cardinality(HeldRuns(f)) <= Cardinality(HeldRuns(e))
      BY <2>1, SizedFinite, FS_Subset
    <3>2. Cardinality(HeldRuns(e)) \in Nat /\ Cardinality(HeldRuns(f)) \in Nat
      BY SizedFinite, <1>1, FS_CardinalityType
    <3>. QED
      BY <3>1, <3>2, LeaseBookAssumption DEF LeasesBounded, Validate
  <2>2. CASE ~(HeldRuns(f) \subseteq HeldRuns(e))
    <3>1. r \in HeldRuns(f) /\ r \notin HeldRuns(e) /\ HeldRuns(f) = HeldRuns(e) \cup {r}
      BY <2>2, <1>5
    <3>2. Cardinality(HeldRuns(e)) < MaxLeases
      BY <3>1, <1>6
    <3>3. Cardinality(HeldRuns(f)) = Cardinality(HeldRuns(e)) + 1
      BY <3>1, SizedFinite, FS_AddElement
    <3>4. Cardinality(HeldRuns(e)) \in Nat
      BY SizedFinite, FS_CardinalityType
    <3>. QED
      BY <3>2, <3>3, <3>4, LeaseBookAssumption DEF LeasesBounded
  <2>. QED
    BY <2>1, <2>2
<1>8. FamiliesBounded(f)
  <2>1. Roots(f) \subseteq Roots(e)
    BY <1>1, <1>3 DEF Roots
  <2>2. Cardinality(Roots(f)) <= Cardinality(Roots(e))
    BY <2>1, SizedFinite, FS_Subset
  <2>3. Cardinality(Roots(f)) \in Nat /\ Cardinality(Roots(e)) \in Nat
    BY <1>1, SizedFinite, FS_CardinalityType
  <2>. QED
    BY <2>2, <2>3, LeaseBookAssumption DEF FamiliesBounded, Validate
<1>9. EntriesBounded(f)
  BY <1>1 DEF EntriesBounded, Validate
<1>10. OneFamilyPerProject(f)
  BY <1>1, <1>2, <1>3 DEF OneFamilyPerProject, Validate, SameIdentity
<1>11. WaitsOrdered(f)
  BY <1>1 DEF WaitsOrdered, Validate
<1>12. ParentsWellFormed(f)
  <2>. SUFFICES ASSUME NEW x \in DOMAIN e.members, ~IsChild(e.members[x])
                PROVE  /\ f.members[x].family = x
                       /\ f.members[x].snapshot = "None"
                       /\ ~f.members[x].isolated
                       /\ Active(f.members[x])
    BY <1>1, <1>3 DEF ParentsWellFormed
  <2>1. /\ e.members[x].family = x
        /\ e.members[x].snapshot = "None"
        /\ ~e.members[x].isolated
        /\ Active(e.members[x])
    BY DEF ParentsWellFormed, Validate
  <2>2. SameIdentity(f.members[x], e.members[x])
    BY <1>2
  <2>3. Active(f.members[x])
    BY <1>1, <2>1 DEF Active
  <2>. QED
    BY <2>1, <2>2, <2>3 DEF SameIdentity
<1>13. ChildrenWellFormed(f)
  <2>. SUFFICES ASSUME NEW x \in DOMAIN e.members, IsChild(e.members[x])
                PROVE  /\ f.members[x].family \in DOMAIN f.members
                       /\ f.members[x].family \in DOMAIN f.budgets
                       /\ ~IsChild(f.members[f.members[x].family])
                       /\ f.members[f.members[x].family].project = f.members[x].project
                       /\ SeparateWorktree(f, f.members[x].family, f.members[x])
                       /\ f.members[x].snapshot # "None"
                       /\ \A s \in ChildrenOf(f, f.members[x].family) :
                                f.members[s].snapshot = f.members[x].snapshot
    BY <1>1, <1>3 DEF ChildrenWellFormed
  <2>1. /\ e.members[x].family \in DOMAIN e.members
        /\ e.members[x].family \in DOMAIN e.budgets
        /\ ~IsChild(e.members[e.members[x].family])
        /\ e.members[e.members[x].family].project = e.members[x].project
        /\ SeparateWorktree(e, e.members[x].family, e.members[x])
        /\ e.members[x].snapshot # "None"
        /\ \A s \in ChildrenOf(e, e.members[x].family) :
                 e.members[s].snapshot = e.members[x].snapshot
    BY DEF ChildrenWellFormed, Validate
  <2>2. f.members[x].family = e.members[x].family
    BY <1>2 DEF SameIdentity
  <2>3. ChildrenOf(e, e.members[x].family) \subseteq DOMAIN e.members
    BY DEF ChildrenOf, Family
  <2>. QED
    BY <1>1, <1>2, <1>3, <1>4, <2>1, <2>2, <2>3 DEF SameIdentity, SeparateWorktree
<1>14. HoldersIsolated(f)
  <2>. SUFFICES ASSUME NEW x \in HeldRuns(f), IsChild(f.members[x]),
                       NEW y \in HeldRuns(f) \ {x},
                       f.members[y].family = f.members[x].family
                PROVE  MayRunTogether(f.members[x], f.members[y])
    BY DEF HoldersIsolated, Compatible
  <2>1. x \in DOMAIN e.members /\ y \in DOMAIN e.members
    BY <1>1 DEF HeldRuns
  <2>2. SameIdentity(f.members[x], e.members[x]) /\ SameIdentity(f.members[y], e.members[y])
    BY <2>1, <1>2
  <2>3. e.members[y].family = e.members[x].family /\ IsChild(e.members[x])
    BY <2>1, <2>2, <1>3 DEF SameIdentity
  <2>4. SUFFICES MayRunTogether(e.members[x], e.members[y])
    BY <2>2, MayRunTogetherByIdentity
  <2>5. CASE x \in HeldRuns(e) /\ y \in HeldRuns(e)
    BY <2>3, <2>5 DEF HoldersIsolated, Compatible, Validate
  <2>6. CASE x \notin HeldRuns(e)
    <3>1. x = r /\ y \in HeldRuns(e) \ {r}
      BY <2>6, <1>5
    <3>2. Compatible(e, r)
      BY <3>1, <2>6, <1>6
    <3>. QED
      BY <3>1, <3>2, <2>3 DEF Compatible
  <2>7. CASE y \notin HeldRuns(e)
    <3>1. y = r /\ x \in HeldRuns(e) \ {r}
      BY <2>7, <1>5
    <3>2. Compatible(e, r)
      BY <3>1, <2>7, <1>6
    <3>3. MayRunTogether(e.members[y], e.members[x])
      BY <3>1, <3>2, <2>3 DEF Compatible
    <3>. QED
      BY <3>3, MayRunTogetherSymmetric
  <2>. QED
    BY <2>5, <2>6, <2>7
<1>15. BudgetsWellFormed(f)
  BY <1>1, <1>3, <1>4 DEF BudgetsWellFormed, Validate
<1>. QED
  BY <1>7, <1>8, <1>9, <1>10, <1>11, <1>12, <1>13, <1>14, <1>15 DEF Validate

\* Two books with the same members differ in their budgets only.
LEMMA SameMembers ==
    ASSUME NEW e, NEW f, f.members = e.members
    PROVE  /\ HeldRuns(f) = HeldRuns(e)
           /\ Roots(f) = Roots(e)
           /\ \A p : ChildrenOf(f, p) = ChildrenOf(e, p)
           /\ LeasesBounded(f) <=> LeasesBounded(e)
           /\ FamiliesBounded(f) <=> FamiliesBounded(e)
           /\ EntriesBounded(f) <=> EntriesBounded(e)
           /\ OneFamilyPerProject(f) <=> OneFamilyPerProject(e)
           /\ WaitsOrdered(f) <=> WaitsOrdered(e)
           /\ ParentsWellFormed(f) <=> ParentsWellFormed(e)
           /\ HoldersIsolated(f) <=> HoldersIsolated(e)
<1>1. /\ HeldRuns(f) = HeldRuns(e)
      /\ Roots(f) = Roots(e)
      /\ \A p : ChildrenOf(f, p) = ChildrenOf(e, p)
  BY DEF HeldRuns, Roots, ChildrenOf, Family
<1>2. /\ OneFamilyPerProject(f) <=> OneFamilyPerProject(e)
      /\ WaitsOrdered(f) <=> WaitsOrdered(e)
      /\ ParentsWellFormed(f) <=> ParentsWellFormed(e)
  BY DEF OneFamilyPerProject, WaitsOrdered, ParentsWellFormed
<1>3. HoldersIsolated(f) <=> HoldersIsolated(e)
  BY <1>1 DEF HoldersIsolated, Compatible
<1>. QED
  BY <1>1, <1>2, <1>3 DEF LeasesBounded, FamiliesBounded, EntriesBounded

\* Consuming an invocation below the ceiling.
LEMMA SpentValid ==
    ASSUME NEW e, Sized(e), Validate(e), NEW p \in DOMAIN e.budgets,
           e.budgets[p].used < e.budgets[p].maximum,
           NEW f, Spent(e, f, p)
    PROVE  Validate(f)
<1>1. /\ Sized(f)
      /\ f.members = e.members
      /\ DOMAIN f.budgets = DOMAIN e.budgets
      /\ \A x \in DOMAIN e.budgets \ {p} : f.budgets[x] = e.budgets[x]
      /\ f.budgets[p].used = e.budgets[p].used + 1
      /\ f.budgets[p].maximum = e.budgets[p].maximum
      /\ f.budgets[p].workflow = e.budgets[p].workflow
  BY DEF Spent, Sized
<1>2. ChildrenWellFormed(f)
  BY <1>1, SameMembers DEF ChildrenWellFormed, SeparateWorktree, Validate
<1>3. BudgetsWellFormed(f)
  <2>. SUFFICES ASSUME NEW x \in DOMAIN e.budgets
                PROVE  /\ x \in DOMAIN f.members
                       /\ ~IsChild(f.members[x])
                       /\ f.budgets[x].used <= f.budgets[x].maximum
                       /\ f.budgets[x].maximum \in 1 .. WorkflowCeiling
                       /\ ~f.budgets[x].workflow => f.budgets[x].maximum = OrdinaryBudget
                       /\ Cardinality(ChildrenOf(f, x)) <= f.budgets[x].used
    BY <1>1 DEF BudgetsWellFormed
  <2>1. /\ x \in DOMAIN e.members
        /\ ~IsChild(e.members[x])
        /\ e.budgets[x].used <= e.budgets[x].maximum
        /\ e.budgets[x].maximum \in 1 .. WorkflowCeiling
        /\ ~e.budgets[x].workflow => e.budgets[x].maximum = OrdinaryBudget
        /\ Cardinality(ChildrenOf(e, x)) <= e.budgets[x].used
    BY DEF BudgetsWellFormed, Validate
  <2>2. ChildrenOf(f, x) = ChildrenOf(e, x)
    BY <1>1, SameMembers
  <2>3. e.budgets[x].used \in Nat /\ e.budgets[x].maximum \in Nat
    BY DEF Sized
  <2>4. Cardinality(ChildrenOf(e, x)) \in Nat
    BY SizedFinite, FS_CardinalityType
  <2>5. CASE x = p
    BY <1>1, <2>1, <2>2, <2>3, <2>4, <2>5
  <2>6. CASE x # p
    BY <1>1, <2>1, <2>2, <2>6
  <2>. QED
    BY <2>5, <2>6
<1>. QED
  BY <1>1, <1>2, <1>3, SameMembers DEF Validate

\* A new budget of a parent that has none, and therefore no children yet.
LEMMA BudgetAddedValid ==
    ASSUME NEW e, Sized(e), Validate(e),
           NEW p \in DOMAIN e.members \ DOMAIN e.budgets, ~IsChild(e.members[p]),
           NEW w \in BOOLEAN, NEW n \in 1 .. WorkflowCeiling, ~w => n = OrdinaryBudget,
           NEW f, BudgetAdded(e, f, p, w, n)
    PROVE  Validate(f)
<1>3. /\ f.members = e.members
      /\ DOMAIN f.budgets = DOMAIN e.budgets \cup {p}
      /\ \A x \in DOMAIN e.budgets : f.budgets[x] = e.budgets[x]
      /\ f.budgets[p].workflow = w /\ f.budgets[p].used = 0 /\ f.budgets[p].maximum = n
  BY DEF BudgetAdded
<1>4. ChildrenOf(e, p) = {}
  BY DEF ChildrenWellFormed, Validate, ChildrenOf, Family
<1>5. Cardinality(ChildrenOf(e, p)) = 0
  BY <1>4, FS_EmptySet
<1>6. ChildrenWellFormed(f)
  BY <1>3, SameMembers DEF ChildrenWellFormed, SeparateWorktree, Validate
<1>7. BudgetsWellFormed(f)
  <2>1. \A x \in DOMAIN e.budgets :
            /\ x \in DOMAIN f.members
            /\ ~IsChild(f.members[x])
            /\ f.budgets[x].used <= f.budgets[x].maximum
            /\ f.budgets[x].maximum \in 1 .. WorkflowCeiling
            /\ ~f.budgets[x].workflow => f.budgets[x].maximum = OrdinaryBudget
            /\ Cardinality(ChildrenOf(f, x)) <= f.budgets[x].used
    BY <1>3, SameMembers DEF BudgetsWellFormed, Validate
  <2>2. /\ p \in DOMAIN f.members
        /\ ~IsChild(f.members[p])
        /\ f.budgets[p].used <= f.budgets[p].maximum
        /\ f.budgets[p].maximum \in 1 .. WorkflowCeiling
        /\ ~f.budgets[p].workflow => f.budgets[p].maximum = OrdinaryBudget
        /\ Cardinality(ChildrenOf(f, p)) <= f.budgets[p].used
    BY <1>3, <1>5, SameMembers, LeaseBookAssumption
  <2>. QED
    BY <1>3, <2>1, <2>2 DEF BudgetsWellFormed
<1>. QED
  BY <1>3, <1>6, <1>7, SameMembers DEF Validate

\* A set of at most n elements can be numbered from 1 to n.
LEMMA Numbering ==
    ASSUME NEW S, IsFiniteSet(S), NEW n \in Nat, Cardinality(S) <= n
    PROVE  \E g \in [S -> 1 .. n] : \A a, b \in S : g[a] = g[b] => a = b
<1>1. Cardinality(S) \in Nat /\ ExistsBijection(1 .. Cardinality(S), S)
  BY FS_CardinalityType
<1>2. ExistsBijection(S, 1 .. Cardinality(S))
  BY <1>1, Fun_ExistsBijSymmetric
<1>3. PICK g \in Bijection(S, 1 .. Cardinality(S)) : TRUE
  BY <1>2 DEF ExistsBijection
<1>4. g \in [S -> 1 .. Cardinality(S)] /\ \A a, b \in S : g[a] = g[b] => a = b
  BY <1>3 DEF Bijection, Injection, IsInjective
<1>5. 1 .. Cardinality(S) \subseteq 1 .. n
  BY <1>1
<1>6. g \in [S -> 1 .. n]
  BY <1>4, <1>5
<1>. QED
  BY <1>4, <1>6

\* Every member belongs to one of the active families, and a family has at
\* most one parent and WorkflowCeiling children.
LEMMA EntriesCounted ==
    ASSUME NEW e, Sized(e), Validate(e)
    PROVE  Cardinality(DOMAIN e.members) <= Cardinality(Roots(e)) * (1 + WorkflowCeiling)
<1>1. \A p \in Roots(e) :
        \E g \in [ChildrenOf(e, p) -> 1 .. WorkflowCeiling] :
            \A a, b \in ChildrenOf(e, p) : g[a] = g[b] => a = b
  <2>. SUFFICES ASSUME NEW p \in Roots(e)
                PROVE  Cardinality(ChildrenOf(e, p)) <= WorkflowCeiling
    BY SizedFinite, Numbering, LeaseBookAssumption
  <2>1. CASE p \in DOMAIN e.budgets
    <3>1. /\ Cardinality(ChildrenOf(e, p)) <= e.budgets[p].used
          /\ e.budgets[p].used <= e.budgets[p].maximum
          /\ e.budgets[p].maximum \in 1 .. WorkflowCeiling
      BY <2>1 DEF BudgetsWellFormed, Validate
    <3>2. e.budgets[p].used \in Nat
      BY <2>1 DEF Sized
    <3>3. Cardinality(ChildrenOf(e, p)) \in Nat
      BY SizedFinite, FS_CardinalityType
    <3>. QED
      BY <3>1, <3>2, <3>3, LeaseBookAssumption
  <2>2. CASE p \notin DOMAIN e.budgets
    <3>1. ChildrenOf(e, p) = {}
      BY <2>2 DEF ChildrenWellFormed, Validate, ChildrenOf, Family
    <3>. QED
      BY <3>1, FS_EmptySet, LeaseBookAssumption
  <2>. QED
    BY <2>1, <2>2
<1>. DEFINE Numbers(p) == {g \in [ChildrenOf(e, p) -> 1 .. WorkflowCeiling] :
                            \A a, b \in ChildrenOf(e, p) : g[a] = g[b] => a = b}
            num == [p \in Roots(e) |-> CHOOSE g \in Numbers(p) : TRUE]
            place(x) == IF IsChild(e.members[x])
                        THEN num[e.members[x].family][x] ELSE 0
            slot == [x \in DOMAIN e.members |-> <<e.members[x].family, place(x)>>]
<1>2. \A p \in Roots(e) : num[p] \in Numbers(p)
  BY <1>1
<1>3. ASSUME NEW x \in DOMAIN e.members, ~IsChild(e.members[x])
      PROVE  x \in Roots(e) /\ e.members[x].family = x
  BY <1>3 DEF ParentsWellFormed, Validate, Roots
<1>4. ASSUME NEW x \in DOMAIN e.members, IsChild(e.members[x])
      PROVE  e.members[x].family \in Roots(e) /\ x \in ChildrenOf(e, e.members[x].family)
  <2>1. e.members[x].family \in DOMAIN e.members /\ ~IsChild(e.members[e.members[x].family])
    BY <1>4 DEF ChildrenWellFormed, Validate
  <2>. QED
    BY <1>4, <2>1, <1>3 DEF ChildrenOf, Family
<1>5. ASSUME NEW x \in DOMAIN e.members, IsChild(e.members[x])
      PROVE  num[e.members[x].family][x] \in 1 .. WorkflowCeiling
  BY <1>2, <1>4, <1>5
<1>p. \A x \in DOMAIN e.members :
        /\ IsChild(e.members[x]) => place(x) = num[e.members[x].family][x]
        /\ ~IsChild(e.members[x]) => place(x) = 0
  OBVIOUS
<1>. HIDE DEF num, place
<1>6. slot \in [DOMAIN e.members -> Roots(e) \X (0 .. WorkflowCeiling)]
  <2>. SUFFICES ASSUME NEW x \in DOMAIN e.members
                PROVE  e.members[x].family \in Roots(e) /\ place(x) \in 0 .. WorkflowCeiling
    OBVIOUS
  <2>1. CASE IsChild(e.members[x])
    BY <2>1, <1>4, <1>5, <1>p, LeaseBookAssumption
  <2>2. CASE ~IsChild(e.members[x])
    BY <2>2, <1>3, <1>p, LeaseBookAssumption
  <2>. QED
    BY <2>1, <2>2
<1>7. ASSUME NEW x \in DOMAIN e.members, NEW y \in DOMAIN e.members, slot[x] = slot[y]
      PROVE  x = y
  <2>1. e.members[x].family = e.members[y].family /\ place(x) = place(y)
    BY <1>7
  <2>2. CASE IsChild(e.members[x]) /\ IsChild(e.members[y])
    <3>. DEFINE p == e.members[x].family
    <3>1. p \in Roots(e) /\ x \in ChildrenOf(e, p) /\ y \in ChildrenOf(e, p)
      BY <2>1, <2>2, <1>4
    <3>2. num[p] \in Numbers(p)
      BY <3>1, <1>2
    <3>3. num[p][x] = num[p][y]
      BY <2>1, <2>2, <1>p
    <3>. QED
      BY <3>1, <3>2, <3>3
  <2>3. CASE ~IsChild(e.members[x]) /\ ~IsChild(e.members[y])
    BY <2>1, <2>3, <1>3
  <2>4. CASE IsChild(e.members[x]) /\ ~IsChild(e.members[y])
    BY <2>1, <2>4, <1>5, <1>p, LeaseBookAssumption
  <2>5. CASE ~IsChild(e.members[x]) /\ IsChild(e.members[y])
    BY <2>1, <2>5, <1>5, <1>p, LeaseBookAssumption
  <2>. QED
    BY <2>2, <2>3, <2>4, <2>5
<1>8. slot \in Injection(DOMAIN e.members, Roots(e) \X (0 .. WorkflowCeiling))
  <2>. HIDE DEF slot
  <2>. QED
    BY <1>6, <1>7, Fun_IsInj
<1>9. /\ IsFiniteSet(0 .. WorkflowCeiling)
      /\ Cardinality(0 .. WorkflowCeiling) = 1 + WorkflowCeiling
  BY FS_Interval, LeaseBookAssumption
<1>10. /\ IsFiniteSet(Roots(e) \X (0 .. WorkflowCeiling))
       /\ Cardinality(Roots(e) \X (0 .. WorkflowCeiling))
            = Cardinality(Roots(e)) * (1 + WorkflowCeiling)
  BY <1>9, SizedFinite, FS_Product
<1>. QED
  BY <1>8, <1>10, FS_Injection

\* A parent of a new project, while a lease and a family are free.
LEMMA ParentAddedValid ==
    ASSUME NEW e, Sized(e), Validate(e), NEW r, NEW q, AdmitParentOk(e, r, q),
           NEW m, m.family = r, m.project = q, m.role = "None", m.snapshot = "None",
           m.isolated = FALSE, m.st = "Held",
           NEW f, MemberAdded(e, f, r, m)
    PROVE  Validate(f)
<1>2. /\ m.family = r /\ m.project = q /\ m.snapshot = "None" /\ m.isolated = FALSE
      /\ m.st = "Held" /\ ~IsChild(m) /\ Active(m) /\ Occupies(m)
  BY DEF IsChild, Active, Occupies
<1>3. r \notin DOMAIN e.members
  BY DEF AdmitParentOk
<1>4. /\ Sized(f)
      /\ f.budgets = e.budgets
      /\ DOMAIN f.members = DOMAIN e.members \cup {r}
      /\ \A x \in DOMAIN e.members : f.members[x] = e.members[x]
      /\ f.members[r] = m
  BY FS_AddElement DEF MemberAdded, Sized
<1>5. HeldRuns(f) = HeldRuns(e) \cup {r} /\ r \notin HeldRuns(e)
  BY <1>2, <1>3, <1>4 DEF HeldRuns
<1>6. Roots(f) = Roots(e) \cup {r} /\ r \notin Roots(e)
  BY <1>2, <1>3, <1>4 DEF Roots
\* Nobody was a child of r before r was a member.
<1>7. \A x \in DOMAIN e.members : e.members[x].family # r
  BY <1>3 DEF Validate, ParentsWellFormed, ChildrenWellFormed
<1>8. \A p : ChildrenOf(f, p) = ChildrenOf(e, p)
  BY <1>2, <1>4 DEF ChildrenOf, Family
<1>9. LeasesBounded(f)
  <2>1. Cardinality(HeldRuns(f)) = Cardinality(HeldRuns(e)) + 1
    BY <1>5, SizedFinite, FS_AddElement
  <2>2. Cardinality(HeldRuns(e)) \in Nat
    BY SizedFinite, FS_CardinalityType
  <2>. QED
    BY <2>1, <2>2, LeaseBookAssumption DEF LeasesBounded, AdmitParentOk
<1>10. Cardinality(Roots(f)) = Cardinality(Roots(e)) + 1 /\ Cardinality(Roots(e)) \in Nat
  BY <1>6, SizedFinite, FS_AddElement, FS_CardinalityType
<1>11. FamiliesBounded(f)
  BY <1>10, LeaseBookAssumption DEF FamiliesBounded, AdmitParentOk
<1>12. EntriesBounded(f)
  <2>. DEFINE R == Cardinality(Roots(e))
              N == Cardinality(DOMAIN e.members)
              W == WorkflowCeiling
  <2>1. Cardinality(DOMAIN f.members) = N + 1
    BY <1>3, <1>4, SizedFinite, FS_AddElement
  <2>2. R \in Nat /\ N \in Nat /\ W \in Nat /\ MaxFamilies \in Nat
    BY SizedFinite, FS_CardinalityType, LeaseBookAssumption
  <2>3. N <= R * (1 + W)
    BY EntriesCounted
  <2>4. R + 1 <= MaxFamilies
    BY <2>2 DEF AdmitParentOk
  <2>. HIDE DEF R, N, W
  <2>5. (R + 1) * (1 + W) <= MaxFamilies * (1 + W)
    BY <2>2, <2>4
  <2>6. (R + 1) * (1 + W) = R * (1 + W) + (1 + W)
    BY <2>2
  <2>7. R * (1 + W) \in Nat /\ MaxFamilies * (1 + W) \in Nat
    BY <2>2
  <2>8. N + 1 <= MaxFamilies * (1 + W)
    BY <2>2, <2>3, <2>5, <2>6, <2>7
  <2>. QED
    BY <2>1, <2>8 DEF EntriesBounded, MaxEntries, W
<1>13. OneFamilyPerProject(f)
  <2>1. \A x \in DOMAIN e.members : Active(e.members[x]) => e.members[x].project # q
    BY DEF AdmitParentOk
  <2>. QED
    BY <1>2, <1>4, <2>1 DEF OneFamilyPerProject, Validate
<1>14. WaitsOrdered(f)
  BY <1>2, <1>4 DEF WaitsOrdered, Validate
<1>15. ParentsWellFormed(f)
  BY <1>2, <1>4 DEF ParentsWellFormed, Validate
<1>16. ChildrenWellFormed(f)
  <2>. SUFFICES ASSUME NEW x \in DOMAIN e.members, IsChild(e.members[x])
                PROVE  LET k == e.members[x]
                       IN  /\ k.family \in DOMAIN f.members
                           /\ k.family \in DOMAIN f.budgets
                           /\ ~IsChild(f.members[k.family])
                           /\ f.members[k.family].project = k.project
                           /\ SeparateWorktree(f, k.family, k)
                           /\ k.snapshot # "None"
                           /\ \A s \in ChildrenOf(f, k.family) :
                                    f.members[s].snapshot = k.snapshot
    BY <1>2, <1>4 DEF ChildrenWellFormed
  <2>1. /\ e.members[x].family \in DOMAIN e.members
        /\ e.members[x].family \in DOMAIN e.budgets
        /\ ~IsChild(e.members[e.members[x].family])
        /\ e.members[e.members[x].family].project = e.members[x].project
        /\ SeparateWorktree(e, e.members[x].family, e.members[x])
        /\ e.members[x].snapshot # "None"
        /\ \A s \in ChildrenOf(e, e.members[x].family) :
                 e.members[s].snapshot = e.members[x].snapshot
    BY DEF ChildrenWellFormed, Validate
  <2>2. ChildrenOf(e, e.members[x].family) \subseteq DOMAIN e.members
    BY DEF ChildrenOf, Family
  <2>. QED
    BY <1>4, <1>8, <2>1, <2>2 DEF SeparateWorktree
<1>17. HoldersIsolated(f)
  <2>. SUFFICES ASSUME NEW x \in HeldRuns(f), IsChild(f.members[x]),
                       NEW y \in HeldRuns(f) \ {x},
                       f.members[y].family = f.members[x].family
                PROVE  MayRunTogether(f.members[x], f.members[y])
    BY DEF HoldersIsolated, Compatible
  <2>1. x \in HeldRuns(e) /\ x \in DOMAIN e.members
    BY <1>2, <1>4, <1>5 DEF HeldRuns
  <2>2. y \in HeldRuns(e) /\ y \in DOMAIN e.members
    BY <1>2, <1>4, <1>5, <1>7, <2>1 DEF HeldRuns
  <2>. QED
    BY <1>4, <2>1, <2>2 DEF HoldersIsolated, Compatible, Validate
<1>18. BudgetsWellFormed(f)
  BY <1>4, <1>8 DEF BudgetsWellFormed, Validate
<1>. QED
  BY <1>9, <1>11, <1>12, <1>13, <1>14, <1>15, <1>16, <1>17, <1>18 DEF Validate

\* A waiting child of a parent whose budget has paid for it.
LEMMA ChildAddedValid ==
    ASSUME NEW e, Sized(e), Validate(e), NEW c, c \notin DOMAIN e.members,
           NEW p \in DOMAIN e.members, p \in DOMAIN e.budgets, ~IsChild(e.members[p]),
           Cardinality(ChildrenOf(e, p)) < e.budgets[p].used,
           Cardinality(DOMAIN e.members) < MaxEntries,
           NEW m, m.family = p, m.project = e.members[p].project,
           IsChild(m), m.snapshot # "None", SeparateWorktree(e, p, m),
           \A s \in ChildrenOf(e, p) : e.members[s].snapshot = m.snapshot,
           m.st = "Waiting", m.ord # 0,
           \A x \in DOMAIN e.members : e.members[x].st = "Waiting" => e.members[x].ord # m.ord,
           NEW f, MemberAdded(e, f, c, m)
    PROVE  Validate(f)
<1>1. /\ Sized(f)
      /\ f.budgets = e.budgets
      /\ DOMAIN f.members = DOMAIN e.members \cup {c}
      /\ \A x \in DOMAIN e.members : f.members[x] = e.members[x]
      /\ f.members[c] = m
  BY FS_AddElement DEF MemberAdded, Sized
<1>2. HeldRuns(f) = HeldRuns(e)
  BY <1>1 DEF HeldRuns, Occupies
<1>3. Roots(f) = Roots(e)
  BY <1>1 DEF Roots
<1>4. /\ ChildrenOf(f, p) = ChildrenOf(e, p) \cup {c}
      /\ \A x : x # p => ChildrenOf(f, x) = ChildrenOf(e, x)
      /\ c \notin ChildrenOf(e, p)
  BY <1>1 DEF ChildrenOf, Family
<1>5. Active(e.members[p]) /\ e.members[p].family = p
  BY DEF ParentsWellFormed, Validate
<1>6. LeasesBounded(f) /\ FamiliesBounded(f)
  BY <1>2, <1>3 DEF LeasesBounded, FamiliesBounded, Validate
<1>7. EntriesBounded(f)
  <2>1. /\ Cardinality(DOMAIN f.members) = Cardinality(DOMAIN e.members) + 1
        /\ Cardinality(DOMAIN e.members) \in Nat
    BY <1>1, SizedFinite, FS_AddElement, FS_CardinalityType
  <2>2. MaxEntries \in Nat
    BY LeaseBookAssumption DEF MaxEntries
  <2>. QED
    BY <2>1, <2>2 DEF EntriesBounded
<1>8. OneFamilyPerProject(f)
  BY <1>1, <1>5 DEF OneFamilyPerProject, Validate
<1>9. WaitsOrdered(f)
  BY <1>1 DEF WaitsOrdered, Validate
<1>10. ParentsWellFormed(f)
  BY <1>1 DEF ParentsWellFormed, Validate
<1>11. ChildrenWellFormed(f)
  <2>. SUFFICES ASSUME NEW x \in DOMAIN f.members, IsChild(f.members[x])
                PROVE  LET k == f.members[x]
                       IN  /\ k.family \in DOMAIN f.members
                           /\ k.family \in DOMAIN f.budgets
                           /\ ~IsChild(f.members[k.family])
                           /\ f.members[k.family].project = k.project
                           /\ SeparateWorktree(f, k.family, k)
                           /\ k.snapshot # "None"
                           /\ \A s \in ChildrenOf(f, k.family) :
                                    f.members[s].snapshot = k.snapshot
    BY DEF ChildrenWellFormed
  <2>1. CASE x = c
    <3>1. \A s \in ChildrenOf(f, p) : f.members[s].snapshot = m.snapshot
      BY <1>1, <1>4 DEF ChildrenOf, Family
    <3>. QED
      BY <1>1, <2>1, <3>1 DEF SeparateWorktree
  <2>2. CASE x # c
    <3>1. /\ x \in DOMAIN e.members
          /\ f.members[x] = e.members[x]
      BY <1>1, <2>2
    <3>2. /\ e.members[x].family \in DOMAIN e.members
          /\ e.members[x].family \in DOMAIN e.budgets
          /\ ~IsChild(e.members[e.members[x].family])
          /\ e.members[e.members[x].family].project = e.members[x].project
          /\ SeparateWorktree(e, e.members[x].family, e.members[x])
          /\ e.members[x].snapshot # "None"
          /\ \A s \in ChildrenOf(e, e.members[x].family) :
                   e.members[s].snapshot = e.members[x].snapshot
      BY <3>1 DEF ChildrenWellFormed, Validate
    <3>3. ChildrenOf(e, e.members[x].family) \subseteq DOMAIN e.members
      BY DEF ChildrenOf, Family
    <3>4. x \in ChildrenOf(e, e.members[x].family)
      BY <3>1 DEF ChildrenOf, Family
    <3>5. \A s \in ChildrenOf(f, e.members[x].family) :
                f.members[s].snapshot = e.members[x].snapshot
      BY <1>1, <1>4, <3>2, <3>3, <3>4
    <3>. QED
      BY <1>1, <3>1, <3>2, <3>5 DEF SeparateWorktree
  <2>. QED
    BY <2>1, <2>2
<1>12. HoldersIsolated(f)
  <2>1. HeldRuns(e) \subseteq DOMAIN e.members
    BY DEF HeldRuns
  <2>. QED
    BY <1>1, <1>2, <2>1 DEF HoldersIsolated, Compatible, Validate
<1>13. BudgetsWellFormed(f)
  <2>. SUFFICES ASSUME NEW x \in DOMAIN e.budgets
                PROVE  Cardinality(ChildrenOf(f, x)) <= e.budgets[x].used
    BY <1>1 DEF BudgetsWellFormed, Validate
  <2>1. CASE x = p
    <3>1. /\ Cardinality(ChildrenOf(f, p)) = Cardinality(ChildrenOf(e, p)) + 1
          /\ Cardinality(ChildrenOf(e, p)) \in Nat
      BY <1>4, SizedFinite, FS_AddElement, FS_CardinalityType
    <3>2. e.budgets[p].used \in Nat
      BY DEF Sized
    <3>. QED
      BY <2>1, <3>1, <3>2
  <2>2. CASE x # p
    BY <1>4, <2>2 DEF BudgetsWellFormed, Validate
  <2>. QED
    BY <2>1, <2>2
<1>. QED
  BY <1>6, <1>7, <1>8, <1>9, <1>10, <1>11, <1>12, <1>13 DEF Validate

\* Finishing a parent takes out a whole family and leaves the others alone.
LEMMA FamilyRemovedValid ==
    ASSUME NEW e, Sized(e), Validate(e), NEW r \in DOMAIN e.members,
           ~IsChild(e.members[r]), NEW f, FamilyRemoved(e, f, r)
    PROVE  Validate(f)
<1>1. /\ Sized(f)
      /\ DOMAIN f.members = DOMAIN e.members \ Family(e, r)
      /\ \A x \in DOMAIN f.members : f.members[x] = e.members[x]
      /\ DOMAIN f.budgets = DOMAIN e.budgets \ {r}
      /\ \A x \in DOMAIN f.budgets : f.budgets[x] = e.budgets[x]
  <2>1. IsFiniteSet(DOMAIN e.members \ Family(e, r))
    BY FS_Difference DEF Sized
  <2>. QED
    BY <2>1 DEF FamilyRemoved, Sized
<1>2. DOMAIN f.members \subseteq DOMAIN e.members
  BY <1>1
<1>3. \A x \in DOMAIN f.members : e.members[x].family # r
  BY <1>1 DEF Family
<1>4. \A x \in DOMAIN e.members :
        ~IsChild(e.members[x]) /\ x # r => x \in DOMAIN f.members
  BY <1>1 DEF Family, ParentsWellFormed, Validate
<1>5. \A p : p # r => ChildrenOf(f, p) = ChildrenOf(e, p)
  BY <1>1 DEF ChildrenOf, Family
<1>6. LeasesBounded(f)
  <2>1. HeldRuns(f) \subseteq HeldRuns(e)
    BY <1>1, <1>2 DEF HeldRuns
  <2>2. Cardinality(HeldRuns(f)) <= Cardinality(HeldRuns(e))
    BY <2>1, SizedFinite, FS_Subset
  <2>3. Cardinality(HeldRuns(f)) \in Nat /\ Cardinality(HeldRuns(e)) \in Nat
    BY <1>1, SizedFinite, FS_CardinalityType
  <2>. QED
    BY <2>2, <2>3, LeaseBookAssumption DEF LeasesBounded, Validate
<1>7. FamiliesBounded(f)
  <2>1. Roots(f) \subseteq Roots(e)
    BY <1>1, <1>2 DEF Roots
  <2>2. Cardinality(Roots(f)) <= Cardinality(Roots(e))
    BY <2>1, SizedFinite, FS_Subset
  <2>3. Cardinality(Roots(f)) \in Nat /\ Cardinality(Roots(e)) \in Nat
    BY <1>1, SizedFinite, FS_CardinalityType
  <2>. QED
    BY <2>2, <2>3, LeaseBookAssumption DEF FamiliesBounded, Validate
<1>8. EntriesBounded(f)
  <2>1. Cardinality(DOMAIN f.members) <= Cardinality(DOMAIN e.members)
    BY <1>2, SizedFinite, FS_Subset
  <2>2. Cardinality(DOMAIN f.members) \in Nat /\ Cardinality(DOMAIN e.members) \in Nat
    BY <1>1, SizedFinite, FS_CardinalityType
  <2>3. MaxEntries \in Nat
    BY LeaseBookAssumption DEF MaxEntries
  <2>. QED
    BY <2>1, <2>2, <2>3 DEF EntriesBounded, Validate
<1>9. OneFamilyPerProject(f) /\ WaitsOrdered(f) /\ ParentsWellFormed(f)
  BY <1>1, <1>2 DEF OneFamilyPerProject, WaitsOrdered, ParentsWellFormed, Validate
<1>10. ChildrenWellFormed(f)
  <2>. SUFFICES ASSUME NEW x \in DOMAIN f.members, IsChild(f.members[x])
                PROVE  LET k == f.members[x]
                       IN  /\ k.family \in DOMAIN f.members
                           /\ k.family \in DOMAIN f.budgets
                           /\ ~IsChild(f.members[k.family])
                           /\ f.members[k.family].project = k.project
                           /\ SeparateWorktree(f, k.family, k)
                           /\ k.snapshot # "None"
                           /\ \A s \in ChildrenOf(f, k.family) :
                                    f.members[s].snapshot = k.snapshot
    BY DEF ChildrenWellFormed
  <2>1. x \in DOMAIN e.members /\ f.members[x] = e.members[x] /\ e.members[x].family # r
    BY <1>1, <1>3
  <2>2. /\ e.members[x].family \in DOMAIN e.members
        /\ e.members[x].family \in DOMAIN e.budgets
        /\ ~IsChild(e.members[e.members[x].family])
        /\ e.members[e.members[x].family].project = e.members[x].project
        /\ SeparateWorktree(e, e.members[x].family, e.members[x])
        /\ e.members[x].snapshot # "None"
        /\ \A s \in ChildrenOf(e, e.members[x].family) :
                 e.members[s].snapshot = e.members[x].snapshot
    BY <2>1 DEF ChildrenWellFormed, Validate
  <2>3. e.members[x].family \in DOMAIN f.members
    BY <2>1, <2>2, <1>4
  <2>4. ChildrenOf(f, e.members[x].family) \subseteq DOMAIN f.members
    BY DEF ChildrenOf, Family
  <2>. QED
    BY <1>1, <1>5, <2>1, <2>2, <2>3, <2>4 DEF SeparateWorktree
<1>11. HoldersIsolated(f)
  <2>1. /\ HeldRuns(f) \subseteq HeldRuns(e)
        /\ HeldRuns(f) \subseteq DOMAIN f.members
    BY <1>1, <1>2 DEF HeldRuns
  <2>. QED
    BY <1>1, <2>1 DEF HoldersIsolated, Compatible, Validate
<1>12. BudgetsWellFormed(f)
  BY <1>1, <1>4, <1>5 DEF BudgetsWellFormed, Validate
<1>. QED
  BY <1>6, <1>7, <1>8, <1>9, <1>10, <1>11, <1>12 DEF Validate

\* The book of a new process.
LEMMA EmptyBookValid == Validate(EmptyBook)
<1>1. DOMAIN EmptyBook.members = {} /\ DOMAIN EmptyBook.budgets = {}
  BY DEF EmptyBook
<1>2. HeldRuns(EmptyBook) = {} /\ Roots(EmptyBook) = {}
  BY <1>1 DEF HeldRuns, Roots
<1>3. MaxEntries >= 0
  BY LeaseBookAssumption DEF MaxEntries
<1>4. LeasesBounded(EmptyBook) /\ FamiliesBounded(EmptyBook) /\ EntriesBounded(EmptyBook)
  BY <1>1, <1>2, <1>3, FS_EmptySet, LeaseBookAssumption
  DEF LeasesBounded, FamiliesBounded, EntriesBounded
<1>. QED
  BY <1>1, <1>2, <1>4
  DEF Validate, OneFamilyPerProject, WaitsOrdered, ParentsWellFormed,
      ChildrenWellFormed, HoldersIsolated, BudgetsWellFormed
=============================================================================
