-------------------------- MODULE ModelLeases_proofs --------------------------
(***************************************************************************)
(* Proofs about ModelLeases, for every number of leases and families, every *)
(* budget and any finite set of runs.                                       *)
(***************************************************************************)
EXTENDS ModelLeases, LeaseBook_proofs

\* The shape of a book, without the bound on its positions.
Book(e) ==
    /\ DOMAIN e = {"members", "budgets"}
    /\ DOMAIN e.members \subseteq Runs
    /\ e.members \in [DOMAIN e.members -> MemberRecord]
    /\ DOMAIN e.budgets \subseteq Runs
    /\ e.budgets \in [DOMAIN e.budgets -> BudgetRecord]

-----------------------------------------------------------------------------
(* What the three ways of changing an entry leave behind *)

\* SetLease changes the execution state of one member and nothing else.
LEMMA SetLeaseShape ==
    ASSUME NEW e, Book(e), NEW r \in DOMAIN e.members,
           NEW st \in LeaseStates, NEW ord \in Nat
    PROVE  LET f == SetLease(e, r, st, ord)
           IN  /\ Book(f)
               /\ f.budgets = e.budgets
               /\ DOMAIN f.members = DOMAIN e.members
               /\ \A x \in DOMAIN e.members \ {r} : f.members[x] = e.members[x]
               /\ f.members[r].st = st
               /\ f.members[r].ord = ord
               /\ SameIdentity(f.members[r], e.members[r])
<1>1. e.members[r] \in MemberRecord
  BY DEF Book
<1>2. [e.members[r] EXCEPT !.st = st, !.ord = ord] \in MemberRecord
  BY <1>1 DEF MemberRecord
<1>. QED
  BY <1>1, <1>2 DEF Book, SetLease, MemberRecord, SameIdentity

\* AddMember adds one member, which was not there, and keeps the others.
LEMMA AddMemberShape ==
    ASSUME NEW e, Book(e), NEW r \in Runs \ DOMAIN e.members, NEW m \in MemberRecord
    PROVE  LET f == AddMember(e, r, m)
           IN  /\ Book(f)
               /\ f.budgets = e.budgets
               /\ DOMAIN f.members = DOMAIN e.members \cup {r}
               /\ \A x \in DOMAIN e.members : f.members[x] = e.members[x]
               /\ f.members[r] = m
  BY DEF Book, AddMember

\* AddBudget adds the budget of one parent and keeps the others.
LEMMA AddBudgetShape ==
    ASSUME NEW e, Book(e), NEW p \in Runs \ DOMAIN e.budgets, NEW b \in BudgetRecord
    PROVE  LET f == AddBudget(e, p, b)
           IN  /\ Book(f)
               /\ f.members = e.members
               /\ DOMAIN f.budgets = DOMAIN e.budgets \cup {p}
               /\ \A x \in DOMAIN e.budgets : f.budgets[x] = e.budgets[x]
               /\ f.budgets[p] = b
  BY DEF Book, AddBudget

\* ReserveChildMessage consumes one invocation of one budget.
LEMMA SpendShape ==
    ASSUME NEW e, Book(e), NEW p \in DOMAIN e.budgets
    PROVE  LET f == ReserveChildMessageTo(e, p)
           IN  /\ Book(f)
               /\ f.members = e.members
               /\ DOMAIN f.budgets = DOMAIN e.budgets
               /\ \A x \in DOMAIN e.budgets \ {p} : f.budgets[x] = e.budgets[x]
               /\ f.budgets[p].used = e.budgets[p].used + 1
               /\ f.budgets[p].maximum = e.budgets[p].maximum
               /\ f.budgets[p].workflow = e.budgets[p].workflow
<1>1. e.budgets[p] \in BudgetRecord
  BY DEF Book
<1>2. [e.budgets[p] EXCEPT !.used = @ + 1] \in BudgetRecord
  BY <1>1 DEF BudgetRecord
<1>. QED
  BY <1>1, <1>2 DEF Book, ReserveChildMessageTo, BudgetRecord

\* Finishing a parent removes its family and its budget only.
LEMMA FinishParentShape ==
    ASSUME NEW e, Book(e), NEW r \in DOMAIN e.members, ~IsChild(e.members[r])
    PROVE  LET f == FinishTo(e, r)
           IN  /\ Book(f)
               /\ DOMAIN f.members = DOMAIN e.members \ Family(e, r)
               /\ \A x \in DOMAIN f.members : f.members[x] = e.members[x]
               /\ DOMAIN f.budgets = DOMAIN e.budgets \ {r}
               /\ \A x \in DOMAIN f.budgets : f.budgets[x] = e.budgets[x]
  BY DEF Book, FinishTo

-----------------------------------------------------------------------------
(* Type correctness *)

\* The type invariant says in particular that ex is a book.
LEMMA TypeIsBook == LeasesTypeOK => Book(ex)
  BY DEF LeasesTypeOK, Book

\* The empty book a fresh queue starts with has its type.
LEMMA InitTypeOK == LeasesInit => LeasesTypeOK
  BY DEF LeasesInit, LeasesTypeOK, EmptyBook

\* Every step keeps the type invariant.
LEMMA NextTypeOK == LeasesTypeOK /\ [LeasesNext]_vars => LeasesTypeOK'
<1>. SUFFICES ASSUME LeasesTypeOK, [LeasesNext]_vars PROVE LeasesTypeOK'
  OBVIOUS
<1>b. Book(ex)
  BY TypeIsBook
<1>n. nextOrdinal \in Nat \ {0}
  BY DEF LeasesTypeOK
<1>m. \A r \in DOMAIN ex.members : ex.members[r] \in MemberRecord
  BY <1>b DEF Book
\* A step that leaves a book whose positions are below the counter.
<1>s. ASSUME Book(ex'), nextOrdinal' \in Nat \ {0},
             \A r \in DOMAIN ex'.members :
                /\ ex'.members[r].ord < nextOrdinal'
                /\ ex'.members[r].st = "Waiting" <=> ex'.members[r].ord # 0
      PROVE  LeasesTypeOK'
  BY <1>s DEF LeasesTypeOK, Book
\* The same for a step that changes the lease of one member.
<1>l. ASSUME NEW r \in DOMAIN ex.members, NEW st \in LeaseStates, NEW ord \in Nat,
             ex' = SetLease(ex, r, st, ord),
             nextOrdinal' \in Nat, nextOrdinal' >= nextOrdinal, ord < nextOrdinal',
             st = "Waiting" <=> ord # 0
      PROVE  LeasesTypeOK'
  <2>1. /\ Book(ex')
        /\ DOMAIN ex'.members = DOMAIN ex.members
        /\ \A x \in DOMAIN ex.members \ {r} : ex'.members[x] = ex.members[x]
        /\ ex'.members[r].st = st
        /\ ex'.members[r].ord = ord
    BY <1>b, <1>l, SetLeaseShape
  <2>3. \A x \in DOMAIN ex.members \ {r} :
            /\ ex'.members[x].ord < nextOrdinal'
            /\ ex'.members[x].st = "Waiting" <=> ex'.members[x].ord # 0
    BY <2>1, <1>m, <1>l, <1>n DEF LeasesTypeOK, MemberRecord
  <2>. QED
    BY <2>1, <2>3, <1>s, <1>l, <1>n
<1>1. ASSUME NEW r \in Runs, NEW p \in Projects, NEW w \in Workspaces,
             AdmitParent(r, p, w)
      PROVE  LeasesTypeOK'
  <2>. DEFINE m == [family |-> r, project |-> p, workspace |-> w, role |-> "None",
                    snapshot |-> "None", isolated |-> FALSE, st |-> "Held", ord |-> 0]
  <2>1. m \in MemberRecord
    BY DEF MemberRecord, LeaseStates
  <2>2. ex' = AddMember(ex, r, m) /\ r \notin DOMAIN ex.members /\ nextOrdinal' = nextOrdinal
    BY <1>1 DEF AdmitParent, AdmitParentOk, AdmitParentTo
  <2>3. m.ord = 0 /\ m.st = "Held"
    OBVIOUS
  <2>. HIDE DEF m
  <2>4. /\ Book(ex')
        /\ DOMAIN ex'.members = DOMAIN ex.members \cup {r}
        /\ \A x \in DOMAIN ex.members : ex'.members[x] = ex.members[x]
        /\ ex'.members[r] = m
    BY <1>b, <2>1, <2>2, AddMemberShape
  <2>. QED
    BY <2>2, <2>3, <2>4, <1>s, <1>n, <1>m DEF LeasesTypeOK
<1>2. ASSUME NEW r \in Runs, NEW f \in BOOLEAN, NEW n \in 1 .. WorkflowCeiling,
             ConfigureFamily(r, f, n)
      PROVE  LeasesTypeOK'
  <2>. DEFINE b == [workflow |-> f, used |-> 0, maximum |-> n]
  <2>1. b \in BudgetRecord
    BY LeaseBookAssumption DEF BudgetRecord
  <2>2. ex' = AddBudget(ex, r, b) /\ r \notin DOMAIN ex.budgets /\ nextOrdinal' = nextOrdinal
    BY <1>2 DEF ConfigureFamily, ConfigureFamilyOk, ConfigureFamilyTo
  <2>. HIDE DEF b
  <2>3. Book(ex') /\ ex'.members = ex.members
    BY <1>b, <2>1, <2>2, AddBudgetShape
  <2>. QED
    BY <2>2, <2>3, <1>s, <1>n DEF LeasesTypeOK
<1>3. ASSUME NEW r \in Runs, NEW c \in Runs, NEW a \in Admissions, AdmitChild(r, c, a)
      PROVE  LeasesTypeOK'
  <2>. DEFINE m == ChildMember(r, ex.members[r].project, a, nextOrdinal)
              e == ReserveChildMessageTo(ex, r)
  <2>1. /\ r \in DOMAIN ex.members
        /\ r \in DOMAIN ex.budgets
        /\ c \notin DOMAIN ex.members
        /\ ex' = AddMember(e, c, m)
        /\ nextOrdinal' = nextOrdinal + 1
    BY <1>3 DEF AdmitChild, AdmitChildOk, AdmitChildTo, ReserveChildMessageTo, TakeOrdinal
  <2>2. m \in MemberRecord /\ m.ord = nextOrdinal /\ m.st = "Waiting"
    BY <2>1, <1>m, <1>n DEF ChildMember, MemberRecord, Admissions, LeaseStates
  <2>3. Book(e) /\ e.members = ex.members
    BY <1>b, <2>1, SpendShape
  <2>. HIDE DEF m, e
  <2>4. /\ Book(ex')
        /\ DOMAIN ex'.members = DOMAIN ex.members \cup {c}
        /\ \A x \in DOMAIN ex.members : ex'.members[x] = ex.members[x]
        /\ ex'.members[c] = m
    BY <2>1, <2>2, <2>3, AddMemberShape
  <2>5. \A x \in DOMAIN ex.members :
            /\ ex.members[x].ord < nextOrdinal + 1
            /\ ex.members[x].st = "Waiting" <=> ex.members[x].ord # 0
    BY <1>m, <1>n DEF LeasesTypeOK, MemberRecord
  <2>. QED
    BY <2>1, <2>2, <2>4, <2>5, <1>s, <1>n
<1>4. ASSUME NEW r \in Runs, NEW c \in Runs, ReserveChildMessage(r, c)
      PROVE  LeasesTypeOK'
  <2>1. r \in DOMAIN ex.budgets /\ ex' = ReserveChildMessageTo(ex, r) /\ nextOrdinal' = nextOrdinal
    BY <1>4 DEF ReserveChildMessage, ReserveChildMessageOk
  <2>2. Book(ex') /\ ex'.members = ex.members
    BY <1>b, <2>1, SpendShape
  <2>. QED
    BY <2>1, <2>2, <1>s, <1>n DEF LeasesTypeOK
<1>5. ASSUME NEW r \in Runs, YieldParent(r) PROVE LeasesTypeOK'
  BY <1>5, <1>l, <1>n DEF YieldParent, YieldParentOk, YieldParentTo, LeaseStates
<1>6. ASSUME NEW r \in Runs, RequestResume(r) PROVE LeasesTypeOK'
  BY <1>6, <1>l, <1>n
  DEF RequestResume, RequestResumeOk, RequestResumeTo, TakeOrdinal, LeaseStates
<1>7. ASSUME NEW r \in Runs, NEW top, TryAcquire(r, top) PROVE LeasesTypeOK'
  BY <1>7, <1>l, <1>n DEF TryAcquire, TryAcquireOk, TryAcquireTo, LeaseStates
<1>8. ASSUME NEW r \in Runs, Retire(r) PROVE LeasesTypeOK'
  BY <1>8, <1>l, <1>n DEF Retire, RetireOk, RetireTo, LeaseStates
<1>9. ASSUME NEW r \in Runs, Finish(r) PROVE LeasesTypeOK'
  <2>1. r \in DOMAIN ex.members /\ ex' = FinishTo(ex, r) /\ nextOrdinal' = nextOrdinal
    BY <1>9 DEF Finish, FinishOk
  <2>2. CASE IsChild(ex.members[r])
    BY <2>1, <2>2, <1>l, <1>n DEF FinishTo, LeaseStates
  <2>3. CASE ~IsChild(ex.members[r])
    <3>1. /\ Book(ex')
          /\ DOMAIN ex'.members \subseteq DOMAIN ex.members
          /\ \A x \in DOMAIN ex'.members : ex'.members[x] = ex.members[x]
      BY <1>b, <2>1, <2>3, FinishParentShape
    <3>. QED
      BY <2>1, <3>1, <1>s, <1>n DEF LeasesTypeOK
  <2>. QED
    BY <2>2, <2>3
<1>10. ASSUME RecoverInterrupted PROVE LeasesTypeOK'
  BY <1>10, <1>n DEF RecoverInterrupted, RecoverInterruptedTo, EmptyBook, LeasesTypeOK
<1>11. CASE OtherPosition
  BY <1>11, <1>b, <1>s, <1>n, <1>m DEF OtherPosition, TakeOrdinal, LeasesTypeOK, MemberRecord
<1>12. CASE UNCHANGED vars
  BY <1>12 DEF vars, LeasesTypeOK
<1>. QED
  BY <1>1, <1>2, <1>3, <1>4, <1>5, <1>6, <1>7, <1>8, <1>9, <1>10, <1>11, <1>12
  DEF LeasesNext

\* Type correctness of the execution book under every method of
\* plus_execution.rs.
THEOREM LeasesTypeCorrect == LeasesSpec => []LeasesTypeOK
  BY InitTypeOK, NextTypeOK, PTL DEF LeasesSpec

-----------------------------------------------------------------------------
(* What each way of changing the book does to validate() *)

\* Everything validate() counts is finite.
LEMMA BookFinite ==
    ASSUME NEW e, Book(e)
    PROVE  /\ IsFiniteSet(DOMAIN e.members)
           /\ IsFiniteSet(HeldRuns(e))
           /\ IsFiniteSet(Roots(e))
           /\ \A p : IsFiniteSet(ChildrenOf(e, p))
<1>1. IsFiniteSet(DOMAIN e.members)
  BY ModelLeasesAssumption, FS_Subset DEF Book
<1>2. /\ HeldRuns(e) \subseteq DOMAIN e.members
      /\ Roots(e) \subseteq DOMAIN e.members
      /\ \A p : ChildrenOf(e, p) \subseteq DOMAIN e.members
  BY DEF HeldRuns, Roots, ChildrenOf, Family
<1>. QED
  BY <1>1, <1>2, FS_Subset

\* A book has finitely many members and its budgets are numbers.
LEMMA BookSized == ASSUME NEW e, Book(e) PROVE Sized(e)
  BY BookFinite DEF Book, BudgetRecord, Sized

\* A change of one lease keeps a valid book valid when the position is new,
\* only children become terminal, nothing terminal comes back, and a member
\* that starts to hold a lease finds one free and tolerant holders.
LEMMA SetLeaseValid ==
    ASSUME NEW e, Book(e), Validate(e), NEW r \in DOMAIN e.members,
           NEW st \in LeaseStates, NEW ord \in Nat,
           NEW f, f = SetLease(e, r, st, ord),
           st = "Waiting" =>
                /\ ord # 0
                /\ \A x \in DOMAIN e.members :
                        e.members[x].st = "Waiting" => e.members[x].ord # ord,
           st = "Terminal" => IsChild(e.members[r]),
           st # "Terminal" => Active(e.members[r]),
           st \in {"Held", "Retiring"} =>
                \/ r \in HeldRuns(e)
                \/ Cardinality(HeldRuns(e)) < MaxLeases /\ Compatible(e, r)
    PROVE  Validate(f)
<1>1. LeaseSet(e, f, r, st, ord)
  BY SetLeaseShape DEF LeaseSet
<1>. QED
  BY <1>1, BookSized, LeaseSetValid

\* Consuming an invocation below the ceiling.
LEMMA SpendValid ==
    ASSUME NEW e, Book(e), Validate(e), NEW p \in DOMAIN e.budgets,
           e.budgets[p].used < e.budgets[p].maximum,
           NEW f, f = ReserveChildMessageTo(e, p)
    PROVE  Validate(f)
<1>1. Spent(e, f, p)
  BY SpendShape DEF Spent
<1>. QED
  BY <1>1, BookSized, SpentValid

\* A new budget of a parent that has none, and therefore no children yet.
LEMMA AddBudgetValid ==
    ASSUME NEW e, Book(e), Validate(e),
           NEW p \in DOMAIN e.members \ DOMAIN e.budgets, ~IsChild(e.members[p]),
           NEW w \in BOOLEAN, NEW n \in 1 .. WorkflowCeiling, ~w => n = OrdinaryBudget,
           NEW f, f = AddBudget(e, p, [workflow |-> w, used |-> 0, maximum |-> n])
    PROVE  Validate(f)
<1>. DEFINE b == [workflow |-> w, used |-> 0, maximum |-> n]
<1>1. b \in BudgetRecord /\ b.workflow = w /\ b.used = 0 /\ b.maximum = n
  BY LeaseBookAssumption DEF BudgetRecord
<1>2. p \in Runs \ DOMAIN e.budgets
  BY DEF Book
<1>. HIDE DEF b
<1>3. BudgetAdded(e, f, p, w, n)
  BY <1>1, <1>2, AddBudgetShape DEF b, BudgetAdded
<1>. QED
  BY <1>3, BookSized, BudgetAddedValid

\* A parent of a new project, while a lease and a family are free.
LEMMA AdmitParentValid ==
    ASSUME NEW e, Book(e), Validate(e), NEW r \in Runs, NEW q \in Projects,
           NEW w \in Workspaces, AdmitParentOk(e, r, q),
           NEW f, f = AdmitParentTo(e, r, q, w)
    PROVE  Validate(f)
<1>. DEFINE m == [family |-> r, project |-> q, workspace |-> w, role |-> "None",
                  snapshot |-> "None", isolated |-> FALSE, st |-> "Held", ord |-> 0]
<1>1. m \in MemberRecord
  BY DEF MemberRecord, LeaseStates
<1>2. /\ m.family = r /\ m.project = q /\ m.role = "None" /\ m.snapshot = "None"
      /\ m.isolated = FALSE /\ m.st = "Held"
  OBVIOUS
<1>3. f = AddMember(e, r, m) /\ r \notin DOMAIN e.members
  BY DEF AdmitParentOk, AdmitParentTo
<1>. HIDE DEF m
<1>4. MemberAdded(e, f, r, m)
  BY <1>1, <1>3, AddMemberShape DEF MemberAdded
<1>. QED
  BY <1>2, <1>4, BookSized, ParentAddedValid

\* A waiting child of a parent whose budget has paid for it.
LEMMA AddChildValid ==
    ASSUME NEW e, Book(e), Validate(e), NEW c \in Runs \ DOMAIN e.members,
           NEW p \in DOMAIN e.members, p \in DOMAIN e.budgets, ~IsChild(e.members[p]),
           Cardinality(ChildrenOf(e, p)) < e.budgets[p].used,
           Cardinality(DOMAIN e.members) < MaxEntries,
           NEW m \in MemberRecord, m.family = p, m.project = e.members[p].project,
           IsChild(m), m.snapshot # "None", SeparateWorktree(e, p, m),
           \A s \in ChildrenOf(e, p) : e.members[s].snapshot = m.snapshot,
           m.st = "Waiting", m.ord # 0,
           \A x \in DOMAIN e.members : e.members[x].st = "Waiting" => e.members[x].ord # m.ord,
           NEW f, f = AddMember(e, c, m)
    PROVE  Validate(f)
<1>1. MemberAdded(e, f, c, m)
  BY AddMemberShape DEF MemberAdded
<1>. QED
  BY <1>1, BookSized, ChildAddedValid

\* Finishing a parent takes out a whole family and leaves the others alone.
LEMMA FinishParentValid ==
    ASSUME NEW e, Book(e), Validate(e), NEW r \in DOMAIN e.members,
           ~IsChild(e.members[r]), NEW f, f = FinishTo(e, r)
    PROVE  Validate(f)
<1>1. FamilyRemoved(e, f, r)
  BY FinishParentShape DEF FamilyRemoved
<1>. QED
  BY <1>1, BookSized, FamilyRemovedValid

-----------------------------------------------------------------------------
(* validate() is an invariant of the guards *)

\* The inductive invariant.  Validate alone is not inductive: that a new
\* position is fresh rests on the counter, which only the type invariant
\* relates to the book.
LeasesInv == LeasesTypeOK /\ Validate(ex)

\* Every method keeps the book valid by its guards alone, given that the
\* positions in the book lie below the counter.
LEMMA NextValid == LeasesInv /\ [LeasesNext]_vars => Validate(ex')
<1>. SUFFICES ASSUME LeasesTypeOK, Validate(ex), [LeasesNext]_vars PROVE Validate(ex')
  BY DEF LeasesInv
<1>b. Book(ex)
  BY TypeIsBook
<1>n. nextOrdinal \in Nat \ {0}
  BY DEF LeasesTypeOK
\* A position just taken from the counter is held by nobody.
<1>o. \A x \in DOMAIN ex.members : ex.members[x].ord # nextOrdinal
  <2>1. \A x \in DOMAIN ex.members : ex.members[x].ord < nextOrdinal /\ ex.members[x].ord \in Nat
    BY <1>b DEF LeasesTypeOK, Book, MemberRecord
  <2>. QED
    BY <2>1, <1>n
<1>1. ASSUME NEW r \in Runs, NEW p \in Projects, NEW w \in Workspaces,
             AdmitParent(r, p, w)
      PROVE  Validate(ex')
  BY <1>1, <1>b, AdmitParentValid DEF AdmitParent
<1>2. ASSUME NEW r \in Runs, NEW w \in BOOLEAN, NEW n \in 1 .. WorkflowCeiling,
             ConfigureFamily(r, w, n)
      PROVE  Validate(ex')
  BY <1>2, <1>b, AddBudgetValid DEF ConfigureFamily, ConfigureFamilyOk, ConfigureFamilyTo
<1>3. ASSUME NEW r \in Runs, NEW c \in Runs, NEW a \in Admissions, AdmitChild(r, c, a)
      PROVE  Validate(ex')
  <2>. DEFINE m == ChildMember(r, ex.members[r].project, a, nextOrdinal)
              e == ReserveChildMessageTo(ex, r)
  <2>1. /\ r \in DOMAIN ex.members
        /\ AdmitChildOk(ex, r, c, m, nextOrdinal)
        /\ SeparateWorktree(ex, r, m)
        /\ ex' = AddMember(e, c, m)
    BY <1>3 DEF AdmitChild, AdmitChildTo, ReserveChildMessageTo
  <2>2. m \in MemberRecord /\ m.ord = nextOrdinal /\ m.st = "Waiting"
    BY <2>1, <1>b, <1>n DEF Book, ChildMember, MemberRecord, Admissions, LeaseStates
  <2>. HIDE DEF m
  <2>3. /\ r \in DOMAIN ex.budgets
        /\ ~IsChild(ex.members[r])
        /\ ex.budgets[r].used < ex.budgets[r].maximum
        /\ Cardinality(DOMAIN ex.members) < MaxEntries
        /\ m.family = r
        /\ m.project = ex.members[r].project
        /\ IsChild(m)
        /\ m.snapshot # "None"
        /\ c \notin DOMAIN ex.members
        /\ \A s \in ChildrenOf(ex, r) : ex.members[s].snapshot = m.snapshot
    BY <2>1 DEF AdmitChildOk
  <2>4. Book(e) /\ e.members = ex.members /\ r \in DOMAIN e.budgets
        /\ e.budgets[r].used = ex.budgets[r].used + 1
    BY <1>b, <2>3, SpendShape
  <2>5. Validate(e)
    BY <1>b, <2>3, SpendValid
  <2>6. Cardinality(ChildrenOf(e, r)) < e.budgets[r].used
    <3>1. Cardinality(ChildrenOf(ex, r)) <= ex.budgets[r].used
      BY <2>3 DEF Validate, BudgetsWellFormed
    <3>2. Cardinality(ChildrenOf(ex, r)) \in Nat /\ ex.budgets[r].used \in Nat
      BY <1>b, <2>3, BookFinite, FS_CardinalityType DEF Book, BudgetRecord
    <3>3. ChildrenOf(e, r) = ChildrenOf(ex, r)
      BY <2>4, SameMembers
    <3>. QED
      BY <2>4, <3>1, <3>2, <3>3
  <2>7. SeparateWorktree(e, r, m) /\ ChildrenOf(e, r) = ChildrenOf(ex, r)
    BY <2>1, <2>4, SameMembers DEF SeparateWorktree
  <2>8. \A x \in DOMAIN e.members : e.members[x].st = "Waiting" => e.members[x].ord # m.ord
    BY <2>2, <2>4, <1>o
  <2>. HIDE DEF e
  <2>. QED
    BY <2>1, <2>2, <2>3, <2>4, <2>5, <2>6, <2>7, <2>8, <1>n, AddChildValid
<1>4. ASSUME NEW r \in Runs, NEW c \in Runs, ReserveChildMessage(r, c)
      PROVE  Validate(ex')
  BY <1>4, <1>b, SpendValid DEF ReserveChildMessage, ReserveChildMessageOk
<1>5. ASSUME NEW r \in Runs, YieldParent(r) PROVE Validate(ex')
  BY <1>5, <1>b, SetLeaseValid DEF YieldParent, YieldParentOk, YieldParentTo, LeaseStates, Active
<1>6. ASSUME NEW r \in Runs, RequestResume(r) PROVE Validate(ex')
  BY <1>6, <1>b, <1>n, <1>o, SetLeaseValid
  DEF RequestResume, RequestResumeOk, RequestResumeTo, LeaseStates, Active
<1>7. ASSUME NEW r \in Runs, NEW top, TryAcquire(r, top) PROVE Validate(ex')
  BY <1>7, <1>b, SetLeaseValid
  DEF TryAcquire, TryAcquireOk, TryAcquireTo, Eligible, LeaseStates, Active
<1>8. ASSUME NEW r \in Runs, Retire(r) PROVE Validate(ex')
  BY <1>8, <1>b, SetLeaseValid
  DEF Retire, RetireOk, RetireTo, LeaseStates, Active, HeldRuns, Occupies
<1>9. ASSUME NEW r \in Runs, Finish(r) PROVE Validate(ex')
  <2>1. r \in DOMAIN ex.members /\ ex' = FinishTo(ex, r)
    BY <1>9 DEF Finish, FinishOk
  <2>2. CASE IsChild(ex.members[r])
    BY <2>1, <2>2, <1>b, SetLeaseValid DEF FinishTo, LeaseStates
  <2>3. CASE ~IsChild(ex.members[r])
    BY <2>1, <2>3, <1>b, FinishParentValid
  <2>. QED
    BY <2>2, <2>3
<1>10. ASSUME RecoverInterrupted PROVE Validate(ex')
  BY <1>10, EmptyBookValid DEF RecoverInterrupted, RecoverInterruptedTo
<1>11. CASE OtherPosition
  BY <1>11 DEF OtherPosition
<1>12. CASE UNCHANGED vars
  BY <1>12 DEF vars
<1>. QED
  BY <1>1, <1>2, <1>3, <1>4, <1>5, <1>6, <1>7, <1>8, <1>9, <1>10, <1>11, <1>12
  DEF LeasesNext

\* The inductive invariant: a valid book with the type of a book.
LEMMA LeasesInvariant == LeasesSpec => []LeasesInv
<1>1. LeasesInit => LeasesInv
  BY InitTypeOK, EmptyBookValid DEF LeasesInv, LeasesInit
<1>2. LeasesInv /\ [LeasesNext]_vars => LeasesInv'
  BY NextTypeOK, NextValid DEF LeasesInv
<1>. QED
  BY <1>1, <1>2, PTL DEF LeasesSpec

\* For every number of leases and families and every budget, the guards of
\* the methods of plus_execution.rs alone keep the book valid: never more
\* holders than leases, never two families on a project, never two holders
\* of one family in one worktree, never more children than were paid for.
\* The validate() that ends every method refuses nothing.
THEOREM ValidationInvariant == LeasesSpec => []ValidationNeverRefuses
<1>1. LeasesInv => ValidationNeverRefuses
  BY DEF LeasesInv, ValidationNeverRefuses
<1>. QED
  BY <1>1, LeasesInvariant, PTL

-----------------------------------------------------------------------------
(* What a step may never do *)

\* The children of a family that two books agree on.
LEMMA SameChildren ==
    ASSUME NEW e, Book(e), NEW f, Book(f), NEW p,
           ChildrenOf(f, p) = ChildrenOf(e, p), f.budgets[p] = e.budgets[p],
           p \in DOMAIN e.budgets
    PROVE  /\ f.budgets[p].maximum = e.budgets[p].maximum
           /\ f.budgets[p].used >= e.budgets[p].used
           /\ Cardinality(ChildrenOf(f, p)) - Cardinality(ChildrenOf(e, p))
                <= f.budgets[p].used - e.budgets[p].used
<1>1. Cardinality(ChildrenOf(e, p)) \in Nat
  BY BookFinite, FS_CardinalityType
<1>2. e.budgets[p].used \in Nat
  BY DEF Book, BudgetRecord
<1>. QED
  BY <1>1, <1>2

\* The consumption of a family, as a relation between two books.
Charged(e, f, p) ==
    /\ f.budgets[p].maximum = e.budgets[p].maximum
    /\ f.budgets[p].used >= e.budgets[p].used
    /\ Cardinality(ChildrenOf(f, p)) - Cardinality(ChildrenOf(e, p))
            <= f.budgets[p].used - e.budgets[p].used

\* No step lowers the consumption of a family or admits a child unpaid.
LEMMA NextCharged ==
    LeasesInv /\ [LeasesNext]_vars =>
        \A p \in DOMAIN ex.budgets \cap DOMAIN ex'.budgets : Charged(ex, ex', p)
<1>. SUFFICES ASSUME LeasesTypeOK, Validate(ex), [LeasesNext]_vars,
                     NEW p \in DOMAIN ex.budgets, p \in DOMAIN ex'.budgets
              PROVE  Charged(ex, ex', p)
  BY DEF LeasesInv
<1>b. Book(ex)
  BY TypeIsBook
<1>c. Book(ex')
  BY NextTypeOK DEF LeasesTypeOK, Book
<1>s. ASSUME ChildrenOf(ex', p) = ChildrenOf(ex, p), ex'.budgets[p] = ex.budgets[p]
      PROVE  Charged(ex, ex', p)
  BY <1>b, <1>c, <1>s, SameChildren DEF Charged
<1>l. ASSUME NEW r \in DOMAIN ex.members, NEW st \in LeaseStates, NEW ord \in Nat,
             ex' = SetLease(ex, r, st, ord)
      PROVE  Charged(ex, ex', p)
  <2>1. /\ ex'.budgets = ex.budgets
        /\ DOMAIN ex'.members = DOMAIN ex.members
        /\ \A x \in DOMAIN ex.members \ {r} : ex'.members[x] = ex.members[x]
        /\ SameIdentity(ex'.members[r], ex.members[r])
    BY <1>b, <1>l, SetLeaseShape
  <2>2. ChildrenOf(ex', p) = ChildrenOf(ex, p)
    BY <2>1 DEF ChildrenOf, Family, SameIdentity, IsChild
  <2>. QED
    BY <2>1, <2>2, <1>s
<1>u. Cardinality(ChildrenOf(ex, p)) \in Nat /\ ex.budgets[p].used \in Nat
  BY <1>b, BookFinite, FS_CardinalityType DEF Book, BudgetRecord
<1>1. ASSUME NEW r \in Runs, NEW q \in Projects, NEW w \in Workspaces,
             AdmitParent(r, q, w)
      PROVE  Charged(ex, ex', p)
  <2>. DEFINE m == [family |-> r, project |-> q, workspace |-> w, role |-> "None",
                    snapshot |-> "None", isolated |-> FALSE, st |-> "Held", ord |-> 0]
  <2>1. m \in MemberRecord /\ ~IsChild(m)
    BY DEF MemberRecord, LeaseStates, IsChild
  <2>2. ex' = AddMember(ex, r, m) /\ r \notin DOMAIN ex.members
    BY <1>1 DEF AdmitParent, AdmitParentOk, AdmitParentTo
  <2>. HIDE DEF m
  <2>3. /\ ex'.budgets = ex.budgets
        /\ DOMAIN ex'.members = DOMAIN ex.members \cup {r}
        /\ \A x \in DOMAIN ex.members : ex'.members[x] = ex.members[x]
        /\ ex'.members[r] = m
    BY <1>b, <2>1, <2>2, AddMemberShape
  <2>4. ChildrenOf(ex', p) = ChildrenOf(ex, p)
    BY <2>1, <2>3 DEF ChildrenOf, Family
  <2>. QED
    BY <2>3, <2>4, <1>s
<1>2. ASSUME NEW r \in Runs, NEW w \in BOOLEAN, NEW n \in 1 .. WorkflowCeiling,
             ConfigureFamily(r, w, n)
      PROVE  Charged(ex, ex', p)
  <2>. DEFINE b == [workflow |-> w, used |-> 0, maximum |-> n]
  <2>1. b \in BudgetRecord
    BY LeaseBookAssumption DEF BudgetRecord
  <2>2. ex' = AddBudget(ex, r, b) /\ r \notin DOMAIN ex.budgets
    BY <1>2 DEF ConfigureFamily, ConfigureFamilyOk, ConfigureFamilyTo
  <2>. HIDE DEF b
  <2>3. ex'.members = ex.members /\ ex'.budgets[p] = ex.budgets[p]
    BY <1>b, <2>1, <2>2, AddBudgetShape
  <2>. QED
    BY <2>3, <1>s, SameMembers
<1>3. ASSUME NEW r \in Runs, NEW c \in Runs, NEW a \in Admissions, AdmitChild(r, c, a)
      PROVE  Charged(ex, ex', p)
  <2>. DEFINE m == ChildMember(r, ex.members[r].project, a, nextOrdinal)
              e == ReserveChildMessageTo(ex, r)
  <2>1. /\ r \in DOMAIN ex.members
        /\ r \in DOMAIN ex.budgets
        /\ c \notin DOMAIN ex.members
        /\ m.family = r
        /\ IsChild(m)
        /\ ex' = AddMember(e, c, m)
    BY <1>3 DEF AdmitChild, AdmitChildOk, AdmitChildTo, ReserveChildMessageTo
  <2>2. m \in MemberRecord
    BY <2>1, <1>b DEF Book, LeasesTypeOK, ChildMember, MemberRecord, Admissions, LeaseStates
  <2>3. /\ Book(e)
        /\ e.members = ex.members
        /\ \A x \in DOMAIN ex.budgets \ {r} : e.budgets[x] = ex.budgets[x]
        /\ e.budgets[r].used = ex.budgets[r].used + 1
        /\ e.budgets[r].maximum = ex.budgets[r].maximum
    BY <1>b, <2>1, SpendShape
  <2>. HIDE DEF m, e
  <2>4. /\ ex'.budgets = e.budgets
        /\ DOMAIN ex'.members = DOMAIN ex.members \cup {c}
        /\ \A x \in DOMAIN ex.members : ex'.members[x] = ex.members[x]
        /\ ex'.members[c] = m
    BY <2>1, <2>2, <2>3, AddMemberShape
  <2>5. CASE p = r
    <3>1. ChildrenOf(ex', p) = ChildrenOf(ex, p) \cup {c} /\ c \notin ChildrenOf(ex, p)
      BY <2>1, <2>4, <2>5 DEF ChildrenOf, Family
    <3>2. Cardinality(ChildrenOf(ex', p)) = Cardinality(ChildrenOf(ex, p)) + 1
      BY <3>1, <1>b, BookFinite, FS_AddElement
    <3>. QED
      BY <2>3, <2>4, <2>5, <3>2, <1>u DEF Charged
  <2>6. CASE p # r
    <3>1. ChildrenOf(ex', p) = ChildrenOf(ex, p)
      BY <2>1, <2>4, <2>6 DEF ChildrenOf, Family
    <3>. QED
      BY <2>3, <2>4, <2>6, <3>1, <1>s
  <2>. QED
    BY <2>5, <2>6
<1>4. ASSUME NEW r \in Runs, NEW c \in Runs, ReserveChildMessage(r, c)
      PROVE  Charged(ex, ex', p)
  <2>1. r \in DOMAIN ex.budgets /\ ex' = ReserveChildMessageTo(ex, r)
    BY <1>4 DEF ReserveChildMessage, ReserveChildMessageOk
  <2>2. /\ ex'.members = ex.members
        /\ \A x \in DOMAIN ex.budgets \ {r} : ex'.budgets[x] = ex.budgets[x]
        /\ ex'.budgets[r].used = ex.budgets[r].used + 1
        /\ ex'.budgets[r].maximum = ex.budgets[r].maximum
    BY <1>b, <2>1, SpendShape
  <2>3. ChildrenOf(ex', p) = ChildrenOf(ex, p)
    BY <2>2, SameMembers
  <2>4. CASE p = r
    BY <2>2, <2>3, <2>4, <1>u DEF Charged
  <2>5. CASE p # r
    BY <2>2, <2>3, <2>5, <1>s
  <2>. QED
    BY <2>4, <2>5
<1>5. ASSUME NEW r \in Runs, YieldParent(r) PROVE Charged(ex, ex', p)
  BY <1>5, <1>l DEF YieldParent, YieldParentOk, YieldParentTo, LeaseStates
<1>6. ASSUME NEW r \in Runs, RequestResume(r) PROVE Charged(ex, ex', p)
  BY <1>6, <1>l DEF RequestResume, RequestResumeOk, RequestResumeTo, LeaseStates, LeasesTypeOK
<1>7. ASSUME NEW r \in Runs, NEW top, TryAcquire(r, top) PROVE Charged(ex, ex', p)
  BY <1>7, <1>l DEF TryAcquire, TryAcquireOk, TryAcquireTo, LeaseStates
<1>8. ASSUME NEW r \in Runs, Retire(r) PROVE Charged(ex, ex', p)
  BY <1>8, <1>l DEF Retire, RetireOk, RetireTo, LeaseStates
<1>9. ASSUME NEW r \in Runs, Finish(r) PROVE Charged(ex, ex', p)
  <2>1. r \in DOMAIN ex.members /\ ex' = FinishTo(ex, r)
    BY <1>9 DEF Finish, FinishOk
  <2>2. CASE IsChild(ex.members[r])
    BY <2>1, <2>2, <1>l DEF FinishTo, LeaseStates
  <2>3. CASE ~IsChild(ex.members[r])
    <3>1. /\ DOMAIN ex'.members = DOMAIN ex.members \ Family(ex, r)
          /\ \A x \in DOMAIN ex'.members : ex'.members[x] = ex.members[x]
          /\ p # r
          /\ ex'.budgets[p] = ex.budgets[p]
      BY <1>b, <2>1, <2>3, FinishParentShape
    <3>2. ChildrenOf(ex', p) = ChildrenOf(ex, p)
      BY <3>1 DEF ChildrenOf, Family
    <3>. QED
      BY <3>1, <3>2, <1>s
  <2>. QED
    BY <2>2, <2>3
<1>10. ~RecoverInterrupted
  BY DEF RecoverInterrupted, RecoverInterruptedTo, EmptyBook
<1>11. CASE OtherPosition
  BY <1>11, <1>s DEF OtherPosition
<1>12. CASE UNCHANGED vars
  BY <1>12, <1>s DEF vars
<1>. QED
  BY <1>1, <1>2, <1>3, <1>4, <1>5, <1>6, <1>7, <1>8, <1>9, <1>10, <1>11, <1>12
  DEF LeasesNext

\* As long as a family lives its ceiling is fixed, what it has consumed never
\* goes back, and every child admitted to it was paid for.
THEOREM BudgetsOnlyGrow == LeasesSpec => BudgetNeverResets
<1>1. LeasesInv /\ [LeasesNext]_vars =>
        [\A p \in DOMAIN ex.budgets \cap DOMAIN ex'.budgets :
            /\ ex'.budgets[p].maximum = ex.budgets[p].maximum
            /\ ex'.budgets[p].used >= ex.budgets[p].used
            /\ Cardinality(ChildrenOf(ex', p)) - Cardinality(ChildrenOf(ex, p))
                    <= ex'.budgets[p].used - ex.budgets[p].used]_vars
  BY NextCharged DEF Charged
<1>. QED
  BY <1>1, LeasesInvariant, PTL DEF LeasesSpec, BudgetNeverResets

\* What a step other than a restart leaves of a child.
Kept(e, f, r) ==
    IsChild(e.members[r]) =>
        IF Active(e.members[r])
        THEN r \in DOMAIN f.members
        ELSE r \in DOMAIN f.members => ~Active(f.members[r])

\* No step but a restart drops an active child or revives a finished one.
LEMMA NextKeepsChildren ==
    LeasesInv /\ [LeasesNext]_vars =>
        RecoverInterrupted \/ \A r \in DOMAIN ex.members : Kept(ex, ex', r)
<1>. SUFFICES ASSUME LeasesTypeOK, Validate(ex), [LeasesNext]_vars,
                     NEW k \in DOMAIN ex.members, ~RecoverInterrupted
              PROVE  Kept(ex, ex', k)
  BY DEF LeasesInv
<1>b. Book(ex)
  BY TypeIsBook
<1>s. ASSUME k \in DOMAIN ex'.members, ex'.members[k] = ex.members[k]
      PROVE  Kept(ex, ex', k)
  BY <1>s DEF Kept
\* No lease of a finished child is changed to an active one.
<1>l. ASSUME NEW r \in DOMAIN ex.members, NEW st \in LeaseStates, NEW ord \in Nat,
             ex' = SetLease(ex, r, st, ord), Active(ex.members[r]) \/ st = "Terminal"
      PROVE  Kept(ex, ex', k)
  <2>1. /\ DOMAIN ex'.members = DOMAIN ex.members
        /\ \A x \in DOMAIN ex.members \ {r} : ex'.members[x] = ex.members[x]
        /\ ex'.members[r].st = st
    BY <1>b, <1>l, SetLeaseShape
  <2>2. CASE k = r
    BY <2>1, <2>2, <1>l DEF Kept, Active
  <2>3. CASE k # r
    BY <2>1, <2>3, <1>s
  <2>. QED
    BY <2>2, <2>3
<1>1. ASSUME NEW r \in Runs, NEW q \in Projects, NEW w \in Workspaces,
             AdmitParent(r, q, w)
      PROVE  Kept(ex, ex', k)
  <2>. DEFINE m == [family |-> r, project |-> q, workspace |-> w, role |-> "None",
                    snapshot |-> "None", isolated |-> FALSE, st |-> "Held", ord |-> 0]
  <2>1. m \in MemberRecord
    BY DEF MemberRecord, LeaseStates
  <2>2. ex' = AddMember(ex, r, m) /\ r \notin DOMAIN ex.members
    BY <1>1 DEF AdmitParent, AdmitParentOk, AdmitParentTo
  <2>. HIDE DEF m
  <2>. QED
    BY <1>b, <1>s, <2>1, <2>2, AddMemberShape
<1>2. ASSUME NEW r \in Runs, NEW w \in BOOLEAN, NEW n \in 1 .. WorkflowCeiling,
             ConfigureFamily(r, w, n)
      PROVE  Kept(ex, ex', k)
  <2>. DEFINE b == [workflow |-> w, used |-> 0, maximum |-> n]
  <2>1. b \in BudgetRecord
    BY LeaseBookAssumption DEF BudgetRecord
  <2>2. ex' = AddBudget(ex, r, b) /\ r \notin DOMAIN ex.budgets
    BY <1>2 DEF ConfigureFamily, ConfigureFamilyOk, ConfigureFamilyTo
  <2>. HIDE DEF b
  <2>. QED
    BY <1>b, <1>s, <2>1, <2>2, AddBudgetShape
<1>3. ASSUME NEW r \in Runs, NEW c \in Runs, NEW a \in Admissions, AdmitChild(r, c, a)
      PROVE  Kept(ex, ex', k)
  <2>. DEFINE m == ChildMember(r, ex.members[r].project, a, nextOrdinal)
              e == ReserveChildMessageTo(ex, r)
  <2>1. /\ r \in DOMAIN ex.members
        /\ r \in DOMAIN ex.budgets
        /\ c \notin DOMAIN ex.members
        /\ ex' = AddMember(e, c, m)
    BY <1>3 DEF AdmitChild, AdmitChildOk, AdmitChildTo, ReserveChildMessageTo
  <2>2. m \in MemberRecord
    BY <2>1, <1>b DEF Book, LeasesTypeOK, ChildMember, MemberRecord, Admissions, LeaseStates
  <2>3. Book(e) /\ e.members = ex.members
    BY <1>b, <2>1, SpendShape
  <2>. HIDE DEF m, e
  <2>. QED
    BY <1>s, <2>1, <2>2, <2>3, AddMemberShape
<1>4. ASSUME NEW r \in Runs, NEW c \in Runs, ReserveChildMessage(r, c)
      PROVE  Kept(ex, ex', k)
  BY <1>4, <1>b, <1>s, SpendShape DEF ReserveChildMessage, ReserveChildMessageOk
<1>5. ASSUME NEW r \in Runs, YieldParent(r) PROVE Kept(ex, ex', k)
  BY <1>5, <1>l DEF YieldParent, YieldParentOk, YieldParentTo, LeaseStates, Active
<1>6. ASSUME NEW r \in Runs, RequestResume(r) PROVE Kept(ex, ex', k)
  BY <1>6, <1>l
  DEF RequestResume, RequestResumeOk, RequestResumeTo, LeaseStates, Active, LeasesTypeOK
<1>7. ASSUME NEW r \in Runs, NEW top, TryAcquire(r, top) PROVE Kept(ex, ex', k)
  BY <1>7, <1>l DEF TryAcquire, TryAcquireOk, TryAcquireTo, LeaseStates, Active
<1>8. ASSUME NEW r \in Runs, Retire(r) PROVE Kept(ex, ex', k)
  BY <1>8, <1>l DEF Retire, RetireOk, RetireTo, LeaseStates, Active
<1>9. ASSUME NEW r \in Runs, Finish(r) PROVE Kept(ex, ex', k)
  <2>1. r \in DOMAIN ex.members /\ ex' = FinishTo(ex, r) /\ FinishOk(ex, r, TRUE)
    BY <1>9 DEF Finish, FinishOk
  <2>2. CASE IsChild(ex.members[r])
    BY <2>1, <2>2, <1>l DEF FinishTo, LeaseStates
  <2>3. CASE ~IsChild(ex.members[r])
    <3>1. /\ DOMAIN ex'.members = DOMAIN ex.members \ Family(ex, r)
          /\ \A x \in DOMAIN ex'.members : ex'.members[x] = ex.members[x]
      BY <1>b, <2>1, <2>3, FinishParentShape
    <3>2. \A x \in Family(ex, r) \ {r} : ~Active(ex.members[x])
      BY <2>1, <2>3 DEF FinishOk
    <3>3. CASE k \in DOMAIN ex'.members
      BY <3>1, <3>3, <1>s
    <3>4. CASE k \notin DOMAIN ex'.members
      BY <3>1, <3>2, <3>4, <2>3 DEF Kept
    <3>. QED
      BY <3>3, <3>4
  <2>. QED
    BY <2>2, <2>3
<1>10. CASE OtherPosition
  BY <1>10, <1>s DEF OtherPosition
<1>11. CASE UNCHANGED vars
  BY <1>11, <1>s DEF vars
<1>. QED
  BY <1>1, <1>2, <1>3, <1>4, <1>5, <1>6, <1>7, <1>8, <1>9, <1>10, <1>11 DEF LeasesNext

\* finish() never takes an active child out of the book together with its
\* parent, and no method brings a finished child back.
THEOREM ActiveChildrenKept == LeasesSpec => NoActiveChildDropped
<1>1. LeasesInv /\ [LeasesNext]_vars =>
        [RecoverInterrupted \/
            \A r \in DOMAIN ex.members : IsChild(ex.members[r]) =>
                IF Active(ex.members[r])
                THEN r \in DOMAIN ex'.members
                ELSE r \in DOMAIN ex'.members => ~Active(ex'.members[r])]_vars
  BY NextKeepsChildren DEF Kept
<1>. QED
  BY <1>1, LeasesInvariant, PTL DEF LeasesSpec, NoActiveChildDropped
=============================================================================
