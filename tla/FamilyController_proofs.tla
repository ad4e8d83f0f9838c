----------------------- MODULE FamilyController_proofs -----------------------
(***************************************************************************)
(* The family controller keeps the book valid, keeps model capacity until  *)
(* its processes are gone, and completes its parent unless something went  *)
(* wrong.  The first half shows that each operation on a family leaves a   *)
(* book that validate_book() accepts; PromptQueue has no need of that,     *)
(* because its mutate() asks validate_book() first.                        *)
(***************************************************************************)
EXTENDS FamilyController, QueueBook_proofs, WellFoundedInduction

-----------------------------------------------------------------------------
(* The book of one parent *)

\* The invocations that continue c.
Successors(b, c) == {d \in DOMAIN b.children : b.children[d].predecessor = c}

\* The invocations of one agent form one chain: an agent is named by an
\* invocation, and only one of its invocations has no successor.
Chained(b) ==
    /\ \A c \in DOMAIN b.children : b.children[c].agent < b.nextOrdinal
    /\ \A c, d \in DOMAIN b.children :
        /\ b.children[c].agent = b.children[d].agent
        /\ Successors(b, c) = {}
        /\ Successors(b, d) = {}
        => c = d

\* The message of the parent, its run and its children are all there is.
OneParent(b) ==
    /\ DOMAIN b.items = {Root}
    /\ DOMAIN b.runs = {Root}
    /\ DOMAIN b.steers = {}
    /\ b.removeAfterStop = {}

FamilyBook(b) == Good(b, Roles) /\ OneParent(b) /\ Chained(b)

-----------------------------------------------------------------------------
(* Operations that leave every record in place *)

\* The messages stay, and a run may only be asked to stop.
RunsKept(b, n) ==
    /\ n.items = b.items /\ n.steers = b.steers
    /\ n.removeAfterStop = b.removeAfterStop
    /\ n.nextOrdinal \in Nat /\ b.nextOrdinal <= n.nextOrdinal
    /\ DOMAIN n.runs = DOMAIN b.runs
    /\ ActiveRuns(n) = ActiveRuns(b)
    /\ \A r \in DOMAIN b.runs :
        /\ n.runs[r].project = b.runs[r].project
        /\ n.runs[r].transport = b.runs[r].transport
        /\ n.runs[r].state \in {b.runs[r].state, "StopRequested"}

\* A child keeps its identity, and what has ended stays ended.
ChildKept(old, new) ==
    /\ new.parent = old.parent /\ new.project = old.project
    /\ new.agent = old.agent /\ new.role = old.role
    /\ new.isolated = old.isolated /\ new.transport = old.transport
    /\ new.predecessor = old.predecessor
    /\ new.state \in ActiveChildStates => old.state \in ActiveChildStates
    /\ new.state = "Interrupted" => old.state = "Interrupted"
    /\ new.state = "NeedsReview" \/ new.reviewPending => new.role = "Worker"

ChildrenKept(b, n) ==
    /\ DOMAIN n.children = DOMAIN b.children
    /\ \A c \in DOMAIN b.children : ChildKept(b.children[c], n.children[c])

\* A member keeps its identity and waits at its old position or at a new one.
MembersKept(b, n) ==
    /\ DOMAIN n.ex.members = DOMAIN b.ex.members
    /\ \A x \in DOMAIN b.ex.members :
        /\ SameIdentity(n.ex.members[x], b.ex.members[x])
        /\ n.ex.members[x].st = "Waiting" =>
            \/ b.ex.members[x].st = "Waiting" /\ n.ex.members[x].ord = b.ex.members[x].ord
            \/ n.ex.members[x].ord = b.nextOrdinal /\ b.nextOrdinal < n.nextOrdinal

\* The lease of a child follows its record.
LeasesFollow(n) ==
    \A c \in DOMAIN n.children \cap DOMAIN n.ex.members :
        n.ex.members[c].st \in ChildLeaseStates(n.children[c].state)

BookStep(b, n) ==
    /\ RunsKept(b, n)
    /\ ChildrenKept(b, n)
    /\ MembersKept(b, n)
    /\ LeasesFollow(n)
    /\ Validate(n.ex)

\* The messages and runs stay valid.
LEMMA RunsKeptValid ==
    ASSUME NEW b, NEW roles, Good(b, roles), NEW n, RunsKept(b, n)
    PROVE  /\ CountsValid(n)
           /\ ItemsValid(n)
           /\ SteeringValid(n)
           /\ RunsValid(n)
           /\ ItemRunStates(n)
<1>1. b.nextOrdinal \in Nat \ {0} /\ \A r \in DOMAIN b.runs : b.runs[r] \in RunRecord
  BY GoodFacts
<1>2. /\ CountsValid(b) /\ ItemsValid(b) /\ SteeringValid(b)
      /\ RunsValid(b) /\ ItemRunStates(b)
  BY DEF Good, ValidateBook
<1>3. CountsValid(n)
  BY <1>1, <1>2 DEF RunsKept, CountsValid, PendingSteers
<1>4. ItemsValid(n)
  <2>1. \A o \in DOMAIN n.items : o \in 1 .. n.nextOrdinal - 1
    BY <1>1, <1>2 DEF RunsKept, ItemsValid
  <2>. QED
    BY <1>2, <2>1 DEF RunsKept, ItemsValid, Queued, IsChat
<1>5. SteeringValid(n)
  <2>1. \A o \in DOMAIN n.steers : o \in 1 .. n.nextOrdinal - 1
    BY <1>1, <1>2 DEF RunsKept, SteeringValid
  <2>. QED
    BY <1>2, <2>1 DEF RunsKept, SteeringValid
<1>6. RunsValid(n)
  <2>1. ActiveRuns(b) \subseteq DOMAIN b.runs
    BY DEF ActiveRuns
  <2>2. ActiveProjects(n) = ActiveProjects(b)
    BY <2>1 DEF ActiveProjects, RunsKept
  <2>. QED
    BY <1>2, <2>1, <2>2 DEF RunsKept, RunsValid
<1>7. ItemRunStates(n)
  <2>1. \A o \in DOMAIN b.runs \ ActiveRuns(b) : n.runs[o].state = b.runs[o].state
    BY DEF RunsKept, ActiveRuns, ActiveRunStates
  <2>. QED
    BY <1>2, <2>1 DEF RunsKept, ItemRunStates
<1>. QED
  BY <1>3, <1>4, <1>5, <1>6, <1>7

\* Such an operation leaves a valid book.
LEMMA BookStepValid ==
    ASSUME NEW b, NEW roles, Good(b, roles), NEW n, BookStep(b, n)
    PROVE  /\ ValidateBook(n)
           /\ ActiveChildren(n) \subseteq ActiveChildren(b)
<1>1. /\ RunsKept(b, n) /\ ChildrenKept(b, n) /\ MembersKept(b, n)
      /\ LeasesFollow(n) /\ Validate(n.ex)
  BY DEF BookStep
<1>2. /\ CountsValid(n) /\ ItemsValid(n) /\ SteeringValid(n)
      /\ RunsValid(n) /\ ItemRunStates(n)
  BY <1>1, RunsKeptValid
<1>3. /\ ChildrenValid(b) /\ BindingsValid(b)
  BY DEF Good, ValidateBook
<1>4. ActiveChildren(n) \subseteq ActiveChildren(b)
  BY <1>1 DEF ActiveChildren, ChildrenKept, ChildKept
<1>5. \A c \in DOMAIN b.children : ChildOwned(b, c) /\ ChildFollows(b, c) /\ ChildBound(b, c)
  BY <1>3, ChildrenValidParts
<1>6. ASSUME NEW c \in DOMAIN n.children PROVE ChildOwned(n, c)
  <2>1. c \in DOMAIN b.children /\ ChildOwned(b, c) /\ ChildKept(b.children[c], n.children[c])
    BY <1>1, <1>5, <1>6 DEF ChildrenKept
  <2>2. \A d \in ActiveChildren(n) : n.children[d].agent = b.children[d].agent
    BY <1>1, <1>4 DEF ChildrenKept, ChildKept, ActiveChildren
  <2>. QED
    BY <1>1, <1>4, <2>1, <2>2 DEF ChildOwned, ChildKept, RunsKept
<1>7. ASSUME NEW c \in DOMAIN n.children PROVE ChildFollows(n, c)
  <2>1. c \in DOMAIN b.children /\ ChildFollows(b, c) /\ ChildKept(b.children[c], n.children[c])
    BY <1>1, <1>5, <1>7 DEF ChildrenKept
  <2>2. CASE b.children[c].predecessor = NoRun
    BY <2>1, <2>2 DEF ChildFollows, ChildKept
  <2>3. CASE b.children[c].predecessor # NoRun
    <3>1. PICK p \in DOMAIN b.children \ {c} : p = b.children[c].predecessor
      BY <2>1, <2>3 DEF ChildFollows
    <3>2. ChildKept(b.children[p], n.children[p]) /\ n.children[c].predecessor = p
      BY <1>1, <2>1, <3>1 DEF ChildrenKept, ChildKept
    <3>3. /\ b.children[p].state \notin ActiveChildStates \cup {"Interrupted"}
          /\ b.children[p].parent = b.children[c].parent
          /\ b.children[p].agent = b.children[c].agent
          /\ b.children[p].role = b.children[c].role
          /\ b.children[p].isolated = b.children[c].isolated
      BY <2>1, <2>3, <3>1 DEF ChildFollows
    <3>4. \A d \in DOMAIN b.children : b.children[d].predecessor = p => d = c
      BY <2>1, <2>3, <3>1 DEF ChildFollows
    <3>5. \A d \in DOMAIN n.children : n.children[d].predecessor = p => d = c
      BY <1>1, <3>4 DEF ChildrenKept, ChildKept
    <3>6. n.children[p].state \notin ActiveChildStates \cup {"Interrupted"}
      BY <3>2, <3>3 DEF ChildKept
    <3>7. /\ n.children[p].parent = n.children[c].parent
          /\ n.children[p].agent = n.children[c].agent
          /\ n.children[p].role = n.children[c].role
          /\ n.children[p].isolated = n.children[c].isolated
      BY <2>1, <3>2, <3>3 DEF ChildKept
    <3>8. p \in DOMAIN n.children \ {c} /\ p # NoRun
      BY <1>1, <2>3, <3>1 DEF ChildrenKept
    <3>. QED
      BY <3>2, <3>5, <3>6, <3>7, <3>8 DEF ChildFollows
  <2>. QED
    BY <2>2, <2>3
<1>8. ASSUME NEW c \in DOMAIN n.children PROVE ChildBound(n, c)
  <2>1. c \in DOMAIN b.children /\ ChildBound(b, c) /\ ChildKept(b.children[c], n.children[c])
    BY <1>1, <1>5, <1>8 DEF ChildrenKept
  <2>2. CASE c \in DOMAIN b.ex.members
    <3>1. SameIdentity(n.ex.members[c], b.ex.members[c]) /\ c \in DOMAIN n.ex.members
      BY <1>1, <2>2 DEF MembersKept
    <3>2. n.ex.members[c].st \in ChildLeaseStates(n.children[c].state)
      BY <1>1, <1>8, <3>1 DEF LeasesFollow
    <3>. QED
      BY <2>1, <2>2, <3>1, <3>2 DEF ChildBound, ChildKept, SameIdentity
  <2>3. CASE c \notin DOMAIN b.ex.members
    BY <1>1, <1>4, <2>1, <2>3 DEF ChildBound, ChildKept, MembersKept, RunsKept
  <2>. QED
    BY <2>2, <2>3
<1>9. ChildrenValid(n)
  <2>1. Cardinality(DOMAIN n.children) <= MaxChildRecords
    BY <1>1, <1>3 DEF ChildrenKept, ChildrenValid
  <2>. QED
    BY <1>6, <1>7, <1>8, <2>1, ChildrenValidParts
<1>10. BindingsValid(n)
  <2>1. \A x \in DOMAIN n.ex.members :
          /\ x \in DOMAIN b.ex.members
          /\ SameIdentity(n.ex.members[x], b.ex.members[x])
    BY <1>1 DEF MembersKept
  <2>2. Roots(n.ex) = ActiveRuns(n)
    <3>1. Roots(n.ex) = {x \in DOMAIN n.ex.members : ~IsChild(n.ex.members[x])}
      BY <1>1 DEF Roots, Validate, ParentsWellFormed
    <3>2. Roots(b.ex) = {x \in DOMAIN b.ex.members : ~IsChild(b.ex.members[x])}
      BY <1>3 DEF Roots, BindingsValid, Validate, ParentsWellFormed
    <3>3. Roots(n.ex) = Roots(b.ex)
      BY <1>1, <2>1, <3>1, <3>2 DEF IsChild, SameIdentity, MembersKept
    <3>. QED
      BY <1>1, <1>3, <3>3 DEF RunsKept, BindingsValid
  <2>3. ASSUME NEW x \in DOMAIN n.ex.members, n.ex.members[x].st = "Waiting"
        PROVE  /\ n.ex.members[x].ord < n.nextOrdinal
               /\ n.ex.members[x].ord \notin DOMAIN n.items \cup DOMAIN n.steers
    <3>1. /\ b.nextOrdinal \in Nat /\ n.nextOrdinal \in Nat /\ b.nextOrdinal <= n.nextOrdinal
          /\ n.items = b.items /\ n.steers = b.steers
      BY <1>1, GoodFacts DEF RunsKept
    <3>2. CASE b.ex.members[x].st = "Waiting" /\ n.ex.members[x].ord = b.ex.members[x].ord
      <4>1. /\ b.ex.members[x].ord < b.nextOrdinal
            /\ b.ex.members[x].ord \notin DOMAIN b.items \cup DOMAIN b.steers
        BY <1>3, <2>1, <2>3, <3>2 DEF BindingsValid
      <4>2. b.ex.members[x].ord \in Nat
        BY <2>1, <2>3, GoodFacts DEF LeaseRecord
      <4>. QED
        BY <3>1, <3>2, <4>1, <4>2
    <3>3. CASE n.ex.members[x].ord = b.nextOrdinal /\ b.nextOrdinal < n.nextOrdinal
      <4>1. b.nextOrdinal \notin DOMAIN b.items \cup DOMAIN b.steers
        BY <3>1, GoodFacts
      <4>. QED
        BY <3>1, <3>3, <4>1
    <3>. QED
      BY <1>1, <2>1, <2>3, <3>2, <3>3 DEF MembersKept
  <2>4. ASSUME NEW x \in DOMAIN n.ex.members
        PROVE  /\ n.ex.members[x].family \in ActiveRuns(n)
               /\ n.ex.members[x].project = n.runs[n.ex.members[x].family].project
               /\ ~IsChild(n.ex.members[x]) =>
                    n.ex.members[x].workspace = ProjectWorkspace(n.ex.members[x].project)
               /\ IsChild(n.ex.members[x]) => x \in DOMAIN n.children
    <3>1. /\ b.ex.members[x].family \in ActiveRuns(b)
          /\ b.ex.members[x].project = b.runs[b.ex.members[x].family].project
          /\ ~IsChild(b.ex.members[x]) =>
                b.ex.members[x].workspace = ProjectWorkspace(b.ex.members[x].project)
          /\ IsChild(b.ex.members[x]) => x \in DOMAIN b.children
      BY <1>3, <2>1, <2>4 DEF BindingsValid
    <3>2. ActiveRuns(b) \subseteq DOMAIN b.runs
      BY DEF ActiveRuns
    <3>3. SameIdentity(n.ex.members[x], b.ex.members[x])
      BY <2>1, <2>4
    <3>4. /\ n.ex.members[x].family \in ActiveRuns(n)
          /\ n.ex.members[x].project = n.runs[n.ex.members[x].family].project
      BY <1>1, <3>1, <3>2, <3>3 DEF SameIdentity, RunsKept
    <3>5. IsChild(n.ex.members[x]) <=> IsChild(b.ex.members[x])
      BY <3>3 DEF IsChild, SameIdentity
    <3>. QED
      BY <1>1, <3>1, <3>3, <3>4, <3>5 DEF SameIdentity, ChildrenKept
  <2>. QED
    BY <1>1, <2>2, <2>3, <2>4 DEF BindingsValid
<1>. QED
  BY <1>2, <1>4, <1>9, <1>10 DEF ValidateBook

\* It keeps the chains of invocations.
LEMMA BookStepFamily ==
    ASSUME NEW b, FamilyBook(b), NEW n, BookTypeOK(n, Roles), BookStep(b, n)
    PROVE  FamilyBook(n)
<1>1. Good(b, Roles) /\ OneParent(b) /\ Chained(b)
  BY DEF FamilyBook
<1>2. Good(n, Roles)
  BY <1>1, BookStepValid DEF Good
<1>3. OneParent(n)
  BY <1>1 DEF OneParent, BookStep, RunsKept
<1>4. DOMAIN n.children = DOMAIN b.children
  BY DEF BookStep, ChildrenKept
<1>5. \A c \in DOMAIN b.children :
        n.children[c].agent = b.children[c].agent
        /\ n.children[c].predecessor = b.children[c].predecessor
  BY DEF BookStep, ChildrenKept, ChildKept
<1>6. \A c : Successors(n, c) = Successors(b, c)
  BY <1>4, <1>5 DEF Successors
<1>7. \A c \in DOMAIN b.children : n.children[c].agent < n.nextOrdinal
  <2>1. \A c \in DOMAIN b.children : b.children[c].agent \in Nat /\ b.nextOrdinal \in Nat
    BY <1>1, GoodFacts DEF ChildRecord
  <2>2. n.nextOrdinal \in Nat /\ b.nextOrdinal <= n.nextOrdinal
    BY DEF BookStep, RunsKept
  <2>. QED
    BY <1>1, <1>5, <2>1, <2>2 DEF Chained
<1>8. Chained(n)
  BY <1>1, <1>4, <1>5, <1>6, <1>7 DEF Chained
<1>. QED
  BY <1>2, <1>3, <1>8 DEF FamilyBook

\* What the controller relies on after an operation that leaves every record
\* in place: the parent stays active, and the children stay who they are.
Settled(b, n) ==
    /\ FamilyBook(n)
    /\ ActiveRuns(n) = ActiveRuns(b)
    /\ DOMAIN n.children = DOMAIN b.children
    /\ \A c \in DOMAIN b.children : n.children[c].role = b.children[c].role

\* Every such operation gives that.
LEMMA BookStepSettled ==
    ASSUME NEW b, FamilyBook(b), NEW n, BookTypeOK(n, Roles), BookStep(b, n)
    PROVE  Settled(b, n)
  BY BookStepFamily DEF Settled, BookStep, RunsKept, ChildrenKept, ChildKept

\* The executions that hold a lease after one lease changed.
LEMMA LeaseSetHeld ==
    ASSUME NEW e, NEW f, NEW r \in DOMAIN e.members, NEW st, NEW ord,
           LeaseSet(e, f, r, st, ord)
    PROVE  HeldRuns(f) = IF st \in {"Held", "Retiring"} THEN HeldRuns(e) \cup {r}
                         ELSE HeldRuns(e) \ {r}
  BY DEF LeaseSet, HeldRuns, Occupies

\* A family book counts finitely many members, and no child is a run.
LEMMA FamilyFacts ==
    ASSUME NEW b, FamilyBook(b)
    PROVE  /\ Good(b, Roles)
           /\ Sized(b.ex)
           /\ Validate(b.ex)
           /\ b.nextOrdinal \in Nat \ {0, 1}
           /\ Root \notin DOMAIN b.children
           /\ \A c \in DOMAIN b.children : c \in Nat /\ c > 1 /\ b.children[c].parent = Root
           /\ LeasesFollow(b)
           /\ \A x \in DOMAIN b.ex.members : b.ex.members[x].st = "Waiting" =>
                b.ex.members[x].ord \in Nat /\ b.ex.members[x].ord # b.nextOrdinal
           /\ \A c \in DOMAIN b.children : c \in DOMAIN b.ex.members =>
                IsChild(b.ex.members[c])
           /\ \A c \in ActiveChildren(b) : c \in DOMAIN b.ex.members
<1>1. Good(b, Roles) /\ OneParent(b)
  BY DEF FamilyBook
<1>2. Sized(b.ex)
  BY <1>1, GoodFinite, GoodLeases DEF Sized, LeasesOK, BudgetRecord
<1>3. BindingsValid(b) /\ ChildrenValid(b) /\ Validate(b.ex)
  BY <1>1 DEF Good, ValidateBook, BindingsValid
<1>4. \A c \in DOMAIN b.children : ChildOwned(b, c) /\ ChildBound(b, c)
  BY <1>3, ChildrenValidParts
<1>5. b.nextOrdinal \in Nat \ {0, 1}
  <2>1. b.nextOrdinal \in Nat \ {0} /\ Root < b.nextOrdinal
    BY <1>1, GoodFacts DEF OneParent
  <2>. QED
    BY <2>1 DEF Root
<1>6. \A c \in DOMAIN b.children : c \notin DOMAIN b.runs /\ b.children[c].parent \in DOMAIN b.runs
  BY <1>4 DEF ChildOwned
<1>7. \A c \in DOMAIN b.children : c \in 1 .. b.nextOrdinal - 1
  BY <1>1 DEF Good, BookTypeOK
<1>8. /\ Root \notin DOMAIN b.children
      /\ \A c \in DOMAIN b.children : c \in Nat /\ c > 1 /\ b.children[c].parent = Root
  BY <1>1, <1>5, <1>6, <1>7 DEF OneParent, Root
<1>9. LeasesFollow(b)
  BY <1>4 DEF LeasesFollow, ChildBound
<1>10. \A x \in DOMAIN b.ex.members : b.ex.members[x].st = "Waiting" =>
                b.ex.members[x].ord \in Nat /\ b.ex.members[x].ord # b.nextOrdinal
  <2>1. \A x \in DOMAIN b.ex.members : b.ex.members[x].ord \in Nat
    BY <1>1, GoodFacts DEF LeaseRecord
  <2>2. \A x \in DOMAIN b.ex.members : b.ex.members[x].st = "Waiting" =>
                b.ex.members[x].ord < b.nextOrdinal
    BY <1>3 DEF BindingsValid
  <2>. QED
    BY <1>5, <2>1, <2>2
<1>11. \A c \in DOMAIN b.children : c \in DOMAIN b.ex.members => IsChild(b.ex.members[c])
  <2>1. \A c \in DOMAIN b.children : c \in DOMAIN b.ex.members =>
            b.ex.members[c].family = b.children[c].parent
    BY <1>4 DEF ChildBound
  <2>2. \A c \in DOMAIN b.ex.members :
            ~IsChild(b.ex.members[c]) => b.ex.members[c].family = c
    BY <1>3 DEF Validate, ParentsWellFormed
  <2>. QED
    BY <1>8, <2>1, <2>2
<1>12. \A c \in ActiveChildren(b) : c \in DOMAIN b.ex.members
  BY <1>4 DEF ChildBound, ActiveChildren
<1>. QED
  BY <1>1, <1>2, <1>3, <1>5, <1>8, <1>9, <1>10, <1>11, <1>12

\* An operation on the leases alone that moves the lease of the parent.
LEMMA ParentLeaseMoved ==
    ASSUME NEW b, FamilyBook(b), NEW n, LeasesChange(b, n, Roles),
           Root \in DOMAIN b.ex.members, ~IsChild(b.ex.members[Root]),
           NEW st \in {"Yielded", "Waiting"}, NEW ord \in Nat,
           n.ex = SetLease(b.ex, Root, st, ord),
           st = "Waiting" => ord = b.nextOrdinal /\ b.nextOrdinal < n.nextOrdinal
    PROVE  /\ Settled(b, n)
           /\ ActiveChildren(n) = ActiveChildren(b)
           /\ HeldRuns(n.ex) = HeldRuns(b.ex) \ {Root}
<1>1. /\ Good(b, Roles) /\ Sized(b.ex) /\ Validate(b.ex)
      /\ b.nextOrdinal \in Nat \ {0, 1} /\ Root \notin DOMAIN b.children /\ LeasesFollow(b)
  BY FamilyFacts
<1>2. /\ n.items = b.items /\ n.steers = b.steers /\ n.runs = b.runs
      /\ n.children = b.children /\ n.removeAfterStop = b.removeAfterStop
      /\ n.nextOrdinal \in Nat /\ b.nextOrdinal <= n.nextOrdinal
  BY DEF LeasesChange, Same, Fields
<1>3. BookTypeOK(n, Roles)
  BY <1>1, LeasesChangeEffect
<1>4. LeaseSet(b.ex, n.ex, Root, st, ord) /\ st \in LeaseStates
  BY <1>1, GoodLeases, SetLeaseEffect DEF LeaseStates, LeaseSet
<1>5. Validate(n.ex)
  <2>1. Active(b.ex.members[Root])
    BY <1>1 DEF Validate, ParentsWellFormed
  <2>2. \A x \in DOMAIN b.ex.members :
            b.ex.members[x].st = "Waiting" => b.ex.members[x].ord # b.nextOrdinal
    BY FamilyFacts
  <2>3. st \notin {"Held", "Retiring", "Terminal"}
    OBVIOUS
  <2>. QED
    BY <1>1, <1>4, <2>1, <2>2, <2>3, LeaseSetValid
<1>6. RunsKept(b, n)
  BY <1>2 DEF RunsKept, ActiveRuns
<1>7. ChildrenKept(b, n)
  <2>1. \A c \in DOMAIN b.children : ChildOwned(b, c)
    BY <1>1, ChildrenValidParts DEF Good, ValidateBook
  <2>. QED
    BY <1>2, <2>1 DEF ChildrenKept, ChildKept, ChildOwned
<1>8. MembersKept(b, n)
  BY <1>4 DEF MembersKept, LeaseSet, SameIdentity
<1>9. LeasesFollow(n)
  BY <1>1, <1>2, <1>4 DEF LeasesFollow, LeaseSet
<1>10. BookStep(b, n)
  BY <1>5, <1>6, <1>7, <1>8, <1>9 DEF BookStep
<1>11. ActiveChildren(n) = ActiveChildren(b)
  BY <1>2 DEF ActiveChildren
<1>. QED
  BY <1>3, <1>4, <1>10, <1>11, BookStepSettled, LeaseSetHeld

\* yield_parent()
LEMMA YieldKeeps ==
    ASSUME NEW b, FamilyBook(b), YieldRunOk(b, Root), NEW n, n = YieldRunTo(b, Root)
    PROVE  /\ Settled(b, n)
           /\ ActiveChildren(n) = ActiveChildren(b)
           /\ HeldRuns(n.ex) = HeldRuns(b.ex) \ {Root}
           /\ n.nextOrdinal = b.nextOrdinal
<1>1. Good(b, Roles)
  BY DEF FamilyBook
<1>2. LeasesChange(b, n, Roles) /\ n.nextOrdinal = b.nextOrdinal /\ n.ex = YieldParentTo(b.ex, Root)
  BY <1>1, YieldChange
<1>3. Root \in DOMAIN b.ex.members /\ ~IsChild(b.ex.members[Root])
  BY DEF YieldRunOk, YieldParentOk
<1>4. n.ex = SetLease(b.ex, Root, "Yielded", 0)
  BY <1>2 DEF YieldParentTo
<1>. QED
  BY <1>2, <1>3, <1>4, ParentLeaseMoved

\* request_parent_resume()
LEMMA ResumeKeeps ==
    ASSUME NEW b, FamilyBook(b), ResumeRunOk(b, Root), NEW n, n = ResumeRunTo(b, Root)
    PROVE  /\ Settled(b, n)
           /\ ActiveChildren(n) = ActiveChildren(b)
           /\ HeldRuns(n.ex) = HeldRuns(b.ex) \ {Root}
           /\ n.nextOrdinal = b.nextOrdinal + 1
<1>1. Good(b, Roles) /\ b.nextOrdinal \in Nat \ {0, 1} /\ Root \notin DOMAIN b.children
  BY FamilyFacts
<1>2. /\ LeasesChange(b, n, Roles) /\ n.nextOrdinal = b.nextOrdinal + 1
      /\ n.ex = RequestResumeTo(b.ex, Root, b.nextOrdinal)
  BY <1>1, ResumeChange
<1>3. Root \in DOMAIN b.ex.members
  BY DEF ResumeRunOk, RequestResumeOk
<1>4. ~IsChild(b.ex.members[Root])
  BY <1>1, <1>3 DEF Good, ValidateBook, BindingsValid
<1>5. n.ex = SetLease(b.ex, Root, "Waiting", b.nextOrdinal) /\ b.nextOrdinal < n.nextOrdinal
  BY <1>1, <1>2 DEF RequestResumeTo
<1>. QED
  BY <1>1, <1>2, <1>3, <1>4, <1>5, ParentLeaseMoved

\* reserve_child_message()
LEMMA ReserveKeeps ==
    ASSUME NEW b, FamilyBook(b), NEW c, ReserveMessageOk(b, Root, c),
           NEW n, n = ReserveMessageTo(b, Root)
    PROVE  /\ Settled(b, n)
           /\ ActiveChildren(n) = ActiveChildren(b)
           /\ HeldRuns(n.ex) = HeldRuns(b.ex)
           /\ n.nextOrdinal = b.nextOrdinal
<1>1. Good(b, Roles) /\ Sized(b.ex) /\ Validate(b.ex) /\ b.nextOrdinal \in Nat /\ LeasesFollow(b)
  BY FamilyFacts
<1>2. /\ n = [b EXCEPT !.ex = ReserveChildMessageTo(b.ex, Root)]
      /\ Root \in DOMAIN b.ex.budgets
      /\ b.ex.budgets[Root].used < b.ex.budgets[Root].maximum
  BY DEF ReserveMessageTo, ReserveMessageOk, ReserveChildMessageOk
<1>3. LeasesChange(b, n, Roles) /\ n.nextOrdinal = b.nextOrdinal /\ n.ex = ReserveChildMessageTo(b.ex, Root)
  BY <1>1, ReserveChange, GoodFacts, <1>2 DEF Fields
<1>4. /\ n.items = b.items /\ n.steers = b.steers /\ n.runs = b.runs
      /\ n.children = b.children /\ n.removeAfterStop = b.removeAfterStop
  BY <1>3 DEF LeasesChange, Same, Fields
<1>5. Spent(b.ex, n.ex, Root) /\ n.ex.members = b.ex.members
  <2>1. b.ex.budgets[Root] \in BudgetRecord /\ LeasesOK(b.ex, Roles)
    BY <1>1, <1>2, GoodLeases DEF LeasesOK
  <2>. QED
    BY <1>2, <1>3, <2>1 DEF ReserveChildMessageTo, Spent, BudgetRecord, LeasesOK
<1>6. Validate(n.ex)
  BY <1>1, <1>2, <1>5, SpentValid
<1>7. RunsKept(b, n)
  BY <1>1, <1>3, <1>4 DEF RunsKept, ActiveRuns
<1>8. ChildrenKept(b, n)
  <2>1. \A x \in DOMAIN b.children : ChildOwned(b, x)
    BY <1>1, ChildrenValidParts DEF Good, ValidateBook
  <2>. QED
    BY <1>4, <2>1 DEF ChildrenKept, ChildKept, ChildOwned
<1>9. MembersKept(b, n) /\ LeasesFollow(n)
  BY <1>1, <1>4, <1>5 DEF MembersKept, SameIdentity, LeasesFollow
<1>10. BookStep(b, n)
  BY <1>6, <1>7, <1>8, <1>9 DEF BookStep
<1>11. BookTypeOK(n, Roles)
  BY <1>1, <1>3, LeasesChangeEffect
<1>12. ActiveChildren(n) = ActiveChildren(b) /\ HeldRuns(n.ex) = HeldRuns(b.ex)
  BY <1>4, <1>5 DEF ActiveChildren, HeldRuns
<1>. QED
  BY <1>3, <1>10, <1>11, <1>12, BookStepSettled
-----------------------------------------------------------------------------
(* Operations on the records of children *)

\* The records change and the leases follow.
LEMMA ChildrenMoved ==
    ASSUME NEW b, FamilyBook(b), NEW n, ChildrenChange(b, n, Roles),
           ChildrenKept(b, n), MembersKept(b, n), LeasesFollow(n), Validate(n.ex)
    PROVE  Settled(b, n) /\ n.nextOrdinal = b.nextOrdinal
<1>1. Good(b, Roles) /\ b.nextOrdinal \in Nat
  BY FamilyFacts
<1>2. /\ n.items = b.items /\ n.steers = b.steers /\ n.runs = b.runs
      /\ n.removeAfterStop = b.removeAfterStop /\ n.nextOrdinal = b.nextOrdinal
  BY DEF ChildrenChange, Same, Fields
<1>3. BookTypeOK(n, Roles)
  BY <1>1, ChildrenChangeEffect
<1>4. RunsKept(b, n)
  BY <1>1, <1>2 DEF RunsKept, ActiveRuns
<1>. QED
  BY <1>2, <1>3, <1>4, BookStepSettled DEF BookStep

\* When the leases stay as they are.
LEMMA ChildrenMarked ==
    ASSUME NEW b, FamilyBook(b), NEW n, ChildrenChange(b, n, Roles), n.ex = b.ex,
           ActiveChildren(n) = ActiveChildren(b),
           \A c \in DOMAIN b.children :
            /\ ChildKept(b.children[c], n.children[c])
            /\ \/ n.children[c].state = b.children[c].state
               \/ n.children[c].state = "StopRequested"
    PROVE  /\ Settled(b, n)
           /\ n.nextOrdinal = b.nextOrdinal
           /\ HeldRuns(n.ex) = HeldRuns(b.ex)
<1>1. Validate(b.ex) /\ LeasesFollow(b)
  BY FamilyFacts
<1>2. ChildrenKept(b, n) /\ DOMAIN n.children = DOMAIN b.children
  BY DEF ChildrenKept, ChildrenChange
<1>3. MembersKept(b, n)
  BY DEF MembersKept, SameIdentity
<1>4. LeasesFollow(n)
  <2>. SUFFICES ASSUME NEW c \in DOMAIN b.children, c \in DOMAIN b.ex.members
                PROVE  b.ex.members[c].st \in ChildLeaseStates(n.children[c].state)
    BY <1>2 DEF LeasesFollow
  <2>1. b.ex.members[c].st \in ChildLeaseStates(b.children[c].state)
    BY <1>1 DEF LeasesFollow
  <2>2. CASE n.children[c].state = b.children[c].state
    BY <2>1, <2>2
  <2>3. CASE n.children[c].state = "StopRequested"
    <3>1. b.children[c].state \in ActiveChildStates
      BY <2>3 DEF ChildKept, ActiveChildStates
    <3>. QED
      BY <2>1, <2>3, <3>1 DEF ChildLeaseStates, ActiveChildStates
  <2>. QED
    BY <2>2, <2>3
<1>. QED
  BY <1>1, <1>2, <1>3, <1>4, ChildrenMoved

\* Every child record names its role if it holds changes.
LEMMA WorkersReviewed ==
    ASSUME NEW b, FamilyBook(b), NEW c \in DOMAIN b.children
    PROVE  /\ b.children[c] \in ChildRecord(Roles)
           /\ b.children[c].state = "NeedsReview" \/ b.children[c].reviewPending
                => b.children[c].role = "Worker"
  BY FamilyFacts, GoodFacts, ChildrenValidParts DEF Good, ValidateBook, ChildOwned

\* stop_child()
LEMMA StopChildKeeps ==
    ASSUME NEW b, FamilyBook(b), NEW c, StopChildOk(b, c), NEW n, n = StopChildTo(b, c)
    PROVE  /\ Settled(b, n)
           /\ ActiveChildren(n) = ActiveChildren(b)
           /\ HeldRuns(n.ex) = HeldRuns(b.ex)
           /\ n.nextOrdinal = b.nextOrdinal
<1>1. Good(b, Roles) /\ DOMAIN b = Fields
  BY FamilyFacts, GoodFacts
<1>2. ChildrenChange(b, n, Roles) /\ ActiveChildren(n) = ActiveChildren(b) /\ n.ex = b.ex
  BY <1>1, StopChildChange
<1>3. n.children = [b.children EXCEPT ![c].state = "StopRequested"]
  BY <1>1 DEF StopChildTo, Fields
<1>4. c \in DOMAIN b.children /\ b.children[c].state \in ActiveChildStates
  BY DEF StopChildOk, ActiveChildren
<1>5. ASSUME NEW x \in DOMAIN b.children
      PROVE  /\ ChildKept(b.children[x], n.children[x])
             /\ \/ n.children[x].state = b.children[x].state
                \/ n.children[x].state = "StopRequested"
  <2>1. /\ b.children[x] \in ChildRecord(Roles)
        /\ b.children[x].state = "NeedsReview" \/ b.children[x].reviewPending
                => b.children[x].role = "Worker"
    BY <1>5, WorkersReviewed
  <2>. QED
    BY <1>3, <1>4, <2>1 DEF ChildKept, ChildRecord, ActiveChildStates
<1>. QED
  BY <1>2, <1>5, ChildrenMarked

\* cancel_run_ids()
LEMMA CancelKeeps ==
    ASSUME NEW b, FamilyBook(b), NEW ids, NEW n, n = CancelRunIdsTo(b, ids)
    PROVE  /\ Settled(b, n)
           /\ ActiveChildren(n) = ActiveChildren(b)
           /\ HeldRuns(n.ex) = HeldRuns(b.ex)
           /\ n.nextOrdinal = b.nextOrdinal
<1>1. Good(b, Roles) /\ DOMAIN b = Fields
  BY FamilyFacts, GoodFacts
<1>2. ChildrenChange(b, n, Roles) /\ ActiveChildren(n) = ActiveChildren(b) /\ n.ex = b.ex
  BY <1>1, CancelChange
<1>3. n.children = [x \in DOMAIN b.children |->
        IF x \in ActiveChildren(b) /\ b.children[x].parent \in ids
        THEN [b.children[x] EXCEPT !.state = "StopRequested"]
        ELSE b.children[x]]
  BY <1>1 DEF CancelRunIdsTo, Fields
<1>5. ASSUME NEW x \in DOMAIN b.children
      PROVE  /\ ChildKept(b.children[x], n.children[x])
             /\ \/ n.children[x].state = b.children[x].state
                \/ n.children[x].state = "StopRequested"
  <2>1. /\ b.children[x] \in ChildRecord(Roles)
        /\ b.children[x].state = "NeedsReview" \/ b.children[x].reviewPending
                => b.children[x].role = "Worker"
    BY <1>5, WorkersReviewed
  <2>2. CASE x \in ActiveChildren(b) /\ b.children[x].parent \in ids
    BY <1>3, <2>1, <2>2 DEF ChildKept, ChildRecord, ActiveChildren
  <2>3. CASE ~(x \in ActiveChildren(b) /\ b.children[x].parent \in ids)
    BY <1>3, <2>1, <2>3 DEF ChildKept
  <2>. QED
    BY <2>2, <2>3
<1>. QED
  BY <1>2, <1>5, ChildrenMarked

\* set_child_review_result()
LEMMA ReviewResultKeeps ==
    ASSUME NEW b, FamilyBook(b), NEW c, NEW pending \in BOOLEAN,
           ChildReviewResultOk(b, c, pending),
           NEW n, n = ChildReviewResultTo(b, c, pending)
    PROVE  /\ Settled(b, n)
           /\ ActiveChildren(n) = ActiveChildren(b)
           /\ HeldRuns(n.ex) = HeldRuns(b.ex)
           /\ n.nextOrdinal = b.nextOrdinal
<1>1. Good(b, Roles) /\ DOMAIN b = Fields
  BY FamilyFacts, GoodFacts
<1>2. ChildrenChange(b, n, Roles) /\ ActiveChildren(n) = ActiveChildren(b) /\ n.ex = b.ex
  BY <1>1, ReviewResultChange
<1>3. n.children = [b.children EXCEPT ![c] = [b.children[c] EXCEPT !.reviewPending = pending]]
  BY <1>1 DEF ChildReviewResultTo, Fields
<1>4. c \in DOMAIN b.children /\ (pending => b.children[c].role = "Worker")
  BY DEF ChildReviewResultOk
<1>5. ASSUME NEW x \in DOMAIN b.children
      PROVE  /\ ChildKept(b.children[x], n.children[x])
             /\ \/ n.children[x].state = b.children[x].state
                \/ n.children[x].state = "StopRequested"
  <2>1. /\ b.children[x] \in ChildRecord(Roles)
        /\ b.children[x].state = "NeedsReview" \/ b.children[x].reviewPending
                => b.children[x].role = "Worker"
    BY <1>5, WorkersReviewed
  <2>2. CASE x = c
    BY <1>3, <1>4, <2>1, <2>2 DEF ChildKept, ChildRecord
  <2>3. CASE x # c
    BY <1>3, <1>4, <2>1, <2>3 DEF ChildKept
  <2>. QED
    BY <2>2, <2>3
<1>. QED
  BY <1>2, <1>5, ChildrenMarked

\* request_stop()
LEMMA StopRunKeeps ==
    ASSUME NEW b, FamilyBook(b), RunningParent(b, Root), NEW n, n = StopTo(b, {Root})
    PROVE  /\ Settled(b, n)
           /\ ActiveChildren(n) = ActiveChildren(b)
           /\ HeldRuns(n.ex) = HeldRuns(b.ex)
           /\ n.nextOrdinal = b.nextOrdinal
<1>1. Good(b, Roles) /\ Validate(b.ex) /\ LeasesFollow(b) /\ b.nextOrdinal \in Nat /\ DOMAIN b = Fields
  BY FamilyFacts, GoodFacts
<1>2. {Root} \in SUBSET ActiveRuns(b)
  BY DEF RunningParent, ActiveRuns, ActiveRunStates
<1>3. StopRecorded(b, {Root}, n, Roles)
  BY <1>1, <1>2, StopEffect
<1>4. /\ n.items = b.items /\ n.steers = b.steers /\ n.children = b.children /\ n.ex = b.ex
      /\ n.removeAfterStop = b.removeAfterStop /\ n.nextOrdinal = b.nextOrdinal
      /\ ActiveRuns(n) = ActiveRuns(b) /\ DOMAIN n.runs = DOMAIN b.runs
      /\ BookTypeOK(n, Roles)
  BY <1>3 DEF StopRecorded, Same, Fields, Quiet, SameActive
<1>5. \A r \in DOMAIN b.runs :
        /\ n.runs[r].project = b.runs[r].project
        /\ n.runs[r].transport = b.runs[r].transport
        /\ n.runs[r].state \in {b.runs[r].state, "StopRequested"}
  <2>1. n.runs = [r \in DOMAIN b.runs |->
            IF r \in {Root} THEN [b.runs[r] EXCEPT !.state = "StopRequested"] ELSE b.runs[r]]
    BY <1>1 DEF StopTo, Fields
  <2>2. \A r \in DOMAIN b.runs : b.runs[r] \in RunRecord
    BY <1>1, GoodFacts
  <2>. QED
    BY <2>1, <2>2 DEF RunRecord
<1>6. RunsKept(b, n)
  <2>1. n.nextOrdinal \in Nat /\ b.nextOrdinal <= n.nextOrdinal
    BY <1>1, <1>4
  <2>. QED
    BY Zenon, <1>4, <1>5, <2>1 DEF RunsKept
<1>7. ChildrenKept(b, n)
  <2>1. \A x \in DOMAIN b.children : ChildKept(b.children[x], b.children[x])
    BY WorkersReviewed DEF ChildKept
  <2>. QED
    BY <1>4, <2>1 DEF ChildrenKept
<1>8. MembersKept(b, n) /\ LeasesFollow(n) /\ Validate(n.ex)
  BY <1>1, <1>4 DEF MembersKept, SameIdentity, LeasesFollow
<1>9. Settled(b, n)
  BY <1>4, <1>6, <1>7, <1>8, BookStepSettled DEF BookStep
<1>. QED
  BY <1>4, <1>9 DEF ActiveChildren
\* try_acquire_execution()
LEMMA AcquireKeeps ==
    ASSUME NEW b, FamilyBook(b), NEW r, AcquireRunOk(b, r), NEW n, n = AcquireRunTo(b, r)
    PROVE  /\ Settled(b, n)
           /\ ActiveChildren(n) = ActiveChildren(b)
           /\ HeldRuns(n.ex) = HeldRuns(b.ex) \cup {r}
           /\ n.nextOrdinal = b.nextOrdinal
<1>1. /\ Good(b, Roles) /\ DOMAIN b = Fields /\ Sized(b.ex) /\ Validate(b.ex) /\ LeasesFollow(b)
  BY FamilyFacts, GoodFacts
<1>2. ChildrenChange(b, n, Roles) /\ ActiveChildren(n) = ActiveChildren(b) /\ n.ex = TryAcquireTo(b.ex, r)
  BY <1>1, AcquireChange
<1>3. /\ r \in DOMAIN b.ex.members
      /\ b.ex.members[r].st = "Waiting"
      /\ Cardinality(HeldRuns(b.ex)) < MaxLeases
      /\ Compatible(b.ex, r)
      /\ r \in DOMAIN b.children => b.children[r].state = "Waiting"
  BY DEF AcquireRunOk, TryAcquireOk, Eligible
<1>4. LeaseSet(b.ex, n.ex, r, "Held", 0) /\ "Held" \in LeaseStates
  BY <1>1, <1>2, <1>3, GoodLeases, SetLeaseEffect DEF TryAcquireTo, LeaseStates, LeaseSet
<1>5. Validate(n.ex)
  <2>1. Active(b.ex.members[r])
    BY <1>3 DEF Active
  <2>. QED
    BY <1>1, <1>3, <1>4, <2>1, LeaseSetValid
<1>6. n.children = [c \in DOMAIN b.children |->
            IF c = r THEN [b.children[c] EXCEPT !.state = "Running"] ELSE b.children[c]]
  BY <1>1 DEF AcquireRunTo, Fields
<1>7. ChildrenKept(b, n)
  <2>1. ASSUME NEW x \in DOMAIN b.children PROVE ChildKept(b.children[x], n.children[x])
    <3>1. /\ b.children[x] \in ChildRecord(Roles)
          /\ b.children[x].state = "NeedsReview" \/ b.children[x].reviewPending
                => b.children[x].role = "Worker"
      BY <2>1, WorkersReviewed
    <3>. QED
      BY <1>3, <1>6, <3>1 DEF ChildKept, ChildRecord, ActiveChildStates
  <2>. QED
    BY <1>6, <2>1 DEF ChildrenKept
<1>8. MembersKept(b, n)
  BY <1>4 DEF MembersKept, LeaseSet, SameIdentity
<1>9. LeasesFollow(n)
  <2>. SUFFICES ASSUME NEW c \in DOMAIN b.children, c \in DOMAIN b.ex.members
                PROVE  n.ex.members[c].st \in ChildLeaseStates(n.children[c].state)
    BY <1>4, <1>6 DEF LeasesFollow, LeaseSet
  <2>1. CASE c = r
    <3>1. n.children[c].state = "Running"
      BY <1>6, <2>1, WorkersReviewed DEF ChildRecord
    <3>. QED
      BY <1>4, <2>1, <3>1 DEF LeaseSet, ChildLeaseStates
  <2>2. CASE c # r
    BY <1>1, <1>4, <1>6, <2>2 DEF LeasesFollow, LeaseSet
  <2>. QED
    BY <2>1, <2>2
<1>10. HeldRuns(n.ex) = HeldRuns(b.ex) \cup {r}
  BY <1>3, <1>4, LeaseSetHeld
<1>. QED
  BY <1>2, <1>5, <1>7, <1>8, <1>9, <1>10, ChildrenMoved

\* finish_child()
LEMMA FinishChildKeeps ==
    ASSUME NEW b, FamilyBook(b), NEW c, NEW st \in CompletionStates,
           FinishChildRunOk(b, c, st),
           st = "NeedsReview" => b.children[c].role = "Worker",
           NEW n, n = FinishChildRunTo(b, c, st)
    PROVE  /\ Settled(b, n)
           /\ ActiveChildren(n) = ActiveChildren(b) \ {c}
           /\ HeldRuns(n.ex) = HeldRuns(b.ex) \ {c}
           /\ n.nextOrdinal = b.nextOrdinal
<1>1. /\ Good(b, Roles) /\ DOMAIN b = Fields /\ Sized(b.ex) /\ Validate(b.ex) /\ LeasesFollow(b)
  BY FamilyFacts, GoodFacts
<1>2. /\ ChildrenChange(b, n, Roles) /\ ActiveChildren(n) = ActiveChildren(b) \ {c}
      /\ n.ex = FinishTo(b.ex, c)
  BY <1>1, FinishChildChange
<1>3. c \in DOMAIN b.children /\ c \in DOMAIN b.ex.members
  BY DEF FinishChildRunOk, FinishOk, ActiveChildren
<1>4. IsChild(b.ex.members[c])
  BY <1>3, FamilyFacts
<1>5. LeaseSet(b.ex, n.ex, c, "Terminal", 0) /\ "Terminal" \in LeaseStates
  BY <1>1, <1>2, <1>3, <1>4, GoodLeases, SetLeaseEffect DEF FinishTo, LeaseStates, LeaseSet
<1>6. Validate(n.ex)
  BY <1>1, <1>3, <1>4, <1>5, LeaseSetValid
<1>7. n.children = [b.children EXCEPT ![c] = [b.children[c] EXCEPT !.state = st]]
  BY <1>1 DEF FinishChildRunTo, Fields
<1>8. st \notin ActiveChildStates \cup {"Interrupted"}
  BY DEF CompletionStates, ActiveChildStates
<1>9. ChildrenKept(b, n)
  <2>1. ASSUME NEW x \in DOMAIN b.children PROVE ChildKept(b.children[x], n.children[x])
    <3>1. /\ b.children[x] \in ChildRecord(Roles)
          /\ b.children[x].state = "NeedsReview" \/ b.children[x].reviewPending
                => b.children[x].role = "Worker"
      BY <2>1, WorkersReviewed
    <3>2. CASE x = c
      BY <1>3, <1>7, <1>8, <3>1, <3>2 DEF ChildKept, ChildRecord
    <3>3. CASE x # c
      BY <1>3, <1>7, <3>1, <3>3 DEF ChildKept
    <3>. QED
      BY <3>2, <3>3
  <2>. QED
    BY <1>7, <2>1 DEF ChildrenKept
<1>10. MembersKept(b, n)
  BY <1>5 DEF MembersKept, LeaseSet, SameIdentity
<1>11. LeasesFollow(n)
  <2>. SUFFICES ASSUME NEW x \in DOMAIN b.children, x \in DOMAIN b.ex.members
                PROVE  n.ex.members[x].st \in ChildLeaseStates(n.children[x].state)
    BY <1>5, <1>7 DEF LeasesFollow, LeaseSet
  <2>1. CASE x = c
    <3>1. n.children[x].state = st
      BY <1>7, <2>1, WorkersReviewed DEF ChildRecord
    <3>2. ChildLeaseStates(st) = {"Terminal"}
      BY <1>8 DEF ChildLeaseStates, ActiveChildStates
    <3>. QED
      BY <1>5, <2>1, <3>1, <3>2 DEF LeaseSet
  <2>2. CASE x # c
    BY <1>1, <1>5, <1>7, <2>2 DEF LeasesFollow, LeaseSet
  <2>. QED
    BY <2>1, <2>2
<1>12. HeldRuns(n.ex) = HeldRuns(b.ex) \ {c}
  <2>1. PICK e, f, v : e = b.ex /\ f = n.ex /\ v = "Terminal"
    OBVIOUS
  <2>2. c \in DOMAIN e.members /\ LeaseSet(e, f, c, v, 0)
    BY <1>3, <1>5, <2>1
  <2>3. v \notin {"Held", "Retiring"}
    BY <2>1
  <2>4. HeldRuns(f) = HeldRuns(e) \ {c}
    BY <2>2, <2>3, LeaseSetHeld
  <2>. QED
    BY <2>1, <2>4
<1>. QED
  BY <1>2, <1>6, <1>9, <1>10, <1>11, <1>12, ChildrenMoved
-----------------------------------------------------------------------------
(* Admission *)

\* What admit_child() leaves for the controller.
Joined(b, a, n) ==
    /\ FamilyBook(n)
    /\ ActiveRuns(n) = ActiveRuns(b)
    /\ n.nextOrdinal = b.nextOrdinal + 1
    /\ DOMAIN n.children = DOMAIN b.children \cup {b.nextOrdinal}
    /\ b.nextOrdinal \notin DOMAIN b.children
    /\ \A c \in DOMAIN b.children : n.children[c] = b.children[c]
    /\ ActiveChildren(n) = ActiveChildren(b) \cup {b.nextOrdinal}
    /\ HeldRuns(n.ex) = HeldRuns(b.ex)
    /\ b.nextOrdinal \in DOMAIN n.ex.members

\* No active invocation shares the agent of an admission: only the last
\* invocation of an agent can be active, and a continuation follows that one.
LEMMA AgentFree ==
    ASSUME NEW b, FamilyBook(b), NEW a, AdmitChildRunOk(b, Root, a),
           NEW d \in DOMAIN b.children, b.children[d].agent = AgentOf(b, a),
           d \in ActiveChildren(b) \/ Successors(b, d) = {}
    PROVE  /\ a.predecessor # NoRun
           /\ d = a.predecessor
           /\ d \notin ActiveChildren(b)
<1>1. /\ Good(b, Roles) /\ Chained(b) /\ b.nextOrdinal \in Nat
  BY FamilyFacts DEF FamilyBook
<1>2. a.predecessor # NoRun
  <2>1. b.children[d].agent < b.nextOrdinal /\ b.children[d].agent \in Nat
    BY <1>1, GoodFacts DEF Chained, ChildRecord
  <2>. QED
    BY <1>1, <2>1 DEF AgentOf
<1>3. PICK p : p = a.predecessor
  OBVIOUS
<1>4. /\ p \in DOMAIN b.children
      /\ b.children[p].state \notin ActiveChildStates
      /\ \A c \in DOMAIN b.children : b.children[c].predecessor # p
      /\ b.children[d].agent = b.children[p].agent
  BY <1>2, <1>3 DEF AdmitChildRunOk, ContinuationOk, AgentOf
<1>5. Successors(b, p) = {}
  BY <1>4 DEF Successors
<1>6. Successors(b, d) = {}
  <2>. SUFFICES ASSUME d \in ActiveChildren(b), NEW s \in Successors(b, d) PROVE FALSE
    OBVIOUS
  <2>1. s \in DOMAIN b.children /\ b.children[s].predecessor = d
    BY DEF Successors
  <2>2. ChildFollows(b, s)
    BY <1>1, <2>1, ChildrenValidParts DEF Good, ValidateBook
  <2>3. d # NoRun
    BY FamilyFacts DEF NoRun
  <2>. QED
    BY <2>1, <2>2, <2>3 DEF ChildFollows, ActiveChildren
<1>7. d = p
  BY <1>1, <1>4, <1>5, <1>6 DEF Chained
<1>. QED
  BY <1>2, <1>3, <1>4, <1>7 DEF ActiveChildren

\* The leases after an admission.
LEMMA AdmittedLeases ==
    ASSUME NEW b, FamilyBook(b), NEW a, a.role \in Roles, a.isolated \in BOOLEAN,
           a.predecessor \in Nat, AdmitChildRunOk(b, Root, a),
           NEW f, f = AdmitChildTo(b.ex, Root, b.nextOrdinal, AdmittedMember(b, Root, a))
    PROVE  /\ Validate(f)
           /\ DOMAIN f.members = DOMAIN b.ex.members \cup {b.nextOrdinal}
           /\ b.nextOrdinal \notin DOMAIN b.ex.members
           /\ \A x \in DOMAIN b.ex.members : f.members[x] = b.ex.members[x]
           /\ f.members[b.nextOrdinal] = AdmittedMember(b, Root, a)
<1>. DEFINE e == b.ex
            k == b.nextOrdinal
            s == [e EXCEPT !.budgets[Root].used = @ + 1]
<1>1. PICK m : m = AdmittedMember(b, Root, a)
  OBVIOUS
<1>2. /\ Good(b, Roles) /\ Sized(e) /\ Validate(e) /\ k \in Nat \ {0, 1} /\ LeasesOK(e, Roles)
  BY FamilyFacts, GoodLeases
<1>3. AdmitChildOk(e, Root, k, m, k)
  BY <1>1 DEF AdmitChildRunOk
<1>4. /\ Root \in DOMAIN e.members /\ Root \in DOMAIN e.budgets /\ ~IsChild(e.members[Root])
      /\ e.budgets[Root].used < e.budgets[Root].maximum
      /\ Cardinality(DOMAIN e.members) < MaxEntries
      /\ m.family = Root /\ m.project = e.members[Root].project
      /\ IsChild(m) /\ m.snapshot # "None" /\ k \notin DOMAIN e.members
      /\ \A c \in ChildrenOf(e, Root) : e.members[c].snapshot = m.snapshot
  BY <1>3 DEF AdmitChildOk
<1>5. m.st = "Waiting" /\ m.ord = k
  BY <1>1 DEF AdmittedMember, ChildMember
<1>6. SeparateWorktree(e, Root, m)
  <2>1. e.members[Root].workspace = <<"project", e.members[Root].project>>
    BY <1>2, <1>4 DEF Good, ValidateBook, BindingsValid, ProjectWorkspace
  <2>2. m.isolated => m.workspace[1] = "worktree"
    BY <1>1 DEF AdmittedMember, ChildMember, ChildWorkspace
  <2>. QED
    BY <2>1, <2>2 DEF SeparateWorktree
<1>7. Spent(e, s, Root) /\ LeasesOK(s, Roles)
  <2>1. e.budgets[Root] \in BudgetRecord
    BY <1>2, <1>4 DEF LeasesOK
  <2>2. LeasesOK(s, Roles) /\ s.members = e.members
    BY <1>2, <1>4, SpendEffect
  <2>. QED
    BY <1>2, <1>4, <2>1, <2>2 DEF Spent, BudgetRecord, LeasesOK
<1>8. f = AddMember(s, k, m)
  BY <1>1 DEF AdmitChildTo
<1>. HIDE DEF s
<1>9. Validate(s) /\ Sized(s)
  <2>1. Validate(s)
    BY <1>2, <1>4, <1>7, SpentValid
  <2>2. DOMAIN s.members = DOMAIN e.members
    BY <1>7 DEF Spent
  <2>3. \A p \in DOMAIN s.budgets : s.budgets[p] \in BudgetRecord
    BY <1>7 DEF LeasesOK
  <2>. QED
    BY <1>2, <2>1, <2>2, <2>3 DEF Sized, BudgetRecord
<1>10. s.members = e.members /\ Root \in DOMAIN s.budgets /\ s.budgets[Root].used = e.budgets[Root].used + 1
  BY <1>4, <1>7 DEF Spent
<1>11. MemberAdded(s, f, k, m)
  <2>1. s = [members |-> s.members, budgets |-> s.budgets]
    BY <1>7 DEF LeasesOK
  <2>2. f.budgets = s.budgets
    BY <1>8, <2>1 DEF AddMember
  <2>3. f.members = [x \in DOMAIN s.members \cup {k} |-> IF x = k THEN m ELSE s.members[x]]
    BY <1>8, <2>1 DEF AddMember
  <2>. QED
    BY <1>4, <1>10, <2>2, <2>3 DEF MemberAdded
<1>12. Cardinality(ChildrenOf(s, Root)) < s.budgets[Root].used
  <2>1. Cardinality(ChildrenOf(e, Root)) <= e.budgets[Root].used
    BY <1>2, <1>4 DEF Validate, BudgetsWellFormed
  <2>2. ChildrenOf(s, Root) = ChildrenOf(e, Root)
    BY <1>10 DEF ChildrenOf, Family
  <2>3. Cardinality(ChildrenOf(e, Root)) \in Nat /\ e.budgets[Root].used \in Nat
    BY <1>2, <1>4, SizedFinite, FS_CardinalityType DEF Sized
  <2>. QED
    BY <1>10, <2>1, <2>2, <2>3
<1>13. \A x \in DOMAIN s.members : s.members[x].st = "Waiting" => s.members[x].ord # m.ord
  BY <1>5, <1>10, FamilyFacts
<1>14. SeparateWorktree(s, Root, m) /\ \A c \in ChildrenOf(s, Root) : s.members[c].snapshot = m.snapshot
  BY <1>4, <1>6, <1>10 DEF SeparateWorktree, ChildrenOf, Family
<1>15. Validate(f)
  BY <1>2, <1>4, <1>5, <1>9, <1>10, <1>11, <1>12, <1>13, <1>14, ChildAddedValid
<1>. QED
  BY <1>1, <1>4, <1>10, <1>11, <1>15 DEF MemberAdded
\* admit_child()
LEMMA AdmitKeeps ==
    ASSUME NEW b, FamilyBook(b), NEW a, a.role \in Roles, a.isolated \in BOOLEAN,
           a.predecessor \in Nat, AdmitChildRunOk(b, Root, a),
           NEW n, n = AdmitChildRunTo(b, Root, a)
    PROVE  Joined(b, a, n)
<1>1. PICK k : k = b.nextOrdinal
  OBVIOUS
<1>2. /\ Good(b, Roles) /\ DOMAIN b = Fields /\ k \in Nat \ {0, 1} /\ OneParent(b) /\ Chained(b)
      /\ \A c \in DOMAIN b.children : c < k /\ c \in Nat /\ b.children[c] \in ChildRecord(Roles)
      /\ k \notin DOMAIN b.children
  BY <1>1, FamilyFacts, GoodFacts DEF FamilyBook
<1>3. "None" \notin Roles
  BY FamilyAssumption
<1>4. ChildAdmitted(b, Root, a, n, Roles)
  BY <1>2, <1>3, AdmitChildEffect
<1>5. /\ BookTypeOK(n, Roles)
      /\ n.nextOrdinal = k + 1
      /\ ActiveRuns(n) = ActiveRuns(b)
      /\ ActiveChildren(n) = ActiveChildren(b) \cup {k}
      /\ n.items = b.items /\ n.steers = b.steers /\ n.runs = b.runs
      /\ n.ex = AdmitChildTo(b.ex, Root, b.nextOrdinal, AdmittedMember(b, Root, a))
      /\ DOMAIN n.children = DOMAIN b.children \cup {k}
      /\ \A c \in DOMAIN b.children : n.children[c] = b.children[c]
  BY <1>1, <1>4 DEF ChildAdmitted
<1>6. PICK g : g = AgentOf(b, a)
  OBVIOUS
<1>7. /\ n.children[k].parent = Root /\ n.children[k].project = b.runs[Root].project
      /\ n.children[k].transport = b.runs[Root].transport
      /\ n.children[k].agent = g /\ n.children[k].role = a.role
      /\ n.children[k].isolated = a.isolated /\ n.children[k].predecessor = a.predecessor
      /\ n.children[k].reviewPending = (a.role = "Worker") /\ n.children[k].state = "Waiting"
  BY <1>1, <1>2, <1>6 DEF AdmitChildRunTo, Fields, Put
<1>8. n.removeAfterStop = b.removeAfterStop
  BY <1>2 DEF AdmitChildRunTo, Fields
<1>9. PICK m : m = AdmittedMember(b, Root, a)
  OBVIOUS
<1>10. /\ Validate(n.ex)
       /\ DOMAIN n.ex.members = DOMAIN b.ex.members \cup {k}
       /\ k \notin DOMAIN b.ex.members
       /\ \A x \in DOMAIN b.ex.members : n.ex.members[x] = b.ex.members[x]
       /\ n.ex.members[k] = m
  BY <1>1, <1>5, <1>9, AdmittedLeases
<1>11. /\ m.family = Root /\ m.project = b.runs[Root].project
       /\ m.workspace = ChildWorkspace(b.runs[Root].project, g, a.isolated)
       /\ m.role = a.role /\ m.isolated = a.isolated /\ m.st = "Waiting" /\ m.ord = k
  BY <1>1, <1>6, <1>9 DEF AdmittedMember, ChildMember
<1>12. Root \in DOMAIN b.runs /\ Root \in ActiveRuns(b) /\ k \notin DOMAIN b.runs
  BY <1>2 DEF AdmitChildRunOk, RunningParent, ActiveRuns, ActiveRunStates, OneParent, Root
<1>13. RunsKept(b, n)
  <2>1. n.nextOrdinal \in Nat /\ b.nextOrdinal <= n.nextOrdinal
    BY <1>1, <1>2, <1>5
  <2>. QED
    BY <1>5, <1>8, <2>1 DEF RunsKept
<1>14. \A x \in DOMAIN b.children : ChildOwned(b, x) /\ ChildFollows(b, x) /\ ChildBound(b, x)
  BY <1>2, ChildrenValidParts DEF Good, ValidateBook
<1>15. \A d \in ActiveChildren(b) : b.children[d].agent # g
  <2>. SUFFICES ASSUME NEW d \in ActiveChildren(b), b.children[d].agent = g PROVE FALSE
    OBVIOUS
  <2>1. d \in DOMAIN b.children
    BY DEF ActiveChildren
  <2>. QED
    BY <1>6, <2>1, AgentFree
<1>16. ASSUME NEW x \in DOMAIN n.children PROVE ChildOwned(n, x)
  <2>1. CASE x = k
    <3>1. \A d \in ActiveChildren(n) : n.children[d].agent = n.children[x].agent => d = x
      BY <1>5, <1>7, <1>15, <2>1 DEF ActiveChildren
    <3>. QED
      BY <1>5, <1>7, <1>12, <2>1, <3>1 DEF ChildOwned
  <2>2. CASE x # k
    <3>1. x \in DOMAIN b.children /\ ChildOwned(b, x) /\ n.children[x] = b.children[x]
      BY <1>5, <1>14, <1>16, <2>2
    <3>2. x \in ActiveChildren(n) => x \in ActiveChildren(b)
      BY <1>5, <2>2
    <3>3. x \in ActiveChildren(n) =>
            \A d \in ActiveChildren(n) : n.children[d].agent = n.children[x].agent => d = x
      <4>. SUFFICES ASSUME x \in ActiveChildren(b), NEW d \in ActiveChildren(n),
                           n.children[d].agent = b.children[x].agent
                    PROVE  d = x
        BY <3>1, <3>2
      <4>1. CASE d = k
        BY <1>7, <1>15, <4>1
      <4>2. CASE d # k
        <5>1. d \in ActiveChildren(b) /\ n.children[d] = b.children[d]
          BY <1>5, <4>2 DEF ActiveChildren
        <5>. QED
          BY <3>1, <5>1 DEF ChildOwned
      <4>. QED
        BY <4>1, <4>2
    <3>. QED
      BY <1>5, <3>1, <3>2, <3>3 DEF ChildOwned
  <2>. QED
    BY <2>1, <2>2
<1>17. ASSUME NEW x \in DOMAIN n.children PROVE ChildFollows(n, x)
  <2>1. CASE x = k
    <3>1. CASE a.predecessor = NoRun
      BY <1>1, <1>6, <1>7, <2>1, <3>1 DEF ChildFollows, AgentOf
    <3>2. CASE a.predecessor # NoRun
      <4>1. PICK p : p = a.predecessor
        OBVIOUS
      <4>2. /\ p \in DOMAIN b.children
            /\ b.children[p].parent = Root
            /\ b.children[p].state \notin ActiveChildStates \cup {"Interrupted"}
            /\ b.children[p].role = a.role
            /\ b.children[p].isolated = a.isolated
            /\ b.children[p].agent = g
            /\ \A d \in DOMAIN b.children : b.children[d].predecessor # p
        BY <1>6, <3>2, <4>1 DEF AdmitChildRunOk, ContinuationOk, AgentOf
      <4>3. n.children[p] = b.children[p] /\ p \in DOMAIN n.children \ {k} /\ p # NoRun
        BY <1>2, <1>5, <3>2, <4>1, <4>2
      <4>4. \A d \in DOMAIN n.children : n.children[d].predecessor = p => d = k
        BY <1>5, <4>2
      <4>5. n.children[k].predecessor = p
        BY <1>7, <4>1
      <4>. QED
        BY <1>7, <2>1, <4>2, <4>3, <4>4, <4>5 DEF ChildFollows
    <3>. QED
      BY <3>1, <3>2
  <2>2. CASE x # k
    <3>1. x \in DOMAIN b.children /\ ChildFollows(b, x) /\ n.children[x] = b.children[x]
      BY <1>5, <1>14, <1>17, <2>2
    <3>2. CASE b.children[x].predecessor = NoRun
      BY <3>1, <3>2 DEF ChildFollows
    <3>3. CASE b.children[x].predecessor # NoRun
      <4>1. PICK p : p = b.children[x].predecessor
        OBVIOUS
      <4>2. p \in DOMAIN b.children \ {x} /\ p # NoRun
        BY <3>1, <3>3, <4>1 DEF ChildFollows
      <4>3. n.children[p] = b.children[p] /\ p \in DOMAIN n.children \ {x}
        BY <1>5, <4>2
      <4>4. a.predecessor # p
        BY <3>1, <4>1, <4>2 DEF AdmitChildRunOk, ContinuationOk
      <4>5. \A d \in DOMAIN n.children : n.children[d].predecessor = p => d = x
        <5>1. \A d \in DOMAIN b.children : b.children[d].predecessor = p => d = x
          BY <3>1, <4>1, <4>2 DEF ChildFollows
        <5>. QED
          BY <1>5, <1>7, <4>4, <5>1
      <4>6. /\ b.children[p].state \notin ActiveChildStates \cup {"Interrupted"}
            /\ b.children[p].parent = b.children[x].parent
            /\ b.children[p].agent = b.children[x].agent
            /\ b.children[p].role = b.children[x].role
            /\ b.children[p].isolated = b.children[x].isolated
        BY <3>1, <4>1, <4>2 DEF ChildFollows
      <4>. QED
        BY <3>1, <4>1, <4>2, <4>3, <4>5, <4>6 DEF ChildFollows
    <3>. QED
      BY <3>2, <3>3
  <2>. QED
    BY <2>1, <2>2
<1>18. ASSUME NEW x \in DOMAIN n.children PROVE ChildBound(n, x)
  <2>1. CASE x = k
    <3>1. "Waiting" \in ChildLeaseStates("Waiting")
      BY DEF ChildLeaseStates
    <3>. QED
      BY <1>7, <1>10, <1>11, <2>1, <3>1 DEF ChildBound
  <2>2. CASE x # k
    <3>1. x \in DOMAIN b.children /\ ChildBound(b, x) /\ n.children[x] = b.children[x]
      BY <1>5, <1>14, <1>18, <2>2
    <3>2. CASE x \in DOMAIN b.ex.members
      BY <1>10, <3>1, <3>2 DEF ChildBound
    <3>3. CASE x \notin DOMAIN b.ex.members
      BY <1>5, <1>10, <2>2, <3>1, <3>3 DEF ChildBound
    <3>. QED
      BY <3>2, <3>3
  <2>. QED
    BY <2>1, <2>2
<1>19. ChildrenValid(n)
  <2>1. Cardinality(DOMAIN b.children) < MaxChildRecords
    BY DEF AdmitChildRunOk
  <2>2. IsFiniteSet(DOMAIN b.children)
    BY <1>2, GoodFinite
  <2>3. Cardinality(DOMAIN n.children) = Cardinality(DOMAIN b.children) + 1
    <3>1. PICK D : D = DOMAIN b.children
      OBVIOUS
    <3>2. DOMAIN n.children = D \cup {k} /\ k \notin D
      BY <1>2, <1>5, <3>1
    <3>3. IsFiniteSet(D)
      BY <2>2, <3>1
    <3>4. Cardinality(D \cup {k}) = Cardinality(D) + 1
      BY <3>2, <3>3, FS_AddElement
    <3>. QED
      BY <3>1, <3>2, <3>4
  <2>4. Cardinality(DOMAIN b.children) \in Nat
    BY <2>2, FS_CardinalityType
  <2>5. Cardinality(DOMAIN n.children) <= MaxChildRecords
    BY <2>1, <2>3, <2>4, QueueBookAssumption
  <2>. QED
    BY <1>16, <1>17, <1>18, <2>5, ChildrenValidParts
<1>20. BindingsValid(n)
  <2>1. BindingsValid(b)
    BY <1>2 DEF Good, ValidateBook
  <2>2. IsChild(m)
    BY <1>3, <1>11 DEF IsChild
  <2>3. Roots(n.ex) = ActiveRuns(n)
    <3>1. Roots(n.ex) = Roots(b.ex)
      BY <1>10, <2>2 DEF Roots
    <3>. QED
      BY <1>5, <2>1, <3>1 DEF BindingsValid
  <2>4. ASSUME NEW x \in DOMAIN n.ex.members, x # k
        PROVE  /\ n.ex.members[x] = b.ex.members[x] /\ x \in DOMAIN b.ex.members
               /\ b.ex.members[x].family \in ActiveRuns(n)
               /\ b.ex.members[x].project = n.runs[b.ex.members[x].family].project
               /\ ~IsChild(b.ex.members[x]) =>
                    b.ex.members[x].workspace = ProjectWorkspace(b.ex.members[x].project)
               /\ IsChild(b.ex.members[x]) => x \in DOMAIN n.children
               /\ b.ex.members[x].st = "Waiting" =>
                    /\ b.ex.members[x].ord < n.nextOrdinal
                    /\ b.ex.members[x].ord \notin DOMAIN n.items \cup DOMAIN n.steers
    <3>1. x \in DOMAIN b.ex.members /\ n.ex.members[x] = b.ex.members[x]
      BY <1>10, <2>4
    <3>2. b.ex.members[x].ord \in Nat
      BY <1>2, <3>1, GoodFacts DEF LeaseRecord
    <3>3. b.ex.members[x].st = "Waiting" =>
            /\ b.ex.members[x].ord < k
            /\ b.ex.members[x].ord \notin DOMAIN n.items \cup DOMAIN n.steers
      BY <1>1, <1>5, <2>1, <3>1 DEF BindingsValid
    <3>4. b.ex.members[x].st = "Waiting" => b.ex.members[x].ord < n.nextOrdinal
      BY <1>2, <1>5, <3>2, <3>3
    <3>. QED
      BY <1>5, <2>1, <3>1, <3>3, <3>4 DEF BindingsValid
  <2>5. ASSUME NEW x \in DOMAIN n.ex.members, x = k
        PROVE  /\ n.ex.members[x] = m /\ IsChild(m)
               /\ m.family \in ActiveRuns(n)
               /\ m.project = n.runs[m.family].project
               /\ x \in DOMAIN n.children
               /\ m.ord < n.nextOrdinal
               /\ m.ord \notin DOMAIN n.items \cup DOMAIN n.steers
    <3>1. k \notin DOMAIN n.items \cup DOMAIN n.steers
      BY <1>1, <1>2, <1>5, GoodFacts
    <3>2. k < n.nextOrdinal
      BY <1>2, <1>5
    <3>. QED
      BY <1>5, <1>10, <1>11, <1>12, <2>2, <2>5, <3>1, <3>2
  <2>6. ASSUME NEW x \in DOMAIN n.ex.members
        PROVE  /\ n.ex.members[x].family \in ActiveRuns(n)
               /\ n.ex.members[x].project = n.runs[n.ex.members[x].family].project
               /\ ~IsChild(n.ex.members[x]) =>
                    n.ex.members[x].workspace = ProjectWorkspace(n.ex.members[x].project)
               /\ IsChild(n.ex.members[x]) => x \in DOMAIN n.children
               /\ n.ex.members[x].st = "Waiting" =>
                    /\ n.ex.members[x].ord < n.nextOrdinal
                    /\ n.ex.members[x].ord \notin DOMAIN n.items \cup DOMAIN n.steers
    <3>1. CASE x = k
      BY <2>5, <2>6, <3>1
    <3>2. CASE x # k
      BY <2>4, <2>6, <3>2
    <3>. QED
      BY <3>1, <3>2
  <2>. QED
    BY <1>10, <2>3, <2>6 DEF BindingsValid
<1>21. Good(n, Roles)
  BY <1>2, <1>5, <1>13, <1>19, <1>20, RunsKeptValid DEF Good, ValidateBook
<1>22. Chained(n)
  <2>1. \A c \in DOMAIN n.children : n.children[c].agent < n.nextOrdinal
    <3>1. \A c \in DOMAIN b.children : b.children[c].agent < k /\ b.children[c].agent \in Nat
      BY <1>1, <1>2 DEF Chained, ChildRecord
    <3>2. g < k + 1
      BY <1>1, <1>2, <1>6, <3>1 DEF AgentOf, AdmitChildRunOk, ContinuationOk
    <3>. QED
      BY <1>2, <1>5, <1>7, <3>1, <3>2
  <2>2. \A c \in DOMAIN b.children : Successors(n, c) = {} => Successors(b, c) = {}
    BY <1>5 DEF Successors
  <2>3. ASSUME NEW d \in DOMAIN b.children, b.children[d].agent = g
        PROVE  Successors(n, d) # {}
    <3>1. CASE Successors(b, d) # {}
      BY <2>2, <2>3, <3>1
    <3>2. CASE Successors(b, d) = {}
      <4>1. d = a.predecessor
        BY <1>6, <2>3, <3>2, AgentFree
      <4>2. k \in Successors(n, d)
        BY <1>5, <1>7, <4>1 DEF Successors
      <4>. QED
        BY <4>2
    <3>. QED
      BY <3>1, <3>2
  <2>4. ASSUME NEW c \in DOMAIN n.children, NEW d \in DOMAIN n.children,
               n.children[c].agent = n.children[d].agent,
               Successors(n, c) = {}, Successors(n, d) = {}
        PROVE  c = d
    <3>1. CASE c = k
      BY <1>5, <1>7, <2>3, <2>4, <3>1
    <3>2. CASE d = k
      BY <1>5, <1>7, <2>3, <2>4, <3>2
    <3>3. CASE c # k /\ d # k
      <4>1. /\ c \in DOMAIN b.children /\ d \in DOMAIN b.children
            /\ b.children[c].agent = b.children[d].agent
        BY <1>5, <2>4, <3>3
      <4>. QED
        BY <1>2, <2>2, <2>4, <4>1 DEF Chained
    <3>. QED
      BY <3>1, <3>2, <3>3
  <2>. QED
    BY <2>1, <2>4 DEF Chained
<1>23. FamilyBook(n)
  BY <1>2, <1>5, <1>8, <1>21, <1>22 DEF FamilyBook, OneParent
<1>24. HeldRuns(n.ex) = HeldRuns(b.ex)
  BY <1>10, <1>11 DEF HeldRuns, Occupies
<1>. QED
  BY <1>1, <1>2, <1>5, <1>10, <1>23, <1>24 DEF Joined
-----------------------------------------------------------------------------
(* The beginning and the end of a family *)

\* complete_run() of the parent removes no record, and so mutate() has no
\* child history to drop.
LEMMA CompletionRetains ==
    ASSUME NEW b, FamilyBook(b), CompleteRunOk(b, Root), NEW completion \in CompletionStates,
           NEW n, n = CompleteRunTo(b, Root, completion)
    PROVE  /\ n = RetainChildren(CompleteRunTo(b, Root, completion))
           /\ n.children = b.children /\ n.removeAfterStop = {}
           /\ DOMAIN n.runs = {Root} /\ DOMAIN n.items = {Root} /\ DOMAIN n.steers = {}
<1>1. Good(b, Roles) /\ OneParent(b) /\ Root \in ActiveRuns(b)
  BY DEF FamilyBook, CompleteRunOk
<1>2. RemovedBy(b, Root) = {} /\ PromotedBy(b, {Root}) = {}
  BY <1>1 DEF OneParent, RemovedBy, PromotedBy, PendingSteers
<1>3. Completed(b, Root, completion, n)
  BY <1>1, CompleteRunShape
<1>4. /\ n = [f \in Fields |-> n[f]] /\ n.children = b.children
      /\ DOMAIN n.runs = DOMAIN b.runs /\ DOMAIN n.items = DOMAIN b.items
      /\ DOMAIN n.steers = DOMAIN b.steers /\ n.removeAfterStop = {}
  BY <1>1, <1>2, <1>3 DEF Completed, OneParent
<1>5. Retained(n)
  BY <1>1, <1>4, GoodFacts DEF Retained, Good, BookTypeOK
<1>6. n = RetainChildren(CompleteRunTo(b, Root, completion))
  BY <1>5, RetainAll
<1>. QED
  BY <1>1, <1>4, <1>6 DEF OneParent

\* What complete_run() leaves is the book of a family without an active run.
LEMMA RetainedKeeps ==
    ASSUME NEW b, FamilyBook(b), CompleteRunOk(b, Root), NEW completion \in CompletionStates,
           NEW n, n = RetainChildren(CompleteRunTo(b, Root, completion)),
           n.children = b.children, n.removeAfterStop = {},
           DOMAIN n.runs = {Root}, DOMAIN n.items = {Root}, DOMAIN n.steers = {}
    PROVE  /\ FamilyBook(n)
           /\ ActiveRuns(n) = {}
           /\ ActiveChildren(n) = ActiveChildren(b)
           /\ n.nextOrdinal = b.nextOrdinal
<1>1. Good(b, Roles) /\ OneParent(b) /\ Chained(b)
  BY DEF FamilyBook
<1>2. /\ BookTypeOK(n, Roles) /\ n.nextOrdinal = b.nextOrdinal
      /\ ActiveRuns(n) = ActiveRuns(b) \ {Root} /\ ActiveChildren(n) = ActiveChildren(b)
  BY <1>1, CompleteRunEffect
<1>3. Root \notin RemovedBy(b, Root)
  BY <1>1 DEF OneParent, RemovedBy
<1>4. ValidateBook(n)
  BY <1>1, <1>3, CompletedValid
<1>5. ActiveRuns(n) = {}
  BY <1>1, <1>2 DEF OneParent, ActiveRuns
<1>6. \A c : Successors(n, c) = Successors(b, c)
  BY DEF Successors
<1>7. Chained(n)
  BY <1>1, <1>2, <1>6 DEF Chained
<1>8. OneParent(n)
  BY DEF OneParent
<1>. QED
  BY <1>2, <1>4, <1>5, <1>7, <1>8 DEF FamilyBook, Good

\* complete_run() ends the run of the parent and no child.
LEMMA CompleteKeeps ==
    ASSUME NEW b, FamilyBook(b), CompleteRunOk(b, Root), NEW completion \in CompletionStates,
           NEW n, n = CompleteRunTo(b, Root, completion)
    PROVE  /\ FamilyBook(n)
           /\ ActiveRuns(n) = {}
           /\ ActiveChildren(n) = ActiveChildren(b)
           /\ n.nextOrdinal = b.nextOrdinal
           /\ n.children = b.children
<1>1. /\ n = RetainChildren(CompleteRunTo(b, Root, completion))
      /\ n.children = b.children /\ n.removeAfterStop = {}
      /\ DOMAIN n.runs = {Root} /\ DOMAIN n.items = {Root} /\ DOMAIN n.steers = {}
  BY CompletionRetains
<1>2. PICK k : k = n
  OBVIOUS
<1>3. k = RetainChildren(CompleteRunTo(b, Root, completion))
  BY <1>1, <1>2
<1>4. /\ k.children = b.children /\ k.removeAfterStop = {}
      /\ DOMAIN k.runs = {Root} /\ DOMAIN k.items = {Root} /\ DOMAIN k.steers = {}
  BY <1>1, <1>2
<1>5. /\ FamilyBook(k) /\ ActiveRuns(k) = {} /\ ActiveChildren(k) = ActiveChildren(b)
      /\ k.nextOrdinal = b.nextOrdinal
  BY <1>3, <1>4, RetainedKeeps
<1>. QED
  BY <1>1, <1>2, <1>5
\* The message, the run, the lease and the budget of a parent that has just
\* started.
FirstItem(i, p, t) ==
    /\ i \in ItemRecord /\ i.project = p /\ i.transport = t /\ i.workflow = "None"
    /\ i.pred = NoRun /\ i.state = "Running" /\ i.blocked = "None"

FirstRun(r, p, t) == r \in RunRecord /\ r.project = p /\ r.transport = t /\ r.state = "Running"

FirstMember(m, p) ==
    /\ m \in LeaseRecord(Roles) /\ m.family = Root /\ m.project = p
    /\ m.workspace = ProjectWorkspace(p) /\ m.role = "None" /\ m.snapshot = "None"
    /\ m.isolated = FALSE /\ m.st = "Held"

FirstBudget(q) ==
    /\ q \in BudgetRecord /\ q.workflow = FALSE /\ q.used = 0 /\ q.maximum = OrdinaryBudget

\* The book in which the parent has started and its family is configured.
Started(b, p, t) ==
    /\ DOMAIN b = Fields
    /\ b.nextOrdinal = 2 /\ b.reviewBlocked = {} /\ b.removeAfterStop = {}
    /\ \E i : b.items = [o \in {Root} |-> i] /\ FirstItem(i, p, t)
    /\ \E r : b.runs = [o \in {Root} |-> r] /\ FirstRun(r, p, t)
    /\ b.steers = [o \in {} |-> 0] /\ b.children = [o \in {} |-> 0]
    /\ \E m, q : /\ FirstMember(m, p) /\ FirstBudget(q)
                 /\ b.ex = AddBudget(AddMember(EmptyBook, Root, m), Root, q)

\* enqueue(), begin_run() and configure_family(), record by record.
LEMMA StartedBook ==
    ASSUME NEW p \in Projects, NEW t \in Transports, NEW n,
           n = ConfigureRunTo(
                 BeginRunTo(EnqueueTo(EmptyQueue, NewItem(p, t, "None", TRUE, NoRun)), Root),
                 Root, FALSE, OrdinaryBudget)
    PROVE  Started(n, p, t)
<1>1. PICK i : i = NewItem(p, t, "None", TRUE, NoRun)
  OBVIOUS
<1>2. PICK m : m = [family |-> Root, project |-> p, workspace |-> ProjectWorkspace(p),
                    role |-> "None", snapshot |-> "None", isolated |-> FALSE,
                    st |-> "Held", ord |-> 0]
  OBVIOUS
<1>3. PICK q : q = [workflow |-> FALSE, used |-> 0, maximum |-> OrdinaryBudget]
  OBVIOUS
<1>4. PICK b1 : b1 = EnqueueTo(EmptyQueue, i)
  OBVIOUS
<1>5. /\ DOMAIN b1 = Fields
      /\ b1.nextOrdinal = 2 /\ b1.reviewBlocked = {} /\ b1.removeAfterStop = {}
      /\ b1.items = [o \in {Root} |-> i]
      /\ DOMAIN b1.runs = {} /\ b1.steers = [o \in {} |-> 0] /\ b1.children = [o \in {} |-> 0]
      /\ b1.ex = EmptyBook
  <2>1. DOMAIN EmptyQueue = Fields
    BY DEF EmptyQueue, Fields
  <2>2. /\ DOMAIN b1 = Fields
        /\ b1.nextOrdinal = 2 /\ b1.reviewBlocked = {} /\ b1.removeAfterStop = {}
        /\ b1.items = Put(EmptyQueue.items, 1, i)
        /\ DOMAIN b1.runs = {} /\ b1.steers = [o \in {} |-> 0] /\ b1.children = [o \in {} |-> 0]
        /\ b1.ex = EmptyBook
    BY <1>4, <2>1 DEF EnqueueTo, EmptyQueue, Fields
  <2>3. DOMAIN EmptyQueue.items = {}
    BY DEF EmptyQueue
  <2>4. Put(EmptyQueue.items, 1, i) = [o \in {Root} |-> i]
    BY <2>3 DEF Put, Root
  <2>. QED
    BY <2>2, <2>4
<1>6. PICK b2 : b2 = BeginRunTo(b1, Root)
  OBVIOUS
<1>7. i \in ItemRecord /\ i.project = p /\ i.transport = t /\ i.pred = NoRun /\ i.workflow = "None"
  BY <1>1 DEF NewItem, ItemRecord, NoRun
<1>8. PICK j : j = [i EXCEPT !.state = "Running", !.blocked = "None"]
  OBVIOUS
<1>9. PICK r : r = [project |-> p, transport |-> t, state |-> "Running"]
  OBVIOUS
<1>10. /\ DOMAIN b2 = Fields
       /\ b2.nextOrdinal = 2 /\ b2.reviewBlocked = {} /\ b2.removeAfterStop = {}
       /\ b2.items = [o \in {Root} |-> j]
       /\ b2.runs = [o \in {Root} |-> r]
       /\ b2.steers = [o \in {} |-> 0] /\ b2.children = [o \in {} |-> 0]
       /\ b2.ex = AddMember(EmptyBook, Root, m)
  <2>1. b1.items[Root] = i
    BY <1>5
  <2>2. /\ DOMAIN b2 = Fields
        /\ b2.nextOrdinal = 2 /\ b2.reviewBlocked = {} /\ b2.removeAfterStop = {}
        /\ b2.items = [[b1.items EXCEPT ![Root].state = "Running"] EXCEPT ![Root].blocked = "None"]
        /\ b2.runs = Put(b1.runs, Root, r)
        /\ b2.steers = [o \in {} |-> 0] /\ b2.children = [o \in {} |-> 0]
        /\ b2.ex = AdmitParentTo(EmptyBook, Root, p, ProjectWorkspace(p))
    BY <1>5, <1>6, <1>7, <1>9, <2>1 DEF BeginRunTo, Fields
  <2>3. Put(b1.runs, Root, r) = [o \in {Root} |-> r]
    BY <1>5 DEF Put
  <2>4. b2.items = [o \in {Root} |-> j]
    BY <1>5, <1>7, <1>8, <2>2 DEF ItemRecord
  <2>5. AdmitParentTo(EmptyBook, Root, p, ProjectWorkspace(p)) = AddMember(EmptyBook, Root, m)
    BY <1>2 DEF AdmitParentTo
  <2>. QED
    BY <2>2, <2>3, <2>4, <2>5
<1>11. PICK e : e = AddMember(EmptyBook, Root, m)
  OBVIOUS
<1>12. n = ConfigureRunTo(b2, Root, FALSE, OrdinaryBudget)
  BY <1>1, <1>4, <1>6
<1>13. /\ DOMAIN n = Fields
       /\ n.nextOrdinal = 2 /\ n.reviewBlocked = {} /\ n.removeAfterStop = {}
       /\ n.items = [o \in {Root} |-> j]
       /\ n.runs = [o \in {Root} |-> r]
       /\ n.steers = [o \in {} |-> 0] /\ n.children = [o \in {} |-> 0]
       /\ n.ex = AddBudget(e, Root, q)
  BY <1>3, <1>10, <1>11, <1>12 DEF ConfigureRunTo, ConfigureFamilyTo, Fields
<1>14. FirstMember(m, p)
  BY <1>2 DEF FirstMember, LeaseRecord, LeaseStates, ProjectWorkspace, Root
<1>15. FirstItem(j, p, t)
  BY <1>7, <1>8 DEF FirstItem, ItemRecord
<1>16. FirstRun(r, p, t)
  BY <1>9 DEF FirstRun, RunRecord, ActiveRunStates
<1>17. FirstBudget(q)
  <2>1. OrdinaryBudget \in Nat
    BY LeaseBookAssumption
  <2>. QED
    BY <1>3, <2>1 DEF FirstBudget, BudgetRecord
<1>18. \E x : n.items = [o \in {Root} |-> x] /\ FirstItem(x, p, t)
  BY <1>13, <1>15
<1>19. \E x : n.runs = [o \in {Root} |-> x] /\ FirstRun(x, p, t)
  BY <1>13, <1>16
<1>20. \E x, y : /\ FirstMember(x, p) /\ FirstBudget(y)
                 /\ n.ex = AddBudget(AddMember(EmptyBook, Root, x), Root, y)
  BY <1>11, <1>13, <1>14, <1>17
<1>. QED
  BY <1>13, <1>18, <1>19, <1>20 DEF Started

\* Its leases are the one of the parent, with an unused budget.
LEMMA StartedLeases ==
    ASSUME NEW p \in Projects, NEW m, FirstMember(m, p), NEW q, FirstBudget(q),
           NEW f, f = AddBudget(AddMember(EmptyBook, Root, m), Root, q)
    PROVE  /\ LeasesOK(f, Roles) /\ Validate(f)
           /\ DOMAIN f.members = {Root} /\ f.members[Root] = m
           /\ HeldRuns(f) = {Root} /\ Roots(f) = {Root}
<1>1. PICK e : e = AddMember(EmptyBook, Root, m)
  OBVIOUS
<1>2. f = AddBudget(e, Root, q)
  BY <1>1
<1>3. PICK z : z = EmptyBook
  OBVIOUS
<1>4. /\ LeasesOK(z, Roles) /\ Validate(z)
      /\ DOMAIN z.members = {} /\ DOMAIN z.budgets = {}
      /\ HeldRuns(z) = {} /\ Roots(z) = {}
  BY <1>3, EmptyLeases
<1>5. IsFiniteSet({}) /\ Cardinality({}) = 0
  BY FS_EmptySet
<1>6. Sized(z)
  BY <1>4, <1>5 DEF Sized
<1>7. e = AddMember(z, Root, m) /\ Root \notin DOMAIN z.members /\ m \in LeaseRecord(Roles)
  BY <1>1, <1>3, <1>4 DEF FirstMember
<1>8. /\ LeasesOK(e, Roles) /\ e.budgets = z.budgets
      /\ DOMAIN e.members = DOMAIN z.members \cup {Root}
      /\ \A x \in DOMAIN z.members : e.members[x] = z.members[x]
      /\ e.members[Root] = m
  <2>1. LeasesOK(z, Roles)
    BY <1>4
  <2>. QED
    BY <1>7, <2>1, AddMemberEffect
<1>9. MemberAdded(z, e, Root, m)
  BY <1>8 DEF MemberAdded
<1>10. DOMAIN e.members = {Root} /\ e.members[Root] = m /\ DOMAIN e.budgets = {}
  BY <1>4, <1>8
<1>11. /\ m.family = Root /\ m.project = p /\ m.role = "None" /\ m.snapshot = "None"
       /\ m.isolated = FALSE /\ m.st = "Held"
  BY DEF FirstMember
<1>12. AdmitParentOk(z, Root, p)
  <2>1. 0 < MaxLeases /\ 0 < MaxFamilies
    BY LeaseBookAssumption
  <2>. QED
    BY <1>4, <1>5, <2>1 DEF AdmitParentOk
<1>13. Validate(e)
  BY <1>4, <1>6, <1>9, <1>11, <1>12, ParentAddedValid
<1>14. Sized(e)
  <2>1. IsFiniteSet({Root})
    BY FS_Singleton
  <2>. QED
    BY <1>10, <2>1 DEF Sized
<1>15. LeasesOK(f, Roles) /\ f.members = e.members
  <2>1. q \in BudgetRecord /\ Root \notin DOMAIN e.budgets
    BY <1>10 DEF FirstBudget
  <2>. QED
    BY <1>2, <1>8, <2>1, AddBudgetEffect
<1>16. BudgetAdded(e, f, Root, FALSE, OrdinaryBudget)
  <2>1. e = [members |-> e.members, budgets |-> e.budgets]
    BY <1>8 DEF LeasesOK
  <2>2. f.budgets = [x \in DOMAIN e.budgets \cup {Root} |-> IF x = Root THEN q ELSE e.budgets[x]]
    BY <1>2, <2>1 DEF AddBudget
  <2>3. DOMAIN f.budgets = DOMAIN e.budgets \cup {Root} /\ f.budgets[Root] = q
    BY <2>2
  <2>. QED
    BY <1>10, <1>15, <2>3 DEF BudgetAdded, FirstBudget
<1>17. Validate(f)
  <2>1. Root \in DOMAIN e.members \ DOMAIN e.budgets /\ ~IsChild(e.members[Root])
    BY <1>10, <1>11 DEF IsChild
  <2>2. OrdinaryBudget \in 1 .. WorkflowCeiling
    BY LeaseBookAssumption
  <2>. QED
    BY <1>13, <1>14, <1>16, <2>1, <2>2, BudgetAddedValid
<1>18. DOMAIN f.members = {Root} /\ f.members[Root] = m
  BY <1>10, <1>15
<1>19. HeldRuns(f) = {Root} /\ Roots(f) = {Root}
  BY <1>11, <1>18 DEF HeldRuns, Roots, Occupies, IsChild, Active
<1>. QED
  BY <1>15, <1>17, <1>18, <1>19

\* validate_book() accepts it.
LEMMA FirstBook ==
    ASSUME NEW p \in Projects, NEW t \in Transports, NEW n, Started(n, p, t)
    PROVE  /\ FamilyBook(n)
           /\ ActiveRuns(n) = {Root}
           /\ n.nextOrdinal = 2
           /\ DOMAIN n.children = {}
           /\ Root \in HeldRuns(n.ex)
<1>1. /\ DOMAIN n = Fields
      /\ n.nextOrdinal = 2 /\ n.reviewBlocked = {} /\ n.removeAfterStop = {}
      /\ n.steers = [o \in {} |-> 0] /\ n.children = [o \in {} |-> 0]
  BY DEF Started
<1>2. PICK i : n.items = [o \in {Root} |-> i] /\ FirstItem(i, p, t)
  BY DEF Started
<1>3. PICK r : n.runs = [o \in {Root} |-> r] /\ FirstRun(r, p, t)
  BY DEF Started
<1>4. PICK m, q : /\ FirstMember(m, p) /\ FirstBudget(q)
                  /\ n.ex = AddBudget(AddMember(EmptyBook, Root, m), Root, q)
  BY DEF Started
<1>5. /\ LeasesOK(n.ex, Roles) /\ Validate(n.ex)
      /\ DOMAIN n.ex.members = {Root} /\ n.ex.members[Root] = m
      /\ HeldRuns(n.ex) = {Root} /\ Roots(n.ex) = {Root}
  BY <1>4, StartedLeases
<1>6. /\ DOMAIN n.items = {Root} /\ n.items[Root] = i
      /\ DOMAIN n.runs = {Root} /\ n.runs[Root] = r
      /\ DOMAIN n.steers = {} /\ DOMAIN n.children = {}
  BY <1>1, <1>2, <1>3
<1>7. ActiveRuns(n) = {Root}
  BY <1>3, <1>6 DEF ActiveRuns, ActiveRunStates, FirstRun
<1>8. BookTypeOK(n, Roles)
  <2>1. n.items \in [DOMAIN n.items -> ItemRecord] /\ n.runs \in [DOMAIN n.runs -> RunRecord]
    BY <1>2, <1>3, <1>6 DEF FirstItem, FirstRun
  <2>2. n.steers \in [DOMAIN n.steers -> SteerRecord] /\ n.children \in [DOMAIN n.children -> ChildRecord(Roles)]
    BY <1>1, <1>6
  <2>3. \A o \in DOMAIN n.items : n.items[o].blocked = "Hold" => ~n.items[o].auto
    BY <1>2, <1>6 DEF FirstItem
  <2>. QED
    BY <1>1, <1>5, <1>6, <2>1, <2>2, <2>3 DEF BookTypeOK, Fields, LeasesOK
<1>9. CountsValid(n)
  <2>1. PendingSteers(n) = {}
    BY <1>6 DEF PendingSteers
  <2>2. Cardinality({}) = 0
    BY FS_EmptySet
  <2>3. Cardinality({Root}) = 1
    BY FS_Singleton
  <2>4. MaxQueueItems \in Nat /\ MaxQueueItems # 0 /\ MaxSteerRecords \in Nat
    BY QueueBookAssumption, FamilyAssumption
  <2>. QED
    BY <1>1, <1>6, <2>1, <2>2, <2>3, <2>4 DEF CountsValid
<1>10. ItemsValid(n)
  <2>1. Root \in 1 .. n.nextOrdinal - 1
    BY <1>1 DEF Root
  <2>2. IsChat(n, Root) /\ n.items[Root].blocked = "None"
    BY <1>2, <1>6 DEF IsChat, FirstItem
  <2>. QED
    BY <1>1, <1>6, <2>1, <2>2 DEF ItemsValid
<1>11. SteeringValid(n)
  BY <1>6 DEF SteeringValid
<1>12. ItemRunStates(n)
  BY <1>2, <1>6, <1>7 DEF ItemRunStates, FirstItem
<1>13. RunsValid(n)
  <2>1. ActiveProjects(n) = {p}
    BY <1>3, <1>6, <1>7 DEF ActiveProjects, FirstRun
  <2>2. Cardinality({p}) = 1
    BY FS_Singleton
  <2>3. Cardinality(ActiveProjects(n)) <= MaxGlobalRuns
    BY <2>1, <2>2, QueueBookAssumption
  <2>4. n.items[Root].project = n.runs[Root].project /\ n.items[Root].transport = n.runs[Root].transport
    BY <1>2, <1>3, <1>6 DEF FirstItem, FirstRun
  <2>. QED
    BY <1>6, <1>7, <2>3, <2>4 DEF RunsValid
<1>14. ChildrenValid(n)
  <2>1. Cardinality({}) = 0
    BY FS_EmptySet
  <2>2. Cardinality(DOMAIN n.children) <= MaxChildRecords
    BY <1>6, <2>1, QueueBookAssumption
  <2>. QED
    BY <1>6, <2>2, ChildrenValidParts
<1>15. BindingsValid(n)
  BY <1>3, <1>4, <1>5, <1>6, <1>7 DEF BindingsValid, IsChild, FirstMember, FirstRun
<1>16. Good(n, Roles)
  BY <1>8, <1>9, <1>10, <1>11, <1>12, <1>13, <1>14, <1>15 DEF Good, ValidateBook
<1>17. OneParent(n)
  BY <1>1, <1>6 DEF OneParent
<1>18. Chained(n)
  BY <1>6 DEF Chained
<1>. QED
  BY <1>1, <1>5, <1>6, <1>7, <1>16, <1>17, <1>18 DEF FamilyBook
-----------------------------------------------------------------------------
(* The inductive invariant *)

ParentPcs ==
    {"turn", "command", "stopping", "wait", "request", "resume", "over", "drain",
     "closing", "signalling", "await", "completing", "completed", "refused"}

\* The places of a command that has not resumed the parent.
Commanding == {"command", "stopping", "wait"}

ParentRecord ==
    [pc : ParentPcs, ok : BOOLEAN, stop : BOOLEAN, todo : SUBSET Nat,
     commands : 0 .. MaxCommands]

WorkerRecord ==
    [pc : {"acquire", "turn", "ending", "finish", "ended"},
     result : TurnResults \cup {"None"}]

\* The places of a worker that has not stored its outcome.
Working == {"acquire", "turn", "ending"}

HinderRecord == [faults : Nat, late : BOOLEAN, raced : BOOLEAN]

Unhindered == hindered.faults = 0 /\ ~hindered.late /\ ~hindered.raced

\* The parent's worker: its list of children, the positions its commands have
\* taken (one for the admission, one for the resumption), its lease and its
\* processes.
ParentInv ==
    /\ parent \in ParentRecord
    /\ parent.todo \subseteq DOMAIN book.children
    /\ book.nextOrdinal <= 2 * parent.commands + 2
    /\ parent.pc = "request" => book.nextOrdinal <= 2 * parent.commands + 1
    /\ parent.pc \in Commanding => book.nextOrdinal <= 2 * parent.commands
    /\ DOMAIN book.children \subseteq 2 .. 2 * parent.commands
    /\ parent.pc = "completed" <=> Root \notin ActiveRuns(book)
    /\ parent.pc = "turn" => Root \in HeldRuns(book.ex)
    /\ parent.pc \in {"completing", "completed"} => Root \notin live

\* The workers of the children: a worker that still works has an active child
\* and has stored no outcome.
WorkerInv ==
    /\ DOMAIN worker \subseteq DOMAIN slots
    /\ DOMAIN slots \subseteq DOMAIN book.children
    /\ worker \in [DOMAIN worker -> WorkerRecord]
    /\ slots \in [DOMAIN slots -> CompletionStates \cup {"None"}]
    /\ \A c \in DOMAIN slots :
        slots[c] = "NeedsReview" => book.children[c].role = "Worker"
    /\ \A c \in DOMAIN worker :
        worker[c].pc \in Working => c \in ActiveChildren(book) /\ slots[c] = "None"

\* The handles, the processes and the signals on their way.
HandleInv ==
    /\ cancels \in [ActiveRuns(book) \cup ActiveChildren(book) -> BOOLEAN]
    /\ live \subseteq {Root} \cup DOMAIN worker
    /\ live \ {Root} \subseteq HeldRuns(book.ex)
    /\ signals \subseteq {Root} \cup DOMAIN book.children

\* The finish_ready() that holds the lock moves stored outcomes only.
FinishInv ==
    /\ finishing = [by |-> finishing.by, todo |-> finishing.todo, stopped |-> finishing.stopped]
    /\ finishing.by \in {NoRun, Root} \cup DOMAIN worker
    /\ finishing.todo \subseteq Finished

\* Unless something went wrong, close() has seen every child end.
HinderInv ==
    /\ hindered \in HinderRecord
    /\ parent.pc \in {"await", "completing"} /\ Unhindered => ActiveChildren(book) = {}
    /\ parent.pc = "refused" => ~Unhindered

FamilyInv ==
    FamilyBook(book) /\ ParentInv /\ WorkerInv /\ HandleInv /\ FinishInv /\ HinderInv

\* It implies the properties the runs check.
LEMMA InvImplies ==
    ASSUME FamilyInv
    PROVE  FamilyTypeOK /\ CapacityKeptUntilReaped /\ RefusedOnlyWhenHindered
<1>1. FamilyBook(book) /\ ParentInv /\ WorkerInv /\ HandleInv /\ FinishInv /\ HinderInv
  BY DEF FamilyInv
<1>2. ValidateBook(book)
  BY <1>1 DEF FamilyBook, Good
<1>3. /\ DOMAIN cancels = ActiveRuns(book) \cup ActiveChildren(book)
      /\ \A r \in DOMAIN cancels : cancels[r] \in BOOLEAN
  BY <1>1 DEF HandleInv
<1>4. DOMAIN book.children \subseteq ChildIds
  <2>1. parent.commands \in 0 .. MaxCommands /\ DOMAIN book.children \subseteq 2 .. 2 * parent.commands
    BY <1>1 DEF ParentInv, ParentRecord
  <2>. QED
    BY <2>1, FamilyAssumption DEF ChildIds
<1>5. FamilyTypeOK
  BY <1>1, <1>2, <1>3, <1>4 DEF FamilyTypeOK, ParentInv, WorkerInv, HandleInv, FinishInv
<1>6. CapacityKeptUntilReaped
  BY <1>1 DEF CapacityKeptUntilReaped, ParentInv, HandleInv
<1>7. RefusedOnlyWhenHindered
  BY <1>1 DEF RefusedOnlyWhenHindered, HinderInv, Unhindered, HinderRecord
<1>. QED
  BY <1>5, <1>6, <1>7

\* It holds when the turn of the parent begins.
LEMMA InitInv == FamilyInit => FamilyInv
<1> SUFFICES ASSUME FamilyInit PROVE FamilyInv
  OBVIOUS
<1>1. PICK p \in Projects, t \in Transports : Started(book, p, t)
  BY StartedBook DEF FamilyInit
<1>2. /\ FamilyBook(book) /\ ActiveRuns(book) = {Root} /\ book.nextOrdinal = 2
      /\ DOMAIN book.children = {} /\ Root \in HeldRuns(book.ex)
  BY <1>1, FirstBook
<1>3. /\ cancels = [r \in {Root} |-> FALSE] /\ live = {Root}
      /\ slots = [c \in {} |-> "None"] /\ worker = [c \in {} |-> "None"]
      /\ parent = [pc |-> "turn", ok |-> TRUE, stop |-> FALSE, todo |-> {}, commands |-> 0]
      /\ finishing = NoFinish /\ signals = {}
      /\ hindered = [faults |-> 0, late |-> FALSE, raced |-> FALSE]
  BY DEF FamilyInit
<1>4. ActiveChildren(book) = {}
  BY <1>2 DEF ActiveChildren
<1>5. ParentInv
  <2>1. parent \in ParentRecord
    BY <1>3, FamilyAssumption DEF ParentRecord, ParentPcs
  <2>. QED
    BY <1>2, <1>3, <2>1 DEF ParentInv, Commanding
<1>6. WorkerInv
  BY <1>2, <1>3 DEF WorkerInv
<1>7. HandleInv
  BY <1>2, <1>3, <1>4 DEF HandleInv
<1>8. FinishInv
  BY <1>3 DEF FinishInv, NoFinish
<1>9. HinderInv
  BY <1>3, <1>4 DEF HinderInv, HinderRecord
<1>. QED
  BY <1>2, <1>5, <1>6, <1>7, <1>8, <1>9 DEF FamilyInv
-----------------------------------------------------------------------------
(* What keeps each part of the invariant *)

\* The book of a step that admits and ends no child, and takes no child's lease.
Kept(b, n) ==
    /\ Settled(b, n)
    /\ ActiveChildren(n) = ActiveChildren(b)
    /\ HeldRuns(b.ex) \ {Root} \subseteq HeldRuns(n.ex)

\* A book that does not change is such a book.
LEMMA KeptUnchanged == ASSUME NEW b, FamilyBook(b) PROVE Kept(b, b)
  BY DEF Kept, Settled

\* What has gone wrong stays wrong.
HindranceKept == hindered' \in HinderRecord /\ (Unhindered' => Unhindered)

\* A fault, a deadline and a race are kept.
LEMMA Hindrances ==
    ASSUME HinderInv
    PROVE  /\ UNCHANGED hindered => HindranceKept
           /\ Fault => HindranceKept /\ ~Unhindered'
           /\ Late => HindranceKept /\ ~Unhindered'
           /\ hindered' = [hindered EXCEPT !.raced = TRUE] => HindranceKept /\ ~Unhindered'
<1>1. hindered \in HinderRecord
  BY DEF HinderInv
<1>2. UNCHANGED hindered => HindranceKept
  BY <1>1 DEF HindranceKept, Unhindered
<1>3. Fault => HindranceKept /\ ~Unhindered'
  <2>1. ASSUME Fault PROVE hindered' \in HinderRecord /\ hindered'.faults # 0
    BY <1>1, <2>1 DEF Fault, HinderRecord
  <2>. QED
    BY <2>1 DEF HindranceKept, Unhindered
<1>4. Late => HindranceKept /\ ~Unhindered'
  <2>1. ASSUME Late PROVE hindered' \in HinderRecord /\ hindered'.late = TRUE
    BY <1>1, <2>1 DEF Late, HinderRecord
  <2>. QED
    BY <2>1 DEF HindranceKept, Unhindered
<1>5. hindered' = [hindered EXCEPT !.raced = TRUE] => HindranceKept /\ ~Unhindered'
  <2>1. ASSUME hindered' = [hindered EXCEPT !.raced = TRUE]
        PROVE  hindered' \in HinderRecord /\ hindered'.raced = TRUE
    BY <1>1, <2>1 DEF HinderRecord
  <2>. QED
    BY <2>1 DEF HindranceKept, Unhindered
<1>. QED
  BY <1>2, <1>3, <1>4, <1>5

\* The parent's worker goes from one place to another, without a new position
\* of the book.
ParentGoes ==
    /\ parent' \in ParentRecord
    /\ parent'.todo \subseteq DOMAIN book.children
    /\ parent'.commands = parent.commands
    /\ book'.nextOrdinal = book.nextOrdinal
    /\ parent'.pc \in Commanding => parent.pc \in Commanding
    /\ parent'.pc = "request" => parent.pc \in Commanding \cup {"request"}
    /\ parent'.pc = "completed" <=> parent.pc = "completed"
    /\ parent'.pc = "turn" => Root \in HeldRuns(book'.ex)
    /\ parent'.pc = "completing" => Root \notin live'
    /\ live' \ DOMAIN worker \subseteq live

\* Such a step keeps what is said of the parent.
LEMMA ParentFrame ==
    ASSUME FamilyInv, Settled(book, book'), ParentGoes
    PROVE  ParentInv'
<1>1. ParentInv /\ WorkerInv /\ Root \notin DOMAIN book.children
  BY FamilyFacts DEF FamilyInv
<1>2. ActiveRuns(book') = ActiveRuns(book) /\ DOMAIN book'.children = DOMAIN book.children
  BY DEF Settled
<1>3. /\ parent' \in ParentRecord /\ parent'.todo \subseteq DOMAIN book'.children
      /\ DOMAIN book'.children \subseteq 2 .. 2 * parent'.commands
      /\ book'.nextOrdinal <= 2 * parent'.commands + 2
  BY <1>1, <1>2 DEF ParentGoes, ParentInv
<1>4. parent'.pc \in Commanding => book'.nextOrdinal <= 2 * parent'.commands
  BY <1>1 DEF ParentGoes, ParentInv
<1>5. parent'.pc = "request" => book'.nextOrdinal <= 2 * parent'.commands + 1
  <2>1. book.nextOrdinal \in Nat /\ parent.commands \in Nat
    BY <1>1, FamilyFacts, FamilyAssumption DEF FamilyInv, ParentInv, ParentRecord
  <2>2. CASE parent.pc \in Commanding
    <3>1. book.nextOrdinal <= 2 * parent.commands
      BY <1>1, <2>2 DEF ParentInv
    <3>2. book.nextOrdinal <= 2 * parent.commands + 1
      BY <2>1, <3>1
    <3>. QED
      BY <3>2 DEF ParentGoes
  <2>3. CASE parent.pc = "request"
    BY <1>1, <2>3 DEF ParentGoes, ParentInv
  <2>. QED
    BY <2>2, <2>3 DEF ParentGoes
<1>6. parent'.pc = "completed" <=> Root \notin ActiveRuns(book')
  BY <1>1, <1>2 DEF ParentGoes, ParentInv
<1>7. parent'.pc \in {"completing", "completed"} => Root \notin live'
  <2>1. Root \notin DOMAIN worker
    BY <1>1 DEF WorkerInv
  <2>. QED
    BY <1>1, <2>1 DEF ParentGoes, ParentInv
<1>. QED
  BY <1>3, <1>4, <1>5, <1>6, <1>7 DEF ParentInv, ParentGoes

\* A step that stores no outcome keeps what is said of the workers, if no
\* child with a working worker ends.
LEMMA WorkerFrame ==
    ASSUME FamilyInv, Settled(book, book'), UNCHANGED <<slots, worker>>,
           \A c \in DOMAIN worker : worker[c].pc \in Working /\ c \in ActiveChildren(book)
                => c \in ActiveChildren(book')
    PROVE  WorkerInv'
  BY DEF FamilyInv, WorkerInv, Settled

\* The handles keep their owners.
LEMMA HandleFrame ==
    ASSUME FamilyInv, Kept(book, book'),
           cancels' \in [DOMAIN cancels -> BOOLEAN], live' \subseteq live, UNCHANGED worker,
           signals' \subseteq {Root} \cup DOMAIN book.children
    PROVE  HandleInv'
<1>1. HandleInv
  BY DEF FamilyInv
<1>2. DOMAIN cancels = ActiveRuns(book') \cup ActiveChildren(book')
  BY <1>1 DEF HandleInv, Kept, Settled
<1>3. cancels' \in [ActiveRuns(book') \cup ActiveChildren(book') -> BOOLEAN]
  BY <1>2
<1>. QED
  BY <1>1, <1>3 DEF HandleInv, Kept, Settled

\* The call that holds the lock goes on.
LEMMA FinishFrame ==
    ASSUME FamilyInv, UNCHANGED finishing, DOMAIN worker \subseteq DOMAIN worker',
           Finished \subseteq Finished'
    PROVE  FinishInv'
  BY DEF FamilyInv, FinishInv

\* The parent's worker leaves close() only when no child is active, and is
\* refused only then, unless something went wrong.
ParentUnhindered ==
    /\ parent'.pc \in {"await", "completing"} =>
        parent.pc \in {"await", "completing"} \/ ~Unhindered' \/ ActiveChildren(book) = {}
    /\ parent'.pc = "refused" => parent.pc = "refused" \/ ~Unhindered'

\* Such a step keeps what is said of hindrances.
LEMMA HinderFrame ==
    ASSUME FamilyInv, HindranceKept, ParentUnhindered,
           ActiveChildren(book') \subseteq ActiveChildren(book)
    PROVE  HinderInv'
<1>1. HinderInv
  BY DEF FamilyInv
<1>2. hindered' \in HinderRecord /\ (Unhindered' => Unhindered)
  BY DEF HindranceKept
<1>3. ASSUME parent'.pc \in {"await", "completing"}, Unhindered' PROVE ActiveChildren(book') = {}
  <2>1. parent.pc \in {"await", "completing"} \/ ActiveChildren(book) = {}
    BY <1>3 DEF ParentUnhindered
  <2>2. ActiveChildren(book) = {}
    BY <1>1, <1>2, <1>3, <2>1 DEF HinderInv
  <2>. QED
    BY <2>2
<1>4. ASSUME parent'.pc = "refused" PROVE ~Unhindered'
  BY <1>1, <1>2, <1>4 DEF ParentUnhindered, HinderInv
<1>. QED
  BY <1>2, <1>3, <1>4 DEF HinderInv

\* A step of the parent's worker, of the user or of the reaper that leaves the
\* workers and finish_ready() alone.
LEMMA RestFrame ==
    ASSUME FamilyInv, Kept(book, book'), ParentInv', ParentUnhindered, HindranceKept,
           UNCHANGED <<slots, worker, finishing>>,
           cancels' \in [DOMAIN cancels -> BOOLEAN], live' \subseteq live,
           signals' \subseteq {Root} \cup DOMAIN book.children
    PROVE  FamilyInv'
<1>1. Settled(book, book') /\ ActiveChildren(book') = ActiveChildren(book)
  BY DEF Kept
<1>2. FamilyBook(book')
  BY <1>1 DEF Settled
<1>3. WorkerInv'
  BY <1>1, WorkerFrame
<1>4. HandleInv'
  BY HandleFrame
<1>5. FinishInv'
  <2>1. Finished \subseteq Finished'
    BY DEF Finished
  <2>. QED
    BY <2>1, FinishFrame
<1>6. HinderInv'
  BY <1>1, HinderFrame
<1>. QED
  BY <1>2, <1>3, <1>4, <1>5, <1>6 DEF FamilyInv

\* The same when the parent's worker takes no new position.
LEMMA StepFrame ==
    ASSUME FamilyInv, Kept(book, book'), ParentGoes, ParentUnhindered, HindranceKept,
           UNCHANGED <<slots, worker, finishing>>,
           cancels' \in [DOMAIN cancels -> BOOLEAN], live' \subseteq live,
           signals' \subseteq {Root} \cup DOMAIN book.children
    PROVE  FamilyInv'
<1>1. ParentInv'
  BY ParentFrame DEF Kept
<1>. QED
  BY <1>1, RestFrame

\* The ways the parent's worker moves.
LEMMA ParentMoves ==
    ASSUME parent \in ParentRecord
    PROVE  /\ \A pc \in ParentPcs : Goto(pc) =>
                /\ parent' \in ParentRecord /\ parent'.pc = pc
                /\ parent'.todo = parent.todo /\ parent'.commands = parent.commands
           /\ \A ok \in BOOLEAN : EndTurn(ok) =>
                /\ parent' \in ParentRecord /\ parent'.pc = "over"
                /\ parent'.todo = parent.todo /\ parent'.commands = parent.commands
                /\ live' \subseteq live
           /\ \A ok \in BOOLEAN : Return(ok) =>
                /\ parent' \in ParentRecord /\ parent'.pc = "await"
                /\ parent'.todo = parent.todo /\ parent'.commands = parent.commands
           /\ \A ok \in BOOLEAN : StartClose(ok) /\ ActiveChildren(book) \subseteq Nat =>
                /\ parent' \in ParentRecord /\ parent'.pc = "closing"
                /\ parent'.todo = ActiveChildren(book) /\ parent'.commands = parent.commands
<1>1. ASSUME NEW pc \in ParentPcs, Goto(pc)
      PROVE  /\ parent' \in ParentRecord /\ parent'.pc = pc
             /\ parent'.todo = parent.todo /\ parent'.commands = parent.commands
  BY <1>1 DEF Goto, ParentRecord
<1>2. ASSUME NEW ok \in BOOLEAN, EndTurn(ok)
      PROVE  /\ parent' \in ParentRecord /\ parent'.pc = "over"
             /\ parent'.todo = parent.todo /\ parent'.commands = parent.commands
             /\ live' \subseteq live
  BY <1>2 DEF EndTurn, ParentRecord, ParentPcs, LeaveProcesses
<1>3. ASSUME NEW ok \in BOOLEAN, Return(ok)
      PROVE  /\ parent' \in ParentRecord /\ parent'.pc = "await"
             /\ parent'.todo = parent.todo /\ parent'.commands = parent.commands
  <2>1. (parent.ok /\ ok) \in BOOLEAN
    OBVIOUS
  <2>2. parent' = [parent EXCEPT !.pc = "await", !.ok = parent.ok /\ ok]
    BY <1>3 DEF Return
  <2>. QED
    BY <2>1, <2>2 DEF ParentRecord, ParentPcs
<1>4. ASSUME NEW ok \in BOOLEAN, StartClose(ok), ActiveChildren(book) \subseteq Nat
      PROVE  /\ parent' \in ParentRecord /\ parent'.pc = "closing"
             /\ parent'.todo = ActiveChildren(book) /\ parent'.commands = parent.commands
  <2>1. (parent.ok /\ ok) \in BOOLEAN
    OBVIOUS
  <2>2. PICK z : z = ActiveChildren(book)
    OBVIOUS
  <2>3. parent' = [parent EXCEPT !.pc = "closing", !.ok = parent.ok /\ ok, !.todo = z]
    BY <1>4, <2>2 DEF StartClose
  <2>4. z \in SUBSET Nat
    BY <1>4, <2>2
  <2>. QED
    BY <2>1, <2>2, <2>3, <2>4 DEF ParentRecord, ParentPcs
<1>. QED
  BY <1>1, <1>2, <1>3, <1>4

\* The ways the handles change without a new owner.
LEMMA HandlesKept ==
    ASSUME HandleInv
    PROVE  /\ UNCHANGED cancels => cancels' \in [DOMAIN cancels -> BOOLEAN]
           /\ \A ids : cancels' = Signalled(ids) => cancels' \in [DOMAIN cancels -> BOOLEAN]
           /\ \A c : \A v \in BOOLEAN :
                cancels' = [cancels EXCEPT ![c] = v] => cancels' \in [DOMAIN cancels -> BOOLEAN]
<1>1. cancels \in [DOMAIN cancels -> BOOLEAN]
  BY DEF HandleInv
<1>2. ASSUME NEW ids, cancels' = Signalled(ids) PROVE cancels' \in [DOMAIN cancels -> BOOLEAN]
  <2>1. \A r \in DOMAIN cancels : (cancels[r] \/ r \in CancelSelection(book, ids)) \in BOOLEAN
    OBVIOUS
  <2>. QED
    BY <1>2, <2>1 DEF Signalled
<1>3. ASSUME NEW c, NEW v \in BOOLEAN, cancels' = [cancels EXCEPT ![c] = v]
      PROVE  cancels' \in [DOMAIN cancels -> BOOLEAN]
  BY <1>1, <1>3
<1>. QED
  BY <1>1, <1>2, <1>3
-----------------------------------------------------------------------------
(* The steps of the parent's turn *)

\* What every step starts from.
LEMMA InvFacts ==
    ASSUME FamilyInv
    PROVE  /\ FamilyBook(book) /\ ParentInv /\ WorkerInv /\ HandleInv /\ FinishInv /\ HinderInv
           /\ parent \in ParentRecord
           /\ parent.todo \subseteq DOMAIN book.children
           /\ DOMAIN book.children \subseteq Nat
           /\ ActiveChildren(book) \subseteq Nat
           /\ ActiveChildren(book) \subseteq DOMAIN book.children
           /\ signals \subseteq {Root} \cup DOMAIN book.children
           /\ Root \notin DOMAIN book.children
           /\ book.nextOrdinal \in Nat \ {0, 1}
           /\ parent.commands \in Nat
<1>1. FamilyBook(book) /\ ParentInv /\ WorkerInv /\ HandleInv /\ FinishInv /\ HinderInv
  BY DEF FamilyInv
<1>2. /\ Root \notin DOMAIN book.children /\ book.nextOrdinal \in Nat \ {0, 1}
      /\ DOMAIN book.children \subseteq Nat
  BY <1>1, FamilyFacts
<1>3. parent \in ParentRecord /\ parent.commands \in Nat
  BY <1>1, FamilyAssumption DEF ParentInv, ParentRecord
<1>4. ActiveChildren(book) \subseteq DOMAIN book.children
  BY DEF ActiveChildren
<1>. QED
  BY <1>1, <1>2, <1>3, <1>4 DEF ParentInv, HandleInv

\* A step of the parent's worker that leaves the book, the handles and the
\* processes alone, or changes them as Kept allows, and goes to one of these
\* places.
LEMMA ParentSteps ==
    ASSUME FamilyInv, Kept(book, book'), book'.nextOrdinal = book.nextOrdinal,
           parent' \in ParentRecord, parent'.commands = parent.commands,
           parent'.todo \subseteq DOMAIN book.children,
           parent.pc # "completed",
           \/ parent'.pc \in Commanding \cup {"request"} /\ parent.pc \in Commanding
           \/ parent'.pc \in {"over", "drain", "closing", "signalling", "resume"}
           \/ parent'.pc = "turn" /\ Root \in HeldRuns(book'.ex)
           \/ parent'.pc = "await" /\ (~Unhindered' \/ ActiveChildren(book) = {})
           \/ parent'.pc = "refused" /\ ~Unhindered',
           HindranceKept, UNCHANGED <<slots, worker, finishing, signals>>,
           cancels' \in [DOMAIN cancels -> BOOLEAN], live' \subseteq live
    PROVE  FamilyInv'
<1>1. ParentGoes
  BY DEF ParentGoes, Commanding
<1>2. ParentUnhindered
  BY DEF ParentUnhindered, Commanding
<1>3. signals' \subseteq {Root} \cup DOMAIN book.children
  BY InvFacts
<1>. QED
  BY <1>1, <1>2, <1>3, StepFrame

\* A command begins: it takes one of the parent's commands, and with it two
\* positions.
LEMMA CommandBeginsInv == ASSUME FamilyInv, CommandBegins PROVE FamilyInv'
<1>1. /\ parent.pc = "turn" /\ parent.commands < MaxCommands /\ YieldRunOk(book, Root)
      /\ book' = YieldRunTo(book, Root)
      /\ parent' = [parent EXCEPT !.pc = "command", !.commands = parent.commands + 1]
      /\ UNCHANGED <<cancels, live, slots, worker, finishing, signals, hindered>>
  BY DEF CommandBegins, AtParent
<1>2. /\ Settled(book, book') /\ ActiveChildren(book') = ActiveChildren(book)
      /\ HeldRuns(book'.ex) = HeldRuns(book.ex) \ {Root}
      /\ book'.nextOrdinal = book.nextOrdinal
  BY <1>1, InvFacts, YieldKeeps
<1>3. Kept(book, book')
  BY <1>2 DEF Kept
<1>4. /\ parent' \in ParentRecord /\ parent'.pc = "command" /\ parent'.todo = parent.todo
      /\ parent'.commands = parent.commands + 1
  <2>1. parent \in ParentRecord /\ parent.commands \in Nat
    BY InvFacts
  <2>2. parent.commands + 1 \in 0 .. MaxCommands
    BY <1>1, <2>1, FamilyAssumption
  <2>. QED
    BY <1>1, <2>1, <2>2 DEF ParentRecord, ParentPcs
<1>5. ParentInv'
  <2>1. ParentInv /\ book.nextOrdinal \in Nat /\ parent.commands \in Nat
    BY InvFacts
  <2>2. book'.nextOrdinal <= 2 * parent'.commands /\ book'.nextOrdinal <= 2 * parent'.commands + 2
    BY <1>2, <1>4, <2>1 DEF ParentInv
  <2>3. ActiveRuns(book') = ActiveRuns(book) /\ DOMAIN book'.children = DOMAIN book.children
    BY <1>2 DEF Settled
  <2>4. DOMAIN book'.children \subseteq 2 .. 2 * parent'.commands
    BY <1>4, <2>1, <2>3 DEF ParentInv
  <2>5. Root \in ActiveRuns(book')
    BY <1>1, <2>1, <2>3 DEF ParentInv
  <2>. QED
    BY <1>4, <2>1, <2>2, <2>3, <2>4, <2>5 DEF ParentInv
<1>6. ParentUnhindered
  BY <1>4 DEF ParentUnhindered
<1>7. HindranceKept /\ cancels' \in [DOMAIN cancels -> BOOLEAN]
  BY <1>1, InvFacts, Hindrances, HandlesKept
<1>8. signals' \subseteq {Root} \cup DOMAIN book.children /\ live' \subseteq live
  BY <1>1, InvFacts
<1>. QED
  BY <1>1, <1>3, <1>5, <1>6, <1>7, <1>8, RestFrame

\* Steps that only move the parent's worker.
LEMMA CommandWalksInv == ASSUME FamilyInv, CommandErrs \/ WaitBegins \/ WaitEnds PROVE FamilyInv'
<1>1. PICK pc \in {"request", "wait"} :
        /\ parent.pc \in Commanding /\ Goto(pc)
        /\ UNCHANGED <<book, cancels, live, slots, worker, finishing, signals, hindered>>
  BY DEF CommandErrs, WaitBegins, WaitEnds, AtParent, Commanding
<1>2. /\ parent' \in ParentRecord /\ parent'.pc \in Commanding \cup {"request"}
      /\ parent'.todo = parent.todo /\ parent'.commands = parent.commands
  <2>1. pc \in ParentPcs
    BY DEF ParentPcs
  <2>. QED
    BY <1>1, <2>1, InvFacts, ParentMoves DEF Commanding
<1>3. Kept(book, book') /\ HindranceKept /\ cancels' \in [DOMAIN cancels -> BOOLEAN]
  BY <1>1, InvFacts, Hindrances, HandlesKept, KeptUnchanged
<1>4. parent.pc # "completed"
  BY <1>1 DEF Commanding
<1>5. parent'.todo \subseteq DOMAIN book.children /\ live' \subseteq live
  BY <1>1, <1>2, InvFacts
<1>. QED
  BY <1>1, <1>2, <1>3, <1>4, <1>5, ParentSteps

\* Message: the budget of the parent pays for it.
LEMMA MessageInv ==
    ASSUME FamilyInv, NEW c \in DOMAIN book.children, Message(c)
    PROVE  FamilyInv'
<1>1. /\ parent.pc \in Commanding /\ Goto("request") /\ ReserveMessageOk(book, Root, c)
      /\ book' = ReserveMessageTo(book, Root)
      /\ UNCHANGED <<cancels, live, slots, worker, finishing, signals, hindered>>
  BY DEF Message, AtParent, Commanding
<1>2. Kept(book, book') /\ book'.nextOrdinal = book.nextOrdinal
  BY <1>1, InvFacts, ReserveKeeps DEF Kept
<1>3. /\ parent' \in ParentRecord /\ parent'.pc = "request"
      /\ parent'.todo = parent.todo /\ parent'.commands = parent.commands
  BY <1>1, InvFacts, ParentMoves DEF ParentPcs
<1>4. HindranceKept /\ cancels' \in [DOMAIN cancels -> BOOLEAN]
  BY <1>1, InvFacts, Hindrances, HandlesKept
<1>5. parent'.todo \subseteq DOMAIN book.children /\ live' \subseteq live /\ parent.pc # "completed"
  BY <1>1, <1>3, InvFacts DEF Commanding
<1>. QED
  BY <1>1, <1>2, <1>3, <1>4, <1>5, ParentSteps

\* Stop: the child it names is one of the book.
LEMMA StopCommandInv ==
    ASSUME FamilyInv, NEW c \in DOMAIN book.children, StopCommand(c)
    PROVE  FamilyInv'
<1>1. /\ parent.pc \in Commanding /\ StopChildOk(book, c) /\ book' = StopChildTo(book, c)
      /\ parent' = [parent EXCEPT !.pc = "stopping", !.todo = {c}]
      /\ UNCHANGED <<cancels, live, slots, worker, finishing, signals, hindered>>
  BY DEF StopCommand, AtParent, Commanding
<1>2. Kept(book, book') /\ book'.nextOrdinal = book.nextOrdinal
  BY <1>1, InvFacts, StopChildKeeps DEF Kept
<1>3. /\ parent' \in ParentRecord /\ parent'.pc = "stopping"
      /\ parent'.todo = {c} /\ parent'.commands = parent.commands
  <2>1. parent \in ParentRecord /\ {c} \in SUBSET Nat
    BY InvFacts
  <2>. QED
    BY <1>1, <2>1 DEF ParentRecord, ParentPcs
<1>4. HindranceKept /\ cancels' \in [DOMAIN cancels -> BOOLEAN]
  BY <1>1, InvFacts, Hindrances, HandlesKept
<1>5. parent'.todo \subseteq DOMAIN book.children /\ live' \subseteq live /\ parent.pc # "completed"
  BY <1>1, <1>3 DEF Commanding
<1>6. parent'.pc \in Commanding
  BY <1>3 DEF Commanding
<1>. QED
  BY <1>1, <1>2, <1>3, <1>4, <1>5, <1>6, ParentSteps

\* The stop is signalled, or the signal fails.
LEMMA StopSignalledInv == ASSUME FamilyInv, StopSignalled PROVE FamilyInv'
<1>1. /\ parent.pc \in Commanding
      /\ \/ cancels' = Signalled(parent.todo) /\ UNCHANGED hindered
         \/ Fault /\ UNCHANGED cancels
      /\ parent' = [parent EXCEPT !.pc = "request", !.todo = {}]
      /\ UNCHANGED <<book, live, slots, worker, finishing, signals>>
  BY DEF StopSignalled, AtParent, Commanding
<1>2. Kept(book, book')
  BY <1>1, InvFacts, KeptUnchanged
<1>3. /\ parent' \in ParentRecord /\ parent'.pc = "request"
      /\ parent'.todo = {} /\ parent'.commands = parent.commands
  <2>1. parent \in ParentRecord /\ {} \in SUBSET Nat
    BY InvFacts
  <2>. QED
    BY <1>1, <2>1 DEF ParentRecord, ParentPcs
<1>4. HindranceKept /\ cancels' \in [DOMAIN cancels -> BOOLEAN]
  BY <1>1, InvFacts, Hindrances, HandlesKept
<1>5. parent'.todo \subseteq DOMAIN book.children /\ live' \subseteq live /\ parent.pc # "completed"
  BY <1>1, <1>3 DEF Commanding
<1>. QED
  BY <1>1, <1>2, <1>3, <1>4, <1>5, ParentSteps
\* The turn ends, whatever it leaves behind.
LEMMA EndTurnInv ==
    ASSUME FamilyInv, NEW ok \in BOOLEAN, EndTurn(ok), parent.pc # "completed", HindranceKept,
           UNCHANGED <<book, cancels, slots, worker, finishing, signals>>
    PROVE  FamilyInv'
<1>1. /\ parent' \in ParentRecord /\ parent'.pc = "over"
      /\ parent'.todo = parent.todo /\ parent'.commands = parent.commands
      /\ live' \subseteq live
  BY InvFacts, ParentMoves
<1>2. Kept(book, book') /\ cancels' \in [DOMAIN cancels -> BOOLEAN]
  BY InvFacts, HandlesKept, KeptUnchanged
<1>3. parent'.todo \subseteq DOMAIN book.children
  BY <1>1, InvFacts
<1>. QED
  BY <1>1, <1>2, <1>3, ParentSteps

\* The parent asks for its lease again, at the position after its command's.
LEMMA RequestResumeInv == ASSUME FamilyInv, RequestResume PROVE FamilyInv'
<1>1. parent.pc = "request" /\ UNCHANGED <<cancels, slots, worker, finishing, signals>>
  BY DEF RequestResume, AtParent
<1>2. \/ /\ ResumeRunOk(book, Root) /\ book' = ResumeRunTo(book, Root)
         /\ Goto("resume") /\ UNCHANGED <<live, hindered>>
      \/ EndTurn(FALSE) /\ UNCHANGED book /\ (Fault \/ UNCHANGED hindered)
  BY DEF RequestResume
<1>3. CASE EndTurn(FALSE) /\ UNCHANGED book /\ (Fault \/ UNCHANGED hindered)
  <2>1. HindranceKept
    BY <1>3, InvFacts, Hindrances
  <2>. QED
    BY <1>1, <1>3, <2>1, EndTurnInv
<1>4. CASE /\ ResumeRunOk(book, Root) /\ book' = ResumeRunTo(book, Root)
           /\ Goto("resume") /\ UNCHANGED <<live, hindered>>
  <2>1. /\ Settled(book, book') /\ ActiveChildren(book') = ActiveChildren(book)
        /\ HeldRuns(book'.ex) = HeldRuns(book.ex) \ {Root}
        /\ book'.nextOrdinal = book.nextOrdinal + 1
    BY <1>4, InvFacts, ResumeKeeps
  <2>2. Kept(book, book')
    BY <2>1 DEF Kept
  <2>3. /\ parent' \in ParentRecord /\ parent'.pc = "resume"
        /\ parent'.todo = parent.todo /\ parent'.commands = parent.commands
    BY <1>4, InvFacts, ParentMoves DEF ParentPcs
  <2>4. ParentInv'
    <3>1. ParentInv /\ book.nextOrdinal \in Nat /\ parent.commands \in Nat
      BY InvFacts
    <3>2. book'.nextOrdinal <= 2 * parent'.commands + 2
      BY <1>1, <2>1, <2>3, <3>1 DEF ParentInv
    <3>3. ActiveRuns(book') = ActiveRuns(book) /\ DOMAIN book'.children = DOMAIN book.children
      BY <2>1 DEF Settled
    <3>4. parent'.pc \notin Commanding
      BY <2>3 DEF Commanding
    <3>. QED
      BY <1>1, <2>3, <3>1, <3>2, <3>3, <3>4 DEF ParentInv
  <2>5. ParentUnhindered
    BY <2>3 DEF ParentUnhindered
  <2>6. HindranceKept /\ cancels' \in [DOMAIN cancels -> BOOLEAN]
    BY <1>1, <1>4, InvFacts, Hindrances, HandlesKept
  <2>7. signals' \subseteq {Root} \cup DOMAIN book.children /\ live' \subseteq live
    BY <1>1, <1>4, InvFacts
  <2>. QED
    BY <1>1, <2>2, <2>4, <2>5, <2>6, <2>7, RestFrame
<1>. QED
  BY <1>2, <1>3, <1>4

\* The parent executes again, with a lease.
LEMMA ResumeAcquiresInv == ASSUME FamilyInv, ResumeAcquires PROVE FamilyInv'
<1>1. /\ parent.pc = "resume" /\ AcquireRunOk(book, Root) /\ book' = AcquireRunTo(book, Root)
      /\ Goto("turn")
      /\ UNCHANGED <<cancels, live, slots, worker, finishing, signals, hindered>>
  BY DEF ResumeAcquires, AtParent, Acquires
<1>2. /\ Settled(book, book') /\ ActiveChildren(book') = ActiveChildren(book)
      /\ HeldRuns(book'.ex) = HeldRuns(book.ex) \cup {Root}
      /\ book'.nextOrdinal = book.nextOrdinal
  BY <1>1, InvFacts, AcquireKeeps
<1>3. Kept(book, book') /\ Root \in HeldRuns(book'.ex)
  BY <1>2 DEF Kept
<1>4. /\ parent' \in ParentRecord /\ parent'.pc = "turn"
      /\ parent'.todo = parent.todo /\ parent'.commands = parent.commands
  BY <1>1, InvFacts, ParentMoves DEF ParentPcs
<1>5. HindranceKept /\ cancels' \in [DOMAIN cancels -> BOOLEAN]
  BY <1>1, InvFacts, Hindrances, HandlesKept
<1>6. parent'.todo \subseteq DOMAIN book.children /\ live' \subseteq live /\ parent.pc # "completed"
  BY <1>1, <1>4, InvFacts
<1>. QED
  BY <1>1, <1>2, <1>3, <1>4, <1>5, <1>6, ParentSteps

\* The turn fails or ends by itself.
LEMMA TurnEndsInv == ASSUME FamilyInv, ResumeFails \/ TurnEnds PROVE FamilyInv'
<1>1. PICK ok \in BOOLEAN :
        /\ parent.pc # "completed" /\ EndTurn(ok)
        /\ UNCHANGED <<book, cancels, slots, worker, finishing, signals, hindered>>
  BY DEF ResumeFails, TurnEnds, AtParent
<1>2. HindranceKept
  BY <1>1, InvFacts, Hindrances
<1>. QED
  BY <1>1, <1>2, EndTurnInv

-----------------------------------------------------------------------------
(* The steps after the turn *)

\* close() begins with the children that are active.
LEMMA StartCloseInv ==
    ASSUME FamilyInv, NEW ok \in BOOLEAN, StartClose(ok), parent.pc # "completed", HindranceKept,
           UNCHANGED <<book, cancels, live, slots, worker, finishing, signals>>
    PROVE  FamilyInv'
<1>1. /\ parent' \in ParentRecord /\ parent'.pc = "closing"
      /\ parent'.todo = ActiveChildren(book) /\ parent'.commands = parent.commands
  BY InvFacts, ParentMoves
<1>2. Kept(book, book') /\ cancels' \in [DOMAIN cancels -> BOOLEAN]
  BY InvFacts, HandlesKept, KeptUnchanged
<1>3. parent'.todo \subseteq DOMAIN book.children /\ live' \subseteq live
  BY <1>1, InvFacts
<1>. QED
  BY <1>1, <1>2, <1>3, ParentSteps

\* finish_after_parent() returns: every child has ended, or something went wrong.
LEMMA ReturnInv ==
    ASSUME FamilyInv, NEW ok \in BOOLEAN, Return(ok), parent.pc # "completed", HindranceKept,
           ~Unhindered' \/ ActiveChildren(book) = {},
           Kept(book, book'), book'.nextOrdinal = book.nextOrdinal,
           UNCHANGED <<cancels, live, slots, worker, finishing, signals>>
    PROVE  FamilyInv'
<1>1. /\ parent' \in ParentRecord /\ parent'.pc = "await"
      /\ parent'.todo = parent.todo /\ parent'.commands = parent.commands
  BY InvFacts, ParentMoves
<1>2. cancels' \in [DOMAIN cancels -> BOOLEAN]
  BY InvFacts, HandlesKept
<1>3. parent'.todo \subseteq DOMAIN book.children /\ live' \subseteq live
  BY <1>1, InvFacts
<1>. QED
  BY <1>1, <1>2, <1>3, ParentSteps

\* The parent hands its lease to its children, or closes the family.
LEMMA FinishAfterParentInv == ASSUME FamilyInv, FinishAfterParent PROVE FamilyInv'
<1>1. parent.pc = "over" /\ UNCHANGED <<cancels, live, slots, worker, finishing, signals>>
  BY DEF FinishAfterParent, AtParent
<1>2. \/ YieldRunOk(book, Root) /\ book' = YieldRunTo(book, Root) /\ Goto("drain") /\ UNCHANGED hindered
      \/ StartClose(TRUE) /\ UNCHANGED book /\ (Fault \/ UNCHANGED hindered)
      \/ YieldRunOk(book, Root) /\ book' = YieldRunTo(book, Root) /\ Fault /\ Return(FALSE)
  BY DEF FinishAfterParent
<1>3. YieldRunOk(book, Root) /\ book' = YieldRunTo(book, Root) =>
        Kept(book, book') /\ book'.nextOrdinal = book.nextOrdinal
  BY InvFacts, YieldKeeps DEF Kept
<1>4. CASE YieldRunOk(book, Root) /\ book' = YieldRunTo(book, Root) /\ Goto("drain") /\ UNCHANGED hindered
  <2>1. /\ parent' \in ParentRecord /\ parent'.pc = "drain"
        /\ parent'.todo = parent.todo /\ parent'.commands = parent.commands
    BY <1>4, InvFacts, ParentMoves DEF ParentPcs
  <2>2. HindranceKept /\ cancels' \in [DOMAIN cancels -> BOOLEAN]
    BY <1>1, <1>4, InvFacts, Hindrances, HandlesKept
  <2>3. parent'.todo \subseteq DOMAIN book.children /\ live' \subseteq live
    BY <1>1, <2>1, InvFacts
  <2>. QED
    BY <1>1, <1>3, <1>4, <2>1, <2>2, <2>3, ParentSteps
<1>5. CASE StartClose(TRUE) /\ UNCHANGED book /\ (Fault \/ UNCHANGED hindered)
  <2>1. HindranceKept
    BY <1>5, InvFacts, Hindrances
  <2>. QED
    BY <1>1, <1>5, <2>1, StartCloseInv
<1>6. CASE YieldRunOk(book, Root) /\ book' = YieldRunTo(book, Root) /\ Fault /\ Return(FALSE)
  <2>1. HindranceKept /\ ~Unhindered'
    BY <1>6, InvFacts, Hindrances
  <2>. QED
    BY <1>1, <1>3, <1>6, <2>1, ReturnInv
<1>. QED
  BY <1>2, <1>4, <1>5, <1>6

\* The children have ended, or the deadline has passed.
LEMMA DrainEndsInv == ASSUME FamilyInv, DrainEnds PROVE FamilyInv'
<1>1. PICK ok \in BOOLEAN :
        /\ parent.pc = "drain" /\ StartClose(ok) /\ (UNCHANGED hindered \/ Late)
        /\ UNCHANGED <<book, cancels, live, slots, worker, finishing, signals>>
  BY DEF DrainEnds, AtParent
<1>2. HindranceKept
  BY <1>1, InvFacts, Hindrances
<1>. QED
  BY <1>1, <1>2, StartCloseInv

\* close() records the stop of a child.
LEMMA CloseStopsInv == ASSUME FamilyInv, CloseStops PROVE FamilyInv'
<1>1. parent.pc = "closing" /\ UNCHANGED <<cancels, live, slots, worker, finishing, signals>>
  BY DEF CloseStops, AtParent
<1>2. cancels' \in [DOMAIN cancels -> BOOLEAN]
  BY <1>1, InvFacts, HandlesKept
<1>3. PICK c : c = NextToStop
  OBVIOUS
<1>4. \/ c \in ActiveChildren(book) /\ book' = StopChildTo(book, c) /\ Goto("signalling") /\ UNCHANGED hindered
      \/ parent' = [parent EXCEPT !.todo = parent.todo \ {c}] /\ UNCHANGED <<book, hindered>>
      \/ Fault /\ Return(FALSE) /\ UNCHANGED book
  BY <1>3 DEF CloseStops
<1>5. CASE c \in ActiveChildren(book) /\ book' = StopChildTo(book, c) /\ Goto("signalling") /\ UNCHANGED hindered
  <2>1. Kept(book, book') /\ book'.nextOrdinal = book.nextOrdinal
    BY <1>5, InvFacts, StopChildKeeps DEF Kept, StopChildOk
  <2>2. /\ parent' \in ParentRecord /\ parent'.pc = "signalling"
        /\ parent'.todo = parent.todo /\ parent'.commands = parent.commands
    BY <1>5, InvFacts, ParentMoves DEF ParentPcs
  <2>3. HindranceKept
    BY <1>5, InvFacts, Hindrances
  <2>4. parent'.todo \subseteq DOMAIN book.children /\ live' \subseteq live
    BY <1>1, <2>2, InvFacts
  <2>. QED
    BY <1>1, <1>2, <2>1, <2>2, <2>3, <2>4, ParentSteps
<1>6. CASE parent' = [parent EXCEPT !.todo = parent.todo \ {c}] /\ UNCHANGED <<book, hindered>>
  <2>1. /\ parent' \in ParentRecord /\ parent'.pc = "closing"
        /\ parent'.todo = parent.todo \ {c} /\ parent'.commands = parent.commands
    BY <1>1, <1>6, InvFacts DEF ParentRecord
  <2>2. HindranceKept /\ Kept(book, book')
    BY <1>6, InvFacts, Hindrances, KeptUnchanged
  <2>3. parent'.todo \subseteq DOMAIN book.children /\ live' \subseteq live
    BY <1>1, <2>1, InvFacts
  <2>. QED
    BY <1>1, <1>2, <1>6, <2>1, <2>2, <2>3, ParentSteps
<1>7. CASE Fault /\ Return(FALSE) /\ UNCHANGED book
  <2>1. HindranceKept /\ ~Unhindered' /\ Kept(book, book')
    BY <1>7, InvFacts, Hindrances, KeptUnchanged
  <2>. QED
    BY <1>1, <1>7, <2>1, ReturnInv
<1>. QED
  BY <1>4, <1>5, <1>6, <1>7

\* close() signals it.
LEMMA CloseSignalsInv == ASSUME FamilyInv, CloseSignals PROVE FamilyInv'
<1>1. parent.pc = "signalling" /\ UNCHANGED <<book, live, slots, worker, finishing, signals>>
  BY DEF CloseSignals, AtParent
<1>2. PICK c : c = NextToStop
  OBVIOUS
<1>3. \/ /\ cancels' = Signalled({c})
         /\ parent' = [parent EXCEPT !.pc = "closing", !.todo = parent.todo \ {c}]
         /\ UNCHANGED hindered
      \/ Fault /\ Return(FALSE) /\ UNCHANGED cancels
  BY <1>2 DEF CloseSignals
<1>4. Kept(book, book')
  BY <1>1, InvFacts, KeptUnchanged
<1>5. CASE /\ cancels' = Signalled({c})
           /\ parent' = [parent EXCEPT !.pc = "closing", !.todo = parent.todo \ {c}]
           /\ UNCHANGED hindered
  <2>1. /\ parent' \in ParentRecord /\ parent'.pc = "closing"
        /\ parent'.todo = parent.todo \ {c} /\ parent'.commands = parent.commands
    BY <1>5, InvFacts DEF ParentRecord, ParentPcs
  <2>2. HindranceKept /\ cancels' \in [DOMAIN cancels -> BOOLEAN]
    BY <1>5, InvFacts, Hindrances, HandlesKept
  <2>3. parent'.todo \subseteq DOMAIN book.children /\ live' \subseteq live
    BY <1>1, <2>1, InvFacts
  <2>. QED
    BY <1>1, <1>4, <2>1, <2>2, <2>3, ParentSteps
<1>6. CASE Fault /\ Return(FALSE) /\ UNCHANGED cancels
  <2>1. HindranceKept /\ ~Unhindered'
    BY <1>6, InvFacts, Hindrances
  <2>. QED
    BY <1>1, <1>4, <1>6, <2>1, ReturnInv
<1>. QED
  BY <1>3, <1>5, <1>6

\* close() returns.
LEMMA CloseEndsInv == ASSUME FamilyInv, CloseEnds PROVE FamilyInv'
<1>1. /\ parent.pc = "closing"
      /\ UNCHANGED <<book, cancels, live, slots, worker, finishing, signals>>
  BY DEF CloseEnds, AtParent
<1>2. PICK ok \in BOOLEAN :
        Return(ok) /\ (Late \/ (UNCHANGED hindered /\ ActiveChildren(book) = {}))
  BY DEF CloseEnds, AllInactive
<1>3. HindranceKept /\ (~Unhindered' \/ ActiveChildren(book) = {}) /\ Kept(book, book')
  BY <1>1, <1>2, InvFacts, Hindrances, KeptUnchanged
<1>. QED
  BY <1>1, <1>2, <1>3, ReturnInv

\* The processes of the parent are gone.
LEMMA CleanupAwaitedInv == ASSUME FamilyInv, CleanupAwaited PROVE FamilyInv'
<1>1. PICK stop : stop = (book.runs[Root].state = "StopRequested")
  OBVIOUS
<1>2. /\ parent.pc = "await" /\ Root \notin live
      /\ parent' = [parent EXCEPT !.pc = "completing", !.stop = stop]
      /\ UNCHANGED <<book, cancels, live, slots, worker, finishing, signals, hindered>>
  BY <1>1 DEF CleanupAwaited, AtParent, CleanupProven
<1>3. /\ parent' \in ParentRecord /\ parent'.pc = "completing"
      /\ parent'.todo = parent.todo /\ parent'.commands = parent.commands
  <2>1. stop \in BOOLEAN
    BY <1>1
  <2>. QED
    BY <1>2, <2>1, InvFacts DEF ParentRecord, ParentPcs
<1>4. HindranceKept /\ cancels' \in [DOMAIN cancels -> BOOLEAN] /\ Kept(book, book')
  BY <1>2, InvFacts, Hindrances, HandlesKept, KeptUnchanged
<1>5. ParentGoes
  <2>1. parent'.todo \subseteq DOMAIN book.children
    BY <1>3, InvFacts
  <2>. QED
    BY <1>2, <1>3, <2>1 DEF ParentGoes, Commanding
<1>6. ParentUnhindered
  BY <1>2, <1>3 DEF ParentUnhindered
<1>7. signals' \subseteq {Root} \cup DOMAIN book.children /\ live' \subseteq live
  BY <1>2, InvFacts
<1>. QED
  BY <1>2, <1>4, <1>5, <1>6, <1>7, StepFrame
\* When no child is active, the completion of the parent is not refused.
LEMMA NobodyLeft ==
    ASSUME FamilyInv, parent.pc = "completing", ActiveChildren(book) = {}
    PROVE  CleanupProven(Root) /\ CompleteRunOk(book, Root)
<1>1. /\ FamilyBook(book) /\ ParentInv /\ HandleInv
  BY InvFacts
<1>2. Root \in ActiveRuns(book) /\ Root \notin live
  BY <1>1 DEF ParentInv
<1>3. Root \in DOMAIN cancels
  BY <1>1, <1>2 DEF HandleInv
<1>4. Good(book, Roles) /\ BindingsValid(book) /\ ChildrenValid(book) /\ Validate(book.ex)
  BY <1>1 DEF FamilyBook, Good, ValidateBook, BindingsValid
<1>5. Root \in DOMAIN book.ex.members
  BY <1>2, <1>4 DEF BindingsValid, Roots
<1>6. ASSUME NEW m \in Family(book.ex, Root) \ {Root} PROVE ~Active(book.ex.members[m])
  <2>1. m \in DOMAIN book.ex.members /\ book.ex.members[m].family = Root /\ m # Root
    BY <1>6 DEF Family
  <2>2. IsChild(book.ex.members[m])
    BY <1>4, <2>1 DEF Validate, ParentsWellFormed
  <2>3. m \in DOMAIN book.children
    BY <1>4, <2>1, <2>2 DEF BindingsValid
  <2>4. ChildBound(book, m)
    BY <1>4, <2>3, ChildrenValidParts
  <2>5. book.children[m].state \notin ActiveChildStates
    BY <2>3 DEF ActiveChildren
  <2>6. book.ex.members[m].st \in ChildLeaseStates(book.children[m].state)
    BY <2>1, <2>4 DEF ChildBound
  <2>7. ChildLeaseStates(book.children[m].state) = {"Terminal"}
    BY <2>5 DEF ChildLeaseStates, ActiveChildStates
  <2>. QED
    BY <2>6, <2>7 DEF Active
<1>7. FinishOk(book.ex, Root, TRUE)
  BY <1>5, <1>6 DEF FinishOk
<1>8. CompleteRunOk(book, Root)
  BY <1>2, <1>4, <1>7, CompletionSettles
<1>. QED
  BY <1>2, <1>3, <1>8 DEF CleanupProven

\* No process is left when the completion of the parent is accepted.
LEMMA CompletedAlone ==
    ASSUME FamilyInv, parent.pc = "completing", CompleteRunOk(book, Root)
    PROVE  live = {}
<1>1. /\ FamilyBook(book) /\ ParentInv /\ HandleInv /\ WorkerInv
  BY InvFacts
<1>2. Root \notin live
  BY <1>1 DEF ParentInv
<1>3. ASSUME NEW x \in live PROVE FALSE
  <2>1. x # Root /\ x \in HeldRuns(book.ex) /\ x \in DOMAIN book.children
    BY <1>1, <1>2, <1>3 DEF HandleInv, WorkerInv
  <2>2. x \in DOMAIN book.ex.members /\ Occupies(book.ex.members[x])
    BY <2>1 DEF HeldRuns
  <2>3. book.children[x].parent = Root /\ ChildrenValid(book) /\ BindingsValid(book)
    BY <1>1, <2>1, FamilyFacts DEF FamilyBook, Good, ValidateBook
  <2>4. book.ex.members[x].family = Root
    <3>1. ChildBound(book, x)
      BY <2>1, <2>3, ChildrenValidParts
    <3>. QED
      BY <2>2, <2>3, <3>1 DEF ChildBound
  <2>5. ~IsChild(book.ex.members[Root])
    BY <2>3 DEF CompleteRunOk, BindingsValid, Roots
  <2>6. ~Active(book.ex.members[x])
    BY <2>1, <2>2, <2>4, <2>5 DEF CompleteRunOk, FinishOk, Family
  <2>. QED
    BY <2>2, <2>6 DEF Active, Occupies
<1>. QED
  BY <1>3

\* complete_run(): accepted, or refused after something went wrong.
LEMMA CompleteRunInv == ASSUME FamilyInv, CompleteRun PROVE FamilyInv'
<1>1. parent.pc = "completing" /\ UNCHANGED <<live, slots, worker, finishing, signals>>
  BY DEF CompleteRun, AtParent
<1>2. \/ /\ CompleteRunOk(book, Root)
         /\ \E completion \in Completions : book' = CompleteRunTo(book, Root, completion)
         /\ cancels' = Without(cancels, {Root}) /\ Goto("completed") /\ UNCHANGED hindered
      \/ Fault /\ Goto("refused") /\ UNCHANGED <<book, cancels>>
      \/ /\ ~(CleanupProven(Root) /\ CompleteRunOk(book, Root))
         /\ Goto("refused") /\ UNCHANGED <<book, cancels, hindered>>
  BY DEF CompleteRun
<1>3. CASE /\ CompleteRunOk(book, Root)
           /\ \E completion \in Completions : book' = CompleteRunTo(book, Root, completion)
           /\ cancels' = Without(cancels, {Root}) /\ Goto("completed") /\ UNCHANGED hindered
  <2>1. PICK completion \in CompletionStates : book' = CompleteRunTo(book, Root, completion)
    BY <1>3 DEF Completions, CompletionStates
  <2>2. /\ FamilyBook(book') /\ ActiveRuns(book') = {} /\ ActiveChildren(book') = ActiveChildren(book)
        /\ book'.nextOrdinal = book.nextOrdinal /\ book'.children = book.children
    BY <1>3, <2>1, InvFacts, CompleteKeeps
  <2>3. /\ parent' \in ParentRecord /\ parent'.pc = "completed"
        /\ parent'.todo = parent.todo /\ parent'.commands = parent.commands
    BY <1>3, InvFacts, ParentMoves DEF ParentPcs
  <2>4. live = {}
    BY <1>1, <1>3, CompletedAlone
  <2>5. ParentInv'
    <3>1. ParentInv
      BY InvFacts
    <3>2. parent'.pc \notin Commanding
      BY <2>3 DEF Commanding
    <3>. QED
      BY <1>1, <2>2, <2>3, <2>4, <3>1, <3>2 DEF ParentInv
  <2>6. WorkerInv'
    BY <1>1, <2>2, InvFacts DEF WorkerInv
  <2>7. HandleInv'
    <3>1. DOMAIN cancels = ActiveRuns(book) \cup ActiveChildren(book)
          /\ cancels \in [DOMAIN cancels -> BOOLEAN]
      BY InvFacts DEF HandleInv
    <3>2. ActiveRuns(book) = {Root} /\ Root \notin ActiveChildren(book)
      BY <1>3, InvFacts DEF FamilyBook, OneParent, ActiveRuns, CompleteRunOk
    <3>3. DOMAIN cancels \ {Root} = ActiveRuns(book') \cup ActiveChildren(book')
      BY <2>2, <3>1, <3>2
    <3>4. cancels' \in [ActiveRuns(book') \cup ActiveChildren(book') -> BOOLEAN]
      BY <1>3, <3>1, <3>3 DEF Without
    <3>. QED
      BY <1>1, <2>2, <2>4, <3>4, InvFacts DEF HandleInv
  <2>8. FinishInv'
    BY <1>1, InvFacts DEF FinishInv, Finished
  <2>9. HinderInv'
    BY <1>3, <2>3, InvFacts DEF HinderInv, Unhindered
  <2>. QED
    BY <2>2, <2>5, <2>6, <2>7, <2>8, <2>9 DEF FamilyInv
<1>4. ASSUME Goto("refused"), UNCHANGED <<book, cancels>>, HindranceKept, ~Unhindered'
      PROVE  FamilyInv'
  <2>1. /\ parent' \in ParentRecord /\ parent'.pc = "refused"
        /\ parent'.todo = parent.todo /\ parent'.commands = parent.commands
    BY <1>4, InvFacts, ParentMoves DEF ParentPcs
  <2>2. cancels' \in [DOMAIN cancels -> BOOLEAN] /\ Kept(book, book')
    BY <1>4, InvFacts, HandlesKept, KeptUnchanged
  <2>3. parent'.todo \subseteq DOMAIN book.children /\ live' \subseteq live
    BY <1>1, <2>1, InvFacts
  <2>. QED
    BY <1>1, <1>4, <2>1, <2>2, <2>3, ParentSteps
<1>5. CASE Fault /\ Goto("refused") /\ UNCHANGED <<book, cancels>>
  BY <1>4, <1>5, InvFacts, Hindrances
<1>6. CASE /\ ~(CleanupProven(Root) /\ CompleteRunOk(book, Root))
           /\ Goto("refused") /\ UNCHANGED <<book, cancels, hindered>>
  <2>1. ActiveChildren(book) # {}
    BY <1>1, <1>6, NobodyLeft
  <2>2. ~Unhindered
    BY <1>1, <2>1, InvFacts DEF HinderInv
  <2>3. HindranceKept /\ ~Unhindered'
    BY <1>6, <2>2, InvFacts, Hindrances DEF Unhindered
  <2>. QED
    BY <1>4, <1>6, <2>3
<1>. QED
  BY <1>2, <1>3, <1>5, <1>6
-----------------------------------------------------------------------------
(* The admissions *)

\* An admission the parent's worker may ask for is well formed.
LEMMA AdmissionTyped ==
    ASSUME FamilyInv, NEW a \in Admissions
    PROVE  a.role \in Roles /\ a.isolated \in BOOLEAN /\ a.predecessor \in Nat
<1>1. CASE a \in {[role |-> role, isolated |-> isolated, predecessor |-> NoRun] :
                    role \in Roles, isolated \in Isolations}
  BY <1>1, FamilyAssumption DEF NoRun
<1>2. CASE a \in {[role |-> book.children[c].role, isolated |-> book.children[c].isolated,
                   predecessor |-> c] :
                    c \in {d \in DOMAIN slots : Latest(d) /\ d \notin ActiveChildren(book)}}
  <2>1. PICK c \in DOMAIN book.children :
            a = [role |-> book.children[c].role, isolated |-> book.children[c].isolated,
                 predecessor |-> c]
    BY <1>2 DEF Latest
  <2>2. book.children[c] \in ChildRecord(Roles) /\ c \in Nat
    BY InvFacts, FamilyFacts, GoodFacts
  <2>3. book.children[c].role \in Roles /\ book.children[c].isolated \in BOOLEAN
    BY <2>2 DEF ChildRecord
  <2>. QED
    BY <2>1, <2>2, <2>3
<1>. QED
  BY <1>1, <1>2 DEF Admissions

\* A book with one more child, whose invocation may have ended already.
ChildJoins(b, n) ==
    /\ FamilyBook(n)
    /\ ActiveRuns(n) = ActiveRuns(b)
    /\ n.nextOrdinal = b.nextOrdinal + 1
    /\ DOMAIN n.children = DOMAIN b.children \cup {b.nextOrdinal}
    /\ \A c \in DOMAIN b.children : n.children[c].role = b.children[c].role
    /\ ActiveChildren(b) \subseteq ActiveChildren(n)
    /\ HeldRuns(b.ex) \ {b.nextOrdinal} \subseteq HeldRuns(n.ex)

\* The controller after such a step: the child may have a slot, and has a
\* worker only if it has a slot and is active.
LEMMA JoinFrame ==
    ASSUME FamilyInv, parent.pc = "command", Goto("request"), ChildJoins(book, book'),
           book.nextOrdinal \notin DOMAIN book.children,
           cancels' \in [ActiveRuns(book') \cup ActiveChildren(book') -> BOOLEAN],
           slots' \in {slots, Put(slots, book.nextOrdinal, "None")},
           \/ UNCHANGED worker
           \/ /\ worker' = Put(worker, book.nextOrdinal, [pc |-> "acquire", result |-> "None"])
              /\ slots' = Put(slots, book.nextOrdinal, "None")
              /\ book.nextOrdinal \in ActiveChildren(book'),
           UNCHANGED <<live, finishing, signals>>, HindranceKept
    PROVE  FamilyInv'
<1>1. PICK k : k = book.nextOrdinal
  OBVIOUS
<1>2. /\ FamilyBook(book') /\ ActiveRuns(book') = ActiveRuns(book) /\ book'.nextOrdinal = k + 1
      /\ DOMAIN book'.children = DOMAIN book.children \cup {k}
      /\ \A c \in DOMAIN book.children : book'.children[c].role = book.children[c].role
      /\ ActiveChildren(book) \subseteq ActiveChildren(book')
      /\ HeldRuns(book.ex) \ {k} \subseteq HeldRuns(book'.ex)
      /\ k \notin DOMAIN book.children
  BY <1>1 DEF ChildJoins
<1>3. /\ parent' \in ParentRecord /\ parent'.pc = "request"
      /\ parent'.todo = parent.todo /\ parent'.commands = parent.commands
  BY InvFacts, ParentMoves DEF ParentPcs
<1>4. ParentInv /\ WorkerInv /\ HandleInv /\ FinishInv /\ HinderInv
  BY InvFacts
<1>5. DOMAIN worker \subseteq DOMAIN slots /\ DOMAIN slots \subseteq DOMAIN book.children
  BY <1>4 DEF WorkerInv
<1>6. ParentInv'
  <2>1. k \in Nat \ {0, 1} /\ parent.commands \in Nat /\ k <= 2 * parent.commands
    BY <1>1, <1>4, InvFacts DEF ParentInv, Commanding
  <2>2. /\ book'.nextOrdinal <= 2 * parent'.commands + 1
        /\ book'.nextOrdinal <= 2 * parent'.commands + 2
        /\ k \in 2 .. 2 * parent'.commands
    BY <1>2, <1>3, <2>1
  <2>3. DOMAIN book'.children \subseteq 2 .. 2 * parent'.commands
    BY <1>2, <1>3, <1>4, <2>2 DEF ParentInv
  <2>4. Root \in ActiveRuns(book')
    BY <1>2, <1>4 DEF ParentInv
  <2>5. parent'.todo \subseteq DOMAIN book'.children
    BY <1>2, <1>3, <1>4 DEF ParentInv
  <2>6. parent'.pc \notin Commanding
    BY <1>3 DEF Commanding
  <2>. QED
    BY <1>3, <2>2, <2>3, <2>4, <2>5, <2>6 DEF ParentInv
<1>7. /\ slots' \in [DOMAIN slots' -> CompletionStates \cup {"None"}]
      /\ DOMAIN slots \subseteq DOMAIN slots' /\ DOMAIN slots' \subseteq DOMAIN slots \cup {k}
      /\ \A c \in DOMAIN slots : slots'[c] = slots[c]
      /\ k \in DOMAIN slots' => slots'[k] = "None"
  <2>1. CASE slots' = slots
    BY <1>2, <1>4, <1>5, <2>1 DEF WorkerInv
  <2>2. CASE slots' = Put(slots, k, "None")
    BY <1>2, <1>4, <1>5, <2>2 DEF WorkerInv, Put
  <2>. QED
    BY <1>1, <2>1, <2>2
<1>8. WorkerInv'
  <2>1. /\ DOMAIN slots' \subseteq DOMAIN book'.children
        /\ \A c \in DOMAIN slots' : slots'[c] = "NeedsReview" => book'.children[c].role = "Worker"
    BY <1>2, <1>4, <1>7 DEF WorkerInv
  <2>2. CASE worker' = worker
    <3>1. \A c \in DOMAIN worker' : worker'[c].pc \in Working =>
            c \in ActiveChildren(book') /\ slots'[c] = "None"
      BY <1>2, <1>4, <1>5, <1>7, <2>2 DEF WorkerInv
    <3>. QED
      BY <1>4, <1>5, <1>7, <2>1, <2>2, <3>1 DEF WorkerInv
  <2>3. CASE /\ worker' = Put(worker, k, [pc |-> "acquire", result |-> "None"])
             /\ slots' = Put(slots, k, "None") /\ k \in ActiveChildren(book')
    <3>1. [pc |-> "acquire", result |-> "None"] \in WorkerRecord
      BY DEF WorkerRecord
    <3>2. /\ DOMAIN worker' = DOMAIN worker \cup {k}
          /\ worker' \in [DOMAIN worker' -> WorkerRecord]
          /\ \A c \in DOMAIN worker : worker'[c] = worker[c]
      BY <1>2, <1>4, <1>5, <2>3, <3>1 DEF WorkerInv, Put
    <3>3. DOMAIN slots' = DOMAIN slots \cup {k}
      BY <2>3 DEF Put
    <3>4. \A c \in DOMAIN worker' : worker'[c].pc \in Working =>
            c \in ActiveChildren(book') /\ slots'[c] = "None"
      BY <1>2, <1>4, <1>5, <1>7, <2>3, <3>2, <3>3 DEF WorkerInv
    <3>. QED
      BY <1>5, <1>7, <2>1, <3>2, <3>3, <3>4 DEF WorkerInv
  <2>. QED
    BY <1>1, <2>2, <2>3
<1>9. DOMAIN worker \subseteq DOMAIN worker'
  BY DEF Put
<1>10. HandleInv'
  <2>1. live \ {Root} \subseteq HeldRuns(book'.ex)
    BY <1>2, <1>4, <1>5 DEF HandleInv
  <2>. QED
    BY <1>2, <1>4, <1>9, <2>1 DEF HandleInv
<1>11. FinishInv'
  <2>1. Finished \subseteq Finished'
    BY <1>7 DEF Finished
  <2>. QED
    BY <1>9, <2>1, FinishFrame
<1>12. HinderInv'
  BY <1>3 DEF HinderInv, HindranceKept
<1>. QED
  BY <1>2, <1>6, <1>8, <1>10, <1>11, <1>12 DEF FamilyInv

\* admit_child() succeeds and the worker of the child starts.
LEMMA SpawnInv == ASSUME FamilyInv, NEW a \in Admissions, Spawn(a) PROVE FamilyInv'
<1>1. PICK k : k = book.nextOrdinal
  OBVIOUS
<1>2. /\ parent.pc = "command" /\ AdmitChildRunOk(book, Root, a)
      /\ book' = AdmitChildRunTo(book, Root, a) /\ cancels' = Put(cancels, k, FALSE)
      /\ slots' = Put(slots, k, "None")
      /\ worker' = Put(worker, k, [pc |-> "acquire", result |-> "None"])
      /\ Goto("request") /\ UNCHANGED <<live, finishing, signals, hindered>>
  BY <1>1 DEF Spawn, Admit, AtParent
<1>3. Joined(book, a, book')
  BY <1>2, InvFacts, AdmissionTyped, AdmitKeeps
<1>4. ChildJoins(book, book') /\ k \in ActiveChildren(book') /\ k \notin DOMAIN book.children
  BY <1>1, <1>3 DEF Joined, ChildJoins
<1>5. cancels' \in [ActiveRuns(book') \cup ActiveChildren(book') -> BOOLEAN]
  <2>1. /\ DOMAIN cancels = ActiveRuns(book) \cup ActiveChildren(book)
        /\ cancels \in [DOMAIN cancels -> BOOLEAN]
    BY InvFacts DEF HandleInv
  <2>2. DOMAIN cancels \cup {k} = ActiveRuns(book') \cup ActiveChildren(book')
    BY <1>1, <1>3, <2>1 DEF Joined
  <2>. QED
    BY <1>2, <2>1, <2>2 DEF Put
<1>6. HindranceKept
  BY <1>2, InvFacts, Hindrances
<1>. QED
  BY <1>1, <1>2, <1>4, <1>5, <1>6, JoinFrame

\* admit_child() succeeds and the journal or the thread fails.
LEMMA SpawnFailsInv == ASSUME FamilyInv, NEW a \in Admissions, SpawnFails(a) PROVE FamilyInv'
<1>1. PICK k : k = book.nextOrdinal
  OBVIOUS
<1>2. PICK m : m = AdmitChildRunTo(book, Root, a)
  OBVIOUS
<1>3. /\ parent.pc = "command" /\ AdmitChildRunOk(book, Root, a) /\ Fault
      /\ \/ book' = FinishChildRunTo(m, k, "Failed") /\ UNCHANGED cancels
         \/ book' = m /\ cancels' = Put(cancels, k, FALSE)
      /\ slots' \in {slots, Put(slots, k, "None")}
      /\ Goto("request") /\ UNCHANGED <<live, worker, finishing, signals>>
  BY <1>1, <1>2 DEF SpawnFails, Admit, AtParent
<1>4. Joined(book, a, m)
  BY <1>2, <1>3, InvFacts, AdmissionTyped, AdmitKeeps
<1>5. /\ FamilyBook(m) /\ ActiveRuns(m) = ActiveRuns(book) /\ m.nextOrdinal = k + 1
      /\ DOMAIN m.children = DOMAIN book.children \cup {k} /\ k \notin DOMAIN book.children
      /\ \A c \in DOMAIN book.children : m.children[c] = book.children[c]
      /\ ActiveChildren(m) = ActiveChildren(book) \cup {k}
      /\ HeldRuns(m.ex) = HeldRuns(book.ex) /\ k \in DOMAIN m.ex.members
  BY <1>1, <1>4 DEF Joined
<1>6. HindranceKept
  BY <1>3, InvFacts, Hindrances
<1>7. /\ DOMAIN cancels = ActiveRuns(book) \cup ActiveChildren(book)
      /\ cancels \in [DOMAIN cancels -> BOOLEAN]
  BY InvFacts DEF HandleInv
<1>8. CASE book' = FinishChildRunTo(m, k, "Failed") /\ UNCHANGED cancels
  <2>1. FinishChildRunOk(m, k, "Failed")
    <3>1. IsChild(m.ex.members[k])
      BY <1>5, FamilyFacts
    <3>. QED
      BY <1>5, <3>1 DEF FinishChildRunOk, FinishOk
  <2>2. /\ Settled(m, book') /\ ActiveChildren(book') = ActiveChildren(m) \ {k}
        /\ HeldRuns(book'.ex) = HeldRuns(m.ex) \ {k}
        /\ book'.nextOrdinal = m.nextOrdinal
    BY <1>5, <1>8, <2>1, FinishChildKeeps DEF CompletionStates
  <2>3. ActiveChildren(book') = ActiveChildren(book)
    BY <1>5, <2>2 DEF ActiveChildren
  <2>4. ChildJoins(book, book')
    BY <1>1, <1>5, <2>2, <2>3 DEF ChildJoins, Settled
  <2>5. cancels' \in [ActiveRuns(book') \cup ActiveChildren(book') -> BOOLEAN]
    BY <1>5, <1>7, <1>8, <2>2, <2>3 DEF Settled
  <2>. QED
    BY <1>1, <1>3, <1>5, <1>6, <2>4, <2>5, JoinFrame
<1>9. CASE book' = m /\ cancels' = Put(cancels, k, FALSE)
  <2>1. ChildJoins(book, book')
    BY <1>1, <1>5, <1>9 DEF ChildJoins
  <2>2. DOMAIN cancels \cup {k} = ActiveRuns(book') \cup ActiveChildren(book')
    BY <1>5, <1>7, <1>9
  <2>3. cancels' \in [ActiveRuns(book') \cup ActiveChildren(book') -> BOOLEAN]
    BY <1>7, <1>9, <2>2 DEF Put
  <2>. QED
    BY <1>1, <1>3, <1>5, <1>6, <2>1, <2>3, JoinFrame
<1>. QED
  BY <1>3, <1>8, <1>9
-----------------------------------------------------------------------------
(* The steps of the user and of the reaper *)

\* The parent's worker does not move, and keeps its lease.
LEMMA ParentStays ==
    ASSUME FamilyInv, UNCHANGED parent, book'.nextOrdinal = book.nextOrdinal,
           live' \ DOMAIN worker \subseteq live,
           HeldRuns(book.ex) \subseteq HeldRuns(book'.ex) \cup DOMAIN book.children
    PROVE  ParentGoes /\ ParentUnhindered
<1>1. /\ ParentInv /\ WorkerInv /\ parent \in ParentRecord
      /\ parent.todo \subseteq DOMAIN book.children /\ Root \notin DOMAIN book.children
  BY InvFacts
<1>2. Root \notin DOMAIN worker
  BY <1>1 DEF WorkerInv
<1>3. parent'.pc = "turn" => Root \in HeldRuns(book'.ex)
  BY <1>1 DEF ParentInv
<1>4. parent'.pc = "completing" => Root \notin live'
  BY <1>1, <1>2 DEF ParentInv
<1>. QED
  BY <1>1, <1>3, <1>4 DEF ParentGoes, ParentUnhindered

\* A stop is recorded.
LEMMA UserStopsInv ==
    ASSUME FamilyInv, UserStopsRun \/ \E c \in DOMAIN book.children : UserStopsChild(c)
    PROVE  FamilyInv'
<1>1. PICK r \in {Root} \cup DOMAIN book.children :
        /\ \/ RunningParent(book, Root) /\ book' = StopTo(book, {Root})
           \/ StopChildOk(book, r) /\ book' = StopChildTo(book, r)
        /\ signals' = signals \cup {r}
        /\ UNCHANGED <<cancels, live, slots, worker, parent, finishing, hindered>>
  BY DEF UserStopsRun, UserStopsChild, UserStop
<1>2. /\ Settled(book, book') /\ ActiveChildren(book') = ActiveChildren(book)
      /\ HeldRuns(book'.ex) = HeldRuns(book.ex) /\ book'.nextOrdinal = book.nextOrdinal
  <2>1. CASE RunningParent(book, Root) /\ book' = StopTo(book, {Root})
    BY <2>1, InvFacts, StopRunKeeps
  <2>2. CASE StopChildOk(book, r) /\ book' = StopChildTo(book, r)
    BY <2>2, InvFacts, StopChildKeeps
  <2>. QED
    BY <1>1, <2>1, <2>2
<1>3. Kept(book, book')
  BY <1>2 DEF Kept
<1>4. ParentGoes /\ ParentUnhindered
  BY <1>1, <1>2, ParentStays
<1>5. HindranceKept /\ cancels' \in [DOMAIN cancels -> BOOLEAN]
  BY <1>1, InvFacts, Hindrances, HandlesKept
<1>6. signals' \subseteq {Root} \cup DOMAIN book.children /\ live' \subseteq live
  BY <1>1, InvFacts
<1>. QED
  BY <1>1, <1>3, <1>4, <1>5, <1>6, StepFrame

\* It is signalled, and the children of a stopped run are stopped too.
LEMMA UserSignalsInv == ASSUME FamilyInv, NEW r \in signals, UserSignals(r) PROVE FamilyInv'
<1>1. /\ \/ book' = CancelRunIdsTo(book, {r}) /\ cancels' = Signalled({r}) /\ UNCHANGED hindered
         \/ Fault /\ UNCHANGED <<book, cancels>>
      /\ signals' = signals \ {r}
      /\ UNCHANGED <<live, slots, worker, parent, finishing>>
  BY DEF UserSignals
<1>2. /\ Settled(book, book') /\ ActiveChildren(book') = ActiveChildren(book)
      /\ HeldRuns(book'.ex) = HeldRuns(book.ex) /\ book'.nextOrdinal = book.nextOrdinal
  <2>1. CASE book' = CancelRunIdsTo(book, {r})
    BY <2>1, InvFacts, CancelKeeps
  <2>2. CASE UNCHANGED book
    BY <2>2, InvFacts DEF Settled
  <2>. QED
    BY <1>1, <2>1, <2>2
<1>3. Kept(book, book')
  BY <1>2 DEF Kept
<1>4. ParentGoes /\ ParentUnhindered
  BY <1>1, <1>2, ParentStays
<1>5. HindranceKept /\ cancels' \in [DOMAIN cancels -> BOOLEAN]
  BY <1>1, InvFacts, Hindrances, HandlesKept
<1>6. signals' \subseteq {Root} \cup DOMAIN book.children /\ live' \subseteq live
  BY <1>1, InvFacts
<1>. QED
  BY <1>1, <1>3, <1>4, <1>5, <1>6, StepFrame

\* A process is gone.
LEMMA ReapInv == ASSUME FamilyInv, NEW r \in Reaping, Reap(r) PROVE FamilyInv'
<1>1. /\ live' \subseteq live
      /\ UNCHANGED <<book, cancels, slots, worker, parent, finishing, signals, hindered>>
  BY DEF Reap
<1>2. Kept(book, book')
  BY <1>1, InvFacts, KeptUnchanged
<1>3. ParentGoes /\ ParentUnhindered
  BY <1>1, ParentStays
<1>4. HindranceKept /\ cancels' \in [DOMAIN cancels -> BOOLEAN]
  BY <1>1, InvFacts, Hindrances, HandlesKept
<1>5. signals' \subseteq {Root} \cup DOMAIN book.children
  BY <1>1, InvFacts
<1>. QED
  BY <1>1, <1>2, <1>3, <1>4, <1>5, StepFrame

-----------------------------------------------------------------------------
(* The steps of a child's worker *)

\* A worker moves: it works on, or it stores the outcome of its child.
LEMMA WorkerMoves ==
    ASSUME FamilyInv, NEW c \in DOMAIN worker, Kept(book, book'),
           book'.nextOrdinal = book.nextOrdinal,
           HeldRuns(book.ex) \subseteq HeldRuns(book'.ex),
           UNCHANGED <<parent, finishing, signals>>, HindranceKept,
           cancels' \in [DOMAIN cancels -> BOOLEAN],
           live' \subseteq live \cup {c}, c \in live' => c \in HeldRuns(book'.ex),
           NEW w \in WorkerRecord, worker' = [worker EXCEPT ![c] = w],
           \/ w.pc \in Working /\ worker[c].pc \in Working /\ UNCHANGED slots
           \/ /\ w.pc \notin Working
              /\ \E s \in CompletionStates :
                    /\ slots' = [slots EXCEPT ![c] = s]
                    /\ s = "NeedsReview" => book.children[c].role = "Worker"
    PROVE  FamilyInv'
<1>1. ParentInv /\ WorkerInv /\ HandleInv /\ FinishInv /\ HinderInv
  BY InvFacts
<1>2. /\ Settled(book, book') /\ FamilyBook(book') /\ ActiveRuns(book') = ActiveRuns(book)
      /\ DOMAIN book'.children = DOMAIN book.children
      /\ \A d \in DOMAIN book.children : book'.children[d].role = book.children[d].role
      /\ ActiveChildren(book') = ActiveChildren(book)
  BY DEF Kept, Settled
<1>3. /\ DOMAIN worker' = DOMAIN worker /\ worker' \in [DOMAIN worker' -> WorkerRecord]
      /\ worker'[c] = w /\ \A d \in DOMAIN worker \ {c} : worker'[d] = worker[d]
  BY <1>1 DEF WorkerInv
<1>4. /\ DOMAIN worker \subseteq DOMAIN slots /\ DOMAIN slots \subseteq DOMAIN book.children
      /\ c \in DOMAIN slots
  BY <1>1 DEF WorkerInv
<1>5. /\ slots' \in [DOMAIN slots' -> CompletionStates \cup {"None"}]
      /\ DOMAIN slots' = DOMAIN slots
      /\ \A d \in DOMAIN slots \ {c} : slots'[d] = slots[d]
      /\ slots'[c] = "NeedsReview" => book.children[c].role = "Worker"
      /\ slots[c] # "None" => slots'[c] # "None"
      /\ w.pc \in Working => slots'[c] = slots[c] /\ worker[c].pc \in Working
  <2>1. CASE w.pc \in Working /\ worker[c].pc \in Working /\ UNCHANGED slots
    BY <1>1, <1>4, <2>1 DEF WorkerInv
  <2>2. ASSUME w.pc \notin Working, NEW s \in CompletionStates, slots' = [slots EXCEPT ![c] = s],
               s = "NeedsReview" => book.children[c].role = "Worker"
        PROVE  /\ slots' \in [DOMAIN slots' -> CompletionStates \cup {"None"}]
               /\ DOMAIN slots' = DOMAIN slots
               /\ \A d \in DOMAIN slots \ {c} : slots'[d] = slots[d]
               /\ slots'[c] = "NeedsReview" => book.children[c].role = "Worker"
               /\ slots'[c] # "None"
    <3>1. slots'[c] = s /\ s # "None"
      BY <1>4, <2>2 DEF CompletionStates
    <3>. QED
      BY <1>1, <2>2, <3>1 DEF WorkerInv
  <2>. QED
    BY <2>1, <2>2
<1>6. WorkerInv'
  <2>1. \A d \in DOMAIN slots' : slots'[d] = "NeedsReview" => book'.children[d].role = "Worker"
    <3>1. ASSUME NEW d \in DOMAIN slots, slots'[d] = "NeedsReview"
          PROVE  book.children[d].role = "Worker"
      <4>1. CASE d = c
        BY <1>5, <3>1, <4>1
      <4>2. CASE d # c
        BY <1>1, <1>5, <3>1, <4>2 DEF WorkerInv
      <4>. QED
        BY <4>1, <4>2
    <3>. QED
      BY <1>2, <1>4, <1>5, <3>1
  <2>2. ASSUME NEW d \in DOMAIN worker, worker'[d].pc \in Working
        PROVE  d \in ActiveChildren(book') /\ slots'[d] = "None"
    <3>1. CASE d = c
      BY <1>1, <1>2, <1>3, <1>5, <2>2, <3>1 DEF WorkerInv
    <3>2. CASE d # c
      BY <1>1, <1>2, <1>3, <1>4, <1>5, <2>2, <3>2 DEF WorkerInv
    <3>. QED
      BY <3>1, <3>2
  <2>. QED
    BY <1>2, <1>3, <1>4, <1>5, <2>1, <2>2 DEF WorkerInv
<1>7. ParentInv'
  <2>1. live' \ DOMAIN worker \subseteq live
    OBVIOUS
  <2>2. ParentGoes
    BY <2>1, ParentStays
  <2>. QED
    BY <1>2, <2>2, ParentFrame
<1>8. HandleInv'
  <2>1. DOMAIN cancels = ActiveRuns(book') \cup ActiveChildren(book')
    BY <1>1, <1>2 DEF HandleInv
  <2>2. cancels' \in [ActiveRuns(book') \cup ActiveChildren(book') -> BOOLEAN]
    BY <2>1
  <2>3. live' \subseteq {Root} \cup DOMAIN worker' /\ live' \ {Root} \subseteq HeldRuns(book'.ex)
    BY <1>1, <1>3 DEF HandleInv
  <2>. QED
    BY <1>1, <1>2, <2>2, <2>3 DEF HandleInv
<1>9. FinishInv'
  <2>1. Finished \subseteq Finished'
    BY <1>5 DEF Finished
  <2>. QED
    BY <1>3, <2>1, FinishFrame
<1>10. HinderInv'
  <2>1. ParentUnhindered
    BY DEF ParentUnhindered
  <2>. QED
    BY <1>2, <2>1, HinderFrame
<1>. QED
  BY <1>2, <1>6, <1>7, <1>8, <1>9, <1>10 DEF FamilyInv
\* What the state of a working worker says of its child.
LEMMA WorkingFacts ==
    ASSUME FamilyInv, NEW c \in DOMAIN worker
    PROVE  /\ worker[c] \in WorkerRecord
           /\ worker[c].pc \in Working => c \in ActiveChildren(book)
           /\ c \in DOMAIN book.children
           /\ c \in live => c \in HeldRuns(book.ex)
<1>1. WorkerInv /\ HandleInv /\ Root \notin DOMAIN book.children
  BY InvFacts
<1>. QED
  BY <1>1 DEF WorkerInv, HandleInv

\* The child takes a lease, and its turn a process.
LEMMA WorkerAcquiresInv ==
    ASSUME FamilyInv, NEW c \in DOMAIN worker, WorkerAcquires(c)
    PROVE  FamilyInv'
<1>1. PICK w : w = [pc |-> "turn", result |-> "None"]
  OBVIOUS
<1>2. /\ worker[c].pc = "acquire" /\ AcquireRunOk(book, c) /\ book' = AcquireRunTo(book, c)
      /\ live' = live \cup {c} /\ worker' = [worker EXCEPT ![c] = w]
      /\ UNCHANGED <<cancels, slots, parent, finishing, signals, hindered>>
  BY <1>1 DEF WorkerAcquires, Acquires, WorkerGoto
<1>3. w \in WorkerRecord /\ w.pc \in Working /\ worker[c].pc \in Working
  BY <1>1, <1>2 DEF WorkerRecord, Working
<1>4. /\ Settled(book, book') /\ ActiveChildren(book') = ActiveChildren(book)
      /\ HeldRuns(book'.ex) = HeldRuns(book.ex) \cup {c}
      /\ book'.nextOrdinal = book.nextOrdinal
  BY <1>2, InvFacts, AcquireKeeps
<1>5. /\ Kept(book, book') /\ HeldRuns(book.ex) \subseteq HeldRuns(book'.ex)
      /\ c \in HeldRuns(book'.ex)
  BY <1>4 DEF Kept
<1>6. HindranceKept /\ cancels' \in [DOMAIN cancels -> BOOLEAN]
  BY <1>2, InvFacts, Hindrances, HandlesKept
<1>. QED
  BY <1>2, <1>3, <1>4, <1>5, <1>6, WorkerMoves

\* The child gets no lease.
LEMMA WorkerRefusedInv ==
    ASSUME FamilyInv, NEW c \in DOMAIN worker, WorkerRefused(c)
    PROVE  FamilyInv'
<1>1. PICK w : w = [pc |-> "ending", result |-> "Error"]
  OBVIOUS
<1>2. PICK v : v = (cancels[c] \/ closed)
  OBVIOUS
<1>3. /\ worker[c].pc = "acquire" /\ (UNCHANGED hindered \/ Fault)
      /\ cancels' = [cancels EXCEPT ![c] = v] /\ worker' = [worker EXCEPT ![c] = w]
      /\ UNCHANGED <<book, live, slots, parent, finishing, signals>>
  BY <1>1, <1>2 DEF WorkerRefused, WorkerGoto
<1>4. v \in BOOLEAN
  BY <1>2
<1>5. w \in WorkerRecord /\ w.pc \in Working /\ worker[c].pc \in Working
  BY <1>1, <1>3 DEF WorkerRecord, Working, TurnResults
<1>6. HindranceKept /\ cancels' \in [DOMAIN cancels -> BOOLEAN] /\ Kept(book, book')
  BY <1>3, <1>4, InvFacts, Hindrances, HandlesKept, KeptUnchanged
<1>7. live' \subseteq live \cup {c} /\ (c \in live' => c \in HeldRuns(book'.ex))
  BY <1>3, WorkingFacts
<1>. QED
  BY <1>3, <1>5, <1>6, <1>7, WorkerMoves

\* The turn of the child ends.
LEMMA WorkerTurnEndsInv ==
    ASSUME FamilyInv, NEW c \in DOMAIN worker, WorkerTurnEnds(c)
    PROVE  FamilyInv'
<1>1. PICK result \in Results : WorkerGoto(c, "ending", result)
  BY DEF WorkerTurnEnds
<1>2. PICK w : w = [pc |-> "ending", result |-> result]
  OBVIOUS
<1>3. /\ worker[c].pc = "turn" /\ worker' = [worker EXCEPT ![c] = w]
      /\ live' \subseteq live
      /\ UNCHANGED <<book, cancels, slots, parent, finishing, signals, hindered>>
  BY <1>1, <1>2 DEF WorkerTurnEnds, WorkerGoto, LeaveProcesses
<1>4. w \in WorkerRecord /\ w.pc \in Working /\ worker[c].pc \in Working
  BY <1>1, <1>2, <1>3, FamilyAssumption DEF WorkerRecord, Working
<1>5. HindranceKept /\ cancels' \in [DOMAIN cancels -> BOOLEAN] /\ Kept(book, book')
  BY <1>3, InvFacts, Hindrances, HandlesKept, KeptUnchanged
<1>6. live' \subseteq live \cup {c} /\ (c \in live' => c \in HeldRuns(book'.ex))
  BY <1>3, WorkingFacts
<1>. QED
  BY <1>3, <1>4, <1>5, <1>6, WorkerMoves

\* The outcome of a child is one finish_child() knows, and only changes of a
\* worker ask for a review.
LEMMA OutcomeTyped ==
    ASSUME FamilyInv, NEW c \in DOMAIN worker, NEW recorded \in BOOLEAN,
           recorded => ChildReviewResultOk(book, c,
                            worker[c].result \in {"FailedWithChanges", "CompletedWithChanges"})
    PROVE  /\ JudgedOutcome(c, recorded) \in CompletionStates
           /\ JudgedOutcome(c, recorded) = "NeedsReview" => book.children[c].role = "Worker"
<1>1. JudgedOutcome(c, recorded) \in CompletionStates
  BY DEF JudgedOutcome, CompletionStates
<1>2. ASSUME JudgedOutcome(c, recorded) = "NeedsReview"
      PROVE  recorded /\ worker[c].result = "CompletedWithChanges"
  BY <1>2 DEF JudgedOutcome
<1>. QED
  BY <1>1, <1>2 DEF ChildReviewResultOk

\* The worker records the review and stores the outcome.
LEMMA WorkerStoresInv ==
    ASSUME FamilyInv, NEW c \in DOMAIN worker, WorkerStores(c)
    PROVE  FamilyInv'
<1>1. PICK w : w = [pc |-> "finish", result |-> "None"]
  OBVIOUS
<1>2. PICK changes : changes = (worker[c].result \in {"FailedWithChanges", "CompletedWithChanges"})
  OBVIOUS
<1>3. changes \in BOOLEAN
  BY <1>2
<1>4. /\ worker' = [worker EXCEPT ![c] = w]
      /\ UNCHANGED <<cancels, live, parent, finishing, signals>>
  BY <1>1 DEF WorkerStores, WorkerGoto
<1>5. \/ /\ ChildReviewResultOk(book, c, changes) /\ book' = ChildReviewResultTo(book, c, changes)
         /\ slots' = [slots EXCEPT ![c] = JudgedOutcome(c, TRUE)] /\ UNCHANGED hindered
      \/ Fault /\ slots' = [slots EXCEPT ![c] = "Failed"] /\ UNCHANGED book
      \/ slots' = [slots EXCEPT ![c] = JudgedOutcome(c, FALSE)] /\ UNCHANGED <<book, hindered>>
  BY <1>2 DEF WorkerStores
<1>6. w \in WorkerRecord /\ w.pc \notin Working
  BY <1>1 DEF WorkerRecord, Working
<1>7. HindranceKept /\ cancels' \in [DOMAIN cancels -> BOOLEAN]
  BY <1>4, <1>5, InvFacts, Hindrances, HandlesKept
<1>8. /\ Settled(book, book') /\ ActiveChildren(book') = ActiveChildren(book)
      /\ HeldRuns(book'.ex) = HeldRuns(book.ex) /\ book'.nextOrdinal = book.nextOrdinal
  <2>1. CASE ChildReviewResultOk(book, c, changes) /\ book' = ChildReviewResultTo(book, c, changes)
    BY <1>3, <2>1, InvFacts, ReviewResultKeeps
  <2>2. CASE UNCHANGED book
    BY <2>2, InvFacts DEF Settled
  <2>. QED
    BY <1>5, <2>1, <2>2
<1>9. Kept(book, book')
  BY <1>8 DEF Kept
<1>10. \E s \in CompletionStates :
            /\ slots' = [slots EXCEPT ![c] = s]
            /\ s = "NeedsReview" => book.children[c].role = "Worker"
  <2>1. CASE /\ ChildReviewResultOk(book, c, changes)
             /\ slots' = [slots EXCEPT ![c] = JudgedOutcome(c, TRUE)]
    BY <1>2, <2>1, OutcomeTyped
  <2>2. CASE slots' = [slots EXCEPT ![c] = "Failed"]
    BY <2>2 DEF CompletionStates
  <2>3. CASE slots' = [slots EXCEPT ![c] = JudgedOutcome(c, FALSE)]
    BY <2>3, OutcomeTyped
  <2>. QED
    BY <1>5, <2>1, <2>2, <2>3
<1>11. live' \subseteq live \cup {c} /\ (c \in live' => c \in HeldRuns(book'.ex))
  BY <1>4, <1>8, WorkingFacts
<1>12. HeldRuns(book.ex) \subseteq HeldRuns(book'.ex)
  BY <1>8
<1>. QED
  BY <1>4, <1>6, <1>7, <1>8, <1>9, <1>10, <1>11, <1>12, WorkerMoves

\* A panic of the turn stops the child and stores Failed.
LEMMA WorkerPanicsInv ==
    ASSUME FamilyInv, NEW c \in DOMAIN worker, WorkerPanics(c)
    PROVE  FamilyInv'
<1>1. PICK w : w = [pc |-> "finish", result |-> "None"]
  OBVIOUS
<1>2. /\ worker[c].pc = "turn" /\ Fault /\ book' = StopChildTo(book, c)
      /\ cancels' = [cancels EXCEPT ![c] = TRUE] /\ slots' = [slots EXCEPT ![c] = "Failed"]
      /\ worker' = [worker EXCEPT ![c] = w] /\ live' \subseteq live
      /\ UNCHANGED <<parent, finishing, signals>>
  BY <1>1 DEF WorkerPanics, WorkerGoto, LeaveProcesses
<1>3. w \in WorkerRecord /\ w.pc \notin Working
  BY <1>1 DEF WorkerRecord, Working
<1>4. HindranceKept /\ cancels' \in [DOMAIN cancels -> BOOLEAN]
  BY <1>2, InvFacts, Hindrances, HandlesKept
<1>5. StopChildOk(book, c)
  BY <1>2, WorkingFacts DEF StopChildOk, Working
<1>6. /\ Settled(book, book') /\ ActiveChildren(book') = ActiveChildren(book)
      /\ HeldRuns(book'.ex) = HeldRuns(book.ex) /\ book'.nextOrdinal = book.nextOrdinal
  BY <1>2, <1>5, InvFacts, StopChildKeeps
<1>7. Kept(book, book') /\ HeldRuns(book.ex) \subseteq HeldRuns(book'.ex)
  BY <1>6 DEF Kept
<1>8. "Failed" \in CompletionStates
  BY DEF CompletionStates
<1>9. live' \subseteq live \cup {c} /\ (c \in live' => c \in HeldRuns(book'.ex))
  BY <1>2, <1>6, WorkingFacts
<1>. QED
  BY <1>2, <1>3, <1>4, <1>6, <1>7, <1>8, <1>9, WorkerMoves
-----------------------------------------------------------------------------
(* The steps of finish_ready() *)

Below == {ss \in Nat \X Nat : ss[1] < ss[2]}

\* A list of children that is not empty has an oldest one.
LEMMA Smallest ==
    ASSUME NEW S \in SUBSET Nat, S # {}
    PROVE  \E c \in S : \A d \in S : c <= d
<1>0. IsWellFoundedOn(Below, Nat)
  BY NatLessThanWellFounded DEF OpToRel, Below
<1>1. PICK x \in S : \A y \in S : ~(<<y, x>> \in Below)
  BY <1>0, WFMin
<1>2. ASSUME NEW y \in S PROVE x <= y
  <2>1. x \in Nat /\ y \in Nat
    OBVIOUS
  <2>2. ~(y < x)
    BY <1>1, <2>1 DEF Below
  <2>. QED
    BY <2>1, <2>2
<1>. QED
  BY <1>2

\* The call goes on or returns; it changes no worker that still works.
LEMMA FinishMoves ==
    ASSUME FamilyInv, NEW by \in {NoRun, Root} \cup DOMAIN worker, NEW todo \in SUBSET Finished,
           NEW stopped, FinishGoesOn(by, todo, stopped), UNCHANGED slots
    PROVE  /\ FinishInv'
           /\ DOMAIN worker' = DOMAIN worker
           /\ worker' \in [DOMAIN worker' -> WorkerRecord]
           /\ \A c \in DOMAIN worker : worker'[c].pc \in Working => worker[c].pc \in Working
<1>1. worker \in [DOMAIN worker -> WorkerRecord]
  BY InvFacts DEF WorkerInv
<1>2. worker' = [c \in DOMAIN worker |->
            IF c = by /\ todo = {} THEN [worker[c] EXCEPT !.pc = "ended"] ELSE worker[c]]
  BY DEF FinishGoesOn
<1>3. \A c \in DOMAIN worker : [worker[c] EXCEPT !.pc = "ended"] \in WorkerRecord
                               /\ [worker[c] EXCEPT !.pc = "ended"].pc \notin Working
  BY <1>1 DEF WorkerRecord, Working
<1>4. /\ DOMAIN worker' = DOMAIN worker
      /\ worker' \in [DOMAIN worker' -> WorkerRecord]
      /\ \A c \in DOMAIN worker : worker'[c].pc \in Working => worker[c].pc \in Working
  BY <1>1, <1>2, <1>3
<1>5. FinishInv'
  <2>1. Finished' = Finished
    BY DEF Finished
  <2>2. CASE todo = {}
    <3>1. finishing' = [by |-> NoRun, todo |-> {}, stopped |-> {}]
      BY <2>2 DEF FinishGoesOn, NoFinish
    <3>. QED
      BY <3>1 DEF FinishInv
  <2>3. CASE todo # {}
    <3>1. finishing' = [by |-> by, todo |-> todo, stopped |-> stopped]
      BY <2>3 DEF FinishGoesOn
    <3>. QED
      BY <1>4, <2>1, <3>1 DEF FinishInv
  <2>. QED
    BY <2>2, <2>3
<1>. QED
  BY <1>4, <1>5

\* A step of finish_ready() that ends no child with a working worker.
LEMMA FinishStepFrame ==
    ASSUME FamilyInv, NEW by \in {NoRun, Root} \cup DOMAIN worker, NEW todo \in SUBSET Finished,
           NEW stopped, FinishGoesOn(by, todo, stopped), UNCHANGED <<slots, signals>>,
           Settled(book, book'), ActiveChildren(book') \subseteq ActiveChildren(book),
           \A c \in DOMAIN worker : worker[c].pc \in Working => c \in ActiveChildren(book'),
           cancels' \in [ActiveRuns(book') \cup ActiveChildren(book') -> BOOLEAN],
           live' \subseteq live, live \ {Root} \subseteq HeldRuns(book'.ex),
           ParentGoes, ParentUnhindered, HindranceKept
    PROVE  FamilyInv'
<1>1. /\ FinishInv' /\ DOMAIN worker' = DOMAIN worker
      /\ worker' \in [DOMAIN worker' -> WorkerRecord]
      /\ \A c \in DOMAIN worker : worker'[c].pc \in Working => worker[c].pc \in Working
  BY FinishMoves
<1>2. WorkerInv /\ HandleInv
  BY InvFacts
<1>3. /\ FamilyBook(book') /\ DOMAIN book'.children = DOMAIN book.children
      /\ \A d \in DOMAIN book.children : book'.children[d].role = book.children[d].role
  BY DEF Settled
<1>4. WorkerInv'
  BY <1>1, <1>2, <1>3 DEF WorkerInv
<1>5. ParentInv'
  BY ParentFrame
<1>6. HandleInv'
  BY <1>1, <1>2, <1>3 DEF HandleInv
<1>7. HinderInv'
  BY HinderFrame
<1>. QED
  BY <1>1, <1>3, <1>4, <1>5, <1>6, <1>7 DEF FamilyInv

\* A step of finish_ready() that leaves the book alone.
LEMMA FinishWalks ==
    ASSUME FamilyInv, NEW by \in {NoRun, Root} \cup DOMAIN worker, NEW todo \in SUBSET Finished,
           NEW stopped, FinishGoesOn(by, todo, stopped),
           UNCHANGED <<book, cancels, slots, signals>>,
           live' \subseteq live, ParentGoes, ParentUnhindered, HindranceKept
    PROVE  FamilyInv'
<1>1. Settled(book, book')
  BY InvFacts DEF Settled
<1>2. WorkerInv /\ HandleInv
  BY InvFacts
<1>3. \A c \in DOMAIN worker : worker[c].pc \in Working => c \in ActiveChildren(book')
  BY <1>2 DEF WorkerInv
<1>4. /\ cancels' \in [ActiveRuns(book') \cup ActiveChildren(book') -> BOOLEAN]
      /\ live \ {Root} \subseteq HeldRuns(book'.ex)
  BY <1>2 DEF HandleInv
<1>. QED
  BY <1>1, <1>3, <1>4, FinishStepFrame

\* The lock is taken.
LEMMA FinishBeginsInv ==
    ASSUME FamilyInv, NEW by \in {Root} \cup DOMAIN worker, FinishBegins(by)
    PROVE  FamilyInv'
<1>1. PICK todo, stopped :
        /\ todo = Finished \cap ActiveChildren(book) /\ FinishGoesOn(by, todo, stopped)
        /\ UNCHANGED <<book, cancels, live, slots, parent, signals, hindered>>
  BY DEF FinishBegins
<1>2. ParentGoes /\ ParentUnhindered /\ HindranceKept
  BY <1>1, ParentStays, InvFacts, Hindrances
<1>3. todo \in SUBSET Finished /\ live' \subseteq live
  BY <1>1
<1>. QED
  BY <1>1, <1>2, <1>3, FinishWalks

\* The next child of the list is one whose outcome is stored.
LEMMA NextToFinishStored ==
    ASSUME FamilyInv, finishing.todo # {}
    PROVE  /\ NextToFinish \in finishing.todo
           /\ finishing.todo \in SUBSET Finished
           /\ NextToFinish \in DOMAIN book.children /\ NextToFinish \in DOMAIN slots
           /\ slots[NextToFinish] \in CompletionStates
           /\ slots[NextToFinish] = "NeedsReview" => book.children[NextToFinish].role = "Worker"
<1>1. FinishInv /\ WorkerInv
  BY InvFacts
<1>2. finishing.todo \subseteq Finished /\ Finished \subseteq DOMAIN book.children
  BY <1>1 DEF FinishInv, Finished, WorkerInv
<1>3. finishing.todo \in SUBSET Nat
  BY <1>2, InvFacts
<1>4. \E c \in finishing.todo : \A d \in finishing.todo : c <= d
  BY <1>3, Smallest
<1>5. NextToFinish \in finishing.todo
  BY <1>4 DEF NextToFinish
<1>. QED
  BY <1>1, <1>2, <1>5 DEF WorkerInv, Finished

\* finish_child() for the next child of the list, or nothing while its
\* processes are not proven gone.
LEMMA FinishChildInv == ASSUME FamilyInv, FinishChild PROVE FamilyInv'
<1>1. PICK c : c = NextToFinish
  OBVIOUS
<1>2. PICK st : st = FinishOutcome(c)
  OBVIOUS
<1>3. /\ finishing.todo # {}
      /\ \/ /\ CleanupProven(c) /\ FinishChildRunOk(book, c, st)
            /\ book' = FinishChildRunTo(book, c, st) /\ cancels' = Without(cancels, {c})
         \/ UNCHANGED <<book, cancels>>
      /\ FinishGoesOn(finishing.by, finishing.todo \ {c}, finishing.stopped)
      /\ UNCHANGED <<live, slots, parent, signals, hindered>>
  BY <1>1, <1>2 DEF FinishChild
<1>4. /\ c \in finishing.todo /\ finishing.todo \in SUBSET Finished
      /\ c \in DOMAIN book.children /\ c \in DOMAIN slots /\ slots[c] \in CompletionStates
      /\ slots[c] = "NeedsReview" => book.children[c].role = "Worker"
  BY <1>1, <1>3, NextToFinishStored
<1>5. /\ finishing.by \in {NoRun, Root} \cup DOMAIN worker
      /\ finishing.todo \ {c} \in SUBSET Finished /\ live' \subseteq live /\ HindranceKept
  BY <1>3, <1>4, InvFacts, Hindrances DEF FinishInv
<1>6. CASE UNCHANGED <<book, cancels>>
  <2>1. ParentGoes /\ ParentUnhindered
    BY <1>3, <1>6, ParentStays
  <2>. QED
    BY <1>3, <1>5, <1>6, <2>1, FinishWalks
<1>7. CASE /\ CleanupProven(c) /\ FinishChildRunOk(book, c, st)
           /\ book' = FinishChildRunTo(book, c, st) /\ cancels' = Without(cancels, {c})
  <2>1. st \in CompletionStates /\ (st = "NeedsReview" => book.children[c].role = "Worker")
    BY <1>2, <1>4 DEF FinishOutcome, CompletionStates
  <2>2. /\ Settled(book, book') /\ ActiveChildren(book') = ActiveChildren(book) \ {c}
        /\ HeldRuns(book'.ex) = HeldRuns(book.ex) \ {c}
        /\ book'.nextOrdinal = book.nextOrdinal
    BY <1>7, <2>1, InvFacts, FinishChildKeeps
  <2>3. ParentGoes /\ ParentUnhindered
    BY <1>3, <1>4, <2>2, ParentStays
  <2>4. WorkerInv /\ HandleInv /\ FamilyBook(book) /\ Root \notin DOMAIN book.children
    BY InvFacts
  <2>5. \A d \in DOMAIN worker : worker[d].pc \in Working => d \in ActiveChildren(book')
    BY <1>4, <2>2, <2>4 DEF WorkerInv, CompletionStates
  <2>6. live \ {Root} \subseteq HeldRuns(book'.ex)
    BY <1>7, <2>2, <2>4 DEF HandleInv, CleanupProven
  <2>7. cancels' \in [ActiveRuns(book') \cup ActiveChildren(book') -> BOOLEAN]
    <3>1. /\ DOMAIN cancels = ActiveRuns(book) \cup ActiveChildren(book)
          /\ cancels \in [DOMAIN cancels -> BOOLEAN]
      BY <2>4 DEF HandleInv
    <3>2. c \notin ActiveRuns(book)
      BY <1>4, <2>4 DEF FamilyBook, OneParent, ActiveRuns
    <3>3. DOMAIN cancels \ {c} = ActiveRuns(book') \cup ActiveChildren(book')
      BY <2>2, <3>1, <3>2 DEF Settled
    <3>. QED
      BY <1>7, <3>1, <3>3 DEF Without
  <2>8. ActiveChildren(book') \subseteq ActiveChildren(book)
    BY <2>2
  <2>. QED
    BY <1>3, <1>5, <2>2, <2>3, <2>5, <2>6, <2>7, <2>8, FinishStepFrame
<1>. QED
  BY <1>3, <1>6, <1>7

\* A refused finish_child() ends the call and what the parent waited in.
LEMMA FinishAbortsInv == ASSUME FamilyInv, FinishAborts PROVE FamilyInv'
<1>1. /\ Fault \/ hindered' = [hindered EXCEPT !.raced = TRUE]
      /\ FinishGoesOn(finishing.by, {}, {})
      /\ UNCHANGED <<book, cancels, slots, signals>>
  BY DEF FinishAborts
<1>2. HindranceKept /\ ~Unhindered'
  BY <1>1, InvFacts, Hindrances
<1>3. finishing.by \in {NoRun, Root} \cup DOMAIN worker /\ {} \in SUBSET Finished
  BY InvFacts DEF FinishInv
<1>4. \/ UNCHANGED <<parent, live>>
      \/ parent.pc = "wait" /\ Goto("request") /\ UNCHANGED live
      \/ parent.pc = "resume" /\ EndTurn(FALSE)
      \/ parent.pc \in {"drain", "closing"} /\ Return(FALSE) /\ UNCHANGED live
  BY DEF FinishAborts
<1>5. ParentGoes /\ ParentUnhindered /\ live' \subseteq live
  <2>0. parent.todo \subseteq DOMAIN book.children /\ parent \in ParentRecord
    BY InvFacts
  <2>1. CASE UNCHANGED <<parent, live>>
    BY <1>1, <2>1, ParentStays
  <2>2. CASE parent.pc = "wait" /\ Goto("request") /\ UNCHANGED live
    <3>1. /\ parent' \in ParentRecord /\ parent'.pc = "request"
          /\ parent'.todo = parent.todo /\ parent'.commands = parent.commands
      BY <2>0, <2>2, ParentMoves DEF ParentPcs
    <3>. QED
      BY <1>1, <2>0, <2>2, <3>1 DEF ParentGoes, ParentUnhindered, Commanding
  <2>3. CASE parent.pc = "resume" /\ EndTurn(FALSE)
    <3>1. /\ parent' \in ParentRecord /\ parent'.pc = "over"
          /\ parent'.todo = parent.todo /\ parent'.commands = parent.commands
          /\ live' \subseteq live
      BY <2>0, <2>3, ParentMoves
    <3>. QED
      BY <1>1, <2>0, <2>3, <3>1 DEF ParentGoes, ParentUnhindered, Commanding
  <2>4. CASE parent.pc \in {"drain", "closing"} /\ Return(FALSE) /\ UNCHANGED live
    <3>1. /\ parent' \in ParentRecord /\ parent'.pc = "await"
          /\ parent'.todo = parent.todo /\ parent'.commands = parent.commands
      BY <2>0, <2>4, ParentMoves
    <3>. QED
      BY <1>1, <1>2, <2>0, <2>4, <3>1 DEF ParentGoes, ParentUnhindered, Commanding
  <2>. QED
    BY <1>4, <2>1, <2>2, <2>3, <2>4
<1>. QED
  BY <1>1, <1>2, <1>3, <1>5, FinishWalks

-----------------------------------------------------------------------------
(* The theorems *)

\* A step that changes nothing.
LEMMA StutterInv == ASSUME FamilyInv, UNCHANGED familyVars PROVE FamilyInv'
  BY DEF FamilyInv, ParentInv, WorkerInv, HandleInv, FinishInv, HinderInv, familyVars,
         Finished, Unhindered

\* Every step of the controller keeps the invariant.
LEMMA NextInv == FamilyInv /\ [FamilyNext]_familyVars => FamilyInv'
<1> SUFFICES ASSUME FamilyInv, [FamilyNext]_familyVars PROVE FamilyInv'
  OBVIOUS
<1>1. CASE ParentStep
  <2>1. CASE CommandBegins
    BY <2>1, CommandBeginsInv
  <2>2. CASE CommandErrs \/ WaitBegins \/ WaitEnds
    BY <2>2, CommandWalksInv
  <2>3. CASE StopSignalled
    BY <2>3, StopSignalledInv
  <2>4. CASE \E a \in Admissions : Spawn(a) \/ SpawnFails(a)
    BY <2>4, SpawnInv, SpawnFailsInv
  <2>5. CASE \E c \in DOMAIN book.children : Message(c) \/ StopCommand(c)
    BY <2>5, MessageInv, StopCommandInv
  <2>6. CASE RequestResume
    BY <2>6, RequestResumeInv
  <2>7. CASE ResumeAcquires
    BY <2>7, ResumeAcquiresInv
  <2>8. CASE ResumeFails \/ TurnEnds
    BY <2>8, TurnEndsInv
  <2>9. CASE FinishAfterParent
    BY <2>9, FinishAfterParentInv
  <2>10. CASE DrainEnds
    BY <2>10, DrainEndsInv
  <2>11. CASE CloseStops
    BY <2>11, CloseStopsInv
  <2>12. CASE CloseSignals
    BY <2>12, CloseSignalsInv
  <2>13. CASE CloseEnds
    BY <2>13, CloseEndsInv
  <2>14. CASE CleanupAwaited
    BY <2>14, CleanupAwaitedInv
  <2>15. CASE CompleteRun
    BY <2>15, CompleteRunInv
  <2>. QED
    BY <1>1, <2>1, <2>2, <2>3, <2>4, <2>5, <2>6, <2>7, <2>8, <2>9, <2>10, <2>11, <2>12,
       <2>13, <2>14, <2>15 DEF ParentStep
<1>2. ASSUME NEW c \in DOMAIN worker, WorkerStep(c) PROVE FamilyInv'
  BY <1>2, WorkerAcquiresInv, WorkerRefusedInv, WorkerTurnEndsInv, WorkerStoresInv,
     WorkerPanicsInv DEF WorkerStep
<1>3. CASE \E by \in {Root} \cup DOMAIN worker : FinishBegins(by)
  BY <1>3, FinishBeginsInv
<1>4. CASE FinishStep
  BY <1>4, FinishChildInv, FinishAbortsInv DEF FinishStep
<1>5. CASE UserStopsRun \/ \E c \in DOMAIN book.children : UserStopsChild(c)
  BY <1>5, UserStopsInv
<1>6. CASE \E r \in signals : UserSignals(r)
  BY <1>6, UserSignalsInv
<1>7. CASE \E r \in Reaping : Reap(r)
  BY <1>7, ReapInv
<1>8. CASE UNCHANGED familyVars
  BY <1>8, StutterInv
<1>. QED
  BY <1>1, <1>2, <1>3, <1>4, <1>5, <1>6, <1>7, <1>8 DEF FamilyNext

\* The invariant holds in every state of the controller.
THEOREM FamilyInvariant == FamilySpec => []FamilyInv
  BY InitInv, NextInv, PTL DEF FamilySpec

\* The book of a family always passes validate_book(), although the model's
\* operations do not ask it, and each active run and child has its handle.
THEOREM FamilyWellFormed == FamilySpec => []FamilyTypeOK
<1>1. FamilyInv => FamilyTypeOK
  BY InvImplies
<1>. QED
  BY <1>1, FamilyInvariant, PTL

\* Model capacity is never given back before its processes are reaped, for
\* any number of leases, children, commands, stops and faults.
THEOREM CapacityKept == FamilySpec => []CapacityKeptUntilReaped
<1>1. FamilyInv => CapacityKeptUntilReaped
  BY InvImplies
<1>. QED
  BY <1>1, FamilyInvariant, PTL

\* complete_run() refuses a parent only after a fault, a deadline or a race.
THEOREM RefusalsExplained == FamilySpec => []RefusedOnlyWhenHindered
<1>1. FamilyInv => RefusedOnlyWhenHindered
  BY InvImplies
<1>. QED
  BY <1>1, FamilyInvariant, PTL
=============================================================================
