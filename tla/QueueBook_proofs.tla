-------------------------- MODULE QueueBook_proofs --------------------------
(***************************************************************************)
(* Facts about the operations of QueueBook, for every book that has its    *)
(* type and that validate_book() accepts.                                  *)
(***************************************************************************)
EXTENDS QueueBook, LeaseBook_proofs

Fields == {"nextOrdinal", "reviewBlocked", "removeAfterStop", "items",
           "runs", "steers", "children", "ex"}

\* A book mutate() can start from.
Good(b, roles) == BookTypeOK(b, roles) /\ ValidateBook(b)

\* n and b agree on these fields.
Same(b, n, fields) == \A f \in fields : n[f] = b[f]

-----------------------------------------------------------------------------
(* What an operation does to the rest of the system *)

\* Nothing starts or ends.
SameActive(b, n) ==
    ActiveRuns(n) = ActiveRuns(b) /\ ActiveChildren(n) = ActiveChildren(b)

\* No run starts, and a recorded stop stays.
NoRunStarts(b, n) ==
    /\ DOMAIN n.runs \subseteq DOMAIN b.runs
    /\ \A r \in ActiveRuns(n) :
        /\ r \in ActiveRuns(b)
        /\ n.runs[r].project = b.runs[r].project
        /\ b.runs[r].state = "StopRequested" => n.runs[r].state = "StopRequested"

\* No execution is given a lease.
NoLeaseTaken(b, n) == HeldRuns(n.ex) \subseteq HeldRuns(b.ex)

\* What waits keeps waiting.
KeepsQueued(b, n) ==
    \A o \in Queued(b) : o \in Queued(n) /\ n.items[o].project = b.items[o].project

\* A message that is free to start was free before, is new, or was steered
\* into a run of its project.
OrderKept(b, n) ==
    \A o \in Queued(n) :
        \/ /\ o \in Queued(b)
           /\ n.items[o].project = b.items[o].project
           /\ n.items[o].auto => b.items[o].auto
        \/ o >= b.nextOrdinal
        \/ n.items[o].project \in ActiveProjects(b)

\* Pending changes of children whose family has ended block their project.
ReviewHeld(b) ==
    \A c \in DOMAIN b.children :
        /\ b.children[c].reviewPending
        /\ b.children[c].parent \notin ActiveRuns(b)
        => b.children[c].project \in b.reviewBlocked

\* No record of pending changes is dropped.
PendingKept(b, n) ==
    \A c \in DOMAIN b.children :
        b.children[c].reviewPending => c \in DOMAIN n.children

\* What every operation on waiting work and on steering leaves alone.
Quiet(b, n) ==
    /\ SameActive(b, n)
    /\ NoRunStarts(b, n)
    /\ NoLeaseTaken(b, n)
    /\ ReviewHeld(b) => ReviewHeld(n)
    /\ PendingKept(b, n)

-----------------------------------------------------------------------------
(* Records *)

\* A book that is a record, in which mutate() finds the parent of every child.
Retained(n) ==
    /\ n = [f \in Fields |-> n[f]]
    /\ n.children = [c \in DOMAIN n.children |-> n.children[c]]
    /\ \A c \in DOMAIN n.children : n.children[c].parent \in DOMAIN n.runs

\* mutate() then drops no child history.
LEMMA RetainAll == ASSUME NEW n, Retained(n) PROVE RetainChildren(n) = n
<1>1. {c \in DOMAIN n.children : n.children[c].parent \notin DOMAIN n.runs} = {}
  BY DEF Retained
<1>2. Without(n.children, {}) = n.children
  BY DEF Without, Retained
<1>3. RetainChildren(n) = [n EXCEPT !.children = n.children]
  BY <1>1, <1>2 DEF RetainChildren
<1>. QED
  BY <1>3 DEF Retained, Fields

\* What the later proofs use of a good book.
LEMMA GoodFacts ==
    ASSUME NEW b, NEW roles, Good(b, roles)
    PROVE  /\ DOMAIN b = Fields
           /\ \A o \in DOMAIN b.items : b.items[o] \in ItemRecord /\ o \in Nat /\ o < b.nextOrdinal
           /\ \A r \in DOMAIN b.runs : b.runs[r] \in RunRecord /\ r \in DOMAIN b.items
           /\ \A o \in DOMAIN b.steers :
                /\ b.steers[o] \in SteerRecord /\ o \in Nat /\ o < b.nextOrdinal
                /\ b.steers[o].run \in DOMAIN b.runs
           /\ \A c \in DOMAIN b.children :
                /\ b.children[c] \in ChildRecord(roles) /\ c \in Nat /\ c < b.nextOrdinal
                /\ b.children[c].parent \in DOMAIN b.runs
           /\ \A m \in DOMAIN b.ex.members : b.ex.members[m] \in LeaseRecord(roles)
           /\ \A p \in DOMAIN b.ex.budgets : b.ex.budgets[p] \in BudgetRecord
           /\ b.nextOrdinal \in Nat \ {0}
<1>1. BookTypeOK(b, roles) /\ ValidateBook(b)
  BY DEF Good
<1>2. b.nextOrdinal \in Nat \ {0}
  BY <1>1 DEF BookTypeOK, ValidateBook, CountsValid
<1>3. \A o \in DOMAIN b.items : b.items[o] \in ItemRecord /\ o \in Nat /\ o < b.nextOrdinal
  BY <1>1, <1>2 DEF BookTypeOK, ValidateBook, ItemsValid
<1>4. \A r \in DOMAIN b.runs : b.runs[r] \in RunRecord /\ r \in DOMAIN b.items
  BY <1>1, <1>2 DEF BookTypeOK, ValidateBook, RunsValid
<1>5. \A o \in DOMAIN b.steers :
                /\ b.steers[o] \in SteerRecord /\ o \in Nat /\ o < b.nextOrdinal
                /\ b.steers[o].run \in DOMAIN b.runs
  BY <1>1, <1>2 DEF BookTypeOK, ValidateBook, SteeringValid
<1>6. \A c \in DOMAIN b.children :
                /\ b.children[c] \in ChildRecord(roles) /\ c \in Nat /\ c < b.nextOrdinal
                /\ b.children[c].parent \in DOMAIN b.runs
  <2>1. \A c \in DOMAIN b.children : b.children[c] \in ChildRecord(roles) /\ c \in 1 .. b.nextOrdinal - 1
    BY <1>1, <1>2 DEF BookTypeOK
  <2>2. \A c \in DOMAIN b.children : b.children[c].parent \in DOMAIN b.runs
    BY <1>1 DEF ValidateBook, ChildrenValid
  <2>. QED
    BY <1>2, <2>1, <2>2
<1>7. DOMAIN b = Fields
  BY <1>1 DEF BookTypeOK, Fields
<1>8. /\ \A m \in DOMAIN b.ex.members : b.ex.members[m] \in LeaseRecord(roles)
      /\ \A p \in DOMAIN b.ex.budgets : b.ex.budgets[p] \in BudgetRecord
  BY <1>1 DEF BookTypeOK
<1>. QED
  BY <1>2, <1>3, <1>4, <1>5, <1>6, <1>7, <1>8

-----------------------------------------------------------------------------
(* Operations that change waiting items only *)

\* The items keep their identity and state; review blocks of children stay.
ItemsChange(b, n) ==
    /\ n = [f \in Fields |-> n[f]]
    /\ Same(b, n, Fields \ {"items", "reviewBlocked"})
    /\ n.reviewBlocked \subseteq Projects
    /\ ChildReviewProjects(b) \cap b.reviewBlocked \subseteq n.reviewBlocked
    /\ n.items \in [DOMAIN b.items -> ItemRecord]
    /\ \A o \in DOMAIN b.items :
        /\ n.items[o].state = b.items[o].state
        /\ n.items[o].project = b.items[o].project
        /\ n.items[o].blocked = "Hold" => ~n.items[o].auto

\* Such a change starts, ends and drops nothing.
LEMMA ItemsChangeEffect ==
    ASSUME NEW b, NEW roles, Good(b, roles), NEW n, ItemsChange(b, n)
    PROVE  /\ BookTypeOK(n, roles)
           /\ Retained(n)
           /\ n.nextOrdinal = b.nextOrdinal
           /\ Quiet(b, n)
           /\ KeepsQueued(b, n)
<1>1. DOMAIN b = Fields /\ DOMAIN n = Fields
  BY GoodFacts DEF ItemsChange
<1>2. /\ n.nextOrdinal = b.nextOrdinal /\ n.removeAfterStop = b.removeAfterStop
      /\ n.runs = b.runs /\ n.steers = b.steers /\ n.children = b.children /\ n.ex = b.ex
  BY DEF ItemsChange, Same, Fields
<1>3. BookTypeOK(n, roles)
  BY <1>1, <1>2 DEF ItemsChange, Good, BookTypeOK, Fields
<1>4. Retained(n)
  BY <1>2, GoodFacts DEF ItemsChange, Retained, Good, BookTypeOK
<1>5. SameActive(b, n) /\ NoRunStarts(b, n) /\ NoLeaseTaken(b, n)
  BY <1>2 DEF SameActive, NoRunStarts, NoLeaseTaken, ActiveRuns, ActiveChildren
<1>6. KeepsQueued(b, n)
  BY DEF ItemsChange, KeepsQueued, Queued
<1>7. ReviewHeld(b) => ReviewHeld(n)
  BY <1>2 DEF ItemsChange, ReviewHeld, ActiveRuns, ChildReviewProjects
<1>8. PendingKept(b, n)
  BY <1>2 DEF PendingKept
<1>. QED
  BY <1>2, <1>3, <1>4, <1>5, <1>6, <1>7, <1>8 DEF Quiet

\* release_held()
LEMMA ReleaseHeldChange ==
    ASSUME NEW b, NEW roles, Good(b, roles), NEW o, ReleaseHeldOk(b, o),
           NEW n, n = ReleaseHeldTo(b, o)
    PROVE  ItemsChange(b, n)
<1>1. DOMAIN b = Fields /\ o \in DOMAIN b.items /\ b.items[o] \in ItemRecord
  BY GoodFacts DEF ReleaseHeldOk, Queued
<1>2. /\ n = [f \in Fields |-> n[f]]
      /\ Same(b, n, Fields \ {"items"})
      /\ DOMAIN n.items = DOMAIN b.items
      /\ \A x \in DOMAIN b.items \ {o} : n.items[x] = b.items[x]
      /\ n.items[o] = [b.items[o] EXCEPT !.auto = TRUE,
                          !.blocked = IF @ = "Hold" THEN "None" ELSE @]
      /\ n.items = [x \in DOMAIN n.items |-> n.items[x]]
  BY <1>1 DEF ReleaseHeldTo, Same, Fields, ItemRecord
<1>3. n.items[o] \in ItemRecord /\ n.items[o].state = b.items[o].state
      /\ n.items[o].project = b.items[o].project /\ n.items[o].blocked # "Hold"
  BY <1>1, <1>2 DEF ItemRecord
<1>4. n.reviewBlocked = b.reviewBlocked /\ Same(b, n, Fields \ {"items", "reviewBlocked"})
  BY <1>2 DEF Same, Fields
<1>5. \A x \in DOMAIN b.items \ {o} :
        n.items[x] \in ItemRecord /\ (n.items[x].blocked = "Hold" => ~n.items[x].auto)
  BY <1>2 DEF Good, BookTypeOK
<1>6. n.items \in [DOMAIN b.items -> ItemRecord]
  BY <1>2, <1>3, <1>5
<1>7. b.reviewBlocked \subseteq Projects
  BY DEF Good, BookTypeOK
<1>. QED
  BY <1>2, <1>3, <1>4, <1>5, <1>6, <1>7 DEF ItemsChange

\* mark_blocked()
LEMMA MarkBlockedChange ==
    ASSUME NEW b, NEW roles, Good(b, roles), NEW o, MarkBlockedOk(b, o),
           NEW n, n = MarkBlockedTo(b, o)
    PROVE  ItemsChange(b, n) /\ OrderKept(b, n)
<1>1. DOMAIN b = Fields /\ o \in DOMAIN b.items /\ b.items[o] \in ItemRecord
  BY GoodFacts DEF MarkBlockedOk, Queued
<1>2. /\ n = [f \in Fields |-> n[f]]
      /\ Same(b, n, Fields \ {"items"})
      /\ n.items = [b.items EXCEPT ![o] = [b.items[o] EXCEPT !.blocked = "Prepare"]]
  BY <1>1 DEF MarkBlockedTo, Same, Fields
<1>3. n.items \in [DOMAIN b.items -> ItemRecord]
  BY <1>1, <1>2 DEF ItemRecord, Good, BookTypeOK
<1>4. \A x \in DOMAIN b.items :
        /\ n.items[x].state = b.items[x].state
        /\ n.items[x].project = b.items[x].project
        /\ n.items[x].auto = b.items[x].auto
        /\ n.items[x].blocked = "Hold" => ~n.items[x].auto
  BY <1>1, <1>2 DEF ItemRecord, Good, BookTypeOK
<1>5. n.reviewBlocked = b.reviewBlocked /\ Same(b, n, Fields \ {"items", "reviewBlocked"})
  BY <1>2 DEF Same, Fields
<1>6. b.reviewBlocked \subseteq Projects
  BY DEF Good, BookTypeOK
<1>. QED
  BY <1>2, <1>3, <1>4, <1>5, <1>6 DEF ItemsChange, OrderKept, Queued

\* rebind_waiting_transport()
LEMMA RebindChange ==
    ASSUME NEW b, NEW roles, Good(b, roles), NEW t \in Transports,
           NEW n, n = RebindWaitingTransportTo(b, t)
    PROVE  ItemsChange(b, n) /\ OrderKept(b, n)
<1>1. DOMAIN b = Fields /\ \A o \in DOMAIN b.items : b.items[o] \in ItemRecord
  BY GoodFacts
<1>2. /\ n = [f \in Fields |-> n[f]]
      /\ Same(b, n, Fields \ {"items"})
  BY <1>1 DEF RebindWaitingTransportTo, Same, Fields
<1>i. n.items = [o \in DOMAIN b.items |->
            IF o \in Queued(b) /\ b.items[o].transport # t
            THEN [b.items[o] EXCEPT !.transport = t,
                                    !.blocked = IF b.items[o].auto THEN "None" ELSE @]
            ELSE b.items[o]]
  BY <1>1 DEF RebindWaitingTransportTo, Same, Fields
<1>3. \A x \in DOMAIN b.items :
        /\ n.items[x] \in ItemRecord
        /\ n.items[x].state = b.items[x].state
        /\ n.items[x].project = b.items[x].project
        /\ n.items[x].auto = b.items[x].auto
        /\ n.items[x].blocked = "Hold" => ~n.items[x].auto
  <2>. TAKE x \in DOMAIN b.items
  <2>1. b.items[x] \in ItemRecord /\ (b.items[x].blocked = "Hold" => ~b.items[x].auto)
    BY <1>1 DEF Good, BookTypeOK
  <2>2. CASE x \in Queued(b) /\ b.items[x].transport # t
    <3>1. n.items[x] = [b.items[x] EXCEPT !.transport = t,
                                          !.blocked = IF b.items[x].auto THEN "None" ELSE @]
      BY <1>i, <2>2
    <3>. QED
      BY <2>1, <2>2, <3>1 DEF ItemRecord
  <2>3. CASE ~(x \in Queued(b) /\ b.items[x].transport # t)
    BY <1>i, <2>1, <2>3 DEF ItemRecord
  <2>. QED
    BY <2>2, <2>3
<1>4. n.items \in [DOMAIN b.items -> ItemRecord]
  BY <1>i, <1>3
<1>5. n.reviewBlocked = b.reviewBlocked /\ Same(b, n, Fields \ {"items", "reviewBlocked"})
  BY <1>2 DEF Same, Fields
<1>6. b.reviewBlocked \subseteq Projects
  BY DEF Good, BookTypeOK
<1>. QED
  BY <1>2, <1>3, <1>4, <1>5, <1>6 DEF ItemsChange, OrderKept, Queued

\* hold_for_engine_change()
LEMMA HoldChange ==
    ASSUME NEW b, NEW roles, Good(b, roles), NEW n, n = HoldForEngineChangeTo(b)
    PROVE  ItemsChange(b, n) /\ OrderKept(b, n)
<1>1. DOMAIN b = Fields /\ \A o \in DOMAIN b.items : b.items[o] \in ItemRecord
  BY GoodFacts
<1>2. /\ n = [f \in Fields |-> n[f]]
      /\ Same(b, n, Fields \ {"items"})
  BY <1>1 DEF HoldForEngineChangeTo, Same, Fields
<1>i. n.items = [o \in DOMAIN b.items |->
            IF o \in Queued(b) /\ b.items[o].auto
            THEN [b.items[o] EXCEPT !.auto = FALSE, !.blocked = "Hold"]
            ELSE b.items[o]]
  BY <1>1 DEF HoldForEngineChangeTo, Same, Fields
<1>3. \A x \in DOMAIN b.items :
        /\ n.items[x] \in ItemRecord
        /\ n.items[x].state = b.items[x].state
        /\ n.items[x].project = b.items[x].project
        /\ n.items[x].auto => b.items[x].auto
        /\ n.items[x].blocked = "Hold" => ~n.items[x].auto
  <2>. TAKE x \in DOMAIN b.items
  <2>1. b.items[x] \in ItemRecord /\ (b.items[x].blocked = "Hold" => ~b.items[x].auto)
    BY <1>1 DEF Good, BookTypeOK
  <2>2. CASE x \in Queued(b) /\ b.items[x].auto
    <3>1. n.items[x] = [b.items[x] EXCEPT !.auto = FALSE, !.blocked = "Hold"]
      BY <1>i, <2>2
    <3>. QED
      BY <2>1, <2>2, <3>1 DEF ItemRecord
  <2>3. CASE ~(x \in Queued(b) /\ b.items[x].auto)
    BY <1>i, <2>1, <2>3 DEF ItemRecord
  <2>. QED
    BY <2>2, <2>3
<1>4. n.items \in [DOMAIN b.items -> ItemRecord]
  BY <1>i, <1>3
<1>5. n.reviewBlocked = b.reviewBlocked /\ Same(b, n, Fields \ {"items", "reviewBlocked"})
  BY <1>2 DEF Same, Fields
<1>6. b.reviewBlocked \subseteq Projects
  BY DEF Good, BookTypeOK
<1>. QED
  BY <1>2, <1>3, <1>4, <1>5, <1>6 DEF ItemsChange, OrderKept, Queued

\* A new set of blocked projects that keeps those of children.
LEMMA ReviewReasonsChange ==
    ASSUME NEW b, NEW roles, Good(b, roles), NEW projects, NEW blocked,
           blocked \subseteq Projects,
           ChildReviewProjects(b) \cap b.reviewBlocked \subseteq blocked,
           NEW n, n = ReviewReasons(b, projects, blocked)
    PROVE  ItemsChange(b, n) /\ OrderKept(b, n)
<1>1. DOMAIN b = Fields /\ \A o \in DOMAIN b.items : b.items[o] \in ItemRecord
  BY GoodFacts
<1>2. /\ n = [f \in Fields |-> n[f]]
      /\ Same(b, n, Fields \ {"items", "reviewBlocked"})
      /\ n.reviewBlocked = blocked
  BY <1>1 DEF ReviewReasons, Same, Fields
<1>i. n.items = [o \in DOMAIN b.items |->
            IF o \notin Queued(b) \/ b.items[o].project \notin projects
            THEN b.items[o]
            ELSE [b.items[o] EXCEPT !.blocked =
                    IF b.items[o].project \in blocked THEN "Review"
                    ELSE IF @ = "Review" THEN "None" ELSE @]]
  BY <1>1 DEF ReviewReasons, Same, Fields
<1>3. \A x \in DOMAIN b.items :
        /\ n.items[x] \in ItemRecord
        /\ n.items[x].state = b.items[x].state
        /\ n.items[x].project = b.items[x].project
        /\ n.items[x].auto = b.items[x].auto
        /\ n.items[x].blocked = "Hold" => ~n.items[x].auto
  <2>. TAKE x \in DOMAIN b.items
  <2>1. b.items[x] \in ItemRecord /\ (b.items[x].blocked = "Hold" => ~b.items[x].auto)
    BY <1>1 DEF Good, BookTypeOK
  <2>2. CASE x \notin Queued(b) \/ b.items[x].project \notin projects
    BY <1>i, <2>1, <2>2 DEF ItemRecord
  <2>3. CASE ~(x \notin Queued(b) \/ b.items[x].project \notin projects)
    <3>1. PICK v : v = IF b.items[x].project \in blocked THEN "Review"
                       ELSE IF b.items[x].blocked = "Review" THEN "None"
                       ELSE b.items[x].blocked
      OBVIOUS
    <3>2. n.items[x] = [b.items[x] EXCEPT !.blocked = v]
      BY <1>i, <2>3, <3>1
    <3>3. v \in {"None", "Hold", "Review", "Prepare"} /\ (v = "Hold" => b.items[x].blocked = "Hold")
      BY <2>1, <3>1 DEF ItemRecord
    <3>. QED
      BY <2>1, <3>2, <3>3 DEF ItemRecord
  <2>. QED
    BY <2>2, <2>3
<1>4. n.items \in [DOMAIN b.items -> ItemRecord]
  BY <1>i, <1>3
<1>. QED
  BY <1>2, <1>3, <1>4 DEF ItemsChange, OrderKept, Queued

\* set_review_blocked()
LEMMA SetReviewBlockedChange ==
    ASSUME NEW b, NEW roles, Good(b, roles), NEW p \in Projects, NEW blocked,
           NEW n, n = SetReviewBlockedTo(b, p, blocked)
    PROVE  ItemsChange(b, n) /\ OrderKept(b, n)
<1>. DEFINE new == IF blocked \/ p \in ChildReviewProjects(b)
                   THEN b.reviewBlocked \cup {p} ELSE b.reviewBlocked \ {p}
<1>1. new \subseteq Projects
  BY DEF Good, BookTypeOK
<1>2. ChildReviewProjects(b) \cap b.reviewBlocked \subseteq new
  OBVIOUS
<1>3. n = ReviewReasons(b, {p}, new)
  BY DEF SetReviewBlockedTo
<1>. HIDE DEF new
<1>. QED
  BY <1>1, <1>2, <1>3, ReviewReasonsChange

\* reconcile_review_blocks()
LEMMA ReconcileChange ==
    ASSUME NEW b, NEW roles, Good(b, roles), NEW P \in SUBSET Projects,
           NEW n, n = ReconcileReviewBlocksTo(b, P)
    PROVE  ItemsChange(b, n) /\ OrderKept(b, n)
<1>1. ChildReviewProjects(b) \subseteq Projects
  BY GoodFacts DEF ChildReviewProjects, ChildRecord
<1>2. P \cup ChildReviewProjects(b) \subseteq Projects
  BY <1>1
<1>3. n = ReviewReasons(b, Projects, P \cup ChildReviewProjects(b))
  BY DEF ReconcileReviewBlocksTo
<1>. QED
  BY <1>2, <1>3, ReviewReasonsChange

-----------------------------------------------------------------------------
(* New messages and steering *)

\* An operation that leaves the runs, the children, their leases and the
\* review blocks alone is quiet.
LEMMA SameIsQuiet ==
    ASSUME NEW b, NEW n,
           n.runs = b.runs, n.children = b.children, n.ex = b.ex,
           n.reviewBlocked = b.reviewBlocked
    PROVE  Quiet(b, n)
  BY DEF Quiet, SameActive, NoRunStarts, NoLeaseTaken, ReviewHeld, PendingKept,
         ActiveRuns, ActiveChildren

\* enqueue_in_book()
LEMMA EnqueueEffect ==
    ASSUME NEW b, NEW roles, Good(b, roles), NEW i \in ItemRecord,
           i.state = "Queued", i.blocked = "None",
           NEW n, n = EnqueueTo(b, i)
    PROVE  /\ BookTypeOK(n, roles)
           /\ Retained(n)
           /\ n.nextOrdinal = b.nextOrdinal + 1
           /\ Quiet(b, n)
           /\ KeepsQueued(b, n)
           /\ OrderKept(b, n)
<1>1. DOMAIN b = Fields /\ b.nextOrdinal \in Nat /\ b.nextOrdinal \notin DOMAIN b.items
  BY GoodFacts
<1>2. /\ n = [f \in Fields |-> n[f]]
      /\ n.nextOrdinal = b.nextOrdinal + 1
      /\ n.items = Put(b.items, b.nextOrdinal, i)
      /\ n.reviewBlocked = b.reviewBlocked /\ n.removeAfterStop = b.removeAfterStop
      /\ n.runs = b.runs /\ n.steers = b.steers
      /\ n.children = b.children /\ n.ex = b.ex
  BY <1>1 DEF EnqueueTo, Fields
<1>3. /\ DOMAIN n.items = DOMAIN b.items \cup {b.nextOrdinal}
      /\ n.items \in [DOMAIN n.items -> ItemRecord]
      /\ n.items[b.nextOrdinal] = i
      /\ \A o \in DOMAIN b.items : n.items[o] = b.items[o]
  BY <1>1, <1>2 DEF Put, Good, BookTypeOK
<1>4. DOMAIN n.children \subseteq 1 .. n.nextOrdinal - 1
  BY <1>1, <1>2 DEF Good, BookTypeOK
<1>5. BookTypeOK(n, roles)
  BY <1>1, <1>2, <1>3, <1>4 DEF Good, BookTypeOK, Fields
<1>6. Retained(n)
  BY <1>2, GoodFacts DEF Retained, Good, BookTypeOK
<1>7. KeepsQueued(b, n) /\ OrderKept(b, n)
  BY <1>1, <1>3 DEF KeepsQueued, OrderKept, Queued
<1>. QED
  BY <1>2, <1>5, <1>6, <1>7, SameIsQuiet

\* A new item is an item.
LEMMA NewItemType ==
    ASSUME NEW p \in Projects, NEW t \in Transports, NEW w \in Tickets \cup {"None"},
           NEW auto \in BOOLEAN, NEW pred \in Nat,
           NEW i, i = NewItem(p, t, w, auto, pred)
    PROVE  /\ i \in ItemRecord
           /\ i.state = "Queued" /\ i.blocked = "None" /\ i.project = p
           /\ i.auto = auto
  BY DEF NewItem, ItemRecord

\* The operations on steering leave these facts behind.
SteersChange(b, n) ==
    /\ n = [f \in Fields |-> n[f]]
    /\ Same(b, n, Fields \ {"nextOrdinal", "items", "steers"})
    /\ n.nextOrdinal \in Nat
    /\ b.nextOrdinal <= n.nextOrdinal
    /\ n.items = [o \in DOMAIN n.items |-> b.items[o]]
    /\ DOMAIN n.items \subseteq DOMAIN b.items
    /\ n.steers \in [DOMAIN n.steers -> SteerRecord]

\* They start, end and drop nothing.
LEMMA SteersChangeEffect ==
    ASSUME NEW b, NEW roles, Good(b, roles), NEW n, SteersChange(b, n)
    PROVE  /\ BookTypeOK(n, roles)
           /\ Retained(n)
           /\ Quiet(b, n)
           /\ OrderKept(b, n)
           /\ n.items = b.items => KeepsQueued(b, n)
<1>1. /\ n.reviewBlocked = b.reviewBlocked /\ n.removeAfterStop = b.removeAfterStop
      /\ n.runs = b.runs /\ n.children = b.children /\ n.ex = b.ex
  BY DEF SteersChange, Same, Fields
<1>2. b.nextOrdinal \in Nat
  BY GoodFacts
<1>3. DOMAIN n.children \subseteq 1 .. n.nextOrdinal - 1
  BY <1>1, <1>2 DEF Good, BookTypeOK, SteersChange
<1>4. /\ n.items \in [DOMAIN n.items -> ItemRecord]
      /\ \A o \in DOMAIN n.items : n.items[o].blocked = "Hold" => ~n.items[o].auto
  <2>1. /\ b.items \in [DOMAIN b.items -> ItemRecord]
        /\ \A o \in DOMAIN b.items : b.items[o].blocked = "Hold" => ~b.items[o].auto
    BY DEF Good, BookTypeOK
  <2>. QED
    BY ZenonT(40), <2>1 DEF SteersChange
<1>5. BookTypeOK(n, roles)
  <2>1. n.ex = [members |-> n.ex.members, budgets |-> n.ex.budgets]
    BY <1>1 DEF Good, BookTypeOK
  <2>. QED
    BY <1>1, <1>3, <1>4, <2>1 DEF Good, BookTypeOK, Fields, SteersChange
<1>6. Retained(n)
  BY <1>1, GoodFacts DEF Retained, Good, BookTypeOK, SteersChange
<1>7. OrderKept(b, n) /\ (n.items = b.items => KeepsQueued(b, n))
  BY DEF KeepsQueued, OrderKept, Queued, SteersChange
<1>. QED
  BY <1>1, <1>5, <1>6, <1>7, SameIsQuiet

\* enqueue_steer()
LEMMA EnqueueSteerChange ==
    ASSUME NEW b, NEW roles, Good(b, roles), NEW run, NEW trimmed,
           EnqueueSteerOk(b, run, trimmed),
           NEW n, n = EnqueueSteerTo(b, run, trimmed)
    PROVE  /\ SteersChange(b, n)
           /\ n.items = b.items
           /\ n.nextOrdinal = b.nextOrdinal + 1
           /\ DOMAIN n.steers = (DOMAIN b.steers \ trimmed) \cup {b.nextOrdinal}
           /\ n.steers[b.nextOrdinal] = [project |-> b.runs[run].project, run |-> run, state |-> "Pending"]
           /\ \A x \in DOMAIN n.steers \ {b.nextOrdinal} : n.steers[x] = b.steers[x]
<1>1. DOMAIN b = Fields /\ b.nextOrdinal \in Nat
  BY GoodFacts
<1>2. run \in DOMAIN b.runs /\ run \in Nat /\ b.runs[run].project \in Projects
  BY GoodFacts DEF EnqueueSteerOk, RunningParent, RunRecord
<1>3. /\ n = [f \in Fields |-> n[f]]
      /\ n.nextOrdinal = b.nextOrdinal + 1
      /\ n.items = b.items
      /\ n.steers = Put(Without(b.steers, trimmed), b.nextOrdinal,
                        [project |-> b.runs[run].project, run |-> run,
                         state |-> "Pending"])
      /\ Same(b, n, Fields \ {"nextOrdinal", "items", "steers"})
  BY <1>1 DEF EnqueueSteerTo, Same, Fields
<1>4. [project |-> b.runs[run].project, run |-> run, state |-> "Pending"] \in SteerRecord
  BY <1>2 DEF SteerRecord
<1>5. /\ DOMAIN n.steers = (DOMAIN b.steers \ trimmed) \cup {b.nextOrdinal}
      /\ n.steers[b.nextOrdinal] = [project |-> b.runs[run].project, run |-> run, state |-> "Pending"]
      /\ \A x \in DOMAIN n.steers \ {b.nextOrdinal} : x \in DOMAIN b.steers /\ n.steers[x] = b.steers[x]
      /\ n.steers = [x \in DOMAIN n.steers |-> n.steers[x]]
  BY <1>3 DEF Put, Without
<1>7. n.steers \in [DOMAIN n.steers -> SteerRecord]
  <2>1. \A x \in DOMAIN n.steers : n.steers[x] \in SteerRecord
    BY <1>4, <1>5, GoodFacts
  <2>. QED
    BY <1>5, <2>1
<1>6. n.items = [o \in DOMAIN n.items |-> b.items[o]]
  BY <1>3 DEF Good, BookTypeOK
<1>. QED
  BY <1>1, <1>3, <1>5, <1>6, <1>7 DEF SteersChange

\* steer_queued_item()
LEMMA SteerQueuedItemChange ==
    ASSUME NEW b, NEW roles, Good(b, roles), NEW o, NEW run, NEW trimmed,
           SteerQueuedItemOk(b, o, run, trimmed),
           NEW n, n = SteerQueuedItemTo(b, o, run, trimmed)
    PROVE  /\ SteersChange(b, n)
           /\ n.nextOrdinal = b.nextOrdinal
           /\ n.items = Without(b.items, {o})
           /\ DOMAIN n.steers = (DOMAIN b.steers \ trimmed) \cup {o}
           /\ n.steers[o] = [project |-> b.items[o].project, run |-> run, state |-> "Pending"]
           /\ \A x \in DOMAIN n.steers \ {o} : n.steers[x] = b.steers[x]
<1>1. DOMAIN b = Fields /\ b.nextOrdinal \in Nat
  BY GoodFacts
<1>2. run \in DOMAIN b.runs /\ run \in Nat
  BY GoodFacts DEF SteerQueuedItemOk, RunningParent
<1>3. /\ n = [f \in Fields |-> n[f]]
      /\ n.nextOrdinal = b.nextOrdinal
      /\ n.items = Without(b.items, {o})
      /\ n.steers = Put(Without(b.steers, trimmed), o,
                        [project |-> b.items[o].project, run |-> run,
                         state |-> "Pending"])
      /\ Same(b, n, Fields \ {"nextOrdinal", "items", "steers"})
  BY <1>1 DEF SteerQueuedItemTo, Same, Fields
<1>4. [project |-> b.items[o].project, run |-> run, state |-> "Pending"] \in SteerRecord
  BY <1>2, GoodFacts DEF SteerRecord, SteerQueuedItemOk, Queued, ItemRecord
<1>5. /\ DOMAIN n.steers = (DOMAIN b.steers \ trimmed) \cup {o}
      /\ n.steers[o] = [project |-> b.items[o].project, run |-> run, state |-> "Pending"]
      /\ \A x \in DOMAIN n.steers \ {o} : x \in DOMAIN b.steers /\ n.steers[x] = b.steers[x]
      /\ n.steers = [x \in DOMAIN n.steers |-> n.steers[x]]
  BY <1>3 DEF Put, Without
<1>7. n.steers \in [DOMAIN n.steers -> SteerRecord]
  <2>1. \A x \in DOMAIN n.steers : n.steers[x] \in SteerRecord
    BY <1>4, <1>5, GoodFacts
  <2>. QED
    BY <1>5, <2>1
<1>. QED
  BY <1>1, <1>3, <1>5, <1>7 DEF SteersChange, Without

\* submit_pending_steers()
LEMMA SubmitChange ==
    ASSUME NEW b, NEW roles, Good(b, roles), NEW run,
           NEW n, n = SubmitPendingSteersTo(b, run)
    PROVE  /\ SteersChange(b, n)
           /\ n.items = b.items
           /\ n.nextOrdinal = b.nextOrdinal
           /\ n.steers = [o \in DOMAIN b.steers |->
                IF o \in SteersOf(b, run) \cap PendingSteers(b)
                THEN [b.steers[o] EXCEPT !.state = "Submitted"]
                ELSE b.steers[o]]
<1>1. DOMAIN b = Fields /\ b.nextOrdinal \in Nat
      /\ \A o \in DOMAIN b.steers : b.steers[o] \in SteerRecord
  BY GoodFacts
<1>3. /\ n = [f \in Fields |-> n[f]]
      /\ n.nextOrdinal = b.nextOrdinal
      /\ n.items = b.items
      /\ n.steers = [o \in DOMAIN b.steers |->
                IF o \in SteersOf(b, run) \cap PendingSteers(b)
                THEN [b.steers[o] EXCEPT !.state = "Submitted"]
                ELSE b.steers[o]]
      /\ Same(b, n, Fields \ {"nextOrdinal", "items", "steers"})
  BY <1>1 DEF SubmitPendingSteersTo, Same, Fields
<1>5. n.steers \in [DOMAIN n.steers -> SteerRecord]
  BY <1>1, <1>3 DEF SteerRecord
<1>6. n.items = [o \in DOMAIN n.items |-> b.items[o]]
  BY <1>3 DEF Good, BookTypeOK
<1>. QED
  BY <1>1, <1>3, <1>5, <1>6 DEF SteersChange

\* record_steer_delivery()
LEMMA DeliveryChange ==
    ASSUME NEW b, NEW roles, Good(b, roles), NEW run, NEW o, NEW next \in DeliveryStates,
           RecordSteerDeliveryOk(b, run, o, next),
           NEW n, n = RecordSteerDeliveryTo(b, o, next)
    PROVE  /\ SteersChange(b, n)
           /\ n.items = b.items
           /\ n.nextOrdinal = b.nextOrdinal
           /\ n.steers = [b.steers EXCEPT ![o].state = next]
<1>1. DOMAIN b = Fields /\ b.nextOrdinal \in Nat
      /\ \A x \in DOMAIN b.steers : b.steers[x] \in SteerRecord
  BY GoodFacts
<1>2. o \in DOMAIN b.steers
  BY DEF RecordSteerDeliveryOk, SteersOf
<1>3. /\ n = [f \in Fields |-> n[f]]
      /\ n.nextOrdinal = b.nextOrdinal
      /\ n.items = b.items
      /\ n.steers = [b.steers EXCEPT ![o].state = next]
      /\ Same(b, n, Fields \ {"nextOrdinal", "items", "steers"})
  BY <1>1 DEF RecordSteerDeliveryTo, Same, Fields
<1>5. n.steers \in [DOMAIN n.steers -> SteerRecord]
  BY SMTT(30), <1>1, <1>2, <1>3 DEF SteerRecord, Good, BookTypeOK
<1>6. n.items = [x \in DOMAIN n.items |-> b.items[x]]
  BY <1>3 DEF Good, BookTypeOK
<1>. QED
  BY <1>1, <1>3, <1>5, <1>6 DEF SteersChange

-----------------------------------------------------------------------------
(* Leases *)

\* The shape of the leases of a book.
LeasesOK(e, roles) ==
    /\ e = [members |-> e.members, budgets |-> e.budgets]
    /\ e.members \in [DOMAIN e.members -> LeaseRecord(roles)]
    /\ e.budgets \in [DOMAIN e.budgets -> BudgetRecord]

\* A lease changes hands: one member changes its state and nothing else.
LEMMA SetLeaseEffect ==
    ASSUME NEW e, NEW roles, LeasesOK(e, roles), NEW r \in DOMAIN e.members,
           NEW st \in LeaseStates, NEW ord \in Nat,
           NEW f, f = SetLease(e, r, st, ord)
    PROVE  /\ LeasesOK(f, roles)
           /\ f.budgets = e.budgets
           /\ DOMAIN f.members = DOMAIN e.members
           /\ \A x \in DOMAIN e.members \ {r} : f.members[x] = e.members[x]
           /\ f.members[r].st = st
           /\ f.members[r].ord = ord
           /\ SameIdentity(f.members[r], e.members[r])
           /\ st \notin {"Held", "Retiring"} => HeldRuns(f) \subseteq HeldRuns(e)
<1>1. e.members[r] \in LeaseRecord(roles)
  BY DEF LeasesOK
<1>2. [e.members[r] EXCEPT !.st = st, !.ord = ord] \in LeaseRecord(roles)
  BY <1>1 DEF LeaseRecord
<1>3. /\ LeasesOK(f, roles)
      /\ f.budgets = e.budgets
      /\ DOMAIN f.members = DOMAIN e.members
      /\ \A x \in DOMAIN e.members \ {r} : f.members[x] = e.members[x]
      /\ f.members[r].st = st
      /\ f.members[r].ord = ord
      /\ SameIdentity(f.members[r], e.members[r])
  BY <1>1, <1>2 DEF LeasesOK, SetLease, LeaseRecord, SameIdentity
<1>4. st \notin {"Held", "Retiring"} => HeldRuns(f) \subseteq HeldRuns(e)
  BY <1>3 DEF HeldRuns, Occupies
<1>. QED
  BY <1>3, <1>4

\* A member joins.
LEMMA AddMemberEffect ==
    ASSUME NEW e, NEW roles, LeasesOK(e, roles), NEW r, r \notin DOMAIN e.members,
           NEW m \in LeaseRecord(roles),
           NEW f, f = AddMember(e, r, m)
    PROVE  /\ LeasesOK(f, roles)
           /\ f.budgets = e.budgets
           /\ DOMAIN f.members = DOMAIN e.members \cup {r}
           /\ \A x \in DOMAIN e.members : f.members[x] = e.members[x]
           /\ f.members[r] = m
  BY DEF LeasesOK, AddMember

\* A parent gets its budget.
LEMMA AddBudgetEffect ==
    ASSUME NEW e, NEW roles, LeasesOK(e, roles), NEW p, p \notin DOMAIN e.budgets,
           NEW a \in BudgetRecord,
           NEW f, f = AddBudget(e, p, a)
    PROVE  LeasesOK(f, roles) /\ f.members = e.members
  BY DEF LeasesOK, AddBudget

\* An invocation is paid for.
LEMMA SpendEffect ==
    ASSUME NEW e, NEW roles, LeasesOK(e, roles), NEW p \in DOMAIN e.budgets,
           NEW f, f = [e EXCEPT !.budgets[p].used = @ + 1]
    PROVE  LeasesOK(f, roles) /\ f.members = e.members
<1>1. e.budgets[p] \in BudgetRecord
  BY DEF LeasesOK
<1>2. [e.budgets[p] EXCEPT !.used = @ + 1] \in BudgetRecord
  BY <1>1 DEF BudgetRecord
<1>. QED
  BY <1>1, <1>2 DEF LeasesOK, BudgetRecord

\* The leases of a good book.
LEMMA GoodLeases ==
    ASSUME NEW b, NEW roles, Good(b, roles)
    PROVE  LeasesOK(b.ex, roles)
  BY DEF Good, BookTypeOK, LeasesOK

\* An operation on the leases alone.
LeasesChange(b, n, roles) ==
    /\ n = [f \in Fields |-> n[f]]
    /\ Same(b, n, Fields \ {"nextOrdinal", "ex"})
    /\ n.nextOrdinal \in Nat
    /\ b.nextOrdinal <= n.nextOrdinal
    /\ LeasesOK(n.ex, roles)

\* It starts and ends no run.
LEMMA LeasesChangeEffect ==
    ASSUME NEW b, NEW roles, Good(b, roles), NEW n, LeasesChange(b, n, roles)
    PROVE  /\ BookTypeOK(n, roles)
           /\ Retained(n)
           /\ SameActive(b, n)
           /\ NoRunStarts(b, n)
           /\ ReviewHeld(b) => ReviewHeld(n)
           /\ PendingKept(b, n)
           /\ KeepsQueued(b, n)
           /\ OrderKept(b, n)
<1>1. /\ n.reviewBlocked = b.reviewBlocked /\ n.removeAfterStop = b.removeAfterStop
      /\ n.runs = b.runs /\ n.children = b.children /\ n.items = b.items
      /\ n.steers = b.steers
  BY DEF LeasesChange, Same, Fields
<1>2. b.nextOrdinal \in Nat
  BY GoodFacts
<1>3. DOMAIN n.children \subseteq 1 .. n.nextOrdinal - 1
  BY <1>1, <1>2 DEF Good, BookTypeOK, LeasesChange
<1>5. BookTypeOK(n, roles)
  BY <1>1, <1>3 DEF Good, BookTypeOK, Fields, LeasesChange, LeasesOK
<1>6. Retained(n)
  BY <1>1, GoodFacts DEF Retained, Good, BookTypeOK, LeasesChange
<1>7. OrderKept(b, n) /\ KeepsQueued(b, n)
  BY <1>1 DEF KeepsQueued, OrderKept, Queued
<1>8. SameActive(b, n) /\ NoRunStarts(b, n) /\ (ReviewHeld(b) => ReviewHeld(n))
      /\ PendingKept(b, n)
  BY <1>1 DEF SameActive, NoRunStarts, ReviewHeld, PendingKept, ActiveRuns, ActiveChildren
<1>. QED
  BY <1>5, <1>6, <1>7, <1>8

\* configure_family()
LEMMA ConfigureChange ==
    ASSUME NEW b, NEW roles, Good(b, roles), NEW r, NEW w \in BOOLEAN, NEW k,
           ConfigureRunOk(b, r, w, k),
           NEW n, n = ConfigureRunTo(b, r, w, k)
    PROVE  /\ LeasesChange(b, n, roles)
           /\ n.nextOrdinal = b.nextOrdinal
           /\ NoLeaseTaken(b, n)
           /\ n.ex = ConfigureFamilyTo(b.ex, r, w, k)
<1>1. DOMAIN b = Fields /\ b.nextOrdinal \in Nat
  BY GoodFacts
<1>2. /\ n = [f \in Fields |-> n[f]]
      /\ n.nextOrdinal = b.nextOrdinal
      /\ n.ex = ConfigureFamilyTo(b.ex, r, w, k)
      /\ Same(b, n, Fields \ {"nextOrdinal", "ex"})
  BY <1>1 DEF ConfigureRunTo, Same, Fields
<1>3. r \notin DOMAIN b.ex.budgets /\ k \in Nat
  BY LeaseBookAssumption DEF ConfigureRunOk, ConfigureFamilyOk
<1>4. [workflow |-> w, used |-> 0, maximum |-> k] \in BudgetRecord
  BY <1>3 DEF BudgetRecord
<1>5. n.ex = AddBudget(b.ex, r, [workflow |-> w, used |-> 0, maximum |-> k])
  BY <1>2 DEF ConfigureFamilyTo
<1>6. LeasesOK(n.ex, roles) /\ n.ex.members = b.ex.members
  BY <1>3, <1>4, <1>5, GoodLeases, AddBudgetEffect
<1>. QED
  BY <1>1, <1>2, <1>6 DEF LeasesChange, NoLeaseTaken, HeldRuns

\* yield_parent()
LEMMA YieldChange ==
    ASSUME NEW b, NEW roles, Good(b, roles), NEW r, YieldRunOk(b, r),
           NEW n, n = YieldRunTo(b, r)
    PROVE  /\ LeasesChange(b, n, roles)
           /\ n.nextOrdinal = b.nextOrdinal
           /\ NoLeaseTaken(b, n)
           /\ n.ex = YieldParentTo(b.ex, r)
<1>1. DOMAIN b = Fields /\ b.nextOrdinal \in Nat
  BY GoodFacts
<1>2. /\ n = [f \in Fields |-> n[f]]
      /\ n.nextOrdinal = b.nextOrdinal
      /\ n.ex = YieldParentTo(b.ex, r)
      /\ Same(b, n, Fields \ {"nextOrdinal", "ex"})
  BY <1>1 DEF YieldRunTo, Same, Fields
<1>3. r \in DOMAIN b.ex.members
  BY DEF YieldRunOk, YieldParentOk
<1>s. n.ex = SetLease(b.ex, r, "Yielded", 0) /\ "Yielded" \in LeaseStates /\ LeasesOK(b.ex, roles)
  BY <1>2, GoodLeases DEF YieldParentTo, LeaseStates
<1>4. LeasesOK(n.ex, roles) /\ HeldRuns(n.ex) \subseteq HeldRuns(b.ex)
  BY <1>s, <1>3, SetLeaseEffect
<1>. QED
  BY <1>1, <1>2, <1>4 DEF LeasesChange, NoLeaseTaken

\* request_parent_resume()
LEMMA ResumeChange ==
    ASSUME NEW b, NEW roles, Good(b, roles), NEW r, ResumeRunOk(b, r),
           NEW n, n = ResumeRunTo(b, r)
    PROVE  /\ LeasesChange(b, n, roles)
           /\ n.nextOrdinal = b.nextOrdinal + 1
           /\ NoLeaseTaken(b, n)
           /\ n.ex = RequestResumeTo(b.ex, r, b.nextOrdinal)
<1>1. DOMAIN b = Fields /\ b.nextOrdinal \in Nat
  BY GoodFacts
<1>2. /\ n = [f \in Fields |-> n[f]]
      /\ n.nextOrdinal = b.nextOrdinal + 1
      /\ n.ex = RequestResumeTo(b.ex, r, b.nextOrdinal)
      /\ Same(b, n, Fields \ {"nextOrdinal", "ex"})
  BY <1>1 DEF ResumeRunTo, Same, Fields
<1>3. r \in DOMAIN b.ex.members
  BY DEF ResumeRunOk, RequestResumeOk
<1>4. LeasesOK(n.ex, roles) /\ HeldRuns(n.ex) \subseteq HeldRuns(b.ex)
  BY <1>1, <1>2, <1>3, GoodLeases, SetLeaseEffect DEF RequestResumeTo, LeaseStates
<1>. QED
  BY <1>1, <1>2, <1>4 DEF LeasesChange, NoLeaseTaken

\* reserve_child_message()
LEMMA ReserveChange ==
    ASSUME NEW b, NEW roles, Good(b, roles), NEW r, NEW c, ReserveMessageOk(b, r, c),
           NEW n, n = ReserveMessageTo(b, r)
    PROVE  /\ LeasesChange(b, n, roles)
           /\ n.nextOrdinal = b.nextOrdinal
           /\ NoLeaseTaken(b, n)
           /\ n.ex = ReserveChildMessageTo(b.ex, r)
<1>1. DOMAIN b = Fields /\ b.nextOrdinal \in Nat
  BY GoodFacts
<1>2. /\ n = [f \in Fields |-> n[f]]
      /\ n.nextOrdinal = b.nextOrdinal
      /\ n.ex = ReserveChildMessageTo(b.ex, r)
      /\ Same(b, n, Fields \ {"nextOrdinal", "ex"})
  BY <1>1 DEF ReserveMessageTo, Same, Fields
<1>3. r \in DOMAIN b.ex.budgets
  BY DEF ReserveMessageOk, ReserveChildMessageOk
<1>4. n.ex = [b.ex EXCEPT !.budgets[r].used = @ + 1]
  BY <1>2 DEF ReserveChildMessageTo
<1>5. LeasesOK(n.ex, roles) /\ n.ex.members = b.ex.members
  <2>1. LeasesOK(b.ex, roles)
    BY GoodLeases
  <2>. QED
    BY <1>3, <1>4, <2>1, SpendEffect
<1>. QED
  BY <1>1, <1>2, <1>5 DEF LeasesChange, NoLeaseTaken, HeldRuns

-----------------------------------------------------------------------------
(* Child records *)

\* The children keep their family; review blocks only grow.
ChildrenChange(b, n, roles) ==
    /\ n = [f \in Fields |-> n[f]]
    /\ Same(b, n, Fields \ {"children", "ex", "reviewBlocked"})
    /\ LeasesOK(n.ex, roles)
    /\ b.reviewBlocked \subseteq n.reviewBlocked
    /\ n.reviewBlocked \subseteq Projects
    /\ n.children \in [DOMAIN b.children -> ChildRecord(roles)]
    /\ \A c \in DOMAIN b.children :
        /\ n.children[c].parent = b.children[c].parent
        /\ n.children[c].project = b.children[c].project
        /\ n.children[c].agent = b.children[c].agent
        /\ n.children[c].reviewPending =>
                b.children[c].reviewPending \/ b.children[c].project \in n.reviewBlocked

\* Such a change starts and ends no run and keeps every record.
LEMMA ChildrenChangeEffect ==
    ASSUME NEW b, NEW roles, Good(b, roles), NEW n, ChildrenChange(b, n, roles)
    PROVE  /\ BookTypeOK(n, roles)
           /\ Retained(n)
           /\ n.nextOrdinal = b.nextOrdinal
           /\ ActiveRuns(n) = ActiveRuns(b)
           /\ NoRunStarts(b, n)
           /\ ReviewHeld(b) => ReviewHeld(n)
           /\ PendingKept(b, n)
           /\ KeepsQueued(b, n)
           /\ OrderKept(b, n)
<1>1. /\ n.nextOrdinal = b.nextOrdinal /\ n.removeAfterStop = b.removeAfterStop
      /\ n.runs = b.runs /\ n.items = b.items /\ n.steers = b.steers
  BY DEF ChildrenChange, Same, Fields
<1>2. DOMAIN n.children = DOMAIN b.children
  BY DEF ChildrenChange
<1>5. BookTypeOK(n, roles)
  BY <1>1, <1>2 DEF Good, BookTypeOK, Fields, ChildrenChange, LeasesOK
<1>6. Retained(n)
  BY <1>1, <1>2, GoodFacts DEF Retained, ChildrenChange
<1>7. OrderKept(b, n) /\ KeepsQueued(b, n)
  BY <1>1 DEF KeepsQueued, OrderKept, Queued
<1>8. ActiveRuns(n) = ActiveRuns(b) /\ NoRunStarts(b, n) /\ PendingKept(b, n)
  BY <1>1, <1>2 DEF NoRunStarts, PendingKept, ActiveRuns
<1>9. ReviewHeld(b) => ReviewHeld(n)
  BY <1>2, <1>8 DEF ReviewHeld, ChildrenChange
<1>. QED
  BY <1>1, <1>5, <1>6, <1>7, <1>8, <1>9

\* try_acquire_execution()
LEMMA AcquireChange ==
    ASSUME NEW b, NEW roles, Good(b, roles), NEW r, AcquireRunOk(b, r),
           NEW n, n = AcquireRunTo(b, r)
    PROVE  /\ ChildrenChange(b, n, roles)
           /\ ActiveChildren(n) = ActiveChildren(b)
           /\ n.ex = TryAcquireTo(b.ex, r)
<1>1. DOMAIN b = Fields /\ \A c \in DOMAIN b.children : b.children[c] \in ChildRecord(roles)
  BY GoodFacts
<1>2. /\ n = [f \in Fields |-> n[f]]
      /\ n.ex = TryAcquireTo(b.ex, r)
      /\ n.reviewBlocked = b.reviewBlocked
      /\ Same(b, n, Fields \ {"children", "ex", "reviewBlocked"})
      /\ n.children = [c \in DOMAIN b.children |->
            IF c = r THEN [b.children[c] EXCEPT !.state = "Running"] ELSE b.children[c]]
  BY <1>1 DEF AcquireRunTo, Same, Fields
<1>3. r \in DOMAIN b.ex.members
  BY DEF AcquireRunOk, TryAcquireOk
<1>s. n.ex = SetLease(b.ex, r, "Held", 0) /\ "Held" \in LeaseStates /\ LeasesOK(b.ex, roles)
  BY <1>2, GoodLeases DEF TryAcquireTo, LeaseStates
<1>4. LeasesOK(n.ex, roles)
  BY <1>s, <1>3, SetLeaseEffect
<1>5. \A c \in DOMAIN b.children :
        /\ n.children[c] \in ChildRecord(roles)
        /\ n.children[c].parent = b.children[c].parent
        /\ n.children[c].project = b.children[c].project
        /\ n.children[c].agent = b.children[c].agent
        /\ n.children[c].reviewPending => b.children[c].reviewPending
        /\ n.children[c].state = IF c = r THEN "Running" ELSE b.children[c].state
  BY <1>1, <1>2 DEF ChildRecord, ActiveChildStates
<1>6. n.children \in [DOMAIN b.children -> ChildRecord(roles)] /\ b.reviewBlocked \subseteq Projects
  BY <1>2, <1>5 DEF Good, BookTypeOK
<1>7. r \in DOMAIN b.children => b.children[r].state = "Waiting"
  BY DEF AcquireRunOk
<1>8. ActiveChildren(n) = ActiveChildren(b)
  BY <1>2, <1>5, <1>7 DEF ActiveChildren, ActiveChildStates
<1>. QED
  BY <1>2, <1>4, <1>5, <1>6, <1>8 DEF ChildrenChange

\* set_child_review_result()
LEMMA ReviewResultChange ==
    ASSUME NEW b, NEW roles, Good(b, roles), NEW c, NEW pending \in BOOLEAN,
           ChildReviewResultOk(b, c, pending),
           NEW n, n = ChildReviewResultTo(b, c, pending)
    PROVE  /\ ChildrenChange(b, n, roles)
           /\ ActiveChildren(n) = ActiveChildren(b)
           /\ n.ex = b.ex
<1>1. /\ DOMAIN b = Fields
      /\ \A x \in DOMAIN b.children : b.children[x] \in ChildRecord(roles)
      /\ c \in DOMAIN b.children
  BY GoodFacts DEF ChildReviewResultOk
<1>2. /\ n = [f \in Fields |-> n[f]]
      /\ n.ex = b.ex
      /\ n.reviewBlocked = IF pending THEN b.reviewBlocked \cup {b.children[c].project}
                           ELSE b.reviewBlocked
      /\ Same(b, n, Fields \ {"children", "ex", "reviewBlocked"})
      /\ n.children = [b.children EXCEPT ![c] = [b.children[c] EXCEPT !.reviewPending = pending]]
  BY <1>1 DEF ChildReviewResultTo, Same, Fields
<1>3. /\ b.reviewBlocked \subseteq Projects
      /\ b.children[c].project \in Projects
      /\ b.children = [x \in DOMAIN b.children |-> b.children[x]]
  BY <1>1 DEF Good, BookTypeOK, ChildRecord
<1>4. DOMAIN n.children = DOMAIN b.children /\ n.children = [x \in DOMAIN b.children |-> n.children[x]]
  BY <1>2
<1>5. \A x \in DOMAIN b.children :
        /\ n.children[x] \in ChildRecord(roles)
        /\ n.children[x].parent = b.children[x].parent
        /\ n.children[x].project = b.children[x].project
        /\ n.children[x].agent = b.children[x].agent
        /\ n.children[x].state = b.children[x].state
        /\ n.children[x].reviewPending =>
                b.children[x].reviewPending \/ b.children[x].project \in n.reviewBlocked
  BY <1>1, <1>2 DEF ChildRecord
<1>6. n.children \in [DOMAIN b.children -> ChildRecord(roles)]
  BY <1>4, <1>5
<1>7. ActiveChildren(n) = ActiveChildren(b)
  BY <1>4, <1>5 DEF ActiveChildren
<1>8. b.reviewBlocked \subseteq n.reviewBlocked /\ n.reviewBlocked \subseteq Projects
  BY <1>2, <1>3
<1>. QED
  BY <1>2, <1>5, <1>6, <1>7, <1>8, GoodLeases DEF ChildrenChange

\* The state of one child changes.
LEMMA ChildStateChange ==
    ASSUME NEW b, NEW roles, Good(b, roles), NEW c \in DOMAIN b.children,
           NEW st \in ActiveChildStates \cup TerminalStates,
           NEW n, n = [f \in Fields |-> n[f]],
           Same(b, n, Fields \ {"children", "ex"}),
           LeasesOK(n.ex, roles),
           n.children = [b.children EXCEPT ![c] = [b.children[c] EXCEPT !.state = st]]
    PROVE  /\ ChildrenChange(b, n, roles)
           /\ ActiveChildren(n) = IF st \in ActiveChildStates THEN ActiveChildren(b) \cup {c}
                                  ELSE ActiveChildren(b) \ {c}
<1>1. \A x \in DOMAIN b.children : b.children[x] \in ChildRecord(roles)
  BY GoodFacts
<1>2. /\ n.reviewBlocked = b.reviewBlocked /\ b.reviewBlocked \subseteq Projects
      /\ Same(b, n, Fields \ {"children", "ex", "reviewBlocked"})
  BY DEF Same, Fields, Good, BookTypeOK
<1>3. DOMAIN n.children = DOMAIN b.children /\ n.children = [x \in DOMAIN b.children |-> n.children[x]]
  OBVIOUS
<1>4. \A x \in DOMAIN b.children :
        /\ n.children[x] \in ChildRecord(roles)
        /\ n.children[x].parent = b.children[x].parent
        /\ n.children[x].project = b.children[x].project
        /\ n.children[x].agent = b.children[x].agent
        /\ n.children[x].state = IF x = c THEN st ELSE b.children[x].state
        /\ n.children[x].reviewPending => b.children[x].reviewPending
  BY <1>1 DEF ChildRecord
<1>5. n.children \in [DOMAIN b.children -> ChildRecord(roles)]
  BY <1>3, <1>4
<1>6. ActiveChildren(n) = IF st \in ActiveChildStates THEN ActiveChildren(b) \cup {c}
                         ELSE ActiveChildren(b) \ {c}
  BY <1>3, <1>4 DEF ActiveChildren
<1>. QED
  BY <1>2, <1>4, <1>5, <1>6 DEF ChildrenChange

\* finish_child()
LEMMA FinishChildChange ==
    ASSUME NEW b, NEW roles, Good(b, roles), NEW c, NEW st \in CompletionStates,
           FinishChildRunOk(b, c, st),
           NEW n, n = FinishChildRunTo(b, c, st)
    PROVE  /\ ChildrenChange(b, n, roles)
           /\ ActiveChildren(n) = ActiveChildren(b) \ {c}
           /\ NoLeaseTaken(b, n)
           /\ n.ex = FinishTo(b.ex, c)
<1>1. DOMAIN b = Fields /\ c \in DOMAIN b.children
  BY GoodFacts DEF FinishChildRunOk, ActiveChildren
<1>2. /\ n = [f \in Fields |-> n[f]]
      /\ n.ex = FinishTo(b.ex, c)
      /\ Same(b, n, Fields \ {"children", "ex"})
      /\ n.children = [b.children EXCEPT ![c] = [b.children[c] EXCEPT !.state = st]]
  BY <1>1 DEF FinishChildRunTo, Same, Fields
<1>3. c \in DOMAIN b.ex.members
  BY DEF FinishChildRunOk, FinishOk
<1>4. b.ex.members[c].role = b.children[c].role
  BY <1>1, <1>3 DEF Good, ValidateBook, ChildrenValid
<1>5. IsChild(b.ex.members[c])
  <2>1. b.ex.members[c].family = b.children[c].parent /\ c \notin DOMAIN b.runs
    BY <1>1, <1>3 DEF Good, ValidateBook, ChildrenValid
  <2>2. b.children[c].parent \in DOMAIN b.runs
    BY <1>1, GoodFacts
  <2>3. ~IsChild(b.ex.members[c]) => b.ex.members[c].family = c
    BY <1>3 DEF Good, ValidateBook, BindingsValid, Validate, ParentsWellFormed
  <2>. QED
    BY <2>1, <2>2, <2>3
<1>s. /\ n.ex = SetLease(b.ex, c, "Terminal", 0)
      /\ "Terminal" \in LeaseStates /\ LeasesOK(b.ex, roles)
  BY <1>2, <1>5, GoodLeases DEF FinishTo, LeaseStates
<1>6. LeasesOK(n.ex, roles) /\ NoLeaseTaken(b, n)
  BY <1>s, <1>3, SetLeaseEffect DEF NoLeaseTaken
<1>7. st \in TerminalStates /\ st \notin ActiveChildStates
  BY DEF CompletionStates, TerminalStates, ActiveChildStates
<1>8. ChildrenChange(b, n, roles) /\ ActiveChildren(n) = ActiveChildren(b) \ {c}
  BY <1>1, <1>2, <1>6, <1>7, ChildStateChange
<1>. QED
  BY <1>2, <1>6, <1>8

\* stop_child()
LEMMA StopChildChange ==
    ASSUME NEW b, NEW roles, Good(b, roles), NEW c, StopChildOk(b, c),
           NEW n, n = StopChildTo(b, c)
    PROVE  /\ ChildrenChange(b, n, roles)
           /\ ActiveChildren(n) = ActiveChildren(b)
           /\ n.ex = b.ex
<1>1. DOMAIN b = Fields /\ c \in DOMAIN b.children /\ c \in ActiveChildren(b)
  BY GoodFacts DEF StopChildOk, ActiveChildren
<1>2. /\ n = [f \in Fields |-> n[f]]
      /\ n.ex = b.ex
      /\ Same(b, n, Fields \ {"children", "ex"})
      /\ n.children = [b.children EXCEPT ![c] = [b.children[c] EXCEPT !.state = "StopRequested"]]
  BY <1>1 DEF StopChildTo, Same, Fields
<1>3. "StopRequested" \in ActiveChildStates /\ LeasesOK(n.ex, roles)
  BY <1>2, GoodLeases DEF ActiveChildStates
<1>4. ChildrenChange(b, n, roles) /\ ActiveChildren(n) = ActiveChildren(b) \cup {c}
  BY <1>1, <1>2, <1>3, ChildStateChange
<1>. QED
  BY <1>1, <1>2, <1>4

\* cancel_run_ids()
LEMMA CancelChange ==
    ASSUME NEW b, NEW roles, Good(b, roles), NEW ids,
           NEW n, n = CancelRunIdsTo(b, ids)
    PROVE  /\ ChildrenChange(b, n, roles)
           /\ ActiveChildren(n) = ActiveChildren(b)
           /\ n.ex = b.ex
<1>1. DOMAIN b = Fields /\ \A c \in DOMAIN b.children : b.children[c] \in ChildRecord(roles)
  BY GoodFacts
<1>2. /\ n = [f \in Fields |-> n[f]]
      /\ n.ex = b.ex
      /\ n.reviewBlocked = b.reviewBlocked
      /\ Same(b, n, Fields \ {"children", "ex", "reviewBlocked"})
      /\ n.children = [c \in DOMAIN b.children |->
            IF c \in ActiveChildren(b) /\ b.children[c].parent \in ids
            THEN [b.children[c] EXCEPT !.state = "StopRequested"]
            ELSE b.children[c]]
  BY <1>1 DEF CancelRunIdsTo, Same, Fields
<1>5. \A c \in DOMAIN b.children :
        /\ n.children[c] \in ChildRecord(roles)
        /\ n.children[c].parent = b.children[c].parent
        /\ n.children[c].project = b.children[c].project
        /\ n.children[c].agent = b.children[c].agent
        /\ n.children[c].reviewPending => b.children[c].reviewPending
        /\ n.children[c].state =
                IF c \in ActiveChildren(b) /\ b.children[c].parent \in ids
                THEN "StopRequested" ELSE b.children[c].state
  BY <1>1, <1>2 DEF ChildRecord, ActiveChildStates
<1>6. n.children \in [DOMAIN b.children -> ChildRecord(roles)] /\ b.reviewBlocked \subseteq Projects
  BY <1>2, <1>5 DEF Good, BookTypeOK
<1>8. ActiveChildren(n) = ActiveChildren(b)
  BY <1>2, <1>5 DEF ActiveChildren, ActiveChildStates
<1>. QED
  BY <1>2, <1>5, <1>6, <1>8, GoodLeases DEF ChildrenChange

\* What an admitted child leaves.
ChildAdmitted(b, r, a, n, roles) ==
    /\ BookTypeOK(n, roles)
    /\ Retained(n)
    /\ n.nextOrdinal = b.nextOrdinal + 1
    /\ ActiveRuns(n) = ActiveRuns(b)
    /\ ActiveChildren(n) = ActiveChildren(b) \cup {b.nextOrdinal}
    /\ NoRunStarts(b, n)
    /\ NoLeaseTaken(b, n)
    /\ ReviewHeld(b) => ReviewHeld(n)
    /\ PendingKept(b, n)
    /\ KeepsQueued(b, n)
    /\ OrderKept(b, n)
    /\ n.items = b.items /\ n.steers = b.steers /\ n.runs = b.runs
    /\ n.ex = AdmitChildTo(b.ex, r, b.nextOrdinal, AdmittedMember(b, r, a))
    /\ DOMAIN n.children = DOMAIN b.children \cup {b.nextOrdinal}
    /\ n.children[b.nextOrdinal].agent = AgentOf(b, a)
    /\ \A c \in DOMAIN b.children : n.children[c] = b.children[c]

\* admit_child()
LEMMA AdmitChildEffect ==
    ASSUME NEW b, NEW roles, Good(b, roles), "None" \notin roles, NEW r,
           NEW a, a.role \in roles, a.isolated \in BOOLEAN, a.predecessor \in Nat,
           AdmitChildRunOk(b, r, a),
           NEW n, n = AdmitChildRunTo(b, r, a)
    PROVE  ChildAdmitted(b, r, a, n, roles)
<1>. DEFINE k == b.nextOrdinal
            m == AdmittedMember(b, r, a)
            new == [parent |-> r, project |-> b.runs[r].project,
                    agent |-> AgentOf(b, a), role |-> a.role,
                    isolated |-> a.isolated, transport |-> b.runs[r].transport,
                    predecessor |-> a.predecessor,
                    reviewPending |-> a.role = "Worker", state |-> "Waiting"]
<1>1. DOMAIN b = Fields /\ k \in Nat \ {0} /\ k \notin DOMAIN b.children
  BY GoodFacts
<1>2. r \in DOMAIN b.runs /\ r \in Nat /\ r \in ActiveRuns(b)
      /\ b.runs[r].project \in Projects /\ b.runs[r].transport \in Transports
  BY GoodFacts DEF AdmitChildRunOk, RunningParent, RunRecord, ActiveRuns, ActiveRunStates
<1>3. /\ n = [f \in Fields |-> n[f]]
      /\ n.nextOrdinal = k + 1
      /\ n.ex = AdmitChildTo(b.ex, r, k, m)
      /\ n.children = Put(b.children, k, new)
      /\ n.items = b.items /\ n.steers = b.steers /\ n.runs = b.runs
      /\ n.reviewBlocked = b.reviewBlocked /\ n.removeAfterStop = b.removeAfterStop
  BY <1>1 DEF AdmitChildRunTo, Fields
<1>4. AgentOf(b, a) \in Nat
  BY <1>1, GoodFacts DEF AgentOf, AdmitChildRunOk, ContinuationOk, ChildRecord
<1>5. new \in ChildRecord(roles)
  BY <1>2, <1>4 DEF ChildRecord, ActiveChildStates
<1>6. m \in LeaseRecord(roles) /\ m.st = "Waiting"
  BY <1>1, <1>2, <1>4 DEF AdmittedMember, ChildMember, LeaseRecord, ChildWorkspace, ProjectWorkspace, LeaseStates
<1>. HIDE DEF m, new
<1>7. /\ DOMAIN n.children = DOMAIN b.children \cup {k}
      /\ n.children[k] = new
      /\ \A c \in DOMAIN b.children : n.children[c] = b.children[c]
      /\ n.children = [c \in DOMAIN n.children |-> n.children[c]]
  BY <1>1, <1>3 DEF Put
<1>8. /\ n.children \in [DOMAIN n.children -> ChildRecord(roles)]
      /\ DOMAIN n.children \subseteq 1 .. n.nextOrdinal - 1
  <2>1. \A c \in DOMAIN b.children : b.children[c] \in ChildRecord(roles) /\ c \in 1 .. k - 1
    BY DEF Good, BookTypeOK
  <2>2. \A c \in DOMAIN n.children : n.children[c] \in ChildRecord(roles)
    BY <1>5, <1>7, <2>1
  <2>3. 1 .. k - 1 \subseteq 1 .. k /\ k \in 1 .. k /\ n.nextOrdinal - 1 = k
    BY <1>1, <1>3
  <2>. QED
    BY <1>7, <2>1, <2>2, <2>3
<1>9. LeasesOK(n.ex, roles) /\ NoLeaseTaken(b, n)
  <2>. DEFINE e == [b.ex EXCEPT !.budgets[r].used = @ + 1]
  <2>1. r \in DOMAIN b.ex.budgets /\ k \notin DOMAIN b.ex.members
    BY DEF AdmitChildRunOk, AdmitChildOk
  <2>2. LeasesOK(e, roles) /\ e.members = b.ex.members
    <3>1. LeasesOK(b.ex, roles)
      BY GoodLeases
    <3>. QED
      BY <2>1, <3>1, SpendEffect
  <2>3. n.ex = AddMember(e, k, m)
    BY <1>3 DEF AdmitChildTo
  <2>. HIDE DEF e
  <2>4. /\ LeasesOK(n.ex, roles)
        /\ DOMAIN n.ex.members = DOMAIN e.members \cup {k}
        /\ \A x \in DOMAIN e.members : n.ex.members[x] = e.members[x]
        /\ n.ex.members[k] = m
    BY <1>6, <2>1, <2>2, <2>3, AddMemberEffect
  <2>. QED
    BY <1>6, <2>2, <2>4 DEF NoLeaseTaken, HeldRuns, Occupies
<1>10. BookTypeOK(n, roles)
  BY <1>1, <1>3, <1>8, <1>9 DEF Good, BookTypeOK, Fields, LeasesOK
<1>11. new.parent = r /\ new.state = "Waiting" /\ new.agent = AgentOf(b, a)
  BY DEF new
<1>12. Retained(n)
  <2>1. \A c \in DOMAIN b.children : b.children[c].parent \in DOMAIN b.runs
    BY GoodFacts
  <2>. QED
    BY <1>2, <1>3, <1>7, <1>11, <2>1 DEF Retained
<1>13. ActiveRuns(n) = ActiveRuns(b) /\ NoRunStarts(b, n)
  BY <1>3 DEF NoRunStarts, ActiveRuns
<1>14. ActiveChildren(n) = ActiveChildren(b) \cup {k}
  BY <1>7, <1>11 DEF ActiveChildren, ActiveChildStates
<1>15. PendingKept(b, n) /\ (ReviewHeld(b) => ReviewHeld(n))
  BY <1>2, <1>3, <1>7, <1>11, <1>13 DEF PendingKept, ReviewHeld
<1>16. KeepsQueued(b, n) /\ OrderKept(b, n)
  BY <1>3 DEF KeepsQueued, OrderKept, Queued
<1>. QED
  BY <1>3, <1>7, <1>9, <1>10, <1>11, <1>12, <1>13, <1>14, <1>15, <1>16 DEF ChildAdmitted, m

-----------------------------------------------------------------------------
(* Runs *)

\* What begin_run() leaves.
Begun(b, o, n, roles) ==
    /\ BookTypeOK(n, roles)
    /\ Retained(n)
    /\ Same(b, n, Fields \ {"items", "runs", "ex"})
    /\ DOMAIN n.items = DOMAIN b.items
    /\ n.items[o].state = "Running"
    /\ \A x \in DOMAIN b.items \ {o} : n.items[x] = b.items[x]
    /\ o \notin DOMAIN b.runs
    /\ DOMAIN n.runs = DOMAIN b.runs \cup {o}
    /\ n.runs[o].project = b.items[o].project
    /\ \A r \in DOMAIN b.runs : n.runs[r] = b.runs[r]
    /\ ActiveRuns(n) = ActiveRuns(b) \cup {o}
    /\ ActiveChildren(n) = ActiveChildren(b)
    /\ ReviewHeld(b) => ReviewHeld(n)
    /\ PendingKept(b, n)
    /\ n.ex = AdmitParentTo(b.ex, o, b.items[o].project,
                            ProjectWorkspace(b.items[o].project))

\* begin_run()
LEMMA BeginRunEffect ==
    ASSUME NEW b, NEW roles, Good(b, roles), NEW o, BeginRunOk(b, o),
           NEW n, n = BeginRunTo(b, o)
    PROVE  Begun(b, o, n, roles)
<1>. DEFINE run == [project |-> b.items[o].project, transport |-> b.items[o].transport,
                    state |-> "Running"]
            item == [b.items[o] EXCEPT !.state = "Running", !.blocked = "None"]
<1>1. /\ DOMAIN b = Fields /\ o \in DOMAIN b.items /\ o \in Nat
      /\ b.items[o] \in ItemRecord /\ b.items[o].state = "Queued"
  BY GoodFacts DEF BeginRunOk, Queued
<1>2. o \notin DOMAIN b.runs
  <2>1. o \in DOMAIN b.runs => b.items[o].state \in {"Running"} \cup TerminalStates
    <3>1. o \in DOMAIN b.runs => b.runs[o].state \in ActiveRunStates \cup TerminalStates
      BY GoodFacts DEF RunRecord
    <3>. QED
      BY <1>1, <3>1 DEF Good, ValidateBook, ItemRunStates, ActiveRuns
  <2>. QED
    BY <1>1, <2>1 DEF TerminalStates
<1>3. /\ n = [f \in Fields |-> n[f]]
      /\ Same(b, n, Fields \ {"items", "runs", "ex"})
      /\ n.runs = Put(b.runs, o, run)
      /\ n.ex = AdmitParentTo(b.ex, o, b.items[o].project,
                              ProjectWorkspace(b.items[o].project))
      /\ DOMAIN n.items = DOMAIN b.items
      /\ \A x \in DOMAIN b.items \ {o} : n.items[x] = b.items[x]
      /\ n.items = [x \in DOMAIN n.items |-> n.items[x]]
  BY <1>1 DEF BeginRunTo, Same, Fields
<1>4. n.items[o] = item
  BY <1>1 DEF BeginRunTo, Fields
<1>5. item \in ItemRecord /\ item.state = "Running" /\ item.blocked = "None"
  BY <1>1 DEF ItemRecord
<1>6. run \in RunRecord /\ run.project = b.items[o].project /\ run.state = "Running"
  BY <1>1 DEF ItemRecord, RunRecord, ActiveRunStates
<1>. HIDE DEF run, item
<1>7. /\ DOMAIN n.runs = DOMAIN b.runs \cup {o}
      /\ n.runs[o] = run
      /\ \A r \in DOMAIN b.runs : n.runs[r] = b.runs[r]
      /\ n.runs = [r \in DOMAIN n.runs |-> n.runs[r]]
  BY <1>2, <1>3 DEF Put
<1>8. n.runs \in [DOMAIN n.runs -> RunRecord]
  <2>1. \A r \in DOMAIN n.runs : n.runs[r] \in RunRecord
    BY <1>6, <1>7, GoodFacts
  <2>. QED
    BY <1>7, <2>1
<1>9. /\ n.items \in [DOMAIN n.items -> ItemRecord]
      /\ \A x \in DOMAIN n.items : n.items[x].blocked = "Hold" => ~n.items[x].auto
  <2>1. \A x \in DOMAIN b.items :
            b.items[x] \in ItemRecord /\ (b.items[x].blocked = "Hold" => ~b.items[x].auto)
    BY DEF Good, BookTypeOK
  <2>2. \A x \in DOMAIN n.items :
            n.items[x] \in ItemRecord /\ (n.items[x].blocked = "Hold" => ~n.items[x].auto)
    BY <1>3, <1>4, <1>5, <2>1
  <2>. QED
    BY <1>3, <2>2
<1>10. LeasesOK(n.ex, roles)
  <2>. DEFINE m == [family |-> o, project |-> b.items[o].project,
                    workspace |-> ProjectWorkspace(b.items[o].project), role |-> "None",
                    snapshot |-> "None", isolated |-> FALSE, st |-> "Held", ord |-> 0]
  <2>1. m \in LeaseRecord(roles)
    BY <1>1 DEF LeaseRecord, ItemRecord, ProjectWorkspace, LeaseStates
  <2>2. n.ex = AddMember(b.ex, o, m) /\ o \notin DOMAIN b.ex.members
    BY <1>3 DEF AdmitParentTo, BeginRunOk, AdmitParentOk
  <2>. HIDE DEF m
  <2>. QED
    BY <2>1, <2>2, GoodLeases, AddMemberEffect
<1>11. /\ n.nextOrdinal = b.nextOrdinal /\ n.reviewBlocked = b.reviewBlocked
       /\ n.removeAfterStop = b.removeAfterStop
       /\ n.steers = b.steers /\ n.children = b.children
  BY <1>3 DEF Same, Fields
<1>12. BookTypeOK(n, roles)
  BY <1>3, <1>8, <1>9, <1>10, <1>11 DEF Good, BookTypeOK, Fields, LeasesOK
<1>13. Retained(n)
  <2>1. /\ \A c \in DOMAIN b.children : b.children[c].parent \in DOMAIN b.runs
        /\ b.children = [c \in DOMAIN b.children |-> b.children[c]]
    BY GoodFacts DEF Good, BookTypeOK
  <2>. QED
    BY <1>3, <1>7, <1>11, <2>1 DEF Retained
<1>14. ActiveRuns(n) = ActiveRuns(b) \cup {o}
  BY <1>6, <1>7 DEF ActiveRuns, ActiveRunStates
<1>15. /\ ActiveChildren(n) = ActiveChildren(b)
       /\ ReviewHeld(b) => ReviewHeld(n)
       /\ PendingKept(b, n)
  BY <1>11, <1>14 DEF ActiveChildren, ReviewHeld, PendingKept
<1>. QED
  BY <1>2, <1>3, <1>4, <1>5, <1>6, <1>7, <1>12, <1>13, <1>14, <1>15 DEF Begun

\* What a recorded stop leaves.
StopRecorded(b, ids, n, roles) ==
    /\ BookTypeOK(n, roles)
    /\ Retained(n)
    /\ n.nextOrdinal = b.nextOrdinal
    /\ Quiet(b, n)
    /\ KeepsQueued(b, n)
    /\ OrderKept(b, n)
    /\ DOMAIN n.runs = DOMAIN b.runs
    /\ \A r \in ids : n.runs[r].state = "StopRequested"
    /\ Same(b, n, Fields \ {"runs"})

\* request_stop(), persist_stop_all_intents() and stop_workflow()
LEMMA StopEffect ==
    ASSUME NEW b, NEW roles, Good(b, roles), NEW ids \in SUBSET ActiveRuns(b),
           NEW n, n = StopTo(b, ids)
    PROVE  StopRecorded(b, ids, n, roles)
<1>1. DOMAIN b = Fields /\ \A r \in DOMAIN b.runs : b.runs[r] \in RunRecord
  BY GoodFacts
<1>2. /\ n = [f \in Fields |-> n[f]]
      /\ n.nextOrdinal = b.nextOrdinal /\ n.reviewBlocked = b.reviewBlocked
      /\ n.removeAfterStop = b.removeAfterStop /\ n.items = b.items
      /\ n.steers = b.steers /\ n.children = b.children /\ n.ex = b.ex
      /\ Same(b, n, Fields \ {"runs"})
      /\ n.runs = [r \in DOMAIN b.runs |->
            IF r \in ids THEN [b.runs[r] EXCEPT !.state = "StopRequested"] ELSE b.runs[r]]
  BY <1>1 DEF StopTo, Same, Fields
<1>3. \A r \in DOMAIN b.runs :
        /\ n.runs[r] \in RunRecord
        /\ n.runs[r].project = b.runs[r].project
        /\ n.runs[r].state = IF r \in ids THEN "StopRequested" ELSE b.runs[r].state
  BY <1>1, <1>2 DEF RunRecord, ActiveRunStates
<1>4. DOMAIN n.runs = DOMAIN b.runs /\ n.runs \in [DOMAIN n.runs -> RunRecord]
  BY <1>2, <1>3
<1>5. BookTypeOK(n, roles)
  BY <1>2, <1>4 DEF Good, BookTypeOK, Fields
<1>6. Retained(n)
  <2>1. /\ \A c \in DOMAIN b.children : b.children[c].parent \in DOMAIN b.runs
        /\ b.children = [c \in DOMAIN b.children |-> b.children[c]]
    BY GoodFacts DEF Good, BookTypeOK
  <2>. QED
    BY <1>2, <1>4, <2>1 DEF Retained
<1>7. ActiveRuns(n) = ActiveRuns(b)
  BY <1>3, <1>4 DEF ActiveRuns, ActiveRunStates
<1>8. NoRunStarts(b, n) /\ \A r \in ids : n.runs[r].state = "StopRequested"
  BY <1>3, <1>4, <1>7 DEF NoRunStarts, ActiveRuns
<1>9. Quiet(b, n)
  BY <1>2, <1>7, <1>8
  DEF Quiet, SameActive, NoLeaseTaken, ReviewHeld, PendingKept, ActiveChildren
<1>10. KeepsQueued(b, n) /\ OrderKept(b, n)
  BY <1>2 DEF KeepsQueued, OrderKept, Queued
<1>. QED
  BY <1>2, <1>4, <1>5, <1>6, <1>8, <1>9, <1>10 DEF StopRecorded

\* mutate() drops the histories of the runs that are gone.
LEMMA RetainEffect ==
    ASSUME NEW m, DOMAIN m = Fields, NEW S, m.children \in [DOMAIN m.children -> S],
           NEW n, n = RetainChildren(m)
    PROVE  /\ n = [f \in Fields |-> n[f]]
           /\ Same(m, n, Fields \ {"children"})
           /\ DOMAIN n.children = {c \in DOMAIN m.children : m.children[c].parent \in DOMAIN m.runs}
           /\ \A c \in DOMAIN n.children : n.children[c] = m.children[c]
           /\ n.children \in [DOMAIN n.children -> S]
<1>1. /\ n = [f \in Fields |-> n[f]]
      /\ Same(m, n, Fields \ {"children"})
      /\ n.children = Without(m.children,
            {c \in DOMAIN m.children : m.children[c].parent \notin DOMAIN m.runs})
  BY DEF RetainChildren, Same, Fields
<1>2. /\ DOMAIN n.children = {c \in DOMAIN m.children : m.children[c].parent \in DOMAIN m.runs}
      /\ \A c \in DOMAIN n.children : n.children[c] = m.children[c]
      /\ n.children = [c \in DOMAIN n.children |-> n.children[c]]
  BY <1>1 DEF Without
<1>3. \A c \in DOMAIN n.children : n.children[c] \in S
  BY <1>2
<1>. QED
  BY <1>1, <1>2, <1>3

\* The state of an item is Running exactly while its run is active.
LEMMA RunningIsActive ==
    ASSUME NEW b, NEW roles, Good(b, roles), NEW o \in DOMAIN b.items
    PROVE  b.items[o].state = "Running" <=> o \in ActiveRuns(b)
<1>1. o \in DOMAIN b.runs => b.runs[o].state \in ActiveRunStates \cup TerminalStates
  BY GoodFacts DEF RunRecord
<1>2. IF o \in DOMAIN b.runs
      THEN b.items[o].state = IF o \in ActiveRuns(b) THEN "Running" ELSE b.runs[o].state
      ELSE b.items[o].state = "Queued"
  BY DEF Good, ValidateBook, ItemRunStates
<1>. QED
  BY <1>1, <1>2 DEF ActiveRuns, ActiveRunStates, TerminalStates

\* An active child has an active parent.
LEMMA ActiveParent ==
    ASSUME NEW b, NEW roles, Good(b, roles), NEW c \in ActiveChildren(b)
    PROVE  b.children[c].parent \in ActiveRuns(b)
  BY DEF Good, ValidateBook, ChildrenValid, ActiveChildren

\* What a removed item leaves.
ItemRemoved(b, o, n, roles) ==
    /\ BookTypeOK(n, roles)
    /\ n.nextOrdinal = b.nextOrdinal
    /\ Quiet(b, n)
    /\ OrderKept(b, n)
    /\ b.items[o].state = "Running" => n.items = b.items
    /\ b.items[o].state # "Running" => n.items = Without(b.items, {o})
    /\ n.steers = b.steers
    /\ n.ex = b.ex
    /\ \A c \in DOMAIN n.children : c \in DOMAIN b.children /\ n.children[c] = b.children[c]

\* remove_item()
LEMMA RemoveItemEffect ==
    ASSUME NEW b, NEW roles, Good(b, roles), NEW o, RemoveItemOk(b, o),
           NEW n, n = RetainChildren(RemoveItemTo(b, o))
    PROVE  ItemRemoved(b, o, n, roles)
<1>1. DOMAIN b = Fields /\ o \in DOMAIN b.items
  BY GoodFacts DEF RemoveItemOk
<1>2. CASE b.items[o].state = "Running"
  <2>. DEFINE s == StopTo(b, {o})
              m == [s EXCEPT !.removeAfterStop = @ \cup {o}]
  <2>1. o \in ActiveRuns(b)
    BY <1>2 DEF RemoveItemOk
  <2>2. /\ BookTypeOK(s, roles)
        /\ Retained(s)
        /\ s.nextOrdinal = b.nextOrdinal
        /\ Quiet(b, s)
        /\ OrderKept(b, s)
        /\ Same(b, s, Fields \ {"runs"})
    BY <2>1, StopEffect DEF StopRecorded
  <2>3. RemoveItemTo(b, o) = m
    BY <1>2 DEF RemoveItemTo
  <2>. HIDE DEF s
  <2>4. DOMAIN s = Fields
    BY <2>2 DEF Retained
  <2>5. /\ m = [f \in Fields |-> m[f]]
        /\ m.nextOrdinal = s.nextOrdinal /\ m.reviewBlocked = s.reviewBlocked
        /\ m.items = s.items /\ m.runs = s.runs
        /\ m.steers = s.steers /\ m.children = s.children /\ m.ex = s.ex
    BY <2>4 DEF Fields
  <2>. HIDE DEF m
  <2>6. Retained(m)
    BY <2>2, <2>5 DEF Retained
  <2>7. n = m
    BY <2>3, <2>6, RetainAll
  <2>8. s.items = b.items /\ s.steers = b.steers /\ s.ex = b.ex /\ s.children = b.children
    BY <2>2 DEF Same, Fields
  <2>9. BookTypeOK(m, roles)
    BY <2>2, <2>5 DEF BookTypeOK, Fields
  <2>10. Quiet(b, m)
    BY <2>2, <2>5 DEF Quiet, SameActive, NoRunStarts, NoLeaseTaken, ReviewHeld, PendingKept,
                     ActiveRuns, ActiveChildren
  <2>11. OrderKept(b, m)
    BY <2>2, <2>5 DEF OrderKept, Queued
  <2>. QED
    BY <1>2, <2>2, <2>5, <2>7, <2>8, <2>9, <2>10, <2>11 DEF ItemRemoved
<1>3. CASE b.items[o].state # "Running"
  <2>. DEFINE m == [b EXCEPT !.items = Without(@, {o}), !.runs = Without(@, {o}),
                             !.removeAfterStop = @ \ {o}]
  <2>1. n = RetainChildren(m)
    BY <1>3 DEF RemoveItemTo
  <2>2. o \notin ActiveRuns(b)
    BY <1>1, <1>3, RunningIsActive
  <2>3. /\ m = [f \in Fields |-> m[f]]
        /\ m.nextOrdinal = b.nextOrdinal /\ m.reviewBlocked = b.reviewBlocked
        /\ m.items = Without(b.items, {o}) /\ m.runs = Without(b.runs, {o})
        /\ m.steers = b.steers /\ m.children = b.children /\ m.ex = b.ex
    BY <1>1 DEF Fields
  <2>. HIDE DEF m
  <2>4. DOMAIN m = Fields /\ m.children \in [DOMAIN m.children -> ChildRecord(roles)]
    BY <2>3 DEF Good, BookTypeOK
  <2>5. /\ n = [f \in Fields |-> n[f]]
        /\ Same(m, n, Fields \ {"children"})
        /\ DOMAIN n.children = {c \in DOMAIN m.children : m.children[c].parent \in DOMAIN m.runs}
        /\ \A c \in DOMAIN n.children : n.children[c] = m.children[c]
        /\ n.children \in [DOMAIN n.children -> ChildRecord(roles)]
    BY <2>1, <2>4, RetainEffect
  <2>6. /\ n.nextOrdinal = b.nextOrdinal /\ n.reviewBlocked = b.reviewBlocked
        /\ n.items = Without(b.items, {o}) /\ n.runs = Without(b.runs, {o})
        /\ n.steers = b.steers /\ n.ex = b.ex
    BY <2>3, <2>5 DEF Same, Fields
  <2>7. /\ DOMAIN n.items = DOMAIN b.items \ {o} /\ DOMAIN n.runs = DOMAIN b.runs \ {o}
        /\ \A x \in DOMAIN n.items : n.items[x] = b.items[x]
        /\ \A r \in DOMAIN n.runs : n.runs[r] = b.runs[r]
        /\ n.items = [x \in DOMAIN n.items |-> n.items[x]]
        /\ n.runs = [r \in DOMAIN n.runs |-> n.runs[r]]
    BY <2>6 DEF Without
  <2>8. DOMAIN n.children = {c \in DOMAIN b.children : b.children[c].parent \in DOMAIN b.runs \ {o}}
        /\ \A c \in DOMAIN n.children : n.children[c] = b.children[c]
    <3>1. DOMAIN m.runs = DOMAIN b.runs \ {o}
      BY <2>3 DEF Without
    <3>. QED
      BY <2>3, <2>5, <3>1
  <2>9. /\ n.items \in [DOMAIN n.items -> ItemRecord]
        /\ \A x \in DOMAIN n.items : n.items[x].blocked = "Hold" => ~n.items[x].auto
        /\ n.runs \in [DOMAIN n.runs -> RunRecord]
        /\ DOMAIN n.children \subseteq 1 .. n.nextOrdinal - 1
    <3>1. \A x \in DOMAIN n.items :
            n.items[x] \in ItemRecord /\ (n.items[x].blocked = "Hold" => ~n.items[x].auto)
      BY <2>7 DEF Good, BookTypeOK
    <3>2. \A r \in DOMAIN n.runs : n.runs[r] \in RunRecord
      BY <2>7 DEF Good, BookTypeOK
    <3>3. DOMAIN n.children \subseteq 1 .. n.nextOrdinal - 1
      BY <2>6, <2>8 DEF Good, BookTypeOK
    <3>. QED
      BY <2>7, <3>1, <3>2, <3>3
  <2>10. BookTypeOK(n, roles)
    BY <2>5, <2>6, <2>9 DEF Good, BookTypeOK, Fields
  <2>11. ActiveRuns(n) = ActiveRuns(b)
    BY <2>2, <2>7 DEF ActiveRuns
  <2>12. ActiveChildren(n) = ActiveChildren(b)
    <3>1. \A c \in ActiveChildren(b) : b.children[c].parent \in ActiveRuns(b)
      BY ActiveParent
    <3>2. ActiveChildren(b) \subseteq DOMAIN n.children
      BY <2>2, <2>8, <3>1 DEF ActiveChildren, ActiveRuns
    <3>. QED
      BY <2>8, <3>2 DEF ActiveChildren
  <2>13. PendingKept(b, n)
    <3>. SUFFICES ASSUME NEW c \in DOMAIN b.children, b.children[c].reviewPending
                  PROVE  c \in DOMAIN n.children
      BY DEF PendingKept
    <3>1. b.children[c].parent \in DOMAIN b.runs
      BY GoodFacts
    <3>2. o \in DOMAIN b.runs => b.children[c].parent # o
      BY <2>2 DEF RemoveItemOk, ReviewPendingOf
    <3>. QED
      BY <2>8, <3>1, <3>2
  <2>14. ReviewHeld(b) => ReviewHeld(n)
    BY <2>6, <2>8, <2>11 DEF ReviewHeld
  <2>15. NoRunStarts(b, n) /\ NoLeaseTaken(b, n)
    BY <2>6, <2>7, <2>11 DEF NoRunStarts, NoLeaseTaken, ActiveRuns
  <2>16. OrderKept(b, n)
    BY <2>7 DEF OrderKept, Queued
  <2>. QED
    BY <1>3, <2>6, <2>8, <2>10, <2>11, <2>12, <2>13, <2>14, <2>15, <2>16
       DEF Quiet, SameActive, ItemRemoved
<1>. QED
  BY <1>2, <1>3

\* The pending steering of these runs.
PromotedBy(b, ended) == {o \in PendingSteers(b) : b.steers[o].run \in ended}

\* The item a promotion makes of a steering message.
Promoted(item, project, run) ==
    /\ item.project = project
    /\ item.pred = run
    /\ item.workflow = "None"
    /\ item.state = "Queued"
    /\ item.blocked = "None"

\* promote_pending_steers_in_book(), field by field.
Promotion(b, ended, n) ==
    /\ n = [f \in Fields |-> n[f]]
    /\ Same(b, n, Fields \ {"items", "steers"})
    /\ DOMAIN n.steers = DOMAIN b.steers
    /\ n.steers \in [DOMAIN b.steers -> SteerRecord]
    /\ \A o \in DOMAIN b.steers :
         /\ n.steers[o].project = b.steers[o].project
         /\ n.steers[o].run = b.steers[o].run
         /\ n.steers[o].state = IF b.steers[o].run \in ended
                                THEN SettledState(b.steers[o].state)
                                ELSE b.steers[o].state
    /\ DOMAIN n.items = DOMAIN b.items \cup PromotedBy(b, ended)
    /\ \A o \in DOMAIN b.items : n.items[o] = b.items[o]
    /\ \A o \in PromotedBy(b, ended) :
         Promoted(n.items[o], b.steers[o].project, b.steers[o].run)
    /\ n.items \in [DOMAIN n.items -> ItemRecord]

\* That is what promote_pending_steers_in_book() leaves.
LEMMA PromoteShape ==
    ASSUME NEW b, DOMAIN b = Fields, NEW ended,
           b.steers \in [DOMAIN b.steers -> SteerRecord],
           b.items \in [DOMAIN b.items -> ItemRecord],
           \A o \in DOMAIN b.steers : b.steers[o].run \in ended => b.steers[o].run \in DOMAIN b.items,
           PromotedBy(b, ended) \cap DOMAIN b.items = {},
           NEW n, n = PromoteTo(b, ended)
    PROVE  Promotion(b, ended, n)
<1>. DEFINE P == PromotedBy(b, ended)
<1>1. /\ n = [f \in Fields |-> n[f]]
      /\ Same(b, n, Fields \ {"items", "steers"})
      /\ n.steers = [o \in DOMAIN b.steers |->
                IF o \in {x \in DOMAIN b.steers : b.steers[x].run \in ended}
                THEN [b.steers[o] EXCEPT !.state = SettledState(b.steers[o].state)]
                ELSE b.steers[o]]
      /\ n.items = [o \in DOMAIN b.items \cup
                        ({x \in DOMAIN b.steers : b.steers[x].run \in ended} \cap PendingSteers(b)) |->
                IF o \in {x \in DOMAIN b.steers : b.steers[x].run \in ended} \cap PendingSteers(b)
                THEN NewItem(b.steers[o].project, b.items[b.steers[o].run].transport,
                             "None", TRUE, b.steers[o].run)
                ELSE b.items[o]]
  BY DEF PromoteTo, Same, Fields
<1>2. P = {x \in DOMAIN b.steers : b.steers[x].run \in ended} \cap PendingSteers(b)
  BY DEF PromotedBy, PendingSteers
<1>3. \A o \in DOMAIN b.steers : b.steers[o] \in SteerRecord
  OBVIOUS
<1>4. \A o \in DOMAIN b.steers :
        SettledState(b.steers[o].state) \in {"Pending", "Submitted", "PromotedToNext"} \cup DeliveryStates
  BY <1>3 DEF SteerRecord, SettledState, DeliveryStates
<1>5. \A o \in DOMAIN b.steers :
        /\ n.steers[o] \in SteerRecord
        /\ n.steers[o].project = b.steers[o].project
        /\ n.steers[o].run = b.steers[o].run
        /\ n.steers[o].state = IF b.steers[o].run \in ended
                               THEN SettledState(b.steers[o].state)
                               ELSE b.steers[o].state
  <2>. TAKE o \in DOMAIN b.steers
  <2>1. CASE b.steers[o].run \in ended
    <3>1. n.steers[o] = [b.steers[o] EXCEPT !.state = SettledState(b.steers[o].state)]
      BY <1>1, <2>1
    <3>. QED
      BY <1>3, <1>4, <2>1, <3>1 DEF SteerRecord
  <2>2. CASE b.steers[o].run \notin ended
    BY <1>1, <1>3, <2>2
  <2>. QED
    BY <2>1, <2>2
<1>6. DOMAIN n.steers = DOMAIN b.steers /\ n.steers \in [DOMAIN b.steers -> SteerRecord]
  BY <1>1, <1>5
<1>. HIDE DEF P
<1>7. /\ DOMAIN n.items = DOMAIN b.items \cup P
      /\ \A o \in P : n.items[o] = NewItem(b.steers[o].project, b.items[b.steers[o].run].transport,
                                            "None", TRUE, b.steers[o].run)
      /\ \A o \in DOMAIN b.items \ P : n.items[o] = b.items[o]
      /\ n.items = [o \in DOMAIN n.items |-> n.items[o]]
  BY <1>1, <1>2
<1>8. \A o \in P : NewItem(b.steers[o].project, b.items[b.steers[o].run].transport,
                           "None", TRUE, b.steers[o].run) \in ItemRecord
  <2>. TAKE o \in P
  <2>1. o \in DOMAIN b.steers /\ b.steers[o].run \in DOMAIN b.items
    BY <1>2
  <2>2. /\ b.steers[o].project \in Projects /\ b.steers[o].run \in Nat
        /\ b.items[b.steers[o].run].transport \in Transports
    BY <1>3, <2>1 DEF SteerRecord, ItemRecord
  <2>. QED
    BY <2>2 DEF NewItem, ItemRecord
<1>9. n.items \in [DOMAIN n.items -> ItemRecord]
  <2>1. \A o \in DOMAIN n.items : n.items[o] \in ItemRecord
    BY <1>7, <1>8
  <2>. QED
    BY <1>7, <2>1
<1>10. \A o \in P : Promoted(n.items[o], b.steers[o].project, b.steers[o].run)
  <2>. TAKE o \in P
  <2>1. n.items[o] = NewItem(b.steers[o].project, b.items[b.steers[o].run].transport,
                             "None", TRUE, b.steers[o].run)
    BY <1>7
  <2>. QED
    BY <2>1 DEF NewItem, Promoted
<1>11. \A o \in DOMAIN b.items : n.items[o] = b.items[o]
  BY <1>7 DEF P
<1>. QED
  BY <1>1, <1>5, <1>6, <1>7, <1>9, <1>10, <1>11 DEF P, Promotion

\* A parent leaves with its family and its budget.
LEMMA FinishParentEffect ==
    ASSUME NEW e, NEW roles, LeasesOK(e, roles), NEW r \in DOMAIN e.members,
           ~IsChild(e.members[r]),
           NEW f, f = FinishTo(e, r)
    PROVE  /\ LeasesOK(f, roles)
           /\ DOMAIN f.members = DOMAIN e.members \ Family(e, r)
           /\ \A x \in DOMAIN f.members : f.members[x] = e.members[x]
           /\ DOMAIN f.budgets = DOMAIN e.budgets \ {r}
           /\ \A x \in DOMAIN f.budgets : f.budgets[x] = e.budgets[x]
           /\ HeldRuns(f) \subseteq HeldRuns(e)
<1>1. /\ LeasesOK(f, roles)
      /\ DOMAIN f.members = DOMAIN e.members \ Family(e, r)
      /\ \A x \in DOMAIN f.members : f.members[x] = e.members[x]
      /\ DOMAIN f.budgets = DOMAIN e.budgets \ {r}
      /\ \A x \in DOMAIN f.budgets : f.budgets[x] = e.budgets[x]
  BY DEF LeasesOK, FinishTo
<1>. QED
  BY <1>1 DEF HeldRuns

\* An active run is a parent among the leases.
LEMMA ActiveRunIsRoot ==
    ASSUME NEW b, NEW roles, Good(b, roles), NEW r \in ActiveRuns(b)
    PROVE  r \in DOMAIN b.ex.members /\ ~IsChild(b.ex.members[r])
  BY DEF Good, ValidateBook, BindingsValid, Roots

\* Pending steering is not in the queue.
LEMMA PendingNotQueued ==
    ASSUME NEW b, NEW roles, Good(b, roles)
    PROVE  PendingSteers(b) \cap DOMAIN b.items = {}
  BY DEF Good, ValidateBook, SteeringValid, PendingSteers

\* The state complete_run() records.
OutcomeOf(b, run, completion) ==
    IF ReviewPendingOf(b, run) # {} /\ completion = "Done" THEN "NeedsReview" ELSE completion

\* The task complete_run() removes.
RemovedBy(b, run) ==
    IF run \in b.removeAfterStop /\ ReviewPendingOf(b, run) = {} THEN {run} ELSE {}

\* complete_run(), field by field.
Completed(b, r, completion, n) ==
    /\ n = [f \in Fields |-> n[f]]
    /\ n.nextOrdinal = b.nextOrdinal
    /\ n.children = b.children
    /\ n.removeAfterStop = b.removeAfterStop \ {r}
    /\ b.reviewBlocked \subseteq n.reviewBlocked
    /\ n.reviewBlocked \subseteq b.reviewBlocked \cup {b.runs[r].project}
    /\ ReviewPendingOf(b, r) # {} => b.runs[r].project \in n.reviewBlocked
    /\ n.ex = FinishTo(b.ex, r)
    /\ n.steers \in [DOMAIN b.steers -> SteerRecord]
    /\ \A o \in DOMAIN b.steers :
         /\ n.steers[o].project = b.steers[o].project
         /\ n.steers[o].run = b.steers[o].run
         /\ n.steers[o].state = IF b.steers[o].run = r
                                THEN SettledState(b.steers[o].state)
                                ELSE b.steers[o].state
    /\ n.items \in [(DOMAIN b.items \cup PromotedBy(b, {r})) \ RemovedBy(b, r) -> ItemRecord]
    /\ \A o \in DOMAIN b.items \ {r} : n.items[o] = b.items[o]
    /\ \A o \in PromotedBy(b, {r}) : Promoted(n.items[o], b.steers[o].project, r)
    /\ r \notin RemovedBy(b, r) =>
         n.items[r] = [b.items[r] EXCEPT !.state = OutcomeOf(b, r, completion),
                                         !.blocked = "None"]
    /\ n.runs \in [DOMAIN b.runs \ RemovedBy(b, r) -> RunRecord]
    /\ \A x \in DOMAIN b.runs \ {r} : n.runs[x] = b.runs[x]
    /\ r \notin RemovedBy(b, r) =>
         n.runs[r] = [b.runs[r] EXCEPT !.state = OutcomeOf(b, r, completion)]

\* That is what complete_run() leaves.
LEMMA CompleteRunShape ==
    ASSUME NEW b, NEW roles, Good(b, roles), NEW r \in ActiveRuns(b),
           NEW completion \in CompletionStates,
           NEW n, n = CompleteRunTo(b, r, completion)
    PROVE  Completed(b, r, completion, n)
<1>. DEFINE outcome == OutcomeOf(b, r, completion)
            item == [b.items[r] EXCEPT !.state = outcome, !.blocked = "None"]
            run == [b.runs[r] EXCEPT !.state = outcome]
            P == PromotedBy(b, {r})
            R == RemovedBy(b, r)
            s == [b EXCEPT
                    !.ex = FinishTo(@, r),
                    !.reviewBlocked = IF ReviewPendingOf(b, r) # {} \/ outcome = "NeedsReview"
                                      THEN @ \cup {b.runs[r].project} ELSE @,
                    !.items[r].state = outcome,
                    !.items[r].blocked = "None",
                    !.runs[r].state = outcome]
            p == PromoteTo(s, {r})
<1>1. /\ DOMAIN b = Fields /\ r \in DOMAIN b.runs /\ r \in DOMAIN b.items
      /\ b.items[r] \in ItemRecord /\ b.runs[r] \in RunRecord
  BY GoodFacts DEF ActiveRuns
<1>2. outcome \in CompletionStates /\ outcome \in TerminalStates
  BY DEF OutcomeOf, CompletionStates, TerminalStates
<1>3. p = SettledRun(b, r, completion)
  BY DEF SettledRun, OutcomeOf
<1>4. n = [p EXCEPT !.removeAfterStop = @ \ {r}, !.items = Without(@, R), !.runs = Without(@, R)]
  BY <1>3 DEF CompleteRunTo, RemovedBy
<1>. HIDE DEF outcome, P, R
<1>5. item \in ItemRecord /\ run \in RunRecord
  BY <1>1, <1>2 DEF ItemRecord, RunRecord
<1>6. /\ s = [f \in Fields |-> s[f]]
      /\ s.nextOrdinal = b.nextOrdinal /\ s.removeAfterStop = b.removeAfterStop
      /\ s.steers = b.steers /\ s.children = b.children
      /\ s.ex = FinishTo(b.ex, r)
      /\ s.reviewBlocked = IF ReviewPendingOf(b, r) # {} \/ outcome = "NeedsReview"
                           THEN b.reviewBlocked \cup {b.runs[r].project} ELSE b.reviewBlocked
  BY ZenonT(40), <1>1 DEF Fields
<1>7. s.runs = [b.runs EXCEPT ![r] = run]
  BY <1>1 DEF Fields
<1>8. /\ DOMAIN s.items = DOMAIN b.items
      /\ \A o \in DOMAIN b.items \ {r} : s.items[o] = b.items[o]
      /\ s.items[r] = item
      /\ s.items = [o \in DOMAIN b.items |-> s.items[o]]
  BY <1>1 DEF Fields
<1>9. s.items \in [DOMAIN s.items -> ItemRecord]
  <2>1. \A o \in DOMAIN s.items : s.items[o] \in ItemRecord
    BY <1>5, <1>8, GoodFacts
  <2>. QED
    BY <1>8, <2>1
<1>10. DOMAIN s = Fields /\ PromotedBy(s, {r}) = P
  BY <1>6 DEF P, PromotedBy, PendingSteers
<1>. HIDE DEF item, run, s
<1>11. b.steers \in [DOMAIN b.steers -> SteerRecord] /\ P \cap DOMAIN b.items = {}
  BY PendingNotQueued DEF Good, BookTypeOK, P, PromotedBy
<1>12. /\ p = [f \in Fields |-> p[f]]
       /\ Same(s, p, Fields \ {"items", "steers"})
       /\ DOMAIN p.steers = DOMAIN s.steers
       /\ p.steers \in [DOMAIN s.steers -> SteerRecord]
       /\ \A o \in DOMAIN s.steers :
            /\ p.steers[o].project = s.steers[o].project
            /\ p.steers[o].run = s.steers[o].run
            /\ p.steers[o].state = IF s.steers[o].run \in {r}
                                   THEN SettledState(s.steers[o].state)
                                   ELSE s.steers[o].state
       /\ DOMAIN p.items = DOMAIN s.items \cup PromotedBy(s, {r})
       /\ \A o \in DOMAIN s.items : p.items[o] = s.items[o]
       /\ \A o \in PromotedBy(s, {r}) :
            Promoted(p.items[o], s.steers[o].project, s.steers[o].run)
       /\ p.items \in [DOMAIN p.items -> ItemRecord]
  <2>1. s.steers \in [DOMAIN s.steers -> SteerRecord]
    BY <1>6, <1>11
  <2>2. \A o \in DOMAIN s.steers : s.steers[o].run \in {r} => s.steers[o].run \in DOMAIN s.items
    BY <1>1, <1>8
  <2>3. PromotedBy(s, {r}) \cap DOMAIN s.items = {}
    BY <1>8, <1>10, <1>11
  <2>. QED
    <3>1. Promotion(s, {r}, p)
      BY <1>9, <1>10, <2>1, <2>2, <2>3, PromoteShape
    <3>. QED
      BY <3>1 DEF Promotion
<1>. HIDE DEF p
<1>13. /\ p.nextOrdinal = b.nextOrdinal /\ p.removeAfterStop = b.removeAfterStop
       /\ p.children = b.children /\ p.ex = FinishTo(b.ex, r)
       /\ p.reviewBlocked = s.reviewBlocked /\ p.runs = s.runs
  BY <1>6, <1>12 DEF Same, Fields
<1>14. /\ n = [f \in Fields |-> n[f]]
       /\ n.nextOrdinal = p.nextOrdinal /\ n.reviewBlocked = p.reviewBlocked
       /\ n.removeAfterStop = p.removeAfterStop \ {r}
       /\ n.items = Without(p.items, R) /\ n.runs = Without(p.runs, R)
       /\ n.steers = p.steers /\ n.children = p.children /\ n.ex = p.ex
  BY <1>4, <1>12 DEF Fields
<1>15. R \subseteq {r}
  BY DEF R, RemovedBy
<1>16. /\ DOMAIN n.items = (DOMAIN b.items \cup P) \ R
       /\ \A o \in DOMAIN n.items : n.items[o] = p.items[o]
       /\ n.items = [o \in DOMAIN n.items |-> n.items[o]]
  BY <1>8, <1>10, <1>12, <1>14 DEF Without
<1>17. n.items \in [(DOMAIN b.items \cup P) \ R -> ItemRecord]
  <2>1. \A o \in DOMAIN n.items : n.items[o] \in ItemRecord
    BY <1>8, <1>10, <1>12, <1>16
  <2>. QED
    BY <1>16, <2>1
<1>18. \A o \in DOMAIN b.items \ {r} : n.items[o] = b.items[o]
  BY <1>8, <1>12, <1>15, <1>16
<1>19. \A o \in P : Promoted(n.items[o], b.steers[o].project, r)
  <2>. TAKE o \in P
  <2>1. o \notin R /\ o \in DOMAIN b.steers /\ b.steers[o].run = r
    BY <1>1, <1>11, <1>15 DEF P, PromotedBy, PendingSteers
  <2>2. Promoted(p.items[o], s.steers[o].project, s.steers[o].run)
    BY <1>10, <1>12
  <2>3. s.steers[o] = b.steers[o] /\ n.items[o] = p.items[o]
    BY <1>6, <1>10, <1>12, <1>16, <2>1
  <2>. QED
    BY <2>1, <2>2, <2>3
<1>20. r \notin R => n.items[r] = item
  BY <1>1, <1>8, <1>12, <1>16
<1>21. /\ DOMAIN n.runs = DOMAIN b.runs \ R
       /\ \A x \in DOMAIN n.runs : n.runs[x] = IF x = r THEN run ELSE b.runs[x]
       /\ n.runs = [x \in DOMAIN n.runs |-> n.runs[x]]
  BY <1>1, <1>7, <1>13, <1>14 DEF Without
<1>22. n.runs \in [DOMAIN b.runs \ R -> RunRecord]
  <2>1. \A x \in DOMAIN n.runs : n.runs[x] \in RunRecord
    BY <1>5, <1>21, GoodFacts
  <2>. QED
    BY <1>21, <2>1
<1>23. /\ \A x \in DOMAIN b.runs \ {r} : n.runs[x] = b.runs[x]
       /\ r \notin R => n.runs[r] = run
  BY <1>1, <1>15, <1>21
<1>24. /\ n.steers \in [DOMAIN b.steers -> SteerRecord]
       /\ \A o \in DOMAIN b.steers :
            /\ n.steers[o].project = b.steers[o].project
            /\ n.steers[o].run = b.steers[o].run
            /\ n.steers[o].state = IF b.steers[o].run = r
                                   THEN SettledState(b.steers[o].state)
                                   ELSE b.steers[o].state
  BY SMTT(30), <1>6, <1>12, <1>14
<1>25. /\ b.reviewBlocked \subseteq n.reviewBlocked
       /\ n.reviewBlocked \subseteq b.reviewBlocked \cup {b.runs[r].project}
       /\ ReviewPendingOf(b, r) # {} => b.runs[r].project \in n.reviewBlocked
  BY <1>6, <1>13, <1>14
<1>. QED
  BY <1>13, <1>14, <1>17, <1>18, <1>19, <1>20, <1>22, <1>23, <1>24, <1>25
  DEF Completed, outcome, item, run, P, R

\* A run whose family has ended has no active child.
LEMMA NoActiveChild ==
    ASSUME NEW b, NEW roles, Good(b, roles), NEW r \in ActiveRuns(b),
           FinishOk(b.ex, r, TRUE), NEW c \in ActiveChildren(b)
    PROVE  b.children[c].parent # r
<1>. SUFFICES ASSUME b.children[c].parent = r PROVE FALSE
  OBVIOUS
<1>1. c \in DOMAIN b.children /\ b.children[c].state \in ActiveChildStates
  BY DEF ActiveChildren
<1>2. /\ c \notin DOMAIN b.runs
      /\ c \in DOMAIN b.ex.members
      /\ b.ex.members[c].family = b.children[c].parent
      /\ b.ex.members[c].st \in ChildLeaseStates(b.children[c].state)
  BY <1>1 DEF Good, ValidateBook, ChildrenValid
<1>3. b.ex.members[c].st # "Terminal"
  BY <1>1, <1>2 DEF ChildLeaseStates, ActiveChildStates
<1>4. c # r
  BY <1>2 DEF ActiveRuns
<1>5. ~IsChild(b.ex.members[r])
  BY ActiveRunIsRoot
<1>. QED
  BY <1>2, <1>3, <1>4, <1>5 DEF FinishOk, Family, Active

\* complete_run()
LEMMA CompleteRunEffect ==
    ASSUME NEW b, NEW roles, Good(b, roles), NEW r, CompleteRunOk(b, r),
           NEW completion \in CompletionStates,
           NEW n, n = RetainChildren(CompleteRunTo(b, r, completion))
    PROVE  /\ BookTypeOK(n, roles)
           /\ n.nextOrdinal = b.nextOrdinal
           /\ ActiveRuns(n) = ActiveRuns(b) \ {r}
           /\ ActiveChildren(n) = ActiveChildren(b)
           /\ NoRunStarts(b, n)
           /\ NoLeaseTaken(b, n)
           /\ ReviewHeld(b) => ReviewHeld(n)
           /\ PendingKept(b, n)
           /\ KeepsQueued(b, n)
           /\ OrderKept(b, n)
<1>. DEFINE m == CompleteRunTo(b, r, completion)
            R == RemovedBy(b, r)
            P == PromotedBy(b, {r})
<1>1. r \in ActiveRuns(b) /\ FinishOk(b.ex, r, TRUE)
  BY DEF CompleteRunOk
<1>0. m = CompleteRunTo(b, r, completion)
  OBVIOUS
<1>. HIDE DEF m
<1>2. /\ m = [f \in Fields |-> m[f]]
      /\ m.nextOrdinal = b.nextOrdinal
      /\ m.children = b.children
      /\ b.reviewBlocked \subseteq m.reviewBlocked
      /\ m.reviewBlocked \subseteq b.reviewBlocked \cup {b.runs[r].project}
      /\ ReviewPendingOf(b, r) # {} => b.runs[r].project \in m.reviewBlocked
      /\ m.ex = FinishTo(b.ex, r)
      /\ m.steers \in [DOMAIN b.steers -> SteerRecord]
      /\ m.items \in [(DOMAIN b.items \cup P) \ R -> ItemRecord]
      /\ \A o \in DOMAIN b.items \ {r} : m.items[o] = b.items[o]
      /\ \A o \in P : Promoted(m.items[o], b.steers[o].project, r)
      /\ r \notin R =>
           m.items[r] = [b.items[r] EXCEPT !.state = OutcomeOf(b, r, completion),
                                           !.blocked = "None"]
      /\ m.runs \in [DOMAIN b.runs \ R -> RunRecord]
      /\ \A x \in DOMAIN b.runs \ {r} : m.runs[x] = b.runs[x]
      /\ r \notin R =>
           m.runs[r] = [b.runs[r] EXCEPT !.state = OutcomeOf(b, r, completion)]
  <2>1. Completed(b, r, completion, m)
    BY <1>0, <1>1, CompleteRunShape
  <2>. QED
    BY <2>1 DEF Completed
<1>. HIDE DEF P, R
<1>3. DOMAIN m = Fields /\ m.children \in [DOMAIN m.children -> ChildRecord(roles)]
  BY <1>2 DEF Good, BookTypeOK
<1>4. n = RetainChildren(m)
  BY <1>0
<1>5. /\ n = [f \in Fields |-> n[f]]
      /\ Same(m, n, Fields \ {"children"})
      /\ DOMAIN n.children = {c \in DOMAIN m.children : m.children[c].parent \in DOMAIN m.runs}
      /\ \A c \in DOMAIN n.children : n.children[c] = m.children[c]
      /\ n.children \in [DOMAIN n.children -> ChildRecord(roles)]
  BY <1>3, <1>4, RetainEffect
<1>6. /\ n.nextOrdinal = b.nextOrdinal /\ n.reviewBlocked = m.reviewBlocked
      /\ n.items = m.items /\ n.runs = m.runs /\ n.steers = m.steers
      /\ n.ex = FinishTo(b.ex, r)
  BY <1>2, <1>5 DEF Same, Fields
<1>7. /\ DOMAIN n.children = {c \in DOMAIN b.children : b.children[c].parent \in DOMAIN b.runs \ R}
      /\ \A c \in DOMAIN n.children : n.children[c] = b.children[c]
  <2>1. DOMAIN m.runs = DOMAIN b.runs \ R
    BY <1>2
  <2>. QED
    BY <1>2, <1>5, <2>1
<1>8. R \subseteq {r} /\ (R # {} => ReviewPendingOf(b, r) = {})
  BY DEF R, RemovedBy
<1>9. /\ r \in DOMAIN b.runs /\ r \in DOMAIN b.items /\ b.runs[r].project \in Projects
      /\ b.items[r] \in ItemRecord /\ b.runs[r] \in RunRecord
  <2>1. r \in DOMAIN b.runs
    BY <1>1 DEF ActiveRuns
  <2>. QED
    BY <2>1, GoodFacts DEF RunRecord
<1>10. OutcomeOf(b, r, completion) \in TerminalStates
  BY DEF OutcomeOf, CompletionStates, TerminalStates
<1>11. /\ r \notin R => n.items[r].state \in TerminalStates /\ n.items[r].blocked = "None"
       /\ r \notin R => n.runs[r].state \in TerminalStates
  <2>. SUFFICES ASSUME r \notin R
                PROVE  /\ n.items[r].state \in TerminalStates /\ n.items[r].blocked = "None"
                       /\ n.runs[r].state \in TerminalStates
    OBVIOUS
  <2>1. n.items[r] = [b.items[r] EXCEPT !.state = OutcomeOf(b, r, completion), !.blocked = "None"]
    BY <1>2, <1>6
  <2>2. n.runs[r] = [b.runs[r] EXCEPT !.state = OutcomeOf(b, r, completion)]
    BY <1>2, <1>6
  <2>3. n.items[r].state \in TerminalStates /\ n.items[r].blocked = "None"
    BY <1>9, <1>10, <2>1 DEF ItemRecord
  <2>4. n.runs[r].state \in TerminalStates
    BY <1>9, <1>10, <2>2 DEF RunRecord
  <2>. QED
    BY <2>3, <2>4
<1>12. P \cap DOMAIN b.items = {} /\ \A o \in P : o \in DOMAIN b.steers /\ b.steers[o].run = r
  BY PendingNotQueued DEF P, PromotedBy, PendingSteers
<1>12a. \A o \in P : Promoted(n.items[o], b.steers[o].project, r)
  BY <1>2, <1>6
<1>12b. \A o \in DOMAIN b.items \ {r} : n.items[o] = b.items[o]
  BY <1>2, <1>6
<1>13. /\ DOMAIN n.items = (DOMAIN b.items \cup P) \ R
       /\ n.items \in [DOMAIN n.items -> ItemRecord]
       /\ DOMAIN n.runs = DOMAIN b.runs \ R
       /\ n.runs \in [DOMAIN n.runs -> RunRecord]
       /\ DOMAIN n.steers = DOMAIN b.steers
       /\ n.steers \in [DOMAIN n.steers -> SteerRecord]
       /\ DOMAIN n.children \subseteq 1 .. n.nextOrdinal - 1
       /\ n.reviewBlocked \subseteq Projects
  <2>1. DOMAIN b.children \subseteq 1 .. b.nextOrdinal - 1 /\ b.reviewBlocked \subseteq Projects
    BY DEF Good, BookTypeOK
  <2>. QED
    BY <1>2, <1>6, <1>7, <1>9, <2>1
<1>14. \A x \in DOMAIN n.items : n.items[x].blocked = "Hold" => ~n.items[x].auto
  <2>. TAKE x \in DOMAIN n.items
  <2>1. CASE x \in P
    BY <1>12a, <2>1 DEF Promoted
  <2>2. CASE x = r
    BY <1>11, <1>13, <2>2
  <2>3. CASE x \notin P /\ x # r
    <3>1. x \in DOMAIN b.items \ {r}
      BY <1>13, <2>3
    <3>. QED
      BY <1>12b, <3>1 DEF Good, BookTypeOK
  <2>. QED
    BY <2>1, <2>2, <2>3
<1>15. LeasesOK(n.ex, roles) /\ NoLeaseTaken(b, n)
  <2>1. LeasesOK(b.ex, roles) /\ r \in DOMAIN b.ex.members /\ ~IsChild(b.ex.members[r])
    BY <1>1, GoodLeases, ActiveRunIsRoot
  <2>. QED
    BY <1>6, <2>1, FinishParentEffect DEF NoLeaseTaken
<1>16. BookTypeOK(n, roles)
  BY <1>5, <1>6, <1>13, <1>14, <1>15 DEF Good, BookTypeOK, Fields, LeasesOK
<1>17. /\ ActiveRuns(n) = ActiveRuns(b) \ {r}
       /\ NoRunStarts(b, n)
  <2>1. \A x \in DOMAIN n.runs \ {r} : x \in DOMAIN b.runs /\ n.runs[x] = b.runs[x]
    BY <1>2, <1>6, <1>13
  <2>2. r \notin ActiveRuns(n)
    BY <1>11, <1>13 DEF ActiveRuns, ActiveRunStates, TerminalStates
  <2>3. ActiveRuns(n) = ActiveRuns(b) \ {r}
    BY <1>8, <1>13, <2>1, <2>2 DEF ActiveRuns
  <2>. QED
    BY <1>13, <2>1, <2>3 DEF NoRunStarts, ActiveRuns
<1>18. ActiveChildren(n) = ActiveChildren(b)
  <2>1. \A c \in ActiveChildren(b) :
            b.children[c].parent \in ActiveRuns(b) /\ b.children[c].parent # r
    BY <1>1, ActiveParent, NoActiveChild
  <2>2. ActiveChildren(b) \subseteq DOMAIN n.children
    BY <1>7, <1>8, <2>1 DEF ActiveChildren, ActiveRuns
  <2>. QED
    BY <1>7, <2>2 DEF ActiveChildren
<1>19. PendingKept(b, n)
  <2>. SUFFICES ASSUME NEW c \in DOMAIN b.children, b.children[c].reviewPending
                PROVE  c \in DOMAIN n.children
    BY DEF PendingKept
  <2>1. b.children[c].parent \in DOMAIN b.runs
    BY GoodFacts
  <2>2. b.children[c].parent \notin R
    BY <1>8 DEF ReviewPendingOf
  <2>. QED
    BY <1>7, <2>1, <2>2
<1>20. ReviewHeld(b) => ReviewHeld(n)
  <2>. SUFFICES ASSUME ReviewHeld(b), NEW c \in DOMAIN n.children,
                       n.children[c].reviewPending, n.children[c].parent \notin ActiveRuns(n)
                PROVE  n.children[c].project \in n.reviewBlocked
    BY DEF ReviewHeld
  <2>1. c \in DOMAIN b.children /\ n.children[c] = b.children[c]
    BY <1>7
  <2>2. CASE b.children[c].parent = r
    <3>1. ReviewPendingOf(b, r) # {}
      BY <2>1, <2>2 DEF ReviewPendingOf
    <3>2. b.children[c].project = b.runs[r].project
      BY <2>1, <2>2 DEF Good, ValidateBook, ChildrenValid
    <3>. QED
      BY <1>2, <1>6, <2>1, <3>1, <3>2
  <2>3. CASE b.children[c].parent # r
    BY <1>2, <1>6, <1>17, <2>1, <2>3 DEF ReviewHeld
  <2>. QED
    BY <2>2, <2>3
<1>21. KeepsQueued(b, n)
  <2>1. r \notin Queued(b)
    <3>1. b.items[r].state = "Running"
      BY <1>1, <1>9, RunningIsActive
    <3>. QED
      BY <3>1 DEF Queued
  <2>. QED
    BY <1>8, <1>12b, <1>13, <2>1 DEF KeepsQueued, Queued
<1>22. OrderKept(b, n)
  <2>. SUFFICES ASSUME NEW o \in Queued(n)
                PROVE  \/ /\ o \in Queued(b)
                          /\ n.items[o].project = b.items[o].project
                          /\ n.items[o].auto => b.items[o].auto
                       \/ n.items[o].project \in ActiveProjects(b)
    BY DEF OrderKept
  <2>1. CASE o \in P
    <3>1. n.items[o].project = b.steers[o].project
      BY <1>12a, <2>1 DEF Promoted
    <3>2. b.steers[o].project = b.runs[r].project
      BY <1>12, <2>1 DEF Good, ValidateBook, SteeringValid
    <3>. QED
      BY <1>1, <3>1, <3>2 DEF ActiveProjects
  <2>2. CASE o \notin P
    <3>1. o # r
      BY <1>11, <1>13 DEF Queued, TerminalStates
    <3>2. o \in DOMAIN b.items \ {r}
      BY <1>13, <2>2, <3>1 DEF Queued
    <3>. QED
      BY <1>12b, <3>2 DEF Queued
  <2>. QED
    BY <2>1, <2>2
<1>. QED
  BY <1>6, <1>15, <1>16, <1>17, <1>18, <1>19, <1>20, <1>21, <1>22

-----------------------------------------------------------------------------
(* Reopening the book *)

\* The removals open() carries out.
RemovedOnOpen(b) == {o \in b.removeAfterStop : ReviewPendingOf(b, o) = {}}

\* recover_interrupted(), field by field.
Interrupted(b, n, roles) ==
    /\ n = [f \in Fields |-> n[f]]
    /\ n.nextOrdinal = b.nextOrdinal
    /\ n.removeAfterStop = b.removeAfterStop
    /\ n.steers = b.steers
    /\ n.reviewBlocked = b.reviewBlocked \cup ChildReviewProjects(b)
    /\ n.ex = EmptyBook
    /\ n.items \in [DOMAIN b.items -> ItemRecord]
    /\ \A o \in DOMAIN b.items \ ActiveRuns(b) : n.items[o] = b.items[o]
    /\ \A o \in ActiveRuns(b) :
        n.items[o] = [b.items[o] EXCEPT !.state = "Interrupted", !.blocked = "None"]
    /\ n.runs \in [DOMAIN b.runs -> RunRecord]
    /\ \A r \in DOMAIN b.runs \ ActiveRuns(b) : n.runs[r] = b.runs[r]
    /\ \A r \in ActiveRuns(b) : n.runs[r] = [b.runs[r] EXCEPT !.state = "Interrupted"]
    /\ n.children \in [DOMAIN b.children -> ChildRecord(roles)]
    /\ \A c \in DOMAIN b.children \ ActiveChildren(b) : n.children[c] = b.children[c]
    /\ \A c \in ActiveChildren(b) :
        n.children[c] = [b.children[c] EXCEPT !.state = "Interrupted"]

\* That is what recover_interrupted() leaves.
LEMMA InterruptShape ==
    ASSUME NEW b, NEW roles, Good(b, roles), NEW n, n = InterruptTo(b)
    PROVE  Interrupted(b, n, roles)
<1>1. /\ DOMAIN b = Fields
      /\ \A o \in DOMAIN b.items : b.items[o] \in ItemRecord
      /\ \A r \in DOMAIN b.runs : b.runs[r] \in RunRecord /\ r \in DOMAIN b.items
      /\ \A c \in DOMAIN b.children : b.children[c] \in ChildRecord(roles)
  BY GoodFacts
<1>2. /\ n = [f \in Fields |-> n[f]]
      /\ n.nextOrdinal = b.nextOrdinal
      /\ n.removeAfterStop = b.removeAfterStop
      /\ n.steers = b.steers
      /\ n.reviewBlocked = b.reviewBlocked \cup ChildReviewProjects(b)
      /\ n.ex = EmptyBook
  BY <1>1 DEF InterruptTo, RecoverInterruptedTo, Fields
<1>3. n.items = [o \in DOMAIN b.items |->
            IF b.items[o].state = "Running" \/ o \in ActiveRuns(b)
            THEN [b.items[o] EXCEPT !.state = "Interrupted", !.blocked = "None"]
            ELSE b.items[o]]
  BY <1>1 DEF InterruptTo, Fields
<1>4. n.runs = [r \in DOMAIN b.runs |->
            IF r \in ActiveRuns(b)
            THEN [b.runs[r] EXCEPT !.state = "Interrupted"] ELSE b.runs[r]]
  BY <1>1 DEF InterruptTo, Fields
<1>5. n.children = [c \in DOMAIN b.children |->
            IF c \in ActiveChildren(b)
            THEN [b.children[c] EXCEPT !.state = "Interrupted"] ELSE b.children[c]]
  BY <1>1 DEF InterruptTo, Fields
<1>6. /\ \A o \in DOMAIN b.items \ ActiveRuns(b) : n.items[o] = b.items[o]
      /\ \A o \in ActiveRuns(b) :
            n.items[o] = [b.items[o] EXCEPT !.state = "Interrupted", !.blocked = "None"]
  <2>1. \A o \in DOMAIN b.items : b.items[o].state = "Running" <=> o \in ActiveRuns(b)
    BY RunningIsActive
  <2>2. \A o \in ActiveRuns(b) : o \in DOMAIN b.items
    BY <1>1 DEF ActiveRuns
  <2>. QED
    BY <1>3, <2>1, <2>2
<1>7. n.items \in [DOMAIN b.items -> ItemRecord]
  <2>1. \A o \in DOMAIN b.items : n.items[o] \in ItemRecord
    <3>. TAKE o \in DOMAIN b.items
    <3>1. CASE o \in ActiveRuns(b)
      <4>1. n.items[o] = [b.items[o] EXCEPT !.state = "Interrupted", !.blocked = "None"]
        BY <1>6, <3>1
      <4>. QED
        BY <1>1, <4>1 DEF ItemRecord, TerminalStates
    <3>2. CASE o \notin ActiveRuns(b)
      BY <1>1, <1>6, <3>2
    <3>. QED
      BY <3>1, <3>2
  <2>. QED
    BY <1>3, <2>1
<1>8. /\ \A r \in DOMAIN b.runs \ ActiveRuns(b) : n.runs[r] = b.runs[r]
      /\ \A r \in ActiveRuns(b) : n.runs[r] = [b.runs[r] EXCEPT !.state = "Interrupted"]
  BY <1>4 DEF ActiveRuns
<1>9. n.runs \in [DOMAIN b.runs -> RunRecord]
  <2>1. \A r \in DOMAIN b.runs : n.runs[r] \in RunRecord
    <3>. TAKE r \in DOMAIN b.runs
    <3>1. CASE r \in ActiveRuns(b)
      <4>1. n.runs[r] = [b.runs[r] EXCEPT !.state = "Interrupted"]
        BY <1>8, <3>1
      <4>. QED
        BY <1>1, <4>1 DEF RunRecord, TerminalStates
    <3>2. CASE r \notin ActiveRuns(b)
      BY <1>1, <1>8, <3>2
    <3>. QED
      BY <3>1, <3>2
  <2>. QED
    BY <1>4, <2>1
<1>10. /\ \A c \in DOMAIN b.children \ ActiveChildren(b) : n.children[c] = b.children[c]
       /\ \A c \in ActiveChildren(b) :
            n.children[c] = [b.children[c] EXCEPT !.state = "Interrupted"]
  BY <1>5 DEF ActiveChildren
<1>11. n.children \in [DOMAIN b.children -> ChildRecord(roles)]
  <2>1. \A c \in DOMAIN b.children : n.children[c] \in ChildRecord(roles)
    <3>. TAKE c \in DOMAIN b.children
    <3>1. CASE c \in ActiveChildren(b)
      <4>1. n.children[c] = [b.children[c] EXCEPT !.state = "Interrupted"]
        BY <1>10, <3>1
      <4>. QED
        BY <1>1, <4>1 DEF ChildRecord, TerminalStates
    <3>2. CASE c \notin ActiveChildren(b)
      BY <1>1, <1>10, <3>2
    <3>. QED
      BY <3>1, <3>2
  <2>. QED
    BY <1>5, <2>1
<1>. QED
  BY <1>2, <1>6, <1>7, <1>8, <1>9, <1>10, <1>11 DEF Interrupted

\* recover_interrupted() and finalize_requested_removals(), field by field.
FinalizedBook(b, n, roles) ==
    /\ n = [f \in Fields |-> n[f]]
    /\ n.nextOrdinal = b.nextOrdinal
    /\ n.removeAfterStop = {}
    /\ n.steers = b.steers
    /\ n.reviewBlocked = b.reviewBlocked \cup ChildReviewProjects(b)
    /\ n.ex = EmptyBook
    /\ n.items \in [DOMAIN b.items \ RemovedOnOpen(b) -> ItemRecord]
    /\ \A o \in DOMAIN b.items \ (RemovedOnOpen(b) \cup ActiveRuns(b)) : n.items[o] = b.items[o]
    /\ \A o \in ActiveRuns(b) \ RemovedOnOpen(b) :
        n.items[o] = [b.items[o] EXCEPT !.state = "Interrupted", !.blocked = "None"]
    /\ n.runs \in [DOMAIN b.runs \ RemovedOnOpen(b) -> RunRecord]
    /\ \A r \in DOMAIN b.runs \ (RemovedOnOpen(b) \cup ActiveRuns(b)) : n.runs[r] = b.runs[r]
    /\ \A r \in ActiveRuns(b) \ RemovedOnOpen(b) :
        n.runs[r] = [b.runs[r] EXCEPT !.state = "Interrupted"]
    /\ DOMAIN n.children = {c \in DOMAIN b.children : b.children[c].parent \notin RemovedOnOpen(b)}
    /\ n.children \in [DOMAIN n.children -> ChildRecord(roles)]
    /\ \A c \in DOMAIN n.children \ ActiveChildren(b) : n.children[c] = b.children[c]
    /\ \A c \in DOMAIN n.children \cap ActiveChildren(b) :
        n.children[c] = [b.children[c] EXCEPT !.state = "Interrupted"]

\* That is what they leave.
LEMMA FinalizeShape ==
    ASSUME NEW b, NEW roles, Good(b, roles), NEW n, n = FinalizeRemovalsTo(InterruptTo(b))
    PROVE  FinalizedBook(b, n, roles)
<1>. DEFINE i == InterruptTo(b)
            X == RemovedOnOpen(b)
            g == [i EXCEPT !.removeAfterStop = {}, !.items = Without(@, X), !.runs = Without(@, X)]
<1>1. i = InterruptTo(b) /\ n = FinalizeRemovalsTo(i)
  OBVIOUS
<1>. HIDE DEF i
<1>2. Interrupted(b, i, roles)
  BY <1>1, InterruptShape
<1>3. /\ i = [f \in Fields |-> i[f]] /\ DOMAIN i = Fields
      /\ i.removeAfterStop = b.removeAfterStop
      /\ DOMAIN i.children = DOMAIN b.children
      /\ DOMAIN i.items = DOMAIN b.items /\ DOMAIN i.runs = DOMAIN b.runs
  BY <1>2 DEF Interrupted
<1>4. \A c \in DOMAIN b.children :
        /\ i.children[c].parent = b.children[c].parent
        /\ i.children[c].reviewPending = b.children[c].reviewPending
  <2>. TAKE c \in DOMAIN b.children
  <2>1. CASE c \in ActiveChildren(b)
    <3>1. i.children[c] = [b.children[c] EXCEPT !.state = "Interrupted"]
      BY <1>2, <2>1 DEF Interrupted
    <3>2. b.children[c] \in ChildRecord(roles)
      BY GoodFacts
    <3>. QED
      BY <3>1, <3>2 DEF ChildRecord
  <2>2. CASE c \notin ActiveChildren(b)
    BY <1>2, <2>2 DEF Interrupted
  <2>. QED
    BY <2>1, <2>2
<1>5. \A o : ReviewPendingOf(i, o) = ReviewPendingOf(b, o)
  BY <1>3, <1>4 DEF ReviewPendingOf
<1>6. {o \in i.removeAfterStop : ReviewPendingOf(i, o) = {}} = X
  BY <1>3, <1>5 DEF RemovedOnOpen
<1>7. n = RetainChildren(g)
  BY <1>1, <1>6 DEF FinalizeRemovalsTo
<1>. HIDE DEF X
<1>8. /\ DOMAIN g = Fields
      /\ g.nextOrdinal = i.nextOrdinal /\ g.removeAfterStop = {}
      /\ g.items = Without(i.items, X) /\ g.runs = Without(i.runs, X)
      /\ g.steers = i.steers /\ g.children = i.children /\ g.ex = i.ex
      /\ g.reviewBlocked = i.reviewBlocked
  BY <1>3 DEF Fields
<1>. HIDE DEF g
<1>9. g.children \in [DOMAIN g.children -> ChildRecord(roles)]
  BY <1>2, <1>3, <1>8 DEF Interrupted
<1>10. /\ n = [f \in Fields |-> n[f]]
       /\ Same(g, n, Fields \ {"children"})
       /\ DOMAIN n.children = {c \in DOMAIN g.children : g.children[c].parent \in DOMAIN g.runs}
       /\ \A c \in DOMAIN n.children : n.children[c] = g.children[c]
       /\ n.children \in [DOMAIN n.children -> ChildRecord(roles)]
  BY <1>7, <1>8, <1>9, RetainEffect
<1>11. /\ n.nextOrdinal = i.nextOrdinal /\ n.removeAfterStop = {}
       /\ n.items = Without(i.items, X) /\ n.runs = Without(i.runs, X)
       /\ n.steers = i.steers /\ n.ex = i.ex /\ n.reviewBlocked = i.reviewBlocked
  BY <1>8, <1>10 DEF Same, Fields
<1>12. /\ DOMAIN n.items = DOMAIN b.items \ X
       /\ \A o \in DOMAIN n.items : n.items[o] = i.items[o]
       /\ n.items = [o \in DOMAIN n.items |-> n.items[o]]
       /\ DOMAIN n.runs = DOMAIN b.runs \ X
       /\ \A r \in DOMAIN n.runs : n.runs[r] = i.runs[r]
       /\ n.runs = [r \in DOMAIN n.runs |-> n.runs[r]]
  BY <1>3, <1>11 DEF Without
<1>13. n.items \in [DOMAIN b.items \ X -> ItemRecord] /\ n.runs \in [DOMAIN b.runs \ X -> RunRecord]
  <2>1. \A o \in DOMAIN n.items : n.items[o] \in ItemRecord
    BY <1>2, <1>12 DEF Interrupted
  <2>2. \A r \in DOMAIN n.runs : n.runs[r] \in RunRecord
    BY <1>2, <1>12 DEF Interrupted
  <2>. QED
    BY <1>12, <2>1, <2>2
<1>14. ActiveRuns(b) \subseteq DOMAIN b.items /\ ActiveRuns(b) \subseteq DOMAIN b.runs
  BY GoodFacts DEF ActiveRuns
<1>15. /\ \A o \in DOMAIN b.items \ (X \cup ActiveRuns(b)) : n.items[o] = b.items[o]
       /\ \A o \in ActiveRuns(b) \ X :
            n.items[o] = [b.items[o] EXCEPT !.state = "Interrupted", !.blocked = "None"]
  BY <1>2, <1>12, <1>14 DEF Interrupted
<1>16. /\ \A r \in DOMAIN b.runs \ (X \cup ActiveRuns(b)) : n.runs[r] = b.runs[r]
       /\ \A r \in ActiveRuns(b) \ X : n.runs[r] = [b.runs[r] EXCEPT !.state = "Interrupted"]
  BY <1>2, <1>12, <1>14 DEF Interrupted
<1>17. DOMAIN n.children = {c \in DOMAIN b.children : b.children[c].parent \notin X}
  <2>1. \A c \in DOMAIN b.children : b.children[c].parent \in DOMAIN b.runs
    BY GoodFacts
  <2>2. DOMAIN g.runs = DOMAIN b.runs \ X
    BY <1>8, <1>3 DEF Without
  <2>3. DOMAIN g.children = DOMAIN b.children
    BY <1>3, <1>8
  <2>4. \A c \in DOMAIN b.children : g.children[c].parent = b.children[c].parent
    BY <1>4, <1>8
  <2>5. DOMAIN n.children = {c \in DOMAIN b.children : b.children[c].parent \in DOMAIN b.runs \ X}
    <3>1. DOMAIN n.children = {c \in DOMAIN g.children : g.children[c].parent \in DOMAIN g.runs}
      BY <1>10
    <3>. QED
      BY <2>2, <2>3, <2>4, <3>1
  <2>. QED
    BY <2>1, <2>5
<1>18. /\ \A c \in DOMAIN n.children \ ActiveChildren(b) : n.children[c] = b.children[c]
       /\ \A c \in DOMAIN n.children \cap ActiveChildren(b) :
            n.children[c] = [b.children[c] EXCEPT !.state = "Interrupted"]
  <2>1. \A c \in DOMAIN n.children : c \in DOMAIN b.children /\ n.children[c] = i.children[c]
    BY <1>8, <1>10, <1>17
  <2>. QED
    BY <1>2, <2>1 DEF Interrupted
<1>19. /\ n.nextOrdinal = b.nextOrdinal
       /\ n.steers = b.steers /\ n.ex = EmptyBook
       /\ n.reviewBlocked = b.reviewBlocked \cup ChildReviewProjects(b)
  BY <1>2, <1>11 DEF Interrupted
<1>20. n.items \in [DOMAIN b.items \ RemovedOnOpen(b) -> ItemRecord]
       /\ n.runs \in [DOMAIN b.runs \ RemovedOnOpen(b) -> RunRecord]
  BY <1>13 DEF X
<1>. QED
  BY <1>10, <1>11, <1>15, <1>16, <1>17, <1>18, <1>19, <1>20 DEF FinalizedBook, X

\* No steering of a run that open() removes: the exception under which
\* validate_book() would refuse the reopened book.
NoSteeredRemoval(b) == \A o \in DOMAIN b.steers : b.steers[o].run \notin RemovedOnOpen(b)

\* open(), field by field.
Recovered(b, n, roles) ==
    /\ n = [f \in Fields |-> n[f]]
    /\ n.nextOrdinal = b.nextOrdinal
    /\ n.removeAfterStop = {}
    /\ n.reviewBlocked = b.reviewBlocked \cup ChildReviewProjects(b)
    /\ n.ex = EmptyBook
    /\ n.steers \in [DOMAIN b.steers -> SteerRecord]
    /\ \A o \in DOMAIN b.steers :
        /\ n.steers[o].project = b.steers[o].project
        /\ n.steers[o].run = b.steers[o].run
        /\ n.steers[o].state = SettledState(b.steers[o].state)
    /\ n.items \in [(DOMAIN b.items \ RemovedOnOpen(b)) \cup PendingSteers(b) -> ItemRecord]
    /\ \A o \in DOMAIN b.items \ (RemovedOnOpen(b) \cup ActiveRuns(b)) : n.items[o] = b.items[o]
    /\ \A o \in ActiveRuns(b) \ RemovedOnOpen(b) :
        n.items[o] = [b.items[o] EXCEPT !.state = "Interrupted", !.blocked = "None"]
    /\ \A o \in PendingSteers(b) : Promoted(n.items[o], b.steers[o].project, b.steers[o].run)
    /\ n.runs \in [DOMAIN b.runs \ RemovedOnOpen(b) -> RunRecord]
    /\ \A r \in DOMAIN b.runs \ (RemovedOnOpen(b) \cup ActiveRuns(b)) : n.runs[r] = b.runs[r]
    /\ \A r \in ActiveRuns(b) \ RemovedOnOpen(b) :
        n.runs[r] = [b.runs[r] EXCEPT !.state = "Interrupted"]
    /\ DOMAIN n.children = {c \in DOMAIN b.children : b.children[c].parent \notin RemovedOnOpen(b)}
    /\ n.children \in [DOMAIN n.children -> ChildRecord(roles)]
    /\ \A c \in DOMAIN n.children \ ActiveChildren(b) : n.children[c] = b.children[c]
    /\ \A c \in DOMAIN n.children \cap ActiveChildren(b) :
        n.children[c] = [b.children[c] EXCEPT !.state = "Interrupted"]

\* No run of a book on its way through open() is active.
LEMMA FinalizedIdle ==
    ASSUME NEW b, NEW roles, Good(b, roles), NEW g, FinalizedBook(b, g, roles)
    PROVE  ActiveRuns(g) = {}
<1>. SUFFICES ASSUME NEW r \in DOMAIN g.runs PROVE g.runs[r].state \notin ActiveRunStates
  BY DEF ActiveRuns
<1>1. r \in DOMAIN b.runs \ RemovedOnOpen(b) /\ b.runs[r] \in RunRecord
  BY GoodFacts DEF FinalizedBook
<1>2. CASE r \in ActiveRuns(b)
  <2>1. g.runs[r] = [b.runs[r] EXCEPT !.state = "Interrupted"]
    BY <1>1, <1>2 DEF FinalizedBook
  <2>. QED
    BY <1>1, <2>1 DEF RunRecord, ActiveRunStates
<1>3. CASE r \notin ActiveRuns(b)
  <2>1. g.runs[r] = b.runs[r]
    BY <1>1, <1>3 DEF FinalizedBook
  <2>. QED
    BY <1>1, <1>3, <2>1 DEF ActiveRuns
<1>. QED
  BY <1>2, <1>3

\* What waits in steering when the app stopped goes back to the queue.
LEMMA FinalizedPromotes ==
    ASSUME NEW b, NEW roles, Good(b, roles), NoSteeredRemoval(b),
           NEW g, FinalizedBook(b, g, roles)
    PROVE  /\ PendingSteers(g) = PendingSteers(b)
           /\ PromotedBy(g, UnsettledTerminalRuns(g)) = PendingSteers(b)
           /\ UnsettledTerminalRuns(g) \subseteq DOMAIN g.runs
           /\ \A o \in DOMAIN b.steers :
                b.steers[o].state \in {"Pending", "Submitted", "AcknowledgedByCli"}
                    => b.steers[o].run \in UnsettledTerminalRuns(g)
           /\ PendingSteers(b) \cap DOMAIN g.items = {}
<1>1. /\ g.steers = b.steers /\ DOMAIN g.runs = DOMAIN b.runs \ RemovedOnOpen(b)
      /\ DOMAIN g.items = DOMAIN b.items \ RemovedOnOpen(b)
  BY DEF FinalizedBook
<1>2. ActiveRuns(g) = {}
  BY FinalizedIdle
<1>3. \A o \in DOMAIN b.steers : b.steers[o].run \in DOMAIN g.runs
  BY <1>1, GoodFacts DEF NoSteeredRemoval
<1>4. PendingSteers(g) = PendingSteers(b)
  BY <1>1 DEF PendingSteers
<1>5. UnsettledTerminalRuns(g) \subseteq DOMAIN g.runs
  BY DEF UnsettledTerminalRuns
<1>6. \A o \in DOMAIN b.steers :
        b.steers[o].state \in {"Pending", "Submitted", "AcknowledgedByCli"}
            => b.steers[o].run \in UnsettledTerminalRuns(g)
  BY <1>1, <1>2, <1>3 DEF UnsettledTerminalRuns
<1>7. PromotedBy(g, UnsettledTerminalRuns(g)) = PendingSteers(b)
  BY <1>1, <1>4, <1>6 DEF PromotedBy, PendingSteers
<1>8. PendingSteers(b) \cap DOMAIN g.items = {}
  BY <1>1, PendingNotQueued
<1>. QED
  BY <1>4, <1>5, <1>6, <1>7, <1>8

\* That is what open() leaves.
LEMMA RecoverShape ==
    ASSUME NEW b, NEW roles, Good(b, roles), NoSteeredRemoval(b),
           NEW g, FinalizedBook(b, g, roles), NEW n, n = RecoverSteersTo(g)
    PROVE  Recovered(b, n, roles)
<1>. DEFINE U == UnsettledTerminalRuns(g)
<1>1. /\ DOMAIN g = Fields
      /\ g.steers = b.steers
      /\ g.steers \in [DOMAIN g.steers -> SteerRecord]
      /\ g.items \in [DOMAIN g.items -> ItemRecord]
      /\ DOMAIN g.items = DOMAIN b.items \ RemovedOnOpen(b)
      /\ DOMAIN g.runs = DOMAIN b.runs \ RemovedOnOpen(b)
      /\ DOMAIN g.runs \subseteq DOMAIN g.items
  <2>1. g.items \in [DOMAIN b.items \ RemovedOnOpen(b) -> ItemRecord]
        /\ DOMAIN g.runs = DOMAIN b.runs \ RemovedOnOpen(b)
        /\ DOMAIN g = Fields /\ g.steers = b.steers
    BY DEF FinalizedBook
  <2>2. \A r \in DOMAIN b.runs : r \in DOMAIN b.items
    BY GoodFacts
  <2>3. b.steers \in [DOMAIN b.steers -> SteerRecord]
    BY DEF Good, BookTypeOK
  <2>. QED
    BY <2>1, <2>2, <2>3
<1>2. /\ PromotedBy(g, U) = PendingSteers(b)
      /\ U \subseteq DOMAIN g.runs
      /\ \A o \in DOMAIN b.steers :
            b.steers[o].state \in {"Pending", "Submitted", "AcknowledgedByCli"}
                => b.steers[o].run \in U
      /\ PendingSteers(b) \cap DOMAIN g.items = {}
  BY FinalizedPromotes
<1>3. n = PromoteTo(g, U)
  BY DEF RecoverSteersTo
<1>. HIDE DEF U
<1>4. \A o \in DOMAIN g.steers : g.steers[o].run \in U => g.steers[o].run \in DOMAIN g.items
  BY <1>1, <1>2
<1>5. /\ n = [x \in Fields |-> n[x]]
      /\ Same(g, n, Fields \ {"items", "steers"})
      /\ DOMAIN n.steers = DOMAIN g.steers
      /\ n.steers \in [DOMAIN g.steers -> SteerRecord]
      /\ \A o \in DOMAIN g.steers :
            /\ n.steers[o].project = g.steers[o].project
            /\ n.steers[o].run = g.steers[o].run
            /\ n.steers[o].state = IF g.steers[o].run \in U
                                   THEN SettledState(g.steers[o].state)
                                   ELSE g.steers[o].state
      /\ DOMAIN n.items = DOMAIN g.items \cup PromotedBy(g, U)
      /\ \A o \in DOMAIN g.items : n.items[o] = g.items[o]
      /\ \A o \in PromotedBy(g, U) : Promoted(n.items[o], g.steers[o].project, g.steers[o].run)
      /\ n.items \in [DOMAIN n.items -> ItemRecord]
  <2>1. PromotedBy(g, U) \cap DOMAIN g.items = {}
    BY <1>2
  <2>2. /\ DOMAIN g = Fields /\ g.steers \in [DOMAIN g.steers -> SteerRecord]
        /\ g.items \in [DOMAIN g.items -> ItemRecord]
    BY <1>1
  <2>. QED
    <3>1. Promotion(g, U, n)
      BY <1>3, <1>4, <2>1, <2>2, PromoteShape
    <3>. QED
      BY <3>1 DEF Promotion
<1>6. /\ n.nextOrdinal = g.nextOrdinal /\ n.removeAfterStop = g.removeAfterStop
      /\ n.reviewBlocked = g.reviewBlocked /\ n.ex = g.ex
      /\ n.runs = g.runs /\ n.children = g.children
  BY <1>5 DEF Same, Fields
<1>7. \A o \in DOMAIN b.steers :
        /\ n.steers[o].project = b.steers[o].project
        /\ n.steers[o].run = b.steers[o].run
        /\ n.steers[o].state = SettledState(b.steers[o].state)
  <2>. TAKE o \in DOMAIN b.steers
  <2>1. b.steers[o].run \notin U => SettledState(b.steers[o].state) = b.steers[o].state
    BY <1>2 DEF SettledState
  <2>. QED
    BY <1>1, <1>5, <2>1
<1>8. n.items \in [(DOMAIN b.items \ RemovedOnOpen(b)) \cup PendingSteers(b) -> ItemRecord]
  BY <1>1, <1>2, <1>5
<1>9. /\ \A o \in DOMAIN b.items \ (RemovedOnOpen(b) \cup ActiveRuns(b)) : n.items[o] = b.items[o]
      /\ \A o \in ActiveRuns(b) \ RemovedOnOpen(b) :
            n.items[o] = [b.items[o] EXCEPT !.state = "Interrupted", !.blocked = "None"]
  <2>1. ActiveRuns(b) \subseteq DOMAIN b.items
    BY GoodFacts DEF ActiveRuns
  <2>. QED
    BY <1>1, <1>5, <2>1 DEF FinalizedBook
<1>10. \A o \in PendingSteers(b) : Promoted(n.items[o], b.steers[o].project, b.steers[o].run)
  BY <1>1, <1>2, <1>5
<1>11. n.steers \in [DOMAIN b.steers -> SteerRecord]
  BY <1>1, <1>5
<1>12. /\ n.nextOrdinal = b.nextOrdinal
       /\ n.removeAfterStop = {}
       /\ n.reviewBlocked = b.reviewBlocked \cup ChildReviewProjects(b)
       /\ n.ex = EmptyBook
       /\ n.runs \in [DOMAIN b.runs \ RemovedOnOpen(b) -> RunRecord]
       /\ \A r \in DOMAIN b.runs \ (RemovedOnOpen(b) \cup ActiveRuns(b)) : n.runs[r] = b.runs[r]
       /\ \A r \in ActiveRuns(b) \ RemovedOnOpen(b) :
            n.runs[r] = [b.runs[r] EXCEPT !.state = "Interrupted"]
  BY ZenonT(40), <1>6 DEF FinalizedBook
<1>13. /\ DOMAIN n.children = {c \in DOMAIN b.children : b.children[c].parent \notin RemovedOnOpen(b)}
       /\ n.children \in [DOMAIN n.children -> ChildRecord(roles)]
       /\ \A c \in DOMAIN n.children \ ActiveChildren(b) : n.children[c] = b.children[c]
       /\ \A c \in DOMAIN n.children \cap ActiveChildren(b) :
            n.children[c] = [b.children[c] EXCEPT !.state = "Interrupted"]
  <2>1. /\ DOMAIN g.children = {c \in DOMAIN b.children : b.children[c].parent \notin RemovedOnOpen(b)}
        /\ g.children \in [DOMAIN g.children -> ChildRecord(roles)]
        /\ \A c \in DOMAIN g.children \ ActiveChildren(b) : g.children[c] = b.children[c]
        /\ \A c \in DOMAIN g.children \cap ActiveChildren(b) :
             g.children[c] = [b.children[c] EXCEPT !.state = "Interrupted"]
    BY DEF FinalizedBook
  <2>. QED
    BY <1>6, <2>1
<1>. QED
  BY <1>5, <1>7, <1>8, <1>9, <1>10, <1>11, <1>12, <1>13 DEF Recovered

\* The records of a reopened book differ from the saved ones in their state.
LEMMA RecoveredRecords ==
    ASSUME NEW b, NEW roles, Good(b, roles), NEW n, Recovered(b, n, roles)
    PROVE  /\ \A o \in DOMAIN b.items \ RemovedOnOpen(b) :
                /\ n.items[o].project = b.items[o].project
                /\ n.items[o].transport = b.items[o].transport
                /\ n.items[o].workflow = b.items[o].workflow
                /\ n.items[o].pred = b.items[o].pred
                /\ n.items[o].state = IF o \in ActiveRuns(b) THEN "Interrupted" ELSE b.items[o].state
                /\ n.items[o].blocked = IF o \in ActiveRuns(b) THEN "None" ELSE b.items[o].blocked
           /\ \A r \in DOMAIN b.runs \ RemovedOnOpen(b) :
                /\ n.runs[r].project = b.runs[r].project
                /\ n.runs[r].transport = b.runs[r].transport
                /\ n.runs[r].state = IF r \in ActiveRuns(b) THEN "Interrupted" ELSE b.runs[r].state
           /\ \A c \in DOMAIN n.children :
                /\ c \in DOMAIN b.children
                /\ n.children[c].parent = b.children[c].parent
                /\ n.children[c].project = b.children[c].project
                /\ n.children[c].agent = b.children[c].agent
                /\ n.children[c].role = b.children[c].role
                /\ n.children[c].isolated = b.children[c].isolated
                /\ n.children[c].transport = b.children[c].transport
                /\ n.children[c].predecessor = b.children[c].predecessor
                /\ n.children[c].reviewPending = b.children[c].reviewPending
                /\ n.children[c].state =
                        IF c \in ActiveChildren(b) THEN "Interrupted" ELSE b.children[c].state
<1>1. /\ \A o \in DOMAIN b.items : b.items[o] \in ItemRecord
      /\ \A r \in DOMAIN b.runs : b.runs[r] \in RunRecord
      /\ \A c \in DOMAIN b.children : b.children[c] \in ChildRecord(roles)
  BY GoodFacts
<1>2. ASSUME NEW o \in DOMAIN b.items \ RemovedOnOpen(b)
      PROVE  /\ n.items[o].project = b.items[o].project
             /\ n.items[o].transport = b.items[o].transport
             /\ n.items[o].workflow = b.items[o].workflow
             /\ n.items[o].pred = b.items[o].pred
             /\ n.items[o].state = IF o \in ActiveRuns(b) THEN "Interrupted" ELSE b.items[o].state
             /\ n.items[o].blocked = IF o \in ActiveRuns(b) THEN "None" ELSE b.items[o].blocked
  <2>1. CASE o \in ActiveRuns(b)
    <3>1. n.items[o] = [b.items[o] EXCEPT !.state = "Interrupted", !.blocked = "None"]
      BY <2>1 DEF Recovered
    <3>. QED
      BY <1>1, <2>1, <3>1 DEF ItemRecord
  <2>2. CASE o \notin ActiveRuns(b)
    BY <2>2 DEF Recovered
  <2>. QED
    BY <2>1, <2>2
<1>3. ASSUME NEW r \in DOMAIN b.runs \ RemovedOnOpen(b)
      PROVE  /\ n.runs[r].project = b.runs[r].project
             /\ n.runs[r].transport = b.runs[r].transport
             /\ n.runs[r].state = IF r \in ActiveRuns(b) THEN "Interrupted" ELSE b.runs[r].state
  <2>1. CASE r \in ActiveRuns(b)
    <3>1. n.runs[r] = [b.runs[r] EXCEPT !.state = "Interrupted"]
      BY <2>1 DEF Recovered
    <3>. QED
      BY <1>1, <2>1, <3>1 DEF RunRecord
  <2>2. CASE r \notin ActiveRuns(b)
    BY <2>2 DEF Recovered
  <2>. QED
    BY <2>1, <2>2
<1>4. ASSUME NEW c \in DOMAIN n.children
      PROVE  /\ c \in DOMAIN b.children
             /\ n.children[c].parent = b.children[c].parent
             /\ n.children[c].project = b.children[c].project
             /\ n.children[c].agent = b.children[c].agent
             /\ n.children[c].role = b.children[c].role
             /\ n.children[c].isolated = b.children[c].isolated
             /\ n.children[c].transport = b.children[c].transport
             /\ n.children[c].predecessor = b.children[c].predecessor
             /\ n.children[c].reviewPending = b.children[c].reviewPending
             /\ n.children[c].state =
                    IF c \in ActiveChildren(b) THEN "Interrupted" ELSE b.children[c].state
  <2>1. c \in DOMAIN b.children
    BY DEF Recovered
  <2>2. CASE c \in ActiveChildren(b)
    <3>1. n.children[c] = [b.children[c] EXCEPT !.state = "Interrupted"]
      BY <2>2 DEF Recovered
    <3>. QED
      BY <1>1, <2>1, <2>2, <3>1 DEF ChildRecord
  <2>3. CASE c \notin ActiveChildren(b)
    <3>1. n.children[c] = b.children[c]
      BY <2>3 DEF Recovered
    <3>. QED
      BY <2>1, <2>3, <3>1
  <2>. QED
    BY <2>2, <2>3
<1>. QED
  BY <1>2, <1>3, <1>4

\* A new process has no leases.
LEMMA EmptyLeases ==
    ASSUME NEW roles
    PROVE  /\ LeasesOK(EmptyBook, roles)
           /\ DOMAIN EmptyBook.members = {} /\ DOMAIN EmptyBook.budgets = {}
           /\ HeldRuns(EmptyBook) = {} /\ Roots(EmptyBook) = {}
           /\ Validate(EmptyBook)
<1>1. /\ EmptyBook = [members |-> EmptyBook.members, budgets |-> EmptyBook.budgets]
      /\ DOMAIN EmptyBook.members = {} /\ DOMAIN EmptyBook.budgets = {}
      /\ EmptyBook.members = [r \in {} |-> 0] /\ EmptyBook.budgets = [p \in {} |-> 0]
  BY DEF EmptyBook
<1>2. /\ EmptyBook.members \in [DOMAIN EmptyBook.members -> LeaseRecord(roles)]
      /\ EmptyBook.budgets \in [DOMAIN EmptyBook.budgets -> BudgetRecord]
  BY <1>1
<1>3. HeldRuns(EmptyBook) = {} /\ Roots(EmptyBook) = {}
  BY <1>1 DEF HeldRuns, Roots
<1>4. MaxEntries >= 0
  BY LeaseBookAssumption DEF MaxEntries
<1>5. LeasesBounded(EmptyBook) /\ FamiliesBounded(EmptyBook) /\ EntriesBounded(EmptyBook)
  BY <1>1, <1>3, <1>4, FS_EmptySet, LeaseBookAssumption
  DEF LeasesBounded, FamiliesBounded, EntriesBounded
<1>6. Validate(EmptyBook)
  BY <1>1, <1>3, <1>5
  DEF Validate, OneFamilyPerProject, WaitsOrdered, ParentsWellFormed,
      ChildrenWellFormed, HoldersIsolated, BudgetsWellFormed
<1>. QED
  BY <1>1, <1>2, <1>3, <1>6 DEF LeasesOK

\* What open() leaves to the rest of the system: nothing is active, nothing
\* holds a lease, pending changes are kept and block their project.
LEMMA RecoverEffect ==
    ASSUME NEW b, NEW roles, Good(b, roles), NEW n, Recovered(b, n, roles)
    PROVE  /\ BookTypeOK(n, roles)
           /\ ActiveRuns(n) = {}
           /\ ActiveChildren(n) = {}
           /\ PendingSteers(n) = {}
           /\ HeldRuns(n.ex) = {}
           /\ ReviewHeld(n)
           /\ PendingKept(b, n)
<1>1. /\ n = [f \in Fields |-> n[f]]
      /\ n.nextOrdinal = b.nextOrdinal
      /\ n.reviewBlocked = b.reviewBlocked \cup ChildReviewProjects(b)
      /\ n.ex = EmptyBook
      /\ DOMAIN n.steers = DOMAIN b.steers /\ n.steers \in [DOMAIN n.steers -> SteerRecord]
      /\ DOMAIN n.items = (DOMAIN b.items \ RemovedOnOpen(b)) \cup PendingSteers(b)
      /\ n.items \in [DOMAIN n.items -> ItemRecord]
      /\ DOMAIN n.runs = DOMAIN b.runs \ RemovedOnOpen(b)
      /\ n.runs \in [DOMAIN n.runs -> RunRecord]
      /\ n.children \in [DOMAIN n.children -> ChildRecord(roles)]
  BY DEF Recovered
<1>2. DOMAIN n.children = {c \in DOMAIN b.children : b.children[c].parent \notin RemovedOnOpen(b)}
  BY DEF Recovered
<1>3. /\ b.nextOrdinal \in Nat
      /\ DOMAIN b.children \subseteq 1 .. b.nextOrdinal - 1
      /\ b.reviewBlocked \subseteq Projects
      /\ \A o \in DOMAIN b.items : b.items[o].blocked = "Hold" => ~b.items[o].auto
  BY DEF Good, BookTypeOK
<1>4. ChildReviewProjects(b) \subseteq Projects
  <2>1. \A c \in DOMAIN b.children : b.children[c].project \in Projects
    BY GoodFacts DEF ChildRecord
  <2>. QED
    BY <2>1 DEF ChildReviewProjects
<1>5. \A o \in DOMAIN n.items : n.items[o].blocked = "Hold" => ~n.items[o].auto
  <2>. TAKE o \in DOMAIN n.items
  <2>1. CASE o \in PendingSteers(b)
    BY <2>1 DEF Recovered, Promoted
  <2>2. CASE o \notin PendingSteers(b) /\ o \in ActiveRuns(b)
    BY <1>1, <2>2, RecoveredRecords
  <2>3. CASE o \notin PendingSteers(b) /\ o \notin ActiveRuns(b)
    <3>1. o \in DOMAIN b.items \ (RemovedOnOpen(b) \cup ActiveRuns(b))
      BY <1>1, <2>3
    <3>2. n.items[o] = b.items[o]
      BY <3>1 DEF Recovered
    <3>. QED
      BY <1>3, <3>1, <3>2
  <2>. QED
    BY <2>1, <2>2, <2>3
<1>6. LeasesOK(n.ex, roles) /\ HeldRuns(n.ex) = {}
  BY <1>1, EmptyLeases
<1>7. BookTypeOK(n, roles)
  <2>1. DOMAIN n.children \subseteq 1 .. n.nextOrdinal - 1
    BY <1>1, <1>2, <1>3
  <2>. QED
    BY <1>1, <1>3, <1>4, <1>5, <1>6, <2>1 DEF BookTypeOK, Fields, LeasesOK
<1>8. ActiveRuns(n) = {}
  <2>. SUFFICES ASSUME NEW r \in DOMAIN n.runs PROVE n.runs[r].state \notin ActiveRunStates
    BY DEF ActiveRuns
  <2>1. n.runs[r].state = IF r \in ActiveRuns(b) THEN "Interrupted" ELSE b.runs[r].state
    BY <1>1, RecoveredRecords
  <2>. QED
    BY <1>1, <2>1 DEF ActiveRuns, ActiveRunStates
<1>9. ActiveChildren(n) = {}
  <2>. SUFFICES ASSUME NEW c \in DOMAIN n.children PROVE n.children[c].state \notin ActiveChildStates
    BY DEF ActiveChildren
  <2>1. n.children[c].state = IF c \in ActiveChildren(b) THEN "Interrupted" ELSE b.children[c].state
    BY RecoveredRecords
  <2>. QED
    BY <1>2, <2>1 DEF ActiveChildren, ActiveChildStates
<1>10. PendingSteers(n) = {}
  <2>1. \A o \in DOMAIN b.steers : n.steers[o].state = SettledState(b.steers[o].state)
    BY DEF Recovered
  <2>. QED
    BY <1>1, <2>1 DEF PendingSteers, SettledState
<1>11. PendingKept(b, n)
  <2>. SUFFICES ASSUME NEW c \in DOMAIN b.children, b.children[c].reviewPending
                PROVE  b.children[c].parent \notin RemovedOnOpen(b)
    BY <1>2 DEF PendingKept
  <2>. QED
    BY DEF RemovedOnOpen, ReviewPendingOf
<1>12. ReviewHeld(n)
  <2>. SUFFICES ASSUME NEW c \in DOMAIN n.children, n.children[c].reviewPending
                PROVE  n.children[c].project \in n.reviewBlocked
    BY DEF ReviewHeld
  <2>1. /\ c \in DOMAIN b.children /\ b.children[c].reviewPending
        /\ n.children[c].project = b.children[c].project
    BY RecoveredRecords
  <2>2. b.children[c].project \in ChildReviewProjects(b)
    BY <2>1 DEF ChildReviewProjects
  <2>. QED
    BY <1>1, <2>1, <2>2
<1>. QED
  BY <1>6, <1>7, <1>8, <1>9, <1>10, <1>11, <1>12

-----------------------------------------------------------------------------
(* validate_book() accepts what open() and complete_run() leave *)

\* A good book holds finitely many records.
LEMMA GoodFinite ==
    ASSUME NEW b, NEW roles, Good(b, roles)
    PROVE  /\ IsFiniteSet(DOMAIN b.items)
           /\ IsFiniteSet(PendingSteers(b))
           /\ IsFiniteSet(DOMAIN b.children)
           /\ IsFiniteSet(ActiveRuns(b))
           /\ IsFiniteSet(ActiveProjects(b))
           /\ IsFiniteSet(DOMAIN b.ex.members)
<1>. DEFINE N == 1 .. b.nextOrdinal - 1
<1>1. b.nextOrdinal \in Nat
  BY GoodFacts
<1>2. IsFiniteSet(N)
  BY <1>1, FS_Interval
<1>3. /\ DOMAIN b.items \subseteq N /\ DOMAIN b.steers \subseteq N
      /\ DOMAIN b.children \subseteq N
  BY DEF Good, BookTypeOK, ValidateBook, ItemsValid, SteeringValid
<1>4. \A r \in DOMAIN b.runs : r \in DOMAIN b.items
  BY GoodFacts
<1>5. ActiveRuns(b) \subseteq N /\ PendingSteers(b) \subseteq N
  BY <1>3, <1>4 DEF ActiveRuns, PendingSteers
<1>6. DOMAIN b.ex.members \subseteq N
  <2>. SUFFICES ASSUME NEW m \in DOMAIN b.ex.members PROVE m \in N
    OBVIOUS
  <2>1. CASE IsChild(b.ex.members[m])
    BY <1>3, <2>1 DEF Good, ValidateBook, BindingsValid
  <2>2. CASE ~IsChild(b.ex.members[m])
    <3>1. m \in Roots(b.ex)
      BY <2>2 DEF Good, ValidateBook, BindingsValid, Validate, ParentsWellFormed, Roots
    <3>. QED
      BY <1>5, <3>1 DEF Good, ValidateBook, BindingsValid
  <2>. QED
    BY <2>1, <2>2
<1>. HIDE DEF N
<1>7. /\ IsFiniteSet(DOMAIN b.items) /\ IsFiniteSet(PendingSteers(b))
      /\ IsFiniteSet(DOMAIN b.children) /\ IsFiniteSet(ActiveRuns(b))
      /\ IsFiniteSet(DOMAIN b.ex.members)
  BY <1>2, <1>3, <1>5, <1>6, FS_Subset
<1>8. IsFiniteSet(ActiveProjects(b))
  <2>. DEFINE image == [r \in ActiveRuns(b) |-> b.runs[r].project]
  <2>1. image \in Surjection(ActiveRuns(b), ActiveProjects(b))
    BY DEF Surjection, ActiveProjects
  <2>. QED
    BY <1>7, <2>1, FS_Surjection
<1>. QED
  BY <1>7, <1>8

\* The slot every pending steering message keeps is enough for its promotion:
\* S are items of the book, P its promoted messages.
LEMMA PromotionFits ==
    ASSUME NEW b, NEW roles, Good(b, roles), NEW S, S \subseteq DOMAIN b.items,
           NEW P, P \subseteq PendingSteers(b)
    PROVE  /\ IsFiniteSet(S \cup P)
           /\ Cardinality(S) + Cardinality(PendingSteers(b)) <= MaxQueueItems
           /\ Cardinality(S \cup P) + Cardinality(PendingSteers(b) \ P) <= MaxQueueItems
           /\ Cardinality(S) \in Nat /\ Cardinality(PendingSteers(b)) \in Nat
<1>. DEFINE A == DOMAIN b.items
            Q == PendingSteers(b)
<1>1. IsFiniteSet(A) /\ IsFiniteSet(Q)
  BY GoodFinite
<1>2. Cardinality(A) + Cardinality(Q) <= MaxQueueItems
  BY DEF Good, ValidateBook, CountsValid
<1>3. A \cap Q = {}
  BY PendingNotQueued
<1>. HIDE DEF A, Q
<1>4. S \subseteq A /\ P \subseteq Q
  BY DEF A, Q
<1>5. /\ IsFiniteSet(S) /\ IsFiniteSet(P) /\ IsFiniteSet(Q \ P)
      /\ Cardinality(S) <= Cardinality(A)
  BY <1>1, <1>4, FS_Subset
<1>6. /\ Cardinality(S) \in Nat /\ Cardinality(P) \in Nat /\ Cardinality(A) \in Nat
      /\ Cardinality(Q) \in Nat /\ Cardinality(Q \ P) \in Nat
  BY <1>1, <1>5, FS_CardinalityType
<1>7. IsFiniteSet(S \cup P) /\ Cardinality(S \cup P) = Cardinality(S) + Cardinality(P)
  <2>1. S \cap P = {}
    BY <1>3, <1>4
  <2>2. /\ IsFiniteSet(S \cup P)
        /\ Cardinality(S \cup P) = Cardinality(S) + Cardinality(P) - Cardinality(S \cap P)
    BY <1>5, FS_Union
  <2>3. Cardinality(S \cap P) = 0
    BY <2>1, FS_EmptySet
  <2>. QED
    BY <1>6, <2>2, <2>3
<1>8. Cardinality(Q) = Cardinality(P) + Cardinality(Q \ P)
  <2>1. Q = P \cup (Q \ P) /\ P \cap (Q \ P) = {}
    BY <1>4
  <2>2. Cardinality(P \cup (Q \ P)) = Cardinality(P) + Cardinality(Q \ P) - Cardinality(P \cap (Q \ P))
    BY <1>5, FS_Union
  <2>3. Cardinality(P \cap (Q \ P)) = 0
    BY <2>1, FS_EmptySet
  <2>4. Cardinality(Q) = Cardinality(P \cup (Q \ P))
    BY <2>1
  <2>. QED
    BY <1>6, <2>2, <2>3, <2>4
<1>9. /\ Cardinality(S) + Cardinality(Q) <= MaxQueueItems
      /\ Cardinality(S \cup P) + Cardinality(Q \ P) <= MaxQueueItems
  BY <1>2, <1>5, <1>6, <1>7, <1>8, QueueBookAssumption
<1>. QED
  BY <1>6, <1>7, <1>9 DEF Q

\* open() can settle the steering of the runs it found interrupted.
LEMMA RecoverSteersNeverRefused ==
    ASSUME NEW b, NEW roles, Good(b, roles), NoSteeredRemoval(b),
           NEW g, FinalizedBook(b, g, roles)
    PROVE  RecoverSteersOk(g)
<1>1. /\ PendingSteers(g) = PendingSteers(b)
      /\ PendingSteers(b) \cap DOMAIN g.items = {}
  BY FinalizedPromotes
<1>2. DOMAIN g.items \subseteq DOMAIN b.items
  BY DEF FinalizedBook
<1>3. /\ Cardinality(DOMAIN g.items) + Cardinality(PendingSteers(b)) <= MaxQueueItems
      /\ Cardinality(DOMAIN g.items) \in Nat /\ Cardinality(PendingSteers(b)) \in Nat
  <2>1. {} \subseteq PendingSteers(b)
    OBVIOUS
  <2>. QED
    BY <1>2, <2>1, PromotionFits
<1>4. Cardinality(DOMAIN g.items) + Cardinality(PendingSteers(g)) - 1 < MaxQueueItems
  BY <1>1, <1>3, QueueBookAssumption
<1>. QED
  BY <1>1, <1>4 DEF RecoverSteersOk, PromoteOk

\* validate_book() accepts the reopened book.
LEMMA RecoveredValid ==
    ASSUME NEW b, NEW roles, Good(b, roles), NoSteeredRemoval(b),
           NEW n, Recovered(b, n, roles)
    PROVE  ValidateBook(n)
<1>. DEFINE X == RemovedOnOpen(b)
<1>1. /\ n.nextOrdinal = b.nextOrdinal /\ n.removeAfterStop = {} /\ n.ex = EmptyBook
      /\ DOMAIN n.steers = DOMAIN b.steers
      /\ DOMAIN n.items = (DOMAIN b.items \ X) \cup PendingSteers(b)
      /\ DOMAIN n.runs = DOMAIN b.runs \ X
  BY DEF Recovered
<1>2. DOMAIN n.children = {c \in DOMAIN b.children : b.children[c].parent \notin X}
  BY DEF Recovered
<1>3. ActiveRuns(n) = {} /\ ActiveChildren(n) = {} /\ PendingSteers(n) = {}
  BY RecoverEffect
<1>4. \A o \in DOMAIN b.items \ X :
                /\ n.items[o].project = b.items[o].project
                /\ n.items[o].transport = b.items[o].transport
                /\ n.items[o].workflow = b.items[o].workflow
                /\ n.items[o].pred = b.items[o].pred
                /\ n.items[o].state = IF o \in ActiveRuns(b) THEN "Interrupted" ELSE b.items[o].state
                /\ n.items[o].blocked = IF o \in ActiveRuns(b) THEN "None" ELSE b.items[o].blocked
  BY RecoveredRecords
<1>5. \A r \in DOMAIN b.runs \ X :
                /\ n.runs[r].project = b.runs[r].project
                /\ n.runs[r].transport = b.runs[r].transport
                /\ n.runs[r].state = IF r \in ActiveRuns(b) THEN "Interrupted" ELSE b.runs[r].state
  BY RecoveredRecords
<1>6. \A o \in PendingSteers(b) :
                /\ n.items[o].project = b.steers[o].project
                /\ n.items[o].pred = b.steers[o].run
                /\ n.items[o].workflow = "None"
                /\ n.items[o].state = "Queued"
                /\ n.items[o].blocked = "None"
  BY DEF Recovered, Promoted
<1>7. \A o \in DOMAIN b.steers :
        /\ n.steers[o].project = b.steers[o].project
        /\ n.steers[o].run = b.steers[o].run
        /\ n.steers[o].state = SettledState(b.steers[o].state)
  BY DEF Recovered
<1>8. PendingSteers(b) \cap DOMAIN b.items = {}
  BY PendingNotQueued
<1>9. \A o \in DOMAIN b.steers : b.steers[o].run \in DOMAIN b.runs \ X
  BY GoodFacts DEF NoSteeredRemoval
<1>. HIDE DEF X
<1>10. CountsValid(n)
  <2>1. /\ Cardinality(DOMAIN n.items) + Cardinality(PendingSteers(b) \ PendingSteers(b)) <= MaxQueueItems
    BY <1>1, PromotionFits
  <2>2. PendingSteers(b) \ PendingSteers(b) = PendingSteers(n)
    BY <1>3
  <2>. QED
    BY <1>1, <2>1, <2>2 DEF Good, ValidateBook, CountsValid
<1>11. ItemsValid(n)
  <2>1. ASSUME NEW o \in DOMAIN n.items
        PROVE  /\ o \in 1 .. n.nextOrdinal - 1
               /\ ~IsChat(n, o) =>
                    /\ n.items[o].pred = NoRun
                    /\ \A p \in DOMAIN n.items :
                            n.items[p].workflow = n.items[o].workflow => p = o
               /\ n.items[o].blocked # "None" => o \in Queued(n)
    <3>1. CASE o \in PendingSteers(b)
      <4>1. o \in 1 .. n.nextOrdinal - 1
        BY <1>1, <3>1 DEF PendingSteers, Good, ValidateBook, SteeringValid
      <4>. QED
        BY <1>6, <3>1, <4>1 DEF IsChat
    <3>2. CASE o \notin PendingSteers(b)
      <4>1. o \in DOMAIN b.items \ X
        BY <1>1, <3>2
      <4>2. /\ o \in 1 .. b.nextOrdinal - 1
            /\ ~IsChat(b, o) =>
                    /\ b.items[o].pred = NoRun
                    /\ \A p \in DOMAIN b.items :
                            b.items[p].workflow = b.items[o].workflow => p = o
            /\ b.items[o].blocked # "None" => o \in Queued(b)
        BY <4>1 DEF Good, ValidateBook, ItemsValid
      <4>3. ~IsChat(n, o) => ~IsChat(b, o)
        BY <1>4, <4>1 DEF IsChat
      <4>4. ~IsChat(n, o) => \A p \in DOMAIN n.items :
                                n.items[p].workflow = n.items[o].workflow => p = o
        BY <1>1, <1>4, <1>6, <4>1, <4>2, <4>3 DEF IsChat
      <4>5. n.items[o].blocked # "None" => o \in Queued(n)
        BY <1>1, <1>4, <4>1, <4>2 DEF Queued
      <4>. QED
        BY <1>1, <1>4, <4>1, <4>2, <4>3, <4>4, <4>5
    <3>. QED
      BY <3>1, <3>2
  <2>. QED
    BY <1>1, <2>1 DEF ItemsValid
<1>12. SteeringValid(n)
  <2>. SUFFICES ASSUME NEW o \in DOMAIN b.steers
                PROVE  /\ o \in 1 .. n.nextOrdinal - 1
                       /\ n.steers[o].run \in DOMAIN n.runs
                       /\ n.runs[n.steers[o].run].project = n.steers[o].project
                       /\ n.steers[o].state # "Pending"
                       /\ o \in DOMAIN n.items =>
                            /\ n.steers[o].state = "PromotedToNext"
                            /\ n.items[o].project = n.steers[o].project
                            /\ n.items[o].pred = n.steers[o].run
    BY <1>1 DEF SteeringValid
  <2>1. /\ o \in 1 .. b.nextOrdinal - 1
        /\ b.runs[b.steers[o].run].project = b.steers[o].project
        /\ o \in DOMAIN b.items =>
            /\ b.steers[o].state = "PromotedToNext"
            /\ b.items[o].project = b.steers[o].project
            /\ b.items[o].pred = b.steers[o].run
    BY DEF Good, ValidateBook, SteeringValid
  <2>2. n.steers[o].state # "Pending"
    BY <1>7 DEF SettledState
  <2>3. /\ n.steers[o].run \in DOMAIN n.runs
        /\ n.runs[n.steers[o].run].project = n.steers[o].project
    BY <1>1, <1>5, <1>7, <1>9, <2>1
  <2>4. CASE o \in PendingSteers(b)
    <3>1. n.steers[o].state = "PromotedToNext"
      BY <1>7, <2>4 DEF SettledState, PendingSteers
    <3>. QED
      BY <1>1, <1>6, <1>7, <2>1, <2>2, <2>3, <2>4, <3>1
  <2>5. CASE o \notin PendingSteers(b)
    <3>1. o \in DOMAIN n.items => o \in DOMAIN b.items \ X
      BY <1>1, <2>5
    <3>2. o \in DOMAIN n.items => n.steers[o].state = "PromotedToNext"
      BY <1>7, <2>1, <3>1 DEF SettledState
    <3>. QED
      BY <1>1, <1>4, <1>7, <2>1, <2>2, <2>3, <3>1, <3>2
  <2>. QED
    BY <2>4, <2>5
<1>13. RunsValid(n)
  <2>1. \A r \in DOMAIN n.runs :
          /\ r \in DOMAIN n.items
          /\ n.items[r].project = n.runs[r].project
          /\ n.items[r].transport = n.runs[r].transport
    <3>1. \A r \in DOMAIN b.runs :
            /\ r \in DOMAIN b.items
            /\ b.items[r].project = b.runs[r].project
            /\ b.items[r].transport = b.runs[r].transport
      BY DEF Good, ValidateBook, RunsValid
    <3>. QED
      BY <1>1, <1>4, <1>5, <3>1
  <2>2. ActiveProjects(n) = {}
    BY <1>3 DEF ActiveProjects
  <2>3. Cardinality(ActiveProjects(n)) <= MaxGlobalRuns
    BY <2>2, FS_EmptySet, QueueBookAssumption
  <2>. QED
    BY <1>3, <2>1, <2>3 DEF RunsValid
<1>14. ItemRunStates(n)
  <2>. SUFFICES ASSUME NEW o \in DOMAIN n.items
                PROVE  IF o \in DOMAIN n.runs THEN n.items[o].state = n.runs[o].state
                       ELSE n.items[o].state = "Queued"
    BY <1>3 DEF ItemRunStates
  <2>1. CASE o \in PendingSteers(b)
    <3>1. o \notin DOMAIN n.runs
      BY <1>1, <1>8, <2>1, GoodFacts
    <3>. QED
      BY <1>6, <2>1, <3>1
  <2>2. CASE o \notin PendingSteers(b)
    <3>1. o \in DOMAIN b.items \ X
      BY <1>1, <2>2
    <3>2. IF o \in DOMAIN b.runs
          THEN b.items[o].state = IF o \in ActiveRuns(b) THEN "Running" ELSE b.runs[o].state
          ELSE b.items[o].state = "Queued"
      BY <3>1 DEF Good, ValidateBook, ItemRunStates
    <3>3. ActiveRuns(b) \subseteq DOMAIN b.runs
      BY DEF ActiveRuns
    <3>. QED
      BY <1>1, <1>4, <1>5, <3>1, <3>2, <3>3
  <2>. QED
    BY <2>1, <2>2
<1>15. ChildrenValid(n)
  <2>1. Cardinality(DOMAIN n.children) <= MaxChildRecords
    <3>1. /\ Cardinality(DOMAIN b.children) <= MaxChildRecords
          /\ IsFiniteSet(DOMAIN b.children)
      BY GoodFinite DEF Good, ValidateBook, ChildrenValid
    <3>2. DOMAIN n.children \subseteq DOMAIN b.children
      BY <1>2
    <3>3. /\ Cardinality(DOMAIN n.children) <= Cardinality(DOMAIN b.children)
          /\ IsFiniteSet(DOMAIN n.children)
      BY <3>1, <3>2, FS_Subset
    <3>4. Cardinality(DOMAIN n.children) \in Nat /\ Cardinality(DOMAIN b.children) \in Nat
      BY <3>1, <3>3, FS_CardinalityType
    <3>. QED
      BY <3>1, <3>3, <3>4, QueueBookAssumption
  <2>2. \A c \in DOMAIN n.children :
                /\ c \in DOMAIN b.children
                /\ n.children[c].parent = b.children[c].parent
                /\ n.children[c].project = b.children[c].project
                /\ n.children[c].agent = b.children[c].agent
                /\ n.children[c].role = b.children[c].role
                /\ n.children[c].isolated = b.children[c].isolated
                /\ n.children[c].transport = b.children[c].transport
                /\ n.children[c].predecessor = b.children[c].predecessor
                /\ n.children[c].reviewPending = b.children[c].reviewPending
                /\ n.children[c].state =
                        IF c \in ActiveChildren(b) THEN "Interrupted" ELSE b.children[c].state
    BY RecoveredRecords
  <2>3. DOMAIN n.ex.members = {}
    BY <1>1, EmptyLeases
  <2>4. ASSUME NEW c \in DOMAIN n.children
        PROVE  LET child == n.children[c]
               IN  /\ c \notin DOMAIN n.runs
                   /\ child.state = "NeedsReview" \/ child.reviewPending => child.role = "Worker"
                   /\ child.parent \in DOMAIN n.runs
                   /\ child.project = n.runs[child.parent].project
                   /\ child.transport = n.runs[child.parent].transport
    <3>1. /\ c \in DOMAIN b.children
          /\ c \notin DOMAIN b.runs
          /\ b.children[c].state = "NeedsReview" \/ b.children[c].reviewPending
                => b.children[c].role = "Worker"
          /\ b.children[c].parent \in DOMAIN b.runs
          /\ b.children[c].project = b.runs[b.children[c].parent].project
          /\ b.children[c].transport = b.runs[b.children[c].parent].transport
      BY <2>2 DEF Good, ValidateBook, ChildrenValid
    <3>2. b.children[c].parent \in DOMAIN b.runs \ X
      BY <1>2, <3>1
    <3>. QED
      BY <1>1, <1>5, <2>2, <3>1, <3>2
  <2>5. ASSUME NEW c \in DOMAIN n.children
        PROVE  LET child == n.children[c]
               IN  IF child.predecessor = NoRun
                   THEN child.agent = c
                   ELSE /\ child.predecessor \in DOMAIN n.children \ {c}
                        /\ LET previous == n.children[child.predecessor]
                           IN  /\ previous.state \notin ActiveChildStates \cup {"Interrupted"}
                               /\ previous.parent = child.parent
                               /\ previous.agent = child.agent
                               /\ previous.role = child.role
                               /\ previous.isolated = child.isolated
                        /\ \A d \in DOMAIN n.children :
                                n.children[d].predecessor = child.predecessor => d = c
    <3>. DEFINE p == b.children[c].predecessor
    <3>1. c \in DOMAIN b.children /\ b.children[c].parent \notin X /\ n.children[c].predecessor = p
      BY <1>2, <2>2
    <3>2. IF p = NoRun
          THEN b.children[c].agent = c
          ELSE /\ p \in DOMAIN b.children \ {c}
               /\ b.children[p].state \notin ActiveChildStates \cup {"Interrupted"}
               /\ b.children[p].parent = b.children[c].parent
               /\ b.children[p].agent = b.children[c].agent
               /\ b.children[p].role = b.children[c].role
               /\ b.children[p].isolated = b.children[c].isolated
               /\ \A d \in DOMAIN b.children : b.children[d].predecessor = p => d = c
      BY <3>1 DEF Good, ValidateBook, ChildrenValid
    <3>. HIDE DEF p
    <3>3. CASE p = NoRun
      BY <2>2, <3>1, <3>2, <3>3
    <3>4. CASE p # NoRun
      <4>1. p \in DOMAIN n.children \ {c} /\ p \notin ActiveChildren(b)
        BY <1>2, <3>1, <3>2, <3>4 DEF ActiveChildren
      <4>2. /\ n.children[p].state = b.children[p].state
            /\ n.children[p].parent = n.children[c].parent
            /\ n.children[p].agent = n.children[c].agent
            /\ n.children[p].role = n.children[c].role
            /\ n.children[p].isolated = n.children[c].isolated
        BY <2>2, <3>2, <3>4, <4>1
      <4>3. \A d \in DOMAIN n.children : n.children[d].predecessor = p => d = c
        BY <2>2, <3>2, <3>4
      <4>. QED
        BY <3>1, <3>2, <3>4, <4>1, <4>2, <4>3
    <3>. QED
      BY <3>3, <3>4
  <2>. QED
    BY <1>3, <2>1, <2>3, <2>4, <2>5 DEF ChildrenValid
<1>16. BindingsValid(n)
  <2>1. Validate(n.ex) /\ Roots(n.ex) = {} /\ DOMAIN n.ex.members = {}
    BY <1>1, EmptyLeases
  <2>. QED
    BY <1>3, <2>1 DEF BindingsValid
<1>. QED
  BY <1>10, <1>11, <1>12, <1>13, <1>14, <1>15, <1>16 DEF ValidateBook

\* Finishing a parent takes out a whole family and leaves the others alone.
LEMMA FinishParentValid ==
    ASSUME NEW e, NEW roles, LeasesOK(e, roles), Validate(e), IsFiniteSet(DOMAIN e.members),
           NEW r \in DOMAIN e.members, ~IsChild(e.members[r]),
           NEW f, f = FinishTo(e, r)
    PROVE  Validate(f)
<1>1. FamilyRemoved(e, f, r)
  BY FinishParentEffect DEF FamilyRemoved
<1>2. Sized(e)
  BY DEF LeasesOK, BudgetRecord, Sized
<1>. QED
  BY <1>1, <1>2, FamilyRemovedValid

\* complete_run() can settle the steering of its run.
LEMMA CompletionSettles ==
    ASSUME NEW b, NEW roles, Good(b, roles), NEW r \in ActiveRuns(b), FinishOk(b.ex, r, TRUE)
    PROVE  CompleteRunOk(b, r)
<1>1. /\ Cardinality(DOMAIN b.items) + Cardinality(PendingSteers(b)) <= MaxQueueItems
      /\ Cardinality(DOMAIN b.items) \in Nat /\ Cardinality(PendingSteers(b)) \in Nat
  <2>1. {} \subseteq PendingSteers(b) /\ DOMAIN b.items \subseteq DOMAIN b.items
    OBVIOUS
  <2>. QED
    BY <2>1, PromotionFits
<1>2. Cardinality(DOMAIN b.items) + Cardinality(PendingSteers(b)) - 1 < MaxQueueItems
  BY <1>1, QueueBookAssumption
<1>3. PendingSteers(b) \cap DOMAIN b.items = {}
  BY PendingNotQueued
<1>. QED
  BY <1>2, <1>3 DEF CompleteRunOk, PromoteOk

\* complete_run() and mutate(), record by record.
CompletedBook(b, r, completion, n) ==
    /\ n.removeAfterStop = b.removeAfterStop \ {r}
    /\ n.ex = FinishTo(b.ex, r)
    /\ DOMAIN n.items = (DOMAIN b.items \ RemovedBy(b, r)) \cup PromotedBy(b, {r})
    /\ \A o \in DOMAIN b.items \ {r} : n.items[o] = b.items[o]
    /\ \A o \in PromotedBy(b, {r}) : Promoted(n.items[o], b.steers[o].project, r)
    /\ DOMAIN n.runs = DOMAIN b.runs \ RemovedBy(b, r)
    /\ \A x \in DOMAIN b.runs \ {r} : n.runs[x] = b.runs[x]
    /\ r \notin RemovedBy(b, r) =>
         /\ n.items[r].project = b.items[r].project
         /\ n.items[r].transport = b.items[r].transport
         /\ n.items[r].workflow = b.items[r].workflow
         /\ n.items[r].pred = b.items[r].pred
         /\ n.items[r].state = OutcomeOf(b, r, completion)
         /\ n.items[r].blocked = "None"
         /\ n.runs[r].project = b.runs[r].project
         /\ n.runs[r].transport = b.runs[r].transport
         /\ n.runs[r].state = OutcomeOf(b, r, completion)
    /\ DOMAIN n.steers = DOMAIN b.steers
    /\ \A o \in DOMAIN b.steers :
         /\ n.steers[o].project = b.steers[o].project
         /\ n.steers[o].run = b.steers[o].run
         /\ n.steers[o].state = IF b.steers[o].run = r
                                THEN SettledState(b.steers[o].state)
                                ELSE b.steers[o].state
    /\ DOMAIN n.children = {c \in DOMAIN b.children : b.children[c].parent \notin RemovedBy(b, r)}
    /\ \A c \in DOMAIN n.children : n.children[c] = b.children[c]
    /\ RemovedBy(b, r) \subseteq {r}

\* That is the book complete_run() leaves.
LEMMA CompletedRecords ==
    ASSUME NEW b, NEW roles, Good(b, roles), NEW r, CompleteRunOk(b, r),
           NEW completion \in CompletionStates,
           NEW n, n = RetainChildren(CompleteRunTo(b, r, completion))
    PROVE  CompletedBook(b, r, completion, n)
<1>. DEFINE m == CompleteRunTo(b, r, completion)
            R == RemovedBy(b, r)
            P == PromotedBy(b, {r})
<1>0. n = RetainChildren(m)
  OBVIOUS
<1>1. m = CompleteRunTo(b, r, completion)
  OBVIOUS
<1>2. r \in ActiveRuns(b)
  BY DEF CompleteRunOk
<1>. HIDE DEF m
<1>3. Completed(b, r, completion, m)
  BY <1>1, <1>2, CompleteRunShape
<1>4. /\ m = [f \in Fields |-> m[f]]
      /\ m.children = b.children
      /\ m.removeAfterStop = b.removeAfterStop \ {r}
      /\ m.ex = FinishTo(b.ex, r)
      /\ DOMAIN m.runs = DOMAIN b.runs \ R
      /\ DOMAIN m.items = (DOMAIN b.items \cup P) \ R
      /\ DOMAIN m.steers = DOMAIN b.steers
  BY <1>3 DEF Completed
<1>5. m.children \in [DOMAIN m.children -> ChildRecord(roles)]
  BY <1>4 DEF Good, BookTypeOK
<1>6. /\ n = [f \in Fields |-> n[f]]
      /\ Same(m, n, Fields \ {"children"})
      /\ DOMAIN n.children = {c \in DOMAIN m.children : m.children[c].parent \in DOMAIN m.runs}
      /\ \A c \in DOMAIN n.children : n.children[c] = m.children[c]
      /\ n.children \in [DOMAIN n.children -> ChildRecord(roles)]
  <2>1. DOMAIN m = Fields
    BY <1>4
  <2>. QED
    BY <1>0, <1>5, <2>1, RetainEffect
<1>7. /\ n.removeAfterStop = m.removeAfterStop /\ n.ex = m.ex
      /\ n.items = m.items /\ n.runs = m.runs /\ n.steers = m.steers
  BY <1>6 DEF Same, Fields
<1>8. DOMAIN n.children = {c \in DOMAIN b.children : b.children[c].parent \notin R}
  <2>1. \A c \in DOMAIN b.children : b.children[c].parent \in DOMAIN b.runs
    BY GoodFacts
  <2>2. DOMAIN m.children = DOMAIN b.children /\ DOMAIN m.runs = DOMAIN b.runs \ R
    BY <1>4
  <2>3. DOMAIN n.children = {c \in DOMAIN b.children : b.children[c].parent \in DOMAIN b.runs \ R}
    <3>1. DOMAIN n.children = {c \in DOMAIN m.children : m.children[c].parent \in DOMAIN m.runs}
      BY <1>6
    <3>. QED
      BY <1>4, <2>2, <3>1
  <2>. QED
    BY <2>1, <2>3
<1>9. R \subseteq {r}
  BY DEF RemovedBy
<1>10. r \in DOMAIN b.runs /\ r \in DOMAIN b.items /\ b.items[r] \in ItemRecord /\ b.runs[r] \in RunRecord
  <2>1. r \in DOMAIN b.runs
    BY <1>2 DEF ActiveRuns
  <2>. QED
    BY <2>1, GoodFacts
<1>11. DOMAIN n.items = (DOMAIN b.items \ R) \cup P
  <2>1. P \cap DOMAIN b.items = {}
    BY PendingNotQueued DEF PromotedBy
  <2>. QED
    BY <1>4, <1>7, <1>9, <1>10, <2>1
<1>12. ASSUME r \notin R
       PROVE  /\ n.items[r].project = b.items[r].project
              /\ n.items[r].transport = b.items[r].transport
              /\ n.items[r].workflow = b.items[r].workflow
              /\ n.items[r].pred = b.items[r].pred
              /\ n.items[r].state = OutcomeOf(b, r, completion)
              /\ n.items[r].blocked = "None"
              /\ n.runs[r].project = b.runs[r].project
              /\ n.runs[r].transport = b.runs[r].transport
              /\ n.runs[r].state = OutcomeOf(b, r, completion)
  <2>1. n.items[r] = [b.items[r] EXCEPT !.state = OutcomeOf(b, r, completion), !.blocked = "None"]
    BY <1>3, <1>7, <1>12 DEF Completed
  <2>2. n.runs[r] = [b.runs[r] EXCEPT !.state = OutcomeOf(b, r, completion)]
    BY <1>3, <1>7, <1>12 DEF Completed
  <2>3. /\ n.items[r].project = b.items[r].project
        /\ n.items[r].transport = b.items[r].transport
        /\ n.items[r].workflow = b.items[r].workflow
        /\ n.items[r].pred = b.items[r].pred
        /\ n.items[r].state = OutcomeOf(b, r, completion)
        /\ n.items[r].blocked = "None"
    BY <1>10, <2>1 DEF ItemRecord
  <2>4. /\ n.runs[r].project = b.runs[r].project
        /\ n.runs[r].transport = b.runs[r].transport
        /\ n.runs[r].state = OutcomeOf(b, r, completion)
    BY <1>10, <2>2 DEF RunRecord
  <2>. QED
    BY <2>3, <2>4
<1>13. /\ \A o \in DOMAIN b.items \ {r} : n.items[o] = b.items[o]
       /\ \A o \in P : Promoted(n.items[o], b.steers[o].project, r)
       /\ \A x \in DOMAIN b.runs \ {r} : n.runs[x] = b.runs[x]
       /\ \A o \in DOMAIN b.steers :
            /\ n.steers[o].project = b.steers[o].project
            /\ n.steers[o].run = b.steers[o].run
            /\ n.steers[o].state = IF b.steers[o].run = r
                                   THEN SettledState(b.steers[o].state)
                                   ELSE b.steers[o].state
  <2>1. /\ \A o \in DOMAIN b.items \ {r} : m.items[o] = b.items[o]
        /\ \A o \in P : Promoted(m.items[o], b.steers[o].project, r)
        /\ \A x \in DOMAIN b.runs \ {r} : m.runs[x] = b.runs[x]
        /\ \A o \in DOMAIN b.steers :
             /\ m.steers[o].project = b.steers[o].project
             /\ m.steers[o].run = b.steers[o].run
             /\ m.steers[o].state = IF b.steers[o].run = r
                                    THEN SettledState(b.steers[o].state)
                                    ELSE b.steers[o].state
    BY <1>3 DEF Completed
  <2>. QED
    BY <1>7, <2>1
<1>14. \A c \in DOMAIN n.children : n.children[c] = b.children[c]
  BY <1>4, <1>6
<1>15. /\ n.removeAfterStop = b.removeAfterStop \ {r} /\ n.ex = FinishTo(b.ex, r)
       /\ DOMAIN n.runs = DOMAIN b.runs \ R /\ DOMAIN n.steers = DOMAIN b.steers
  BY <1>4, <1>7
<1>. HIDE DEF P, R
<1>. QED
  BY <1>8, <1>9, <1>11, <1>12, <1>13, <1>14, <1>15 DEF CompletedBook, P, R

\* What ChildrenValid asks of one child: of its run, of the invocation before
\* it and of its lease.
ChildOwned(b, c) ==
    LET child == b.children[c]
    IN  /\ c \notin DOMAIN b.runs
        /\ child.state = "NeedsReview" \/ child.reviewPending => child.role = "Worker"
        /\ child.parent \in DOMAIN b.runs
        /\ child.project = b.runs[child.parent].project
        /\ child.transport = b.runs[child.parent].transport
        /\ c \in ActiveChildren(b) =>
            /\ child.parent \in ActiveRuns(b)
            /\ \A d \in ActiveChildren(b) : b.children[d].agent = child.agent => d = c

ChildFollows(b, c) ==
    LET child == b.children[c]
    IN  IF child.predecessor = NoRun
        THEN child.agent = c
        ELSE /\ child.predecessor \in DOMAIN b.children \ {c}
             /\ LET previous == b.children[child.predecessor]
                IN  /\ previous.state \notin ActiveChildStates \cup {"Interrupted"}
                    /\ previous.parent = child.parent
                    /\ previous.agent = child.agent
                    /\ previous.role = child.role
                    /\ previous.isolated = child.isolated
             /\ \A d \in DOMAIN b.children :
                    b.children[d].predecessor = child.predecessor => d = c

ChildBound(b, c) ==
    LET child == b.children[c]
    IN  IF c \in DOMAIN b.ex.members
        THEN LET m == b.ex.members[c]
             IN  /\ m.family = child.parent
                 /\ m.project = child.project
                 /\ m.workspace = ChildWorkspace(child.project, child.agent, child.isolated)
                 /\ m.role = child.role
                 /\ m.isolated = child.isolated
                 /\ m.st \in ChildLeaseStates(child.state)
        ELSE c \notin ActiveChildren(b) /\ child.parent \notin ActiveRuns(b)

\* The validation of children is the count and these three parts.
LEMMA ChildrenValidParts ==
    ASSUME NEW b
    PROVE  /\ ChildrenValid(b) => \A c \in DOMAIN b.children :
                ChildOwned(b, c) /\ ChildFollows(b, c) /\ ChildBound(b, c)
           /\ /\ Cardinality(DOMAIN b.children) <= MaxChildRecords
              /\ \A c \in DOMAIN b.children :
                    ChildOwned(b, c) /\ ChildFollows(b, c) /\ ChildBound(b, c)
              => ChildrenValid(b)
<1>1. ASSUME NEW c \in DOMAIN b.children, ChildrenValid(b) PROVE ChildOwned(b, c)
  BY <1>1 DEF ChildrenValid, ChildOwned
<1>2. ASSUME NEW c \in DOMAIN b.children, ChildrenValid(b) PROVE ChildFollows(b, c)
  BY <1>2 DEF ChildrenValid, ChildFollows
<1>3. ASSUME NEW c \in DOMAIN b.children, ChildrenValid(b) PROVE ChildBound(b, c)
  BY <1>3 DEF ChildrenValid, ChildBound
<1>4. ASSUME Cardinality(DOMAIN b.children) <= MaxChildRecords,
             \A c \in DOMAIN b.children :
                ChildOwned(b, c) /\ ChildFollows(b, c) /\ ChildBound(b, c)
      PROVE  ChildrenValid(b)
  BY <1>4 DEF ChildrenValid, ChildOwned, ChildFollows, ChildBound
<1>. QED
  BY <1>1, <1>2, <1>3, <1>4

\* validate_book() accepts the completed run, unless it was steered and is to
\* be removed.
LEMMA CompletedValid ==
    ASSUME NEW b, NEW roles, Good(b, roles), NEW r, CompleteRunOk(b, r),
           NEW completion \in CompletionStates,
           r \in RemovedBy(b, r) => SteersOf(b, r) = {},
           NEW n, n = RetainChildren(CompleteRunTo(b, r, completion))
    PROVE  ValidateBook(n)
<1>. DEFINE R == RemovedBy(b, r)
            P == PromotedBy(b, {r})
<1>1. r \in ActiveRuns(b) /\ FinishOk(b.ex, r, TRUE)
  BY DEF CompleteRunOk
<1>2. /\ n.nextOrdinal = b.nextOrdinal
      /\ ActiveRuns(n) = ActiveRuns(b) \ {r}
      /\ ActiveChildren(n) = ActiveChildren(b)
  BY CompleteRunEffect
<1>0. CompletedBook(b, r, completion, n)
  BY CompletedRecords
<1>3. /\ n.removeAfterStop = b.removeAfterStop \ {r}
      /\ n.ex = FinishTo(b.ex, r)
      /\ DOMAIN n.items = (DOMAIN b.items \ R) \cup P
      /\ \A o \in DOMAIN b.items \ {r} : n.items[o] = b.items[o]
      /\ DOMAIN n.runs = DOMAIN b.runs \ R
      /\ \A x \in DOMAIN b.runs \ {r} : n.runs[x] = b.runs[x]
      /\ r \notin R =>
           /\ n.items[r].project = b.items[r].project
           /\ n.items[r].transport = b.items[r].transport
           /\ n.items[r].workflow = b.items[r].workflow
           /\ n.items[r].pred = b.items[r].pred
           /\ n.items[r].state = OutcomeOf(b, r, completion)
           /\ n.items[r].blocked = "None"
           /\ n.runs[r].project = b.runs[r].project
           /\ n.runs[r].transport = b.runs[r].transport
           /\ n.runs[r].state = OutcomeOf(b, r, completion)
      /\ R \subseteq {r}
  BY <1>0 DEF CompletedBook
<1>4. /\ DOMAIN n.steers = DOMAIN b.steers
      /\ \A o \in DOMAIN b.steers :
           /\ n.steers[o].project = b.steers[o].project
           /\ n.steers[o].run = b.steers[o].run
           /\ n.steers[o].state = IF b.steers[o].run = r
                                  THEN SettledState(b.steers[o].state)
                                  ELSE b.steers[o].state
  BY <1>0 DEF CompletedBook
<1>5. /\ DOMAIN n.children = {c \in DOMAIN b.children : b.children[c].parent \notin R}
      /\ \A c \in DOMAIN n.children : n.children[c] = b.children[c]
  BY <1>0 DEF CompletedBook
<1>6. \A o \in P :
        /\ n.items[o].project = b.steers[o].project
        /\ n.items[o].pred = r
        /\ n.items[o].workflow = "None"
        /\ n.items[o].state = "Queued"
        /\ n.items[o].blocked = "None"
  <2>1. \A o \in P : Promoted(n.items[o], b.steers[o].project, r)
    BY <1>0 DEF CompletedBook
  <2>. QED
    BY <2>1 DEF Promoted
<1>7. /\ P \subseteq PendingSteers(b)
      /\ \A o \in PendingSteers(b) : o \in P <=> b.steers[o].run = r
      /\ PendingSteers(b) \subseteq DOMAIN b.steers
  BY DEF PromotedBy, PendingSteers
<1>8. PendingSteers(b) \cap DOMAIN b.items = {}
  BY PendingNotQueued
<1>9. r \in DOMAIN b.runs /\ r \in DOMAIN b.items
  BY <1>1, GoodFacts DEF ActiveRuns
<1>10. \A o \in DOMAIN b.steers : b.steers[o].run = r => r \notin R
  BY DEF SteersOf
<1>. HIDE DEF P, R
<1>11. PendingSteers(n) = PendingSteers(b) \ P
  BY <1>4, <1>7 DEF PendingSteers, SettledState
<1>12. CountsValid(n)
  <2>1. Cardinality(DOMAIN n.items) + Cardinality(PendingSteers(n)) <= MaxQueueItems
    <3>1. DOMAIN b.items \ R \subseteq DOMAIN b.items
      OBVIOUS
    <3>2. Cardinality((DOMAIN b.items \ R) \cup P) + Cardinality(PendingSteers(b) \ P) <= MaxQueueItems
      BY <1>7, <3>1, PromotionFits
    <3>. QED
      BY <1>3, <1>11, <3>2
  <2>. QED
    BY <1>2, <1>4, <2>1 DEF Good, ValidateBook, CountsValid
<1>13. ItemsValid(n)
  <2>1. ASSUME NEW o \in DOMAIN n.items
        PROVE  /\ o \in 1 .. n.nextOrdinal - 1
               /\ ~IsChat(n, o) =>
                    /\ n.items[o].pred = NoRun
                    /\ \A p \in DOMAIN n.items :
                            n.items[p].workflow = n.items[o].workflow => p = o
               /\ n.items[o].blocked # "None" => o \in Queued(n)
    <3>1. CASE o \in P
      <4>1. o \in 1 .. n.nextOrdinal - 1
        BY <1>2, <1>7, <3>1 DEF Good, ValidateBook, SteeringValid
      <4>. QED
        BY <1>6, <3>1, <4>1 DEF IsChat
    <3>2. CASE o \notin P
      <4>1. o \in DOMAIN b.items \ R
        BY <1>3, <3>2
      <4>2. /\ o \in 1 .. b.nextOrdinal - 1
            /\ ~IsChat(b, o) =>
                    /\ b.items[o].pred = NoRun
                    /\ \A p \in DOMAIN b.items :
                            b.items[p].workflow = b.items[o].workflow => p = o
            /\ b.items[o].blocked # "None" => o \in Queued(b)
        BY <4>1 DEF Good, ValidateBook, ItemsValid
      <4>3. \A p \in DOMAIN b.items \ R :
                n.items[p].workflow = b.items[p].workflow /\ n.items[p].pred = b.items[p].pred
        BY <1>3
      <4>4. ~IsChat(n, o) => ~IsChat(b, o)
        BY <4>1, <4>3 DEF IsChat
      <4>5. ~IsChat(n, o) => \A p \in DOMAIN n.items :
                                n.items[p].workflow = n.items[o].workflow => p = o
        BY <1>3, <1>6, <4>1, <4>2, <4>3, <4>4 DEF IsChat
      <4>6. n.items[o].blocked # "None" => o \in Queued(n)
        BY <1>3, <4>1, <4>2 DEF Queued
      <4>. QED
        BY <1>2, <4>1, <4>2, <4>3, <4>4, <4>5, <4>6
    <3>. QED
      BY <3>1, <3>2
  <2>2. ASSUME NEW o \in n.removeAfterStop
        PROVE  /\ o \in DOMAIN n.items
               /\ o \in DOMAIN n.runs
               /\ n.items[o].state = "Running"
               /\ n.runs[o].state = "StopRequested"
    <3>1. o \in b.removeAfterStop /\ o # r
      BY <1>3
    <3>2. /\ o \in DOMAIN b.items /\ o \in DOMAIN b.runs
          /\ b.items[o].state = "Running" /\ b.runs[o].state = "StopRequested"
      BY <3>1 DEF Good, ValidateBook, ItemsValid
    <3>. QED
      BY <1>3, <3>1, <3>2
  <2>. QED
    BY <2>1, <2>2 DEF ItemsValid
<1>14. SteeringValid(n)
  <2>. SUFFICES ASSUME NEW o \in DOMAIN b.steers
                PROVE  /\ o \in 1 .. n.nextOrdinal - 1
                       /\ n.steers[o].run \in DOMAIN n.runs
                       /\ n.runs[n.steers[o].run].project = n.steers[o].project
                       /\ n.steers[o].state = "Pending" => n.steers[o].run \in ActiveRuns(n)
                       /\ o \in DOMAIN n.items =>
                            /\ n.steers[o].state = "PromotedToNext"
                            /\ n.items[o].project = n.steers[o].project
                            /\ n.items[o].pred = n.steers[o].run
    BY <1>4 DEF SteeringValid
  <2>1. /\ o \in 1 .. b.nextOrdinal - 1
        /\ b.steers[o].run \in DOMAIN b.runs
        /\ b.runs[b.steers[o].run].project = b.steers[o].project
        /\ b.steers[o].state = "Pending" => b.steers[o].run \in ActiveRuns(b)
        /\ o \in DOMAIN b.items =>
            /\ b.steers[o].state = "PromotedToNext"
            /\ b.items[o].project = b.steers[o].project
            /\ b.items[o].pred = b.steers[o].run
    BY DEF Good, ValidateBook, SteeringValid
  <2>2. /\ n.steers[o].run = b.steers[o].run /\ n.steers[o].project = b.steers[o].project
        /\ n.steers[o].state = IF b.steers[o].run = r
                               THEN SettledState(b.steers[o].state) ELSE b.steers[o].state
    BY <1>4
  <2>3. n.steers[o].state = "Pending" => n.steers[o].run \in ActiveRuns(n)
    BY <1>2, <2>1, <2>2 DEF SettledState
  <2>4. /\ n.steers[o].run \in DOMAIN n.runs
        /\ n.runs[n.steers[o].run].project = n.steers[o].project
    BY <1>3, <1>10, <2>1, <2>2
  <2>5. CASE o \in P
    <3>1. b.steers[o].run = r /\ b.steers[o].state = "Pending"
      BY <1>7, <2>5 DEF PendingSteers
    <3>2. n.steers[o].state = "PromotedToNext"
      BY <2>2, <3>1 DEF SettledState
    <3>. QED
      BY <1>2, <1>6, <2>1, <2>2, <2>3, <2>4, <2>5, <3>1, <3>2
  <2>6. CASE o \notin P
    <3>1. o \in DOMAIN n.items => o \in DOMAIN b.items \ R
      BY <1>3, <2>6
    <3>2. o \in DOMAIN n.items => n.steers[o].state = "PromotedToNext"
      BY <2>1, <2>2, <3>1 DEF SettledState
    <3>3. o \in DOMAIN n.items =>
            n.items[o].project = b.items[o].project /\ n.items[o].pred = b.items[o].pred
      BY <1>3, <3>1
    <3>. QED
      BY <1>2, <2>1, <2>2, <2>3, <2>4, <3>1, <3>2, <3>3
  <2>. QED
    BY <2>5, <2>6
<1>15. RunsValid(n)
  <2>1. \A x \in DOMAIN n.runs :
          /\ x \in DOMAIN n.items
          /\ n.items[x].project = n.runs[x].project
          /\ n.items[x].transport = n.runs[x].transport
    <3>1. \A x \in DOMAIN b.runs :
            /\ x \in DOMAIN b.items
            /\ b.items[x].project = b.runs[x].project
            /\ b.items[x].transport = b.runs[x].transport
      BY DEF Good, ValidateBook, RunsValid
    <3>. QED
      BY <1>3, <3>1
  <2>2. \A x \in ActiveRuns(n) : x \in ActiveRuns(b) /\ n.runs[x] = b.runs[x]
    BY <1>2, <1>3 DEF ActiveRuns
  <2>3. \A x, y \in ActiveRuns(n) : n.runs[x].project = n.runs[y].project => x = y
    BY <2>2 DEF Good, ValidateBook, RunsValid
  <2>4. ActiveProjects(n) \subseteq ActiveProjects(b)
    BY <2>2 DEF ActiveProjects
  <2>5. Cardinality(ActiveProjects(n)) <= MaxGlobalRuns
    <3>1. IsFiniteSet(ActiveProjects(b)) /\ Cardinality(ActiveProjects(b)) <= MaxGlobalRuns
      BY GoodFinite DEF Good, ValidateBook, RunsValid
    <3>2. /\ Cardinality(ActiveProjects(n)) <= Cardinality(ActiveProjects(b))
          /\ IsFiniteSet(ActiveProjects(n))
      BY <2>4, <3>1, FS_Subset
    <3>3. Cardinality(ActiveProjects(n)) \in Nat /\ Cardinality(ActiveProjects(b)) \in Nat
      BY <3>1, <3>2, FS_CardinalityType
    <3>. QED
      BY <3>1, <3>2, <3>3, QueueBookAssumption
  <2>. QED
    BY <2>1, <2>3, <2>5 DEF RunsValid
<1>16. ItemRunStates(n)
  <2>. SUFFICES ASSUME NEW o \in DOMAIN n.items
                PROVE  IF o \in DOMAIN n.runs
                       THEN n.items[o].state = IF o \in ActiveRuns(n) THEN "Running" ELSE n.runs[o].state
                       ELSE n.items[o].state = "Queued"
    BY DEF ItemRunStates
  <2>1. CASE o \in P
    <3>1. o \notin DOMAIN n.runs
      BY <1>3, <1>7, <1>8, <2>1, GoodFacts
    <3>. QED
      BY <1>6, <2>1, <3>1
  <2>2. CASE o = r
    <3>1. r \notin R
      BY <1>3, <1>7, <1>8, <1>9, <2>2
    <3>2. r \in DOMAIN n.runs /\ r \notin ActiveRuns(n)
      BY <1>2, <1>3, <1>9, <3>1
    <3>. QED
      BY <1>3, <2>2, <3>1, <3>2
  <2>3. CASE o \notin P /\ o # r
    <3>1. o \in DOMAIN b.items \ {r} /\ o \notin R
      BY <1>3, <2>3
    <3>2. IF o \in DOMAIN b.runs
          THEN b.items[o].state = IF o \in ActiveRuns(b) THEN "Running" ELSE b.runs[o].state
          ELSE b.items[o].state = "Queued"
      BY <3>1 DEF Good, ValidateBook, ItemRunStates
    <3>. QED
      BY <1>2, <1>3, <3>1, <3>2
  <2>. QED
    BY <2>1, <2>2, <2>3
<1>17. \A c \in DOMAIN n.children :
        c \in DOMAIN b.children /\ n.children[c] = b.children[c] /\ b.children[c].parent \notin R
  BY <1>5
<1>18. \A c \in ActiveChildren(b) : b.children[c].parent # r
  BY <1>1, NoActiveChild
<1>19. /\ r \in DOMAIN b.ex.members /\ ~IsChild(b.ex.members[r])
       /\ LeasesOK(b.ex, roles) /\ Validate(b.ex) /\ IsFiniteSet(DOMAIN b.ex.members)
  BY <1>1, ActiveRunIsRoot, GoodLeases, GoodFinite DEF Good, ValidateBook, BindingsValid
<1>20. /\ DOMAIN n.ex.members = DOMAIN b.ex.members \ Family(b.ex, r)
       /\ \A x \in DOMAIN n.ex.members : n.ex.members[x] = b.ex.members[x]
  BY <1>3, <1>19, FinishParentEffect
<1>21. ChildrenValid(n)
  <2>1. Cardinality(DOMAIN n.children) <= MaxChildRecords
    <3>1. /\ Cardinality(DOMAIN b.children) <= MaxChildRecords
          /\ IsFiniteSet(DOMAIN b.children)
      BY GoodFinite DEF Good, ValidateBook, ChildrenValid
    <3>2. DOMAIN n.children \subseteq DOMAIN b.children
      BY <1>17
    <3>3. /\ Cardinality(DOMAIN n.children) <= Cardinality(DOMAIN b.children)
          /\ IsFiniteSet(DOMAIN n.children)
      BY <3>1, <3>2, FS_Subset
    <3>4. Cardinality(DOMAIN n.children) \in Nat /\ Cardinality(DOMAIN b.children) \in Nat
      BY <3>1, <3>3, FS_CardinalityType
    <3>. QED
      BY <3>1, <3>3, <3>4, QueueBookAssumption
  <2>2. ASSUME NEW c \in DOMAIN n.children
        PROVE  ChildOwned(n, c)
    <3>1. /\ c \notin DOMAIN b.runs
          /\ b.children[c].state = "NeedsReview" \/ b.children[c].reviewPending
                => b.children[c].role = "Worker"
          /\ b.children[c].parent \in DOMAIN b.runs
          /\ b.children[c].project = b.runs[b.children[c].parent].project
          /\ b.children[c].transport = b.runs[b.children[c].parent].transport
          /\ c \in ActiveChildren(b) =>
                /\ b.children[c].parent \in ActiveRuns(b)
                /\ \A d \in ActiveChildren(b) : b.children[d].agent = b.children[c].agent => d = c
      BY <1>17 DEF Good, ValidateBook, ChildrenValid
    <3>2. \A x \in DOMAIN b.runs \ R :
            n.runs[x].project = b.runs[x].project /\ n.runs[x].transport = b.runs[x].transport
      BY <1>3
    <3>3. \A d \in ActiveChildren(n) : d \in DOMAIN n.children
      BY DEF ActiveChildren
    <3>. QED
      BY <1>2, <1>3, <1>17, <1>18, <3>1, <3>2, <3>3 DEF ChildOwned
  <2>3. ASSUME NEW c \in DOMAIN n.children
        PROVE  ChildFollows(n, c)
    <3>. DEFINE p == b.children[c].predecessor
    <3>1. c \in DOMAIN b.children /\ b.children[c].parent \notin R /\ n.children[c] = b.children[c]
      BY <1>17
    <3>2. IF p = NoRun
          THEN b.children[c].agent = c
          ELSE /\ p \in DOMAIN b.children \ {c}
               /\ b.children[p].state \notin ActiveChildStates \cup {"Interrupted"}
               /\ b.children[p].parent = b.children[c].parent
               /\ b.children[p].agent = b.children[c].agent
               /\ b.children[p].role = b.children[c].role
               /\ b.children[p].isolated = b.children[c].isolated
               /\ \A d \in DOMAIN b.children : b.children[d].predecessor = p => d = c
      BY <3>1 DEF Good, ValidateBook, ChildrenValid
    <3>3. n.children[c].predecessor = p
      BY <3>1
    <3>. HIDE DEF p
    <3>4. p # NoRun => p \in DOMAIN n.children /\ n.children[p] = b.children[p]
      BY <1>5, <3>1, <3>2
    <3>. QED
      BY <1>17, <3>1, <3>2, <3>3, <3>4 DEF ChildFollows
  <2>4. ASSUME NEW c \in DOMAIN n.children
        PROVE  ChildBound(n, c)
    <3>1. c \in DOMAIN b.children /\ n.children[c] = b.children[c]
      BY <1>17
    <3>2. IF c \in DOMAIN b.ex.members
          THEN /\ b.ex.members[c].family = b.children[c].parent
               /\ b.ex.members[c].project = b.children[c].project
               /\ b.ex.members[c].workspace = ChildWorkspace(b.children[c].project,
                                                b.children[c].agent, b.children[c].isolated)
               /\ b.ex.members[c].role = b.children[c].role
               /\ b.ex.members[c].isolated = b.children[c].isolated
               /\ b.ex.members[c].st \in ChildLeaseStates(b.children[c].state)
          ELSE c \notin ActiveChildren(b) /\ b.children[c].parent \notin ActiveRuns(b)
      BY <3>1 DEF Good, ValidateBook, ChildrenValid
    <3>3. CASE c \in DOMAIN n.ex.members
      <4>1. c \in DOMAIN b.ex.members /\ n.ex.members[c] = b.ex.members[c]
        BY <1>20, <3>3
      <4>. QED
        BY <3>1, <3>2, <3>3, <4>1 DEF ChildBound
    <3>4. CASE c \notin DOMAIN n.ex.members
      <4>1. c \in DOMAIN b.ex.members => b.children[c].parent = r
        BY <1>20, <3>2, <3>4 DEF Family
      <4>2. c \notin ActiveChildren(n) /\ b.children[c].parent \notin ActiveRuns(n)
        BY <1>2, <1>18, <3>2, <4>1
      <4>. QED
        BY <3>1, <3>4, <4>2 DEF ChildBound
    <3>. QED
      BY <3>3, <3>4
  <2>. QED
    BY <2>1, <2>2, <2>3, <2>4, ChildrenValidParts
<1>22. BindingsValid(n)
  <2>1. Validate(n.ex)
    BY <1>3, <1>19, FinishParentValid
  <2>2. Roots(n.ex) = ActiveRuns(n)
    <3>1. Roots(b.ex) = ActiveRuns(b)
      BY DEF Good, ValidateBook, BindingsValid
    <3>2. \A x \in Roots(b.ex) : b.ex.members[x].family = x
      BY <1>19 DEF Roots, Validate, ParentsWellFormed
    <3>3. Roots(n.ex) = Roots(b.ex) \ {r}
      BY <1>20, <3>2 DEF Roots, Family
    <3>. QED
      BY <1>2, <3>1, <3>3
  <2>3. ASSUME NEW x \in DOMAIN n.ex.members
        PROVE  LET m == n.ex.members[x]
               IN  /\ m.family \in ActiveRuns(n)
                   /\ m.project = n.runs[m.family].project
                   /\ ~IsChild(m) => m.workspace = ProjectWorkspace(m.project)
                   /\ IsChild(m) => x \in DOMAIN n.children
                   /\ m.st = "Waiting" =>
                       m.ord < n.nextOrdinal /\ m.ord \notin DOMAIN n.items \cup DOMAIN n.steers
    <3>1. /\ x \in DOMAIN b.ex.members /\ n.ex.members[x] = b.ex.members[x]
          /\ b.ex.members[x].family # r
      BY <1>20 DEF Family
    <3>2. /\ b.ex.members[x].family \in ActiveRuns(b)
          /\ b.ex.members[x].project = b.runs[b.ex.members[x].family].project
          /\ ~IsChild(b.ex.members[x]) => b.ex.members[x].workspace = ProjectWorkspace(b.ex.members[x].project)
          /\ IsChild(b.ex.members[x]) => x \in DOMAIN b.children
          /\ b.ex.members[x].st = "Waiting" =>
                b.ex.members[x].ord < b.nextOrdinal
                /\ b.ex.members[x].ord \notin DOMAIN b.items \cup DOMAIN b.steers
      BY <3>1 DEF Good, ValidateBook, BindingsValid
    <3>3. IsChild(b.ex.members[x]) => x \in DOMAIN n.children
      <4>1. IsChild(b.ex.members[x]) => b.ex.members[x].family = b.children[x].parent
        BY <3>1, <3>2 DEF Good, ValidateBook, ChildrenValid
      <4>. QED
        BY <1>3, <1>5, <3>1, <3>2, <4>1
    <3>4. n.runs[b.ex.members[x].family] = b.runs[b.ex.members[x].family]
      BY <1>3, <3>1, <3>2 DEF ActiveRuns
    <3>5. DOMAIN n.items \cup DOMAIN n.steers \subseteq DOMAIN b.items \cup DOMAIN b.steers
      BY <1>3, <1>4, <1>7
    <3>. QED
      BY <1>2, <3>1, <3>2, <3>3, <3>4, <3>5
  <2>. QED
    BY <2>1, <2>2, <2>3 DEF BindingsValid
<1>. QED
  BY <1>12, <1>13, <1>14, <1>15, <1>16, <1>21, <1>22 DEF ValidateBook

\* A book without interrupted work and without unsettled steering is reopened
\* as it is; its leases had ended with their runs.
LEMMA RecoveredSame ==
    ASSUME NEW b, NEW roles, Good(b, roles), ReviewHeld(b),
           ActiveRuns(b) = {}, b.removeAfterStop = {},
           \A o \in DOMAIN b.steers :
                b.steers[o].state \notin {"Pending", "Submitted", "AcknowledgedByCli"},
           NEW n, Recovered(b, n, roles)
    PROVE  Same(b, n, Fields)
<1>1. RemovedOnOpen(b) = {} /\ PendingSteers(b) = {}
  BY DEF RemovedOnOpen, PendingSteers
<1>2. ActiveChildren(b) = {}
  BY ActiveParent
<1>5. n.nextOrdinal = b.nextOrdinal /\ n.removeAfterStop = b.removeAfterStop
  BY DEF Recovered
<1>6. n.reviewBlocked = b.reviewBlocked
  <2>1. ChildReviewProjects(b) \subseteq b.reviewBlocked
    BY DEF ReviewHeld, ChildReviewProjects
  <2>. QED
    BY <2>1 DEF Recovered
<1>7. n.items = b.items
  <2>1. n.items \in [DOMAIN b.items -> ItemRecord] /\ \A o \in DOMAIN b.items : n.items[o] = b.items[o]
    BY <1>1 DEF Recovered
  <2>2. b.items \in [DOMAIN b.items -> ItemRecord]
    BY DEF Good, BookTypeOK
  <2>. QED
    BY <2>1, <2>2
<1>8. n.runs = b.runs
  <2>1. n.runs \in [DOMAIN b.runs -> RunRecord] /\ \A o \in DOMAIN b.runs : n.runs[o] = b.runs[o]
    BY <1>1 DEF Recovered
  <2>2. b.runs \in [DOMAIN b.runs -> RunRecord]
    BY DEF Good, BookTypeOK
  <2>. QED
    BY <2>1, <2>2
<1>9. n.children = b.children
  <2>1. DOMAIN n.children = DOMAIN b.children
    BY <1>1 DEF Recovered
  <2>2. \A c \in DOMAIN b.children : n.children[c] = b.children[c]
    BY <1>2, <2>1 DEF Recovered
  <2>3. n.children \in [DOMAIN n.children -> ChildRecord(roles)]
    BY DEF Recovered
  <2>4. b.children \in [DOMAIN b.children -> ChildRecord(roles)]
    BY DEF Good, BookTypeOK
  <2>. QED
    BY <2>1, <2>2, <2>3, <2>4
<1>10. n.steers = b.steers
  <2>1. n.steers \in [DOMAIN b.steers -> SteerRecord]
    BY DEF Recovered
  <2>2. b.steers \in [DOMAIN b.steers -> SteerRecord]
    BY DEF Good, BookTypeOK
  <2>3. ASSUME NEW o \in DOMAIN b.steers PROVE n.steers[o] = b.steers[o]
    <3>1. /\ n.steers[o].project = b.steers[o].project
          /\ n.steers[o].run = b.steers[o].run
          /\ n.steers[o].state = b.steers[o].state
      BY DEF Recovered, SettledState
    <3>2. n.steers[o] \in SteerRecord /\ b.steers[o] \in SteerRecord
      BY <2>1, <2>2
    <3>. QED
      BY <3>1, <3>2 DEF SteerRecord
  <2>. QED
    BY <2>1, <2>2, <2>3
<1>11. n.ex = b.ex
  <2>1. DOMAIN b.ex.members = {}
    BY DEF Good, ValidateBook, BindingsValid
  <2>2. DOMAIN b.ex.budgets = {}
    BY <2>1 DEF Good, ValidateBook, BindingsValid, Validate, BudgetsWellFormed
  <2>3. /\ b.ex = [members |-> b.ex.members, budgets |-> b.ex.budgets]
        /\ b.ex.members \in [{} -> LeaseRecord(roles)]
        /\ b.ex.budgets \in [{} -> BudgetRecord]
    BY <2>1, <2>2, GoodLeases DEF LeasesOK
  <2>4. b.ex.members = [r \in {} |-> 0] /\ b.ex.budgets = [p \in {} |-> 0]
    BY <2>3
  <2>5. b.ex = EmptyBook
    BY <2>3, <2>4 DEF EmptyBook
  <2>. QED
    BY <2>5 DEF Recovered
<1>. QED
  BY <1>5, <1>6, <1>7, <1>8, <1>9, <1>10, <1>11 DEF Same, Fields

=============================================================================
