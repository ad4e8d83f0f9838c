-------------------------- MODULE AcceptTransaction --------------------------
(***************************************************************************)
(* Accepting the file changes a run has proposed: accept_all() of          *)
(* grok-build-tauri/src/backend.rs through its journalled transaction      *)
(* (accept_transaction.rs), accept_file() and the rejections beside it,    *)
(* and the recovery at the next start of the app.                          *)
(*                                                                         *)
(* A command holds the backend throughout, so between its steps only the   *)
(* user's editor and a crash intervene.  Each step ends with at most one   *)
(* effect on a file, the journal or the session book.  Any of them can     *)
(* fail: a replacement before or after its rename, a write of a file       *)
(* untouched, torn or complete.  Files are written in place, so a crash    *)
(* can tear them as well.  The comparison of a file with the bytes that    *)
(* are expected and the write that follows are two steps: an edit can be   *)
(* saved in between, in place or by a rename.                              *)
(*                                                                         *)
(* A content is the text of its lines and whether the last one ends with a *)
(* newline; the text is a new number for every edit, proposal and torn     *)
(* write, so an edit that changes the final newline only, restores an old  *)
(* text or removes a file is left out.  A proposal is [before, after]; a   *)
(* set of proposals is a function on its paths, applied in their order.    *)
(* Decisions on single line groups, which no command of the app makes, and *)
(* the journal's applied_count, which recovery never reads, are left out,  *)
(* and so are the other sessions of a project.  The review gate a command  *)
(* refreshes at its end is the SetReviewBlocked of PromptQueue.            *)
(***************************************************************************)
EXTENDS Naturals, FiniteSets

CONSTANTS
    Paths,        \* the files, as numbers in the order of a proposal set
    New,          \* the files that do not exist at first
    Bare,         \* the files that may lack the final newline
    MaxTexts,     \* bound of this model: texts
    MaxRestarts,  \* bound of this model: stops and crashes of the app
    MaxFaults     \* bound of this model: failing effects

ASSUME AcceptAssumption ==
    /\ Paths \subseteq Nat
    /\ IsFiniteSet(Paths)
    /\ {MaxTexts, MaxRestarts, MaxFaults} \subseteq Nat

VARIABLES
    files,      \* the content of every file
    pending,    \* Backend.pending
    stored,     \* the pending set of the session in the session book
    journal,    \* plus-accept-transaction.json
    pc,         \* where the running command or the recovery is
    left,       \* the paths its loop has still to handle
    window,     \* what the user did to the file about to be written
    bound,      \* the project is bound, commands may act on it
    fresh,      \* the next new text
    edited,     \* history: files the user changed since they were staged
    torn,       \* history: files with a torn write since they were staged
    accepted,   \* history: contents whose acceptance became durable
    overtaken,  \* history: a command ran while a journal was outstanding
    doubted,    \* history: the save of a decision failed after its rename
    restarts,
    faults

world == <<files, fresh, edited, torn>>

history == <<accepted, overtaken, doubted>>

vars == <<world, pending, stored, journal, pc, left, window, bound, history,
          restarts, faults>>

NoProposals == [p \in {} |-> 0]

NoJournal == [phase |-> "None", items |-> NoProposals]

Absent == [text |-> 0, nl |-> FALSE]

NewText(nl) == [text |-> fresh, nl |-> nl]

Endings(p) == IF p \in Bare THEN BOOLEAN ELSE {TRUE}

\* compose_current_bytes(): the lines of b, with a final newline if b or a ends
\* with one.  An empty side ends like the other one.  Line ends of two bytes and
\* invalid UTF-8 are altered too, as a missing newline is against a present one.
Composed(b, a) == IF b = Absent THEN b ELSE [b EXCEPT !.nl = @ \/ a.nl]

\* What Accept must find and a rollback writes, and what a rollback must find.
Expected(q) == Composed(q.before, q.after)

Undoable(q) == Composed(q.after, Expected(q))

AcceptInit ==
    /\ \E E \in SUBSET Bare :
         files = [p \in Paths |->
                    IF p \in New THEN Absent ELSE [text |-> 1, nl |-> p \notin E]]
    /\ pending = NoProposals
    /\ stored = NoProposals
    /\ journal = NoJournal
    /\ pc = "Idle"
    /\ left = {}
    /\ window = "Clean"
    /\ bound = TRUE
    /\ fresh = 2
    /\ edited = {}
    /\ torn = {}
    /\ accepted = NoProposals
    /\ overtaken = FALSE
    /\ doubted = FALSE
    /\ restarts = 0
    /\ faults = 0

\* What remains of a set once the paths of S are decided.
Drop(f, S) == [p \in DOMAIN f \ S |-> f[p]]

IsFirst(p, S) == p \in S /\ \A q \in S : p <= q

IsLast(p, S) == p \in S /\ \A q \in S : q <= p

\* The effect reports an error; a replacement may have taken place all the same.
Fails == faults < MaxFaults /\ faults' = faults + 1

Works == UNCHANGED faults

Outstanding == journal.phase # "None"

Ready == pc = "Idle" /\ bound

\* Every step of the app but a write ends with no write under way.
GoTo(point, paths) == pc' = point /\ left' = paths /\ window' = "Clean"

-----------------------------------------------------------------------------
(* The world around *)

\* A run of the project ends with proposals; the review block keeps the
\* project from running while some are still stored.
Stage(S, E) ==
    /\ Ready
    /\ fresh <= MaxTexts
    /\ pending = NoProposals /\ stored = NoProposals
    /\ S # {}
    /\ pending' = [p \in S |-> [before |-> files[p], after |-> NewText(p \notin E)]]
    /\ stored' = pending'
    /\ fresh' = fresh + 1
    /\ edited' = edited \ S
    /\ torn' = torn \ S
    /\ overtaken' = (overtaken \/ Outstanding)
    /\ UNCHANGED <<files, journal, pc, left, window, bound, accepted, doubted,
                   restarts, faults>>

\* The file that has been compared and is written next.
Target(p) ==
    \/ pc = "Overwriting" /\ IsFirst(p, left)
    \/ pc = "Restoring" /\ IsLast(p, left)
    \/ pc = "Accepting" /\ p \in left

\* An edit of that file goes to the open file, or to another one in its place.
UserEdit(p, nl) ==
    /\ fresh <= MaxTexts
    /\ files' = [files EXCEPT ![p] = NewText(nl)]
    /\ fresh' = fresh + 1
    /\ edited' = edited \cup {p}
    /\ torn' = torn \ {p}
    /\ accepted' = Drop(accepted, {p})
    /\ window' \in CASE ~Target(p) -> {window}
                      [] Target(p) /\ (files[p] = Absent \/ window = "Replaced") -> {"Replaced"}
                      [] OTHER -> {"Edited", "Replaced"}
    /\ UNCHANGED <<pending, stored, journal, pc, left, bound, overtaken, doubted,
                   restarts, faults>>

-----------------------------------------------------------------------------
(* write_verified_workspace_bytes(), remove_verified_accepted_file() *)

\* An unlink takes whatever is there now.  A write goes to the file that was
\* compared; a file that was absent must still be, or creating it fails.
Lands(content) == window # "Replaced" \/ content = Absent

Written(p, content) ==
    /\ files' = [files EXCEPT ![p] = content]
    /\ edited' = edited \ {p}
    /\ UNCHANGED <<fresh, torn>>

Tears(p) ==
    /\ fresh <= MaxTexts
    /\ files' = [files EXCEPT ![p] = NewText(TRUE)]
    /\ fresh' = fresh + 1
    /\ edited' = edited \ {p}
    /\ torn' = torn \cup {p}

WriteWorks(p, content) == Lands(content) /\ Works /\ Written(p, content)

\* A write that reports an error left the file as it was, torn or complete, or
\* found another file in its place.
WriteFails(p, content) ==
    \/ ~Lands(content) /\ Works /\ UNCHANGED world
    \/ /\ Lands(content)
       /\ Fails
       /\ \/ UNCHANGED world
          \/ content # Absent /\ Tears(p)
          \/ Written(p, content)

-----------------------------------------------------------------------------
(* accept_all(): begin, apply, persist_pending, commit *)

\* Mutant: the journal is not written before the first file.
BeginUnjournalled ==
    /\ Ready
    /\ pending # NoProposals
    /\ \A p \in DOMAIN pending : files[p] = Expected(pending[p])
    /\ ~Outstanding
    /\ Works /\ GoTo("Applying", DOMAIN pending)
    /\ UNCHANGED <<world, pending, stored, journal, bound, history, restarts>>

Begin ==
    /\ Ready
    /\ pending # NoProposals
    /\ \A p \in DOMAIN pending : files[p] = Expected(pending[p])
    /\ ~Outstanding
    /\ journal' = [phase |-> "Applying", items |-> pending]
    /\ \/ Works /\ GoTo("Applying", DOMAIN pending)
       \/ Fails /\ GoTo("Idle", {})
    /\ UNCHANGED <<world, pending, stored, bound, history, restarts>>

RollBackAll == GoTo("RollingBack", DOMAIN journal.items)

\* Mutant: the file is not compared with its snapshot.
ApplyUnchecked(p) ==
    /\ pc = "Applying" /\ IsFirst(p, left)
    /\ Works /\ GoTo("Overwriting", left)
    /\ UNCHANGED <<world, pending, stored, journal, bound, history, restarts>>

\* A file that is not as expected, or cannot be read, rolls back.
Apply(p) ==
    /\ pc = "Applying" /\ IsFirst(p, left)
    /\ \/ /\ files[p] = Expected(journal.items[p])
          /\ Works
          /\ GoTo("Overwriting", left)
       \/ (IF files[p] = Expected(journal.items[p]) THEN Fails ELSE Works) /\ RollBackAll
    /\ UNCHANGED <<world, pending, stored, journal, bound, history, restarts>>

\* A failing write rolls back; a failing save of the journal only returns.
Overwrite(p) ==
    /\ pc = "Overwriting" /\ IsFirst(p, left)
    /\ LET content == journal.items[p].after
       IN  \/ WriteWorks(p, content) /\ GoTo("Applying", left \ {p})
           \/ Lands(content) /\ Fails /\ Written(p, content) /\ GoTo("Idle", {})
           \/ WriteFails(p, content) /\ RollBackAll
    /\ UNCHANGED <<pending, stored, journal, bound, history, restarts>>

MarkApplied ==
    /\ pc = "Applying" /\ left = {}
    /\ \/ Works /\ journal' = [journal EXCEPT !.phase = "Applied"] /\ GoTo("Deciding", {})
       \/ /\ Fails /\ GoTo("Idle", {})
          /\ journal' \in {journal, [journal EXCEPT !.phase = "Applied"]}
    /\ UNCHANGED <<world, pending, stored, bound, history, restarts>>

\* The files are the accepted ones unless the user has changed them since.
AcceptedWith(items) ==
    [p \in DOMAIN accepted \cup (DOMAIN items \ edited) |->
        IF p \in DOMAIN items \ edited THEN items[p].after ELSE accepted[p]]

\* The empty pending set is saved; if that fails every write is undone.
Decide ==
    /\ pc = "Deciding"
    /\ \/ /\ Works
          /\ pending' = NoProposals
          /\ stored' = NoProposals
          /\ accepted' = AcceptedWith(journal.items)
          /\ GoTo("Committing", {})
          /\ UNCHANGED doubted
       \/ /\ Fails
          /\ stored' \in {stored, NoProposals}
          /\ doubted' = (doubted \/ stored' # stored)
          /\ RollBackAll
          /\ UNCHANGED <<pending, accepted>>
    /\ UNCHANGED <<world, journal, bound, overtaken, restarts>>

Commit ==
    /\ pc = "Committing"
    /\ \/ Works /\ journal' = [journal EXCEPT !.phase = "Committed"] /\ GoTo("Removing", {})
       \/ /\ Fails /\ GoTo("Idle", {})
          /\ journal' \in {journal, [journal EXCEPT !.phase = "Committed"]}
    /\ UNCHANGED <<world, pending, stored, bound, history, restarts>>

\* The start of the app ends well: the project is bound and shows its changes.
Open == bound' = TRUE /\ pending' = IF bound THEN pending ELSE stored

\* remove_journal(), of a command or, while not yet bound, of the recovery.
Remove ==
    /\ pc = "Removing"
    /\ GoTo("Idle", {})
    /\ \/ Works /\ journal' = NoJournal /\ Open
       \/ Fails /\ journal' \in {journal, NoJournal} /\ UNCHANGED <<bound, pending>>
    /\ UNCHANGED <<world, stored, history, restarts>>

-----------------------------------------------------------------------------
(* rollback_journal(): in reverse order, up to the first foreign content *)

\* Mutant: a file that was never written is refused.
RollBackStrict(p) ==
    /\ pc = "RollingBack" /\ IsLast(p, left)
    /\ Works
    /\ IF files[p] = Undoable(journal.items[p])
       THEN GoTo("Restoring", left)
       ELSE GoTo("Idle", {})
    /\ UNCHANGED <<world, pending, stored, journal, bound, history, restarts>>

\* Mutant: foreign content is passed over.
RollBackLenient(p) ==
    /\ pc = "RollingBack" /\ IsLast(p, left)
    /\ Works
    /\ IF files[p] = Undoable(journal.items[p])
       THEN GoTo("Restoring", left)
       ELSE GoTo("RollingBack", left \ {p})
    /\ UNCHANGED <<world, pending, stored, journal, bound, history, restarts>>

RollBack(p) ==
    /\ pc = "RollingBack" /\ IsLast(p, left)
    /\ LET proposal == journal.items[p]
       IN  \/ files[p] = Expected(proposal) /\ Works /\ GoTo(pc, left \ {p})
           \/ files[p] = Undoable(proposal) /\ Works /\ GoTo("Restoring", left)
           \/ /\ IF files[p] \in {Expected(proposal), Undoable(proposal)} THEN Fails ELSE Works
              /\ GoTo("Idle", {})
    /\ UNCHANGED <<world, pending, stored, journal, bound, history, restarts>>

Restore(p) ==
    /\ pc = "Restoring" /\ IsLast(p, left)
    /\ LET content == Expected(journal.items[p])
       IN  \/ WriteWorks(p, content) /\ GoTo("RollingBack", left \ {p})
           \/ WriteFails(p, content) /\ GoTo("Idle", {})
    /\ UNCHANGED <<pending, stored, journal, bound, history, restarts>>

RollBackDone ==
    /\ pc = "RollingBack" /\ left = {}
    /\ GoTo("Removing", {})
    /\ UNCHANGED <<world, pending, stored, journal, bound, history, restarts, faults>>

-----------------------------------------------------------------------------
(* accept_file(), reject_file() and reject_all(): no journal *)

\* left remembers the path until the decision is saved.
AcceptFile(p) ==
    /\ Ready
    /\ p \in DOMAIN pending
    /\ files[p] = Expected(pending[p])
    /\ GoTo("Accepting", {p})
    /\ overtaken' = (overtaken \/ Outstanding)
    /\ UNCHANGED <<world, pending, stored, journal, bound, accepted, doubted,
                   restarts, faults>>

AcceptWrite(p) ==
    /\ pc = "Accepting" /\ p \in left
    /\ \/ /\ WriteWorks(p, pending[p].after)
          /\ pending' = Drop(pending, {p})
          /\ GoTo("Persisting", {p})
       \/ /\ WriteFails(p, pending[p].after)
          /\ GoTo("Idle", {})
          /\ UNCHANGED pending
    /\ accepted' = Drop(accepted, {p})
    /\ UNCHANGED <<stored, journal, bound, overtaken, doubted, restarts>>

Reject(S) ==
    /\ Ready
    /\ S \subseteq DOMAIN pending
    /\ pending' = Drop(pending, S)
    /\ GoTo("Persisting", {})
    /\ overtaken' = (overtaken \/ Outstanding)
    /\ UNCHANGED <<world, stored, journal, bound, accepted, doubted, restarts, faults>>

RejectFile(p) == p \in DOMAIN pending /\ Reject({p})

RejectAll == pending # NoProposals /\ Reject(DOMAIN pending)

\* persist_pending(): memory keeps the smaller set even if this fails.
Persist ==
    /\ pc = "Persisting"
    /\ GoTo("Idle", {})
    /\ \/ /\ Works
          /\ stored' = pending
          /\ accepted' = [p \in DOMAIN accepted \cup (left \ edited) |-> files[p]]
       \/ /\ Fails
          /\ stored' \in {stored, pending}
          /\ UNCHANGED accepted
    /\ UNCHANGED <<world, pending, journal, bound, overtaken, doubted, restarts>>

-----------------------------------------------------------------------------
(* Stopping and starting the app *)

\* The content a command or a recovery is about to write.
NextContent(p) ==
    CASE pc = "Overwriting" -> journal.items[p].after
      [] pc = "Restoring" -> Expected(journal.items[p])
      [] pc = "Accepting" -> pending[p].after

\* A crash can tear a write, but not an unlink.
CrashTears(p) ==
    /\ Target(p) /\ NextContent(p) # Absent /\ Lands(NextContent(p))
    /\ Tears(p)
    /\ accepted' = Drop(accepted, {p})

Restart ==
    /\ restarts < MaxRestarts
    /\ restarts' = restarts + 1
    /\ UNCHANGED <<world, accepted>> \/ \E p \in Paths : CrashTears(p)
    /\ GoTo("Starting", {})
    /\ bound' = FALSE
    /\ pending' = NoProposals
    /\ UNCHANGED <<stored, journal, overtaken, doubted, faults>>

\* Mutant: every journal is rolled back.
NeverDecided == FALSE

\* Mutant: a journal without a saved decision is taken for accepted.
AlwaysDecided == journal.phase # "None"

\* The acceptance is durable: only the journal has still to go.
Decided ==
    \/ journal.phase = "Committed"
    \/ journal.phase = "Applied" /\ stored = NoProposals

Mixed == journal.phase = "Applied" /\ stored \notin {NoProposals, journal.items}

\* recover_accept_transaction().  Mixed state, or a journal, a folder or a book
\* that cannot be read, leaves the project unbound.
Recover ==
    /\ pc = "Starting"
    /\ \/ ~Outstanding /\ Works /\ GoTo("Idle", {}) /\ Open
       \/ /\ Outstanding
          /\ UNCHANGED <<bound, pending>>
          /\ \/ Decided /\ Works /\ GoTo("Removing", {})
             \/ ~Decided /\ ~Mixed /\ Works /\ RollBackAll
             \/ ~Decided /\ Mixed /\ Works /\ GoTo("Idle", {})
             \/ Fails /\ GoTo("Idle", {})
    /\ UNCHANGED <<world, stored, journal, history, restarts>>

\* bind_project() asks nothing about an outstanding journal.
BindProject ==
    /\ pc = "Idle" /\ ~bound
    /\ Open
    /\ UNCHANGED <<world, stored, journal, pc, left, window, history, restarts, faults>>

-----------------------------------------------------------------------------
(* Specification *)

AcceptNext ==
    \/ \E S \in SUBSET Paths : \E E \in SUBSET (S \cap Bare) : Stage(S, E)
    \/ \E p \in Paths : \E nl \in Endings(p) : UserEdit(p, nl)
    \/ Begin
    \/ \E p \in Paths : Apply(p) \/ Overwrite(p)
    \/ MarkApplied
    \/ Decide
    \/ Commit
    \/ Remove
    \/ \E p \in Paths : RollBack(p) \/ Restore(p)
    \/ RollBackDone
    \/ \E p \in Paths : AcceptFile(p) \/ AcceptWrite(p)
    \/ \E p \in Paths : RejectFile(p)
    \/ RejectAll
    \/ Persist
    \/ Restart
    \/ Recover
    \/ BindProject

AcceptSpec == AcceptInit /\ [][AcceptNext]_vars

-----------------------------------------------------------------------------
(* Properties *)

Content == [text : Nat, nl : BOOLEAN]

Proposal == [before : Content, after : Content]

Quiet == pc = "Idle" /\ ~Outstanding

\* Type invariant; a step of the transaction has its journal on disk, in the
\* phase that the step before it saved (begin, apply, commit), and a file is
\* written only while its command or recovery runs.
AcceptTypeOK ==
    /\ fresh \in Nat
    /\ files \in [Paths -> Content]
    /\ pending \in [DOMAIN pending -> Proposal]
    /\ stored \in [DOMAIN stored -> Proposal]
    /\ DOMAIN journal = {"phase", "items"}
    /\ journal.items \in [DOMAIN journal.items -> Proposal]
    /\ accepted \in [DOMAIN accepted -> Content]
    /\ {edited, torn, left, DOMAIN pending, DOMAIN stored, DOMAIN journal.items,
        DOMAIN accepted} \subseteq SUBSET Paths
    /\ {bound, overtaken, doubted} \subseteq BOOLEAN
    /\ journal.phase \in {"None", "Applying", "Applied", "Committed"}
    /\ journal.phase = "None" <=> DOMAIN journal.items = {}
    /\ pc \in {"Applying", "Overwriting", "RollingBack", "Restoring"} =>
            left \subseteq DOMAIN journal.items
    /\ pc \in {"Applying", "Overwriting"} => journal.phase = "Applying"
    /\ pc \in {"Deciding", "Committing"} => journal.phase = "Applied"
    /\ pc \in {"RollingBack", "Restoring", "Removing"} => journal.phase # "None"
    /\ pc = "Accepting" => left \subseteq DOMAIN pending
    /\ window \in {"Clean", "Edited", "Replaced"}
    /\ window # "Clean" => pc \in {"Overwriting", "Restoring", "Accepting"}

AllApplied == \A p \in DOMAIN journal.items \ edited : files[p] = journal.items[p].after

AllRestored ==
    \A p \in DOMAIN journal.items \ edited : files[p] = Expected(journal.items[p])

\* The journal goes only when its set is completely applied or completely
\* undone, whatever else failed or crashed in between; files the user changed
\* meanwhile are his own.  Two cases are excepted: a command that ran beside an
\* outstanding journal, and a save of the decision that failed after its rename
\* (write_owner_only_text, persist_pending in accept_all).
AllOrRollback ==
    [][Outstanding /\ journal' = NoJournal /\ ~overtaken' /\ ~doubted' =>
        AllApplied \/ AllRestored]_vars

\* "Crash-recoverable all-or-rollback application for an accepted proposal set.":
\* the same without the second exception (accept_all, rollback,
\* recover_accept_transaction).
AllOrRollbackAlways ==
    [][Outstanding /\ journal' = NoJournal /\ ~overtaken' =>
        AllApplied \/ AllRestored]_vars

\* A journal whose acceptance is not durable goes only with every file of it
\* restored, even if commands ran while it was outstanding (rollback_journal).
RollbackComplete ==
    [][Outstanding /\ journal' = NoJournal
      /\ (journal.phase = "Applying" \/ (journal.phase = "Applied" /\ stored # NoProposals)) =>
        AllRestored]_vars

\* What the user wrote after staging is never overwritten, by an Accept, a
\* rollback or a recovery, except an edit saved after the comparison of its file
\* and before the write or the unlink that follows: nothing locks the file in
\* between (write_verified_workspace_bytes, remove_verified_accepted_file).
UserEditsKept ==
    [][\A p \in edited :
        \/ files'[p] = files[p]
        \/ \E nl \in BOOLEAN : UserEdit(p, nl)
        \/ Target(p) /\ window # "Clean"]_vars

\* Once an acceptance is durable no recovery takes it back, as long as no
\* command ran beside an outstanding journal and no save of a decision failed
\* after its rename (recover_accept_transaction).
AcceptedStays ==
    Quiet /\ ~overtaken /\ ~doubted => \A p \in DOMAIN accepted : files[p] = accepted[p]

\* Recovery refuses to bind the project only if a file of the journal was
\* changed by the user or torn, or got bytes that the comparison of the rollback
\* alters (an Accept that took the final newline away), or an effect failed
\* (rollback_journal, compose_current_bytes, recover_accept_transaction).
RecoveryOnlyRefusesForeign ==
    pc = "Idle" /\ ~bound /\ ~overtaken /\ faults = 0 =>
        \E p \in DOMAIN journal.items :
            p \in edited \cup torn \/ Undoable(journal.items[p]) # journal.items[p].after

\* "Accept is blocked until the previous change transaction is recovered.":
\* no other Accept becomes durable and is then undone by that recovery
\* (begin, accept_scoped_file, bind_project).
AcceptWaitsForRecovery ==
    Quiet => \A p \in DOMAIN accepted : files[p] = accepted[p]
=============================================================================
