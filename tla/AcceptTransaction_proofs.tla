----------------------- MODULE AcceptTransaction_proofs -----------------------
(***************************************************************************)
(* Proofs about AcceptTransaction, for any set of files and any bounds.    *)
(***************************************************************************)
EXTENDS AcceptTransaction, TLAPS

-----------------------------------------------------------------------------
(* The inductive invariant *)

\* Texts are used once, so what the user wrote is in no proposal.
Known(items) ==
    \A p \in DOMAIN items :
        /\ items[p].before.text < fresh
        /\ items[p].after.text < fresh
        /\ p \in edited => files[p].text \notin {items[p].before.text, items[p].after.text}

EditsForeign ==
    /\ \A p \in Paths : files[p].text < fresh
    /\ Known(pending)
    /\ Known(stored)
    /\ Known(journal.items)

\* The one file about to be written was compared: it is the user's only if he
\* saved it after that.
WindowOK ==
    /\ \A p \in Paths : Target(p) => (p \in edited <=> window # "Clean")
    /\ pc = "Accepting" => \A p, q \in left : p = q

\* Up to where a rollback has come.
Undone ==
    /\ pc \in {"RollingBack", "Restoring"} =>
        \A p \in (DOMAIN journal.items \ left) \ edited : files[p] = Expected(journal.items[p])
    /\ pc = "Removing" /\ ~Decided => AllRestored

\* No command ran beside a journal, and no decision is in doubt.
Orderly == ~overtaken /\ ~doubted

\* Up to where an Accept has come, and what it leaves once it is durable.
Done ==
    /\ pc \in {"Applying", "Overwriting", "Deciding"} =>
        \A p \in (DOMAIN journal.items \ left) \ edited : files[p] = journal.items[p].after
    /\ pc = "Deciding" => left = {}
    /\ pc = "Committing" => stored = NoProposals
    /\ Orderly =>
        /\ DOMAIN pending \subseteq DOMAIN stored
        /\ pc \in {"Applying", "Overwriting", "Deciding"} => DOMAIN stored # {}
        /\ pc \in {"Accepting", "Persisting"} => ~Outstanding
        /\ pc \in {"RollingBack", "Restoring"} => ~Decided
        /\ Decided => AllApplied

\* The journal may still restore what p was before.
Unsettled(p) == ~Decided /\ p \in DOMAIN journal.items

\* A durable acceptance is in the file, or is what a rollback will restore.
Durable ==
    /\ DOMAIN accepted \cap edited = {}
    /\ Orderly => \A p \in DOMAIN accepted :
          IF Unsettled(p) THEN Expected(journal.items[p]) = accepted[p]
          ELSE files[p] = accepted[p]

AcceptInv == AcceptTypeOK /\ EditsForeign /\ WindowOK /\ Undone /\ Done /\ Durable

-----------------------------------------------------------------------------
(* Lemmas *)

\* A set of proposals without a path is the empty one.
LEMMA EmptySet ==
    ASSUME NEW items, items \in [DOMAIN items -> Proposal]
    PROVE  DOMAIN items = {} <=> items = NoProposals
BY DEF NoProposals

\* The empty set and the absent journal.
LEMMA Nothing ==
    /\ DOMAIN NoProposals = {}
    /\ NoProposals \in [DOMAIN NoProposals -> Proposal]
    /\ NoProposals \in [DOMAIN NoProposals -> Content]
    /\ DOMAIN NoJournal = {"phase", "items"}
    /\ NoJournal.phase = "None"
    /\ NoJournal.items = NoProposals
<1>1. DOMAIN NoProposals = {}
  BY DEF NoProposals
<1>2. NoProposals \in [DOMAIN NoProposals -> Proposal]
  BY DEF NoProposals
<1>3. NoProposals \in [DOMAIN NoProposals -> Content]
  BY DEF NoProposals
<1>4. QED
  BY <1>1, <1>2, <1>3 DEF NoJournal

\* The composed bytes of two contents have the text of the first.
LEMMA ComposedText ==
    ASSUME NEW b \in Content, NEW a \in Content
    PROVE  Composed(b, a) \in Content /\ Composed(b, a).text = b.text
BY DEF Composed, Content

\* What a proposal is compared with has the text of one of its sides.
LEMMA Compared ==
    ASSUME NEW q \in Proposal
    PROVE  /\ q.before \in Content /\ q.after \in Content
           /\ Expected(q) \in Content /\ Expected(q).text = q.before.text
           /\ Undoable(q) \in Content /\ Undoable(q).text = q.after.text
<1>1. q.before \in Content /\ q.after \in Content
  BY DEF Proposal
<1>2. Expected(q) \in Content /\ Expected(q).text = q.before.text
  BY <1>1, ComposedText DEF Expected
<1>3. Undoable(q) \in Content /\ Undoable(q).text = q.after.text
  BY <1>1, <1>2, ComposedText DEF Undoable
<1>4. QED
  BY <1>1, <1>2, <1>3

\* A new text is a content.
LEMMA NewContent ==
    ASSUME fresh \in Nat, NEW nl \in BOOLEAN
    PROVE  NewText(nl) \in Content /\ NewText(nl).text = fresh
BY DEF NewText, Content

\* Only one file is about to be written.
LEMMA OneTarget ==
    ASSUME NEW S \in SUBSET Paths, NEW p, NEW q
    PROVE  /\ IsFirst(p, S) /\ IsFirst(q, S) => p = q
           /\ IsLast(p, S) /\ IsLast(q, S) => p = q
<1>1. \A a, b \in Nat : a <= b /\ b <= a => a = b
  OBVIOUS
<1>2. S \subseteq Nat
  BY AcceptAssumption
<1>3. QED
  BY <1>1, <1>2 DEF IsFirst, IsLast

\* AcceptTypeOK holds initially.
LEMMA InitTypes == AcceptInit => AcceptTypeOK
<1> SUFFICES ASSUME AcceptInit PROVE AcceptTypeOK
  OBVIOUS
<1>1. fresh \in Nat
  BY DEF AcceptInit
<1>2. files \in [Paths -> Content]
  BY DEF AcceptInit, Content, Absent
<1>3. /\ DOMAIN journal = {"phase", "items"} /\ journal.phase = "None"
      /\ journal.items = NoProposals
  BY Nothing DEF AcceptInit
<1>4. {edited, torn, left, DOMAIN pending, DOMAIN stored, DOMAIN journal.items,
       DOMAIN accepted} \subseteq SUBSET Paths
  BY Nothing, <1>3 DEF AcceptInit
<1>5. {bound, overtaken, doubted} \subseteq BOOLEAN /\ pc = "Idle" /\ window = "Clean"
  BY DEF AcceptInit
<1>6. QED
  BY Nothing, <1>1, <1>2, <1>3, <1>4, <1>5 DEF AcceptInit, AcceptTypeOK

\* What a write of p leaves behind.
WriteEffect(p, content) ==
    \/ UNCHANGED <<files, fresh, edited, torn>>
    \/ files' = [files EXCEPT ![p] = content] /\ edited' = edited \ {p} /\ UNCHANGED <<fresh, torn>>
    \/ /\ files' = [files EXCEPT ![p] = NewText(TRUE)] /\ fresh' = fresh + 1
       /\ edited' = edited \ {p} /\ torn' = torn \cup {p}

\* Every write, failing or not, has one of these effects.
LEMMA Writes ==
    ASSUME NEW p, NEW content
    PROVE  /\ Written(p, content) => WriteEffect(p, content)
           /\ WriteWorks(p, content) => WriteEffect(p, content)
           /\ WriteFails(p, content) => WriteEffect(p, content)
           /\ Tears(p) => WriteEffect(p, content)
BY DEF Written, WriteWorks, WriteFails, Tears, WriteEffect, world

\* The files and the histories about them stay well typed.
WorldTypes ==
    /\ fresh \in Nat
    /\ files \in [Paths -> Content]
    /\ edited \subseteq Paths
    /\ torn \subseteq Paths

\* A write keeps them so.
LEMMA WriteTypes ==
    ASSUME WorldTypes, NEW p \in Paths, NEW content \in Content, WriteEffect(p, content)
    PROVE  WorldTypes'
<1>1. NewText(TRUE) \in Content
  BY NewContent DEF WorldTypes
<1>2. CASE UNCHANGED <<files, fresh, edited, torn>>
  BY <1>2 DEF WorldTypes
<1>3. CASE /\ files' = [files EXCEPT ![p] = content] /\ edited' = edited \ {p}
           /\ UNCHANGED <<fresh, torn>>
  BY <1>3 DEF WorldTypes
<1>4. CASE /\ files' = [files EXCEPT ![p] = NewText(TRUE)] /\ fresh' = fresh + 1
           /\ edited' = edited \ {p} /\ torn' = torn \cup {p}
  <2>1. files' \in [Paths -> Content]
    BY <1>1, <1>4 DEF WorldTypes
  <2>2. fresh' \in Nat
    BY <1>4 DEF WorldTypes
  <2>3. QED
    BY <1>4, <2>1, <2>2 DEF WorldTypes
<1>5. QED
  BY <1>2, <1>3, <1>4 DEF WriteEffect

\* Every step keeps AcceptTypeOK.
LEMMA NextTypes ==
    ASSUME AcceptTypeOK, [AcceptNext]_vars
    PROVE  AcceptTypeOK'
<1> USE AcceptAssumption DEF AcceptTypeOK, world, history
<1>0. WorldTypes
  BY DEF WorldTypes
<1>1. ASSUME NEW S \in SUBSET Paths, NEW E \in SUBSET Bare, Stage(S, E) PROVE AcceptTypeOK'
  <2>1. \A p \in S : [before |-> files[p], after |-> NewText(p \notin E)] \in Proposal
    BY NewContent DEF Proposal
  <2>2. pending' \in [S -> Proposal] /\ DOMAIN pending' = S /\ stored' = pending'
    BY <1>1, <2>1 DEF Stage
  <2>3. fresh' \in Nat /\ edited' \subseteq Paths /\ torn' \subseteq Paths
    BY <1>1 DEF Stage
  <2>4. overtaken' \in BOOLEAN
    BY <1>1 DEF Stage, Outstanding
  <2>5. UNCHANGED <<files, journal, pc, left, window, bound, accepted, doubted>>
        /\ pc = "Idle"
    BY <1>1 DEF Stage, Ready
  <2>6. QED
    BY <2>2, <2>3, <2>4, <2>5
<1>2. ASSUME NEW p \in Paths, NEW nl \in BOOLEAN, UserEdit(p, nl) PROVE AcceptTypeOK'
  <2>1. files' \in [Paths -> Content] /\ fresh' \in Nat
    BY <1>2, NewContent DEF UserEdit
  <2>2. edited' \subseteq Paths /\ torn' \subseteq Paths
    BY <1>2 DEF UserEdit
  <2>3. accepted' \in [DOMAIN accepted' -> Content] /\ DOMAIN accepted' \subseteq Paths
    BY <1>2 DEF UserEdit, Drop
  <2>4. window' = window \/ (Target(p) /\ window' \in {"Edited", "Replaced"})
    BY <1>2 DEF UserEdit
  <2>5. UNCHANGED <<pending, stored, journal, pc, left, bound, overtaken, doubted>>
    BY <1>2 DEF UserEdit
  <2>6. Target(p) => pc \in {"Overwriting", "Restoring", "Accepting"}
    BY DEF Target
  <2>7. QED
    BY <2>1, <2>2, <2>3, <2>4, <2>5, <2>6
<1>3. ASSUME Begin PROVE AcceptTypeOK'
  BY <1>3, EmptySet DEF Begin, Ready, Outstanding, GoTo
<1>4. ASSUME NEW p \in Paths, Apply(p) PROVE AcceptTypeOK'
  BY <1>4 DEF Apply, RollBackAll, GoTo
<1>5. ASSUME NEW p \in Paths, Overwrite(p) PROVE AcceptTypeOK'
  <2> DEFINE content == journal.items[p].after
  <2>1. content \in Content
    BY <1>5, Compared DEF Overwrite, IsFirst
  <2>2. WriteEffect(p, content)
    BY <1>5, Writes DEF Overwrite
  <2> HIDE DEF content
  <2>3. WorldTypes'
    BY <1>0, <2>1, <2>2, WriteTypes
  <2>4. /\ UNCHANGED <<pending, stored, journal, bound, accepted, overtaken, doubted>>
        /\ window' = "Clean" /\ journal.phase = "Applying"
        /\ \/ pc' = "Applying" /\ left' = left \ {p} /\ left \subseteq DOMAIN journal.items
           \/ pc' = "Idle" /\ left' = {}
           \/ pc' = "RollingBack" /\ left' = DOMAIN journal.items
    BY <1>5 DEF Overwrite, RollBackAll, GoTo
  <2>5. QED
    BY <2>3, <2>4 DEF WorldTypes
<1>6. ASSUME MarkApplied PROVE AcceptTypeOK'
  BY <1>6 DEF MarkApplied, GoTo
<1>7. ASSUME Decide PROVE AcceptTypeOK'
  <2>1. AcceptedWith(journal.items) \in
          [DOMAIN AcceptedWith(journal.items) -> Content]
    BY Compared DEF AcceptedWith
  <2>2. DOMAIN AcceptedWith(journal.items) \subseteq Paths
    BY DEF AcceptedWith
  <2>3. accepted' \in {accepted, AcceptedWith(journal.items)} /\ journal' = journal
    BY <1>7 DEF Decide
  <2>4. /\ pending' \in {pending, NoProposals} /\ stored' \in {stored, NoProposals}
        /\ overtaken' = overtaken /\ doubted' \in BOOLEAN /\ window' = "Clean"
        /\ \/ pc' = "Committing" /\ left' = {}
           \/ pc' = "RollingBack" /\ left' = DOMAIN journal.items
    BY <1>7 DEF Decide, RollBackAll, GoTo
  <2>5. UNCHANGED <<files, fresh, edited, torn, bound>> /\ journal.phase = "Applied"
    BY <1>7 DEF Decide
  <2>6. /\ pending' \in [DOMAIN pending' -> Proposal] /\ DOMAIN pending' \subseteq Paths
        /\ stored' \in [DOMAIN stored' -> Proposal] /\ DOMAIN stored' \subseteq Paths
    BY <2>4, Nothing
  <2>7. accepted' \in [DOMAIN accepted' -> Content] /\ DOMAIN accepted' \subseteq Paths
    BY <2>1, <2>2, <2>3
  <2>8. QED
    BY <2>3, <2>4, <2>5, <2>6, <2>7
<1>8. ASSUME Commit PROVE AcceptTypeOK'
  BY <1>8 DEF Commit, GoTo
<1>9. ASSUME Remove PROVE AcceptTypeOK'
  BY <1>9, Nothing DEF Remove, GoTo, Open
<1>10. ASSUME NEW p \in Paths, RollBack(p) PROVE AcceptTypeOK'
  BY <1>10 DEF RollBack, GoTo
<1>11. ASSUME NEW p \in Paths, Restore(p) PROVE AcceptTypeOK'
  <2> DEFINE content == Expected(journal.items[p])
  <2>1. content \in Content
    BY <1>11, Compared DEF Restore, IsLast
  <2>2. WriteEffect(p, content)
    BY <1>11, Writes DEF Restore
  <2> HIDE DEF content
  <2>3. WorldTypes'
    BY <1>0, <2>1, <2>2, WriteTypes
  <2>4. /\ UNCHANGED <<pending, stored, journal, bound, accepted, overtaken, doubted>>
        /\ window' = "Clean" /\ journal.phase # "None" /\ left \subseteq DOMAIN journal.items
        /\ \/ pc' = "RollingBack" /\ left' = left \ {p}
           \/ pc' = "Idle" /\ left' = {}
    BY <1>11 DEF Restore, GoTo
  <2>5. QED
    BY <2>3, <2>4 DEF WorldTypes
<1>12. ASSUME RollBackDone PROVE AcceptTypeOK'
  BY <1>12 DEF RollBackDone, GoTo
<1>13. ASSUME NEW p \in Paths, AcceptFile(p) PROVE AcceptTypeOK'
  BY <1>13 DEF AcceptFile, Ready, GoTo, Outstanding
<1>14. ASSUME NEW p \in Paths, AcceptWrite(p) PROVE AcceptTypeOK'
  <2> DEFINE content == pending[p].after
  <2>1. content \in Content
    BY <1>14, Compared DEF AcceptWrite
  <2>2. WriteEffect(p, content)
    BY <1>14, Writes DEF AcceptWrite
  <2> HIDE DEF content
  <2>3. WorldTypes'
    BY <1>0, <2>1, <2>2, WriteTypes
  <2>4. /\ UNCHANGED <<stored, journal, bound, overtaken, doubted>>
        /\ window' = "Clean" /\ pc' \in {"Persisting", "Idle"} /\ left' \in {{p}, {}}
    BY <1>14 DEF AcceptWrite, GoTo
  <2>5. pending' \in [DOMAIN pending' -> Proposal] /\ DOMAIN pending' \subseteq Paths
    BY <1>14 DEF AcceptWrite, Drop
  <2>6. accepted' \in [DOMAIN accepted' -> Content] /\ DOMAIN accepted' \subseteq Paths
    BY <1>14 DEF AcceptWrite, Drop
  <2>7. QED
    BY <2>3, <2>4, <2>5, <2>6 DEF WorldTypes
<1>15. ASSUME NEW S, Reject(S) PROVE AcceptTypeOK'
  BY <1>15 DEF Reject, Ready, GoTo, Drop, Outstanding
<1>16. ASSUME Persist PROVE AcceptTypeOK'
  BY <1>16 DEF Persist, GoTo
<1>17. ASSUME Restart PROVE AcceptTypeOK'
  <2>1. /\ pc' = "Starting" /\ left' = {} /\ window' = "Clean" /\ bound' = FALSE
        /\ pending' = NoProposals
        /\ UNCHANGED <<stored, journal, overtaken, doubted>>
    BY <1>17 DEF Restart, GoTo
  <2>2. WorldTypes' /\ accepted' \in [DOMAIN accepted' -> Content]
        /\ DOMAIN accepted' \subseteq Paths
    <3>1. CASE UNCHANGED <<world, accepted>>
      BY <1>0, <3>1 DEF WorldTypes
    <3>2. ASSUME NEW p \in Paths, CrashTears(p)
          PROVE  /\ WorldTypes' /\ accepted' \in [DOMAIN accepted' -> Content]
                 /\ DOMAIN accepted' \subseteq Paths
      <4>1. WorldTypes'
        BY <1>0, <3>2, Nothing, Writes, WriteTypes, NewContent DEF CrashTears
      <4>2. accepted' = Drop(accepted, {p})
        BY <3>2 DEF CrashTears
      <4>3. QED
        BY <4>1, <4>2 DEF Drop
    <3>3. QED
      BY <1>17, <3>1, <3>2 DEF Restart
  <2>3. pending' \in [DOMAIN pending' -> Proposal] /\ DOMAIN pending' = {}
    BY <2>1, Nothing
  <2>4. QED
    BY <2>1, <2>2, <2>3 DEF WorldTypes
<1>18. ASSUME Recover PROVE AcceptTypeOK'
  <2>1. UNCHANGED <<files, fresh, edited, torn, stored, journal, accepted, overtaken, doubted>>
    BY <1>18 DEF Recover
  <2>2. bound' \in BOOLEAN /\ pending' \in {pending, stored} /\ window' = "Clean"
    BY <1>18 DEF Recover, Open, RollBackAll, GoTo
  <2>3. \/ pc' = "Idle" /\ left' = {}
        \/ pc' = "Removing" /\ left' = {} /\ journal.phase # "None"
        \/ pc' = "RollingBack" /\ left' = DOMAIN journal.items /\ journal.phase # "None"
    BY <1>18 DEF Recover, RollBackAll, GoTo, Outstanding
  <2>4. QED
    BY <2>1, <2>2, <2>3
<1>19. ASSUME BindProject PROVE AcceptTypeOK'
  BY <1>19 DEF BindProject, Open
<1>20. CASE UNCHANGED vars
  BY <1>20 DEF vars
<1>21. QED
  BY <1>1, <1>2, <1>3, <1>4, <1>5, <1>6, <1>7, <1>8, <1>9, <1>10, <1>11, <1>12, <1>13, <1>14,
     <1>15, <1>16, <1>17, <1>18, <1>19, <1>20 DEF AcceptNext, RejectFile, RejectAll, Endings

-----------------------------------------------------------------------------
(* What a step does to the files and to the sets of proposals *)

Overwrites(p, content) ==
    /\ content.text < fresh
    /\ files' = [files EXCEPT ![p] = content]
    /\ fresh' = fresh /\ edited' = edited \ {p}

TearsFile(p) ==
    /\ files' = [files EXCEPT ![p] = NewText(TRUE)]
    /\ fresh' = fresh + 1
    /\ edited' = edited \ {p}

\* A file written by the app holds no edit of the user any more.
FileEffect ==
    \/ UNCHANGED <<files, fresh, edited>>
    \/ \E p \in Paths : \E content \in Content : Overwrites(p, content)
    \/ \E p \in Paths : TearsFile(p)

\* A write has one of the effects above.
LEMMA WriteIsEffect ==
    ASSUME NEW p \in Paths, NEW content \in Content, content.text < fresh,
           WriteEffect(p, content)
    PROVE  FileEffect
BY DEF WriteEffect, FileEffect, Overwrites, TearsFile

\* Only staging and the user's editor are not of that kind.
LEMMA Effects ==
    ASSUME AcceptTypeOK, EditsForeign, [AcceptNext]_vars
    PROVE  \/ FileEffect
           \/ \E S \in SUBSET Paths, E \in SUBSET Bare : Stage(S, E)
           \/ \E p \in Paths, nl \in BOOLEAN : UserEdit(p, nl)
<1>1. ASSUME NEW p \in Paths, Overwrite(p) PROVE FileEffect
  <2>1. p \in DOMAIN journal.items /\ journal.items[p] \in Proposal
    BY <1>1 DEF AcceptTypeOK, Overwrite, IsFirst
  <2>2. journal.items[p].after \in Content /\ journal.items[p].after.text < fresh
    BY <2>1, Compared DEF EditsForeign, Known
  <2>3. WriteEffect(p, journal.items[p].after)
    BY <1>1, Writes DEF Overwrite
  <2>4. QED
    BY <2>2, <2>3, WriteIsEffect
<1>2. ASSUME NEW p \in Paths, Restore(p) PROVE FileEffect
  <2>1. p \in DOMAIN journal.items /\ journal.items[p] \in Proposal
    BY <1>2 DEF AcceptTypeOK, Restore, IsLast
  <2>2. Expected(journal.items[p]) \in Content /\ Expected(journal.items[p]).text < fresh
    BY <2>1, Compared DEF EditsForeign, Known
  <2>3. WriteEffect(p, Expected(journal.items[p]))
    BY <1>2, Writes DEF Restore
  <2>4. QED
    BY <2>2, <2>3, WriteIsEffect
<1>3. ASSUME NEW p \in Paths, AcceptWrite(p) PROVE FileEffect
  <2>1. p \in DOMAIN pending /\ pending[p] \in Proposal
    BY <1>3 DEF AcceptTypeOK, AcceptWrite
  <2>2. pending[p].after \in Content /\ pending[p].after.text < fresh
    BY <2>1, Compared DEF EditsForeign, Known
  <2>3. WriteEffect(p, pending[p].after)
    BY <1>3, Writes DEF AcceptWrite
  <2>4. QED
    BY <2>2, <2>3, WriteIsEffect
<1>4. ASSUME Restart PROVE FileEffect
  <2>1. (\E p \in Paths : CrashTears(p)) => FileEffect
    BY DEF CrashTears, Tears, FileEffect, TearsFile
  <2>2. UNCHANGED <<world, accepted>> => FileEffect
    BY DEF FileEffect, world
  <2>3. QED
    BY <1>4, <2>1, <2>2 DEF Restart
<1>5. CASE \E p \in Paths : Apply(p) \/ RollBack(p) \/ AcceptFile(p)
  BY <1>5 DEF Apply, RollBack, AcceptFile, FileEffect, world
<1>6. CASE \/ Begin \/ MarkApplied \/ Decide \/ Commit \/ Remove \/ RollBackDone
           \/ (\E S : Reject(S)) \/ Persist \/ Recover \/ BindProject \/ UNCHANGED vars
  BY <1>6 DEF Begin, MarkApplied, Decide, Commit, Remove, RollBackDone, Reject,
              Persist, Recover, BindProject, FileEffect, world, vars
<1>7. QED
  BY <1>1, <1>2, <1>3, <1>4, <1>5, <1>6 DEF AcceptNext, RejectFile, RejectAll, Endings

\* The set items is made of proposals that were known before.
FromOld(items) ==
    \A p \in DOMAIN items :
        \/ p \in DOMAIN pending /\ items[p] = pending[p]
        \/ p \in DOMAIN stored /\ items[p] = stored[p]
        \/ p \in DOMAIN journal.items /\ items[p] = journal.items[p]

Stages == \E S \in SUBSET Paths, E \in SUBSET Bare : Stage(S, E)

\* Only staging makes new proposals.
LEMMA NoNewProposals ==
    ASSUME AcceptTypeOK, [AcceptNext]_vars
    PROVE  \/ FromOld(pending') /\ FromOld(stored') /\ FromOld(journal'.items)
           \/ Stages
<1> USE DEF FromOld
<1>1. \/ pending' \in {pending, stored, NoProposals}
      \/ \E S : pending' = Drop(pending, S)
      \/ Stages
  BY DEF AcceptNext, UserEdit, Begin, Apply, Overwrite, MarkApplied, Decide, Commit, Remove,
         Open, RollBack, Restore, RollBackDone, AcceptFile, AcceptWrite, RejectFile, RejectAll,
         Reject, Persist, Restart, Recover, BindProject, vars, Stages
<1>2. stored' \in {stored, pending, NoProposals} \/ Stages
  BY DEF AcceptNext, UserEdit, Begin, Apply, Overwrite, MarkApplied, Decide, Commit, Remove,
         Open, RollBack, Restore, RollBackDone, AcceptFile, AcceptWrite, RejectFile, RejectAll,
         Reject, Persist, Restart, Recover, BindProject, vars, Stages
<1>3. journal'.items \in {journal.items, pending, NoProposals} \/ Stages
  <2>1. \/ journal' \in {journal, NoJournal, [phase |-> "Applying", items |-> pending],
                         [journal EXCEPT !.phase = "Applied"],
                         [journal EXCEPT !.phase = "Committed"]}
        \/ Stages
    BY DEF AcceptNext, UserEdit, Begin, Apply, Overwrite, MarkApplied, Decide, Commit, Remove,
           RollBack, Restore, RollBackDone, AcceptFile, AcceptWrite, RejectFile, RejectAll,
           Reject, Persist, Restart, Recover, BindProject, vars, Stages
  <2>2. QED
    BY <2>1, Nothing DEF AcceptTypeOK
<1>4. FromOld(pending') \/ Stages
  BY <1>1, Nothing DEF Drop
<1>5. FromOld(stored') \/ Stages
  BY <1>2, Nothing
<1>6. FromOld(journal'.items) \/ Stages
  BY <1>3, Nothing
<1>7. QED
  BY <1>4, <1>5, <1>6

Edits == \E p \in Paths, nl \in BOOLEAN : UserEdit(p, nl)

\* A file the user changed keeps its text; a new edit has a text of its own.
LEMMA EditedTexts ==
    ASSUME AcceptTypeOK, FileEffect \/ Edits
    PROVE  /\ fresh' \in {fresh, fresh + 1}
           /\ \A q \in edited' :
                \/ q \in edited /\ files'[q] = files[q]
                \/ files'[q].text = fresh
           /\ \A q \in Paths :
                \/ files'[q] = files[q]
                \/ files'[q].text < fresh
                \/ files'[q].text = fresh /\ fresh' = fresh + 1
<1>1. files \in [Paths -> Content] /\ fresh \in Nat /\ edited \subseteq Paths
  BY DEF AcceptTypeOK
<1>2. CASE UNCHANGED <<files, fresh, edited>>
  BY <1>2
<1>3. ASSUME NEW p \in Paths, NEW content \in Content, Overwrites(p, content)
      PROVE  /\ fresh' = fresh
             /\ \A q \in edited' : q \in edited /\ files'[q] = files[q]
             /\ \A q \in Paths : files'[q] = files[q] \/ files'[q].text < fresh
  BY <1>1, <1>3 DEF Overwrites
<1>4. ASSUME NEW p \in Paths, TearsFile(p)
      PROVE  /\ fresh' = fresh + 1
             /\ \A q \in edited' : q \in edited /\ files'[q] = files[q]
             /\ \A q \in Paths : files'[q] = files[q] \/ files'[q].text = fresh
  <2>1. NewText(TRUE).text = fresh
    BY <1>1, NewContent
  <2>2. QED
    BY <1>1, <1>4, <2>1 DEF TearsFile
<1>5. ASSUME NEW p \in Paths, NEW nl \in BOOLEAN, UserEdit(p, nl)
      PROVE  /\ fresh' = fresh + 1
             /\ \A q \in edited' : (q \in edited /\ files'[q] = files[q]) \/ files'[q].text = fresh
             /\ \A q \in Paths : files'[q] = files[q] \/ files'[q].text = fresh
  <2>1. NewText(nl).text = fresh
    BY <1>1, NewContent
  <2>2. fresh' = fresh + 1 /\ edited' = edited \cup {p} /\ files' = [files EXCEPT ![p] = NewText(nl)]
    BY <1>5 DEF UserEdit
  <2>3. QED
    BY <1>1, <2>1, <2>2
<1>6. QED
  BY <1>2, <1>3, <1>4, <1>5 DEF FileEffect, Edits

\* A set of known proposals stays known.
LEMMA KnownKept ==
    ASSUME AcceptTypeOK, EditsForeign, FileEffect \/ Edits,
           NEW items, FromOld(items)
    PROVE  \A q \in DOMAIN items :
               /\ items[q].before.text < fresh'
               /\ items[q].after.text < fresh'
               /\ q \in edited' =>
                    files'[q].text \notin {items[q].before.text, items[q].after.text}
<1> SUFFICES ASSUME NEW q \in DOMAIN items
             PROVE  /\ items[q].before.text < fresh'
                    /\ items[q].after.text < fresh'
                    /\ q \in edited' =>
                         files'[q].text \notin {items[q].before.text, items[q].after.text}
  OBVIOUS
<1>1. /\ items[q] \in Proposal
      /\ items[q].before.text < fresh /\ items[q].after.text < fresh
      /\ q \in edited =>
           files[q].text \notin {items[q].before.text, items[q].after.text}
  BY DEF FromOld, EditsForeign, Known, AcceptTypeOK
<1>2. items[q].before.text \in Nat /\ items[q].after.text \in Nat
  BY <1>1 DEF Proposal, Content
<1>3. PICK b \in Nat : b = items[q].before.text
  BY <1>2
<1>4. PICK a \in Nat : a = items[q].after.text
  BY <1>2
<1>5. /\ fresh' \in {fresh, fresh + 1} /\ fresh \in Nat
      /\ q \in edited' => (q \in edited /\ files'[q] = files[q]) \/ files'[q].text = fresh
  BY EditedTexts DEF AcceptTypeOK
<1>6. b < fresh' /\ a < fresh' /\ b # fresh /\ a # fresh
  BY <1>1, <1>3, <1>4, <1>5
<1>7. q \in edited' => files'[q].text \notin {b, a}
  BY <1>1, <1>3, <1>4, <1>5, <1>6
<1>8. QED
  BY <1>3, <1>4, <1>6, <1>7

\* Every step keeps EditsForeign.
LEMMA NextForeign ==
    ASSUME AcceptTypeOK, AcceptTypeOK', EditsForeign, [AcceptNext]_vars
    PROVE  EditsForeign'
<1>1. ASSUME NEW S \in SUBSET Paths, NEW E \in SUBSET Bare, Stage(S, E) PROVE EditsForeign'
  <2>1. /\ files' = files /\ fresh' = fresh + 1 /\ edited' = edited \ S
        /\ journal' = journal /\ stored' = pending'
        /\ pending' = [p \in S |-> [before |-> files[p], after |-> NewText(p \notin E)]]
    BY <1>1 DEF Stage
  <2>2. fresh \in Nat /\ \A p \in Paths : files[p].text \in Nat /\ files[p].text < fresh
    BY DEF AcceptTypeOK, EditsForeign, Content
  <2>3. \A p \in Paths : files'[p].text < fresh'
    BY <2>1, <2>2
  <2>4. Known(pending)'
    <3> SUFFICES ASSUME NEW p \in S
                 PROVE  /\ pending'[p].before.text < fresh' /\ pending'[p].after.text < fresh'
                        /\ p \notin edited'
      BY <2>1 DEF Known
    <3>1. pending'[p].before = files[p] /\ pending'[p].after = NewText(p \notin E)
      BY <2>1
    <3>2. pending'[p].after.text = fresh
      BY <2>2, <3>1, NewContent
    <3>3. QED
      BY <2>1, <2>2, <3>1, <3>2
  <2>5. Known(journal.items)'
    <3> SUFFICES ASSUME NEW p \in DOMAIN journal.items
                 PROVE  /\ journal.items[p].before.text < fresh'
                        /\ journal.items[p].after.text < fresh'
                        /\ p \in edited' => files'[p].text \notin
                             {journal.items[p].before.text, journal.items[p].after.text}
      BY <2>1 DEF Known
    <3>1. journal.items[p].before.text \in Nat /\ journal.items[p].after.text \in Nat
      BY DEF AcceptTypeOK, Proposal, Content
    <3>2. QED
      BY <2>1, <2>2, <3>1 DEF Known, EditsForeign
  <2>6. QED
    BY <2>1, <2>3, <2>4, <2>5 DEF EditsForeign, Known
<1>2. CASE ~Stages
  <2>1. FileEffect \/ Edits
    BY <1>2, Effects DEF Stages, Edits
  <2>2. FromOld(pending') /\ FromOld(stored') /\ FromOld(journal'.items)
    BY <1>2, NoNewProposals
  <2>3. Known(pending)' /\ Known(stored)' /\ Known(journal.items)'
    BY <2>1, <2>2, KnownKept DEF Known
  <2>4. \A p \in Paths : files'[p].text < fresh'
    <3> SUFFICES ASSUME NEW p \in Paths PROVE files'[p].text < fresh'
      OBVIOUS
    <3>1. files[p].text < fresh /\ files[p].text \in Nat /\ fresh \in Nat /\ files'[p].text \in Nat
      BY DEF AcceptTypeOK, EditsForeign, Content
    <3>2. /\ fresh' \in {fresh, fresh + 1}
          /\ \/ files'[p] = files[p] \/ files'[p].text < fresh
             \/ files'[p].text = fresh /\ fresh' = fresh + 1
      BY <2>1, EditedTexts
    <3>3. PICK t \in Nat : t = files'[p].text
      BY <3>1
    <3>4. t < fresh \/ (t = fresh /\ fresh' = fresh + 1)
      BY <3>1, <3>2, <3>3
    <3>5. QED
      BY <3>1, <3>2, <3>3, <3>4
  <2>5. QED
    BY <2>3, <2>4 DEF EditsForeign
<1>3. QED
  BY <1>1, <1>2 DEF Stages

-----------------------------------------------------------------------------
(* Between the comparison of a file and its write *)

\* A file that compares equal is not the user's.
LEMMA MatchedIsOurs ==
    ASSUME AcceptTypeOK, EditsForeign, NEW p
    PROVE  /\ p \in DOMAIN journal.items
              /\ files[p] \in {Expected(journal.items[p]), Undoable(journal.items[p])}
              => p \notin edited
           /\ p \in DOMAIN pending /\ files[p] = Expected(pending[p]) => p \notin edited
<1>1. ASSUME p \in DOMAIN journal.items,
             files[p] \in {Expected(journal.items[p]), Undoable(journal.items[p])}
      PROVE  p \notin edited
  <2>1. /\ Expected(journal.items[p]).text = journal.items[p].before.text
        /\ Undoable(journal.items[p]).text = journal.items[p].after.text
    BY <1>1, Compared DEF AcceptTypeOK
  <2>2. p \in edited => files[p].text \notin {journal.items[p].before.text,
                                              journal.items[p].after.text}
    BY <1>1 DEF EditsForeign, Known
  <2>3. QED
    BY <1>1, <2>1, <2>2
<1>2. p \in DOMAIN pending /\ files[p] = Expected(pending[p]) => p \notin edited
  <2>1. p \in DOMAIN pending => Expected(pending[p]).text = pending[p].before.text
    BY Compared DEF AcceptTypeOK
  <2>2. p \in DOMAIN pending /\ p \in edited => files[p].text # pending[p].before.text
    BY DEF EditsForeign, Known
  <2>3. QED
    BY <2>1, <2>2
<1>3. QED
  BY <1>1, <1>2

\* Every step keeps WindowOK: a step that compares leaves the file unedited, and
\* only the user's edits come between it and the write.
LEMMA NextWindow ==
    ASSUME AcceptTypeOK, EditsForeign, WindowOK, [AcceptNext]_vars
    PROVE  WindowOK'
<1>1. ASSUME NEW p \in Paths, NEW nl \in BOOLEAN, UserEdit(p, nl) PROVE WindowOK'
  <2>1. /\ UNCHANGED <<pc, left>> /\ edited' = edited \cup {p}
        /\ Target(p) => window' \in {"Edited", "Replaced"}
        /\ ~Target(p) => window' = window
    BY <1>1 DEF UserEdit
  <2>2. \A q \in Paths : Target(q)' <=> Target(q)
    BY <2>1 DEF Target, IsFirst, IsLast
  <2>3. \A q \in Paths : Target(q) /\ Target(p) => q = p
    <3>1. left \subseteq Paths
      BY DEF AcceptTypeOK
    <3>2. pc = "Accepting" => \A a, b \in left : a = b
      BY DEF WindowOK
    <3>3. QED
      BY <3>1, <3>2, OneTarget DEF Target
  <2>4. QED
    BY <2>1, <2>2, <2>3 DEF WindowOK
<1>2. ASSUME NEW p \in Paths, Apply(p) PROVE WindowOK'
  <2>1. /\ edited' = edited
        /\ \/ pc' = "RollingBack"
           \/ /\ pc' = "Overwriting" /\ left' = left /\ window' = "Clean"
              /\ files[p] = Expected(journal.items[p]) /\ IsFirst(p, left)
              /\ p \in DOMAIN journal.items
    BY <1>2 DEF Apply, RollBackAll, GoTo, world, AcceptTypeOK, IsFirst
  <2>2. pc' = "Overwriting" => \A q \in Paths : Target(q)' => q = p /\ p \notin edited
    BY <2>1, MatchedIsOurs, OneTarget DEF Target, AcceptTypeOK
  <2>3. QED
    BY <2>1, <2>2 DEF WindowOK, Target
<1>3. ASSUME NEW p \in Paths, RollBack(p) PROVE WindowOK'
  <2>1. /\ edited' = edited
        /\ \/ pc' \in {"RollingBack", "Idle"}
           \/ /\ pc' = "Restoring" /\ left' = left /\ window' = "Clean"
              /\ files[p] = Undoable(journal.items[p]) /\ IsLast(p, left)
              /\ p \in DOMAIN journal.items
    BY <1>3 DEF RollBack, GoTo, world, AcceptTypeOK, IsLast
  <2>2. pc' = "Restoring" => \A q \in Paths : Target(q)' => q = p /\ p \notin edited
    BY <2>1, MatchedIsOurs, OneTarget DEF Target, AcceptTypeOK
  <2>3. QED
    BY <2>1, <2>2 DEF WindowOK, Target
<1>4. ASSUME NEW p \in Paths, AcceptFile(p) PROVE WindowOK'
  <2>1. /\ edited' = edited /\ pc' = "Accepting" /\ left' = {p} /\ window' = "Clean"
        /\ p \in DOMAIN pending /\ files[p] = Expected(pending[p])
    BY <1>4 DEF AcceptFile, GoTo, world
  <2>2. QED
    BY <2>1, MatchedIsOurs DEF WindowOK, Target
<1>5. CASE \/ Begin \/ MarkApplied \/ Decide \/ Commit \/ Remove \/ RollBackDone
           \/ (\E S : Reject(S)) \/ Persist \/ Recover \/ Restart
           \/ (\E p \in Paths : Overwrite(p) \/ Restore(p) \/ AcceptWrite(p))
  <2>1. pc' \notin {"Overwriting", "Restoring", "Accepting"}
    BY <1>5 DEF Begin, MarkApplied, Decide, Commit, Remove, RollBackDone, Reject, Persist,
                Recover, Restart, Overwrite, Restore, AcceptWrite, RollBackAll, GoTo
  <2>2. QED
    BY <2>1 DEF WindowOK, Target
<1>6. CASE Stages \/ BindProject
  <2>1. pc' = "Idle"
    BY <1>6 DEF Stages, Stage, BindProject, Ready
  <2>2. QED
    BY <2>1 DEF WindowOK, Target
<1>7. CASE UNCHANGED vars
  BY <1>7 DEF vars, world, WindowOK, Target, IsFirst, IsLast
<1>8. QED
  BY <1>1, <1>2, <1>3, <1>4, <1>5, <1>6, <1>7
     DEF AcceptNext, RejectFile, RejectAll, Endings, Stages

-----------------------------------------------------------------------------
(* Rolling back *)

\* Every step keeps Undone: only rollback_journal() leads to the removal of a
\* journal that is not decided, and it passes no file over.
LEMMA NextUndone ==
    ASSUME AcceptTypeOK, Undone, [AcceptNext]_vars
    PROVE  Undone'
<1> USE DEF Undone, AllRestored
<1>1. ASSUME NEW p \in Paths, NEW nl \in BOOLEAN, UserEdit(p, nl) PROVE Undone'
  <2>1. /\ UNCHANGED <<pc, left, journal, stored>>
        /\ edited' = edited \cup {p}
        /\ files' = [files EXCEPT ![p] = NewText(nl)]
    BY <1>1 DEF UserEdit
  <2>2. \A q \in Paths : q # p => files'[q] = files[q]
    BY <2>1 DEF AcceptTypeOK
  <2>3. DOMAIN journal.items \subseteq Paths /\ (Decided' <=> Decided)
    BY <2>1 DEF AcceptTypeOK, Decided
  <2>4. QED
    BY <2>1, <2>2, <2>3
<1>2. ASSUME NEW p \in Paths, RollBack(p) PROVE Undone'
  <2>1. /\ UNCHANGED <<files, edited, journal>> /\ pc = "RollingBack"
        /\ \/ pc' = "Idle"
           \/ pc' = "Restoring" /\ left' = left
           \/ /\ pc' = "RollingBack" /\ left' = left \ {p}
              /\ files[p] = Expected(journal.items[p])
    BY <1>2 DEF RollBack, GoTo, world
  <2>2. QED
    BY <2>1
<1>3. ASSUME NEW p \in Paths, Restore(p) PROVE Undone'
  <2>1. DOMAIN journal.items \subseteq Paths /\ files \in [Paths -> Content]
    BY DEF AcceptTypeOK
  <2>2. /\ journal' = journal /\ pc = "Restoring"
        /\ \/ pc' = "Idle"
           \/ /\ pc' = "RollingBack" /\ left' = left \ {p} /\ edited' = edited \ {p}
              /\ files' = [files EXCEPT ![p] = Expected(journal.items[p])]
    BY <1>3 DEF Restore, WriteWorks, Written, GoTo
  <2>3. CASE pc' = "RollingBack"
    <3>1. \A q \in Paths : files'[q] = IF q = p THEN Expected(journal.items[p]) ELSE files[q]
      BY <2>1, <2>2, <2>3
    <3>2. QED
      BY <2>1, <2>2, <2>3, <3>1
  <2>4. QED
    BY <2>2, <2>3
<1>4. CASE RollBackDone
  <2>1. /\ pc = "RollingBack" /\ left = {} /\ pc' = "Removing"
        /\ UNCHANGED <<files, edited, journal>>
    BY <1>4 DEF RollBackDone, GoTo, world
  <2>2. QED
    BY <2>1
<1>5. ASSUME NEW p \in Paths, Apply(p) \/ Overwrite(p) PROVE Undone'
  <2>1. /\ journal' = journal
        /\ \/ pc' \in {"Applying", "Overwriting", "Idle"}
           \/ pc' = "RollingBack" /\ left' = DOMAIN journal.items
    BY <1>5 DEF Apply, Overwrite, RollBackAll, GoTo
  <2>2. QED
    BY <2>1
<1>6. CASE Decide
  BY <1>6 DEF Decide, RollBackAll, GoTo
<1>7. CASE Recover
  BY <1>7 DEF Recover, RollBackAll, GoTo, Decided
<1>8. CASE Commit
  <2>1. pc' = "Idle" \/ (pc' = "Removing" /\ journal' = [journal EXCEPT !.phase = "Committed"])
    BY <1>8 DEF Commit, GoTo
  <2>2. QED
    BY <2>1 DEF Decided, AcceptTypeOK
<1>9. CASE \/ Begin \/ MarkApplied \/ Remove \/ Persist \/ Restart
           \/ (\E S : Reject(S)) \/ (\E p \in Paths : AcceptFile(p) \/ AcceptWrite(p))
  <2>1. pc' \notin {"RollingBack", "Restoring", "Removing"}
    BY <1>9 DEF Begin, MarkApplied, Remove, Persist, Restart, Reject, AcceptFile, AcceptWrite,
                GoTo
  <2>2. QED
    BY <2>1
<1>10. CASE Stages \/ BindProject
  BY <1>10 DEF Stages, Stage, BindProject, Ready
<1>11. CASE UNCHANGED vars
  BY <1>11 DEF vars, world, Decided
<1>12. QED
  BY <1>1, <1>2, <1>3, <1>4, <1>5, <1>6, <1>7, <1>8, <1>9, <1>10, <1>11
     DEF AcceptNext, RejectFile, RejectAll, Endings, Stages

-----------------------------------------------------------------------------
(* Accepting *)

\* A journal is decided only with its files written, while nothing overtakes it
\* and its decision is not in doubt.
LEMMA NextDone ==
    ASSUME AcceptTypeOK, AcceptTypeOK', Done, [AcceptNext]_vars
    PROVE  Done'
<1> USE DEF Done, AllApplied, Orderly
<1>1. ASSUME NEW S \in SUBSET Paths, NEW E, Stage(S, E) PROVE Done'
  <2>1. /\ pc = "Idle" /\ pc' = "Idle" /\ journal' = journal /\ stored' = pending'
        /\ overtaken' = (overtaken \/ Outstanding) /\ doubted' = doubted
    BY <1>1 DEF Stage, Ready
  <2>2. QED
    BY <2>1 DEF Decided, Outstanding
<1>2. ASSUME NEW p \in Paths, NEW nl \in BOOLEAN, UserEdit(p, nl) PROVE Done'
  <2>1. /\ UNCHANGED <<pc, left, journal, stored, pending, overtaken, doubted>>
        /\ edited' = edited \cup {p}
        /\ files' = [files EXCEPT ![p] = NewText(nl)]
    BY <1>2 DEF UserEdit
  <2>2. \A q \in Paths : q # p => files'[q] = files[q]
    BY <2>1 DEF AcceptTypeOK
  <2>3. /\ DOMAIN journal.items \subseteq Paths
        /\ (Decided' <=> Decided) /\ (Outstanding' <=> Outstanding)
    BY <2>1 DEF AcceptTypeOK, Decided, Outstanding
  <2>4. QED
    BY <2>1, <2>2, <2>3
<1>3. CASE Begin
  <2>1. /\ pending # NoProposals /\ journal' = [phase |-> "Applying", items |-> pending]
        /\ UNCHANGED <<pending, stored, overtaken, doubted>>
        /\ \/ pc' = "Applying" /\ left' = DOMAIN pending
           \/ pc' = "Idle"
    BY <1>3 DEF Begin, GoTo, history
  <2>2. DOMAIN pending # {}
    BY <2>1, EmptySet DEF AcceptTypeOK
  <2>3. ~Decided'
    BY <2>1 DEF Decided
  <2>4. QED
    BY <2>1, <2>2, <2>3
<1>4. ASSUME NEW p \in Paths, Apply(p) PROVE Done'
  <2>1. /\ pc = "Applying" /\ journal.phase = "Applying"
        /\ UNCHANGED <<files, edited, journal, stored, pending, overtaken, doubted>>
        /\ pc' \in {"RollingBack", "Overwriting"} /\ (pc' = "Overwriting" => left' = left)
    BY <1>4 DEF Apply, RollBackAll, GoTo, history, world, AcceptTypeOK
  <2>2. ~Decided'
    BY <2>1 DEF Decided
  <2>3. QED
    BY <2>1, <2>2
<1>5. ASSUME NEW p \in Paths, Overwrite(p) PROVE Done'
  <2>1. /\ pc = "Overwriting" /\ p \in DOMAIN journal.items /\ journal.phase = "Applying"
        /\ DOMAIN journal.items \subseteq Paths /\ files \in [Paths -> Content]
    BY <1>5 DEF AcceptTypeOK, Overwrite, IsFirst
  <2>2. /\ UNCHANGED <<journal, stored, pending, overtaken, doubted>>
        /\ \/ pc' \in {"Idle", "RollingBack"}
           \/ /\ pc' = "Applying" /\ left' = left \ {p} /\ edited' = edited \ {p}
              /\ files' = [files EXCEPT ![p] = journal.items[p].after]
    BY <1>5 DEF Overwrite, WriteWorks, Written, RollBackAll, GoTo, history
  <2>3. ~Decided'
    BY <2>1, <2>2 DEF Decided
  <2>4. CASE pc' = "Applying"
    <3>1. \A q \in Paths : files'[q] = IF q = p THEN journal.items[p].after ELSE files[q]
      BY <2>1, <2>2, <2>4
    <3>2. \A q \in (DOMAIN journal'.items \ left') \ edited' : files'[q] = journal'.items[q].after
      BY <2>1, <2>2, <2>4, <3>1
    <3>3. QED
      BY <2>1, <2>2, <2>3, <2>4, <3>2
  <2>5. QED
    BY <2>1, <2>2, <2>3, <2>4
<1>6. CASE MarkApplied
  <2>1. /\ pc = "Applying" /\ left = {} /\ left' = {}
        /\ UNCHANGED <<files, edited, stored, pending, overtaken, doubted>>
        /\ pc' \in {"Deciding", "Idle"}
        /\ journal' \in {journal, [journal EXCEPT !.phase = "Applied"]}
    BY <1>6 DEF MarkApplied, GoTo, world, history
  <2>2. journal'.items = journal.items /\ journal'.phase \in {"Applying", "Applied"}
    BY <2>1 DEF AcceptTypeOK
  <2>3. Orderly => ~Decided'
    BY <2>1, <2>2, Nothing DEF Decided
  <2>4. QED
    BY <2>1, <2>2, <2>3
<1>7. CASE Decide
  <2>1. /\ pc = "Deciding" /\ UNCHANGED <<files, edited, journal, overtaken>>
        /\ journal.phase = "Applied"
    BY <1>7 DEF Decide, world, AcceptTypeOK
  <2>2. CASE pc' = "Committing"
    <3>1. /\ pending' = NoProposals /\ stored' = NoProposals /\ doubted' = doubted
      BY <1>7, <2>2 DEF Decide, RollBackAll, GoTo
    <3>2. QED
      BY <2>1, <2>2, <3>1, Nothing
  <2>3. CASE pc' = "RollingBack"
    <3>1. /\ pending' = pending /\ stored' \in {stored, NoProposals}
          /\ doubted' = (doubted \/ stored' # stored)
      BY <1>7, <2>3 DEF Decide, RollBackAll, GoTo
    <3>2. Orderly' => ~Decided' /\ stored' = stored /\ Orderly
      BY <2>1, <3>1, Nothing DEF Decided
    <3>3. QED
      BY <2>3, <3>1, <3>2
  <2>4. QED
    BY <1>7, <2>2, <2>3 DEF Decide, RollBackAll, GoTo
<1>8. CASE Commit
  <2>1. /\ pc = "Committing" /\ pc' \in {"Removing", "Idle"} /\ journal.phase = "Applied"
        /\ UNCHANGED <<files, edited, stored, pending, overtaken, doubted>>
        /\ journal' \in {journal, [journal EXCEPT !.phase = "Committed"]}
    BY <1>8 DEF Commit, GoTo, world, history, AcceptTypeOK
  <2>2. QED
    BY <2>1 DEF AcceptTypeOK, Decided
<1>9. CASE Remove
  <2>1. /\ pc' = "Idle" /\ journal' \in {journal, NoJournal}
        /\ pending' \in {pending, stored}
        /\ UNCHANGED <<files, edited, stored, overtaken, doubted>>
    BY <1>9 DEF Remove, Open, GoTo, world, history
  <2>2. QED
    BY <2>1, Nothing DEF Decided
<1>10. ASSUME NEW p \in Paths, RollBack(p) \/ Restore(p) PROVE Done'
  <2>1. /\ pc \in {"RollingBack", "Restoring"} /\ pc' \in {"RollingBack", "Restoring", "Idle"}
        /\ UNCHANGED <<journal, stored, pending, overtaken, doubted>>
    BY <1>10 DEF RollBack, Restore, GoTo, history
  <2>2. QED
    BY <2>1 DEF Decided
<1>11. CASE RollBackDone
  <2>1. /\ pc = "RollingBack" /\ pc' = "Removing"
        /\ UNCHANGED <<journal, stored, pending, overtaken, doubted>>
    BY <1>11 DEF RollBackDone, GoTo, history
  <2>2. QED
    BY <2>1 DEF Decided
<1>12. ASSUME NEW p \in Paths, AcceptFile(p) PROVE Done'
  <2>1. /\ pc = "Idle" /\ pc' = "Accepting"
        /\ UNCHANGED <<journal, stored, pending, doubted>>
        /\ overtaken' = (overtaken \/ Outstanding)
    BY <1>12 DEF AcceptFile, Ready, GoTo
  <2>2. Orderly' => Orderly /\ ~Outstanding' /\ ~Decided'
    BY <2>1 DEF Outstanding, Decided
  <2>3. QED
    BY <2>1, <2>2
<1>13. ASSUME NEW p \in Paths, AcceptWrite(p) PROVE Done'
  <2>1. /\ pc = "Accepting" /\ pc' \in {"Persisting", "Idle"}
        /\ UNCHANGED <<journal, stored, overtaken, doubted>>
        /\ pending' \in {pending, Drop(pending, {p})}
    BY <1>13 DEF AcceptWrite, GoTo
  <2>2. DOMAIN pending' \subseteq DOMAIN pending
    BY <2>1 DEF Drop
  <2>3. Orderly' => Orderly /\ ~Outstanding' /\ ~Decided'
    BY <2>1 DEF Outstanding, Decided
  <2>4. QED
    BY <2>1, <2>2, <2>3
<1>14. ASSUME NEW S, Reject(S) PROVE Done'
  <2>1. /\ pc' = "Persisting"
        /\ UNCHANGED <<journal, stored, doubted>>
        /\ pending' = Drop(pending, S)
        /\ overtaken' = (overtaken \/ Outstanding)
    BY <1>14 DEF Reject, GoTo
  <2>2. DOMAIN pending' \subseteq DOMAIN pending
    BY <2>1 DEF Drop
  <2>3. Orderly' => Orderly /\ ~Outstanding' /\ ~Decided'
    BY <2>1 DEF Outstanding, Decided
  <2>4. QED
    BY <2>1, <2>2, <2>3
<1>15. CASE Persist
  <2>1. /\ pc = "Persisting" /\ pc' = "Idle"
        /\ UNCHANGED <<journal, pending, overtaken, doubted>>
        /\ stored' \in {stored, pending}
    BY <1>15 DEF Persist, GoTo
  <2>2. Orderly => ~Decided'
    BY <2>1 DEF Decided, Outstanding
  <2>3. QED
    BY <2>1, <2>2
<1>16. CASE Restart
  <2>1. /\ pc' = "Starting" /\ pending' = NoProposals
        /\ UNCHANGED <<stored, journal, overtaken, doubted>>
    BY <1>16 DEF Restart, GoTo
  <2>2. CASE UNCHANGED <<world, accepted>>
    BY <2>1, <2>2, Nothing DEF world, Decided
  <2>3. ASSUME NEW p \in Paths, Target(p) PROVE Done'
    <3>1. Orderly => ~Decided
      BY <2>3 DEF Target, Decided, Outstanding, AcceptTypeOK
    <3>2. QED
      BY <2>1, <3>1, Nothing DEF Decided
  <2>4. QED
    BY <1>16, <2>2, <2>3 DEF Restart, CrashTears
<1>17. CASE Recover
  <2>1. /\ UNCHANGED <<files, edited, stored, journal, overtaken, doubted>>
        /\ pending' \in {pending, stored}
        /\ \/ pc' \in {"Idle", "Removing"}
           \/ pc' = "RollingBack" /\ ~Decided
    BY <1>17 DEF Recover, Open, RollBackAll, GoTo, world, history
  <2>2. QED
    BY <2>1 DEF Decided
<1>18. CASE BindProject
  <2>1. /\ UNCHANGED <<files, edited, stored, journal, overtaken, doubted, pc, left>>
        /\ pending' \in {pending, stored} /\ pc = "Idle"
    BY <1>18 DEF BindProject, Open, world, history
  <2>2. QED
    BY <2>1 DEF Decided
<1>19. CASE UNCHANGED vars
  BY <1>19 DEF vars, world, history, Decided, Outstanding
<1>20. QED
  BY <1>1, <1>2, <1>3, <1>4, <1>5, <1>6, <1>7, <1>8, <1>9, <1>10, <1>11, <1>12, <1>13,
     <1>14, <1>15, <1>16, <1>17, <1>18, <1>19 DEF AcceptNext, RejectFile, RejectAll, Endings

-----------------------------------------------------------------------------
(* Durable acceptances *)

\* A write of p changes no other file and makes no file the user's.
LEMMA WriteLocal ==
    ASSUME AcceptTypeOK, NEW p, NEW content, WriteEffect(p, content)
    PROVE  edited' \subseteq edited /\ \A q \in Paths : q # p => files'[q] = files[q]
BY DEF WriteEffect, AcceptTypeOK

\* Every step keeps Durable: a durable acceptance is overwritten only by the
\* next one, by the user, or beside an outstanding journal.
LEMMA NextDurable ==
    ASSUME AcceptTypeOK, AcceptTypeOK', Undone, Done, Durable, [AcceptNext]_vars
    PROVE  Durable'
<1> USE DEF Durable, Unsettled, Orderly
<1>1. ASSUME NEW S \in SUBSET Paths, NEW E, Stage(S, E) PROVE Durable'
  <2>1. /\ UNCHANGED <<files, journal, accepted, doubted>> /\ edited' \subseteq edited
        /\ overtaken' = (overtaken \/ Outstanding)
    BY <1>1 DEF Stage
  <2>2. Orderly' => Orderly /\ DOMAIN journal.items = {}
    BY <2>1 DEF Outstanding, AcceptTypeOK
  <2>3. QED
    BY <2>1, <2>2
<1>2. ASSUME NEW p \in Paths, NEW nl \in BOOLEAN, UserEdit(p, nl) PROVE Durable'
  <2>1. /\ UNCHANGED <<journal, stored, overtaken, doubted>>
        /\ edited' = edited \cup {p} /\ accepted' = Drop(accepted, {p})
        /\ files' = [files EXCEPT ![p] = NewText(nl)]
    BY <1>2 DEF UserEdit
  <2>2. \A q \in DOMAIN accepted' :
           q \in DOMAIN accepted /\ q # p /\ accepted'[q] = accepted[q] /\ files'[q] = files[q]
    BY <2>1 DEF Drop, AcceptTypeOK
  <2>3. Decided' <=> Decided
    BY <2>1 DEF Decided
  <2>4. QED
    BY <2>1, <2>2, <2>3
<1>3. CASE Begin
  <2>1. /\ UNCHANGED <<files, edited, accepted, overtaken, doubted>>
        /\ journal' = [phase |-> "Applying", items |-> pending]
        /\ ~Outstanding /\ \A p \in DOMAIN pending : files[p] = Expected(pending[p])
    BY <1>3 DEF Begin, world, history
  <2>2. DOMAIN journal.items = {}
    BY <2>1 DEF Outstanding, AcceptTypeOK
  <2>3. ~Decided' /\ journal'.items = pending
    BY <2>1 DEF Decided
  <2>4. QED
    BY <2>1, <2>2, <2>3
<1>4. ASSUME NEW p \in Paths, Overwrite(p) PROVE Durable'
  <2>1. /\ p \in DOMAIN journal.items /\ journal.phase = "Applying"
        /\ DOMAIN accepted \subseteq Paths
    BY <1>4 DEF AcceptTypeOK, Overwrite, IsFirst
  <2>2. UNCHANGED <<journal, stored, accepted, overtaken, doubted>>
    BY <1>4 DEF Overwrite, history
  <2>3. edited' \subseteq edited /\ \A q \in Paths : q # p => files'[q] = files[q]
    BY <1>4, Writes, WriteLocal DEF Overwrite
  <2>4. ~Decided /\ ~Decided'
    BY <2>1, <2>2 DEF Decided
  <2>5. QED
    BY <2>1, <2>2, <2>3, <2>4
<1>5. CASE MarkApplied
  <2>1. /\ pc = "Applying" /\ UNCHANGED <<files, edited, stored, accepted, overtaken, doubted>>
        /\ journal' \in {journal, [journal EXCEPT !.phase = "Applied"]}
    BY <1>5 DEF MarkApplied, world, history
  <2>2. /\ journal'.items = journal.items /\ journal'.phase \in {"Applying", "Applied"}
        /\ journal.phase = "Applying"
    BY <2>1 DEF AcceptTypeOK
  <2>3. Orderly => ~Decided' /\ ~Decided
    BY <2>1, <2>2, Nothing DEF Decided, Done
  <2>4. QED
    BY <2>1, <2>2, <2>3
<1>6. CASE Decide
  <2>1. /\ pc = "Deciding" /\ UNCHANGED <<files, edited, journal, overtaken>>
        /\ journal.phase = "Applied" /\ left = {}
    BY <1>6 DEF Decide, world, AcceptTypeOK, Done
  <2>2. CASE pc' = "Committing"
    <3>1. /\ stored' = NoProposals /\ doubted' = doubted
          /\ accepted' = AcceptedWith(journal.items)
      BY <1>6, <2>2 DEF Decide, RollBackAll, GoTo
    <3>2. Decided' /\ (Orderly => ~Decided)
      BY <2>1, <3>1, Nothing DEF Decided, Done
    <3>3. ASSUME NEW q \in DOMAIN accepted'
          PROVE  /\ q \notin edited
                 /\ \/ q \in DOMAIN journal.items \ edited /\ accepted'[q] = journal.items[q].after
                    \/ /\ q \in DOMAIN accepted \ DOMAIN journal.items
                       /\ accepted'[q] = accepted[q]
      BY <3>1, <3>3 DEF AcceptedWith
    <3>4. \A q \in DOMAIN journal.items \ edited : files[q] = journal.items[q].after
      BY <2>1 DEF Done
    <3>5. QED
      BY <2>1, <3>1, <3>2, <3>3, <3>4
  <2>3. CASE pc' = "RollingBack"
    <3>1. /\ accepted' = accepted /\ doubted' = (doubted \/ stored' # stored)
      BY <1>6, <2>3 DEF Decide, RollBackAll, GoTo
    <3>2. Orderly' => Orderly /\ (Decided' <=> Decided)
      BY <2>1, <3>1 DEF Decided
    <3>3. QED
      BY <2>1, <3>1, <3>2
  <2>4. QED
    BY <1>6, <2>2, <2>3 DEF Decide, RollBackAll, GoTo
<1>7. CASE Commit
  <2>1. /\ pc = "Committing" /\ journal.phase = "Applied"
        /\ UNCHANGED <<files, edited, stored, accepted, overtaken, doubted>>
        /\ journal' \in {journal, [journal EXCEPT !.phase = "Committed"]}
    BY <1>7 DEF Commit, world, history, AcceptTypeOK
  <2>2. Decided /\ Decided' /\ journal'.items = journal.items
    BY <2>1 DEF AcceptTypeOK, Decided, Done
  <2>3. QED
    BY <2>1, <2>2
<1>8. CASE Remove
  <2>1. /\ pc = "Removing" /\ journal' \in {journal, NoJournal}
        /\ UNCHANGED <<files, edited, stored, accepted, overtaken, doubted>>
    BY <1>8 DEF Remove, world, history
  <2>2. \A q \in DOMAIN accepted : Unsettled(q) => files[q] = Expected(journal.items[q])
    BY <2>1 DEF Undone, AllRestored
  <2>3. QED
    BY <2>1, <2>2, Nothing DEF Decided
<1>9. ASSUME NEW p \in Paths, Restore(p) PROVE Durable'
  <2>1. /\ pc = "Restoring" /\ p \in DOMAIN journal.items /\ DOMAIN accepted \subseteq Paths
    BY <1>9 DEF AcceptTypeOK, Restore, IsLast
  <2>2. UNCHANGED <<journal, stored, accepted, overtaken, doubted>>
    BY <1>9 DEF Restore, history
  <2>3. edited' \subseteq edited /\ \A q \in Paths : q # p => files'[q] = files[q]
    BY <1>9, Writes, WriteLocal DEF Restore
  <2>4. (Orderly => ~Decided) /\ (Decided' <=> Decided)
    BY <2>1, <2>2 DEF Decided, Done
  <2>5. QED
    BY <2>1, <2>2, <2>3, <2>4
<1>10. ASSUME NEW p \in Paths, AcceptWrite(p) PROVE Durable'
  <2>1. /\ UNCHANGED <<journal, overtaken, doubted>> /\ accepted' = Drop(accepted, {p})
        /\ pc = "Accepting"
    BY <1>10 DEF AcceptWrite
  <2>2. edited' \subseteq edited /\ \A q \in Paths : q # p => files'[q] = files[q]
    BY <1>10, Writes, WriteLocal DEF AcceptWrite
  <2>3. /\ DOMAIN accepted \subseteq Paths
        /\ \A q \in DOMAIN accepted' : q \in DOMAIN accepted /\ q # p /\ accepted'[q] = accepted[q]
    BY <2>1 DEF Drop, AcceptTypeOK
  <2>4. Orderly => DOMAIN journal.items = {}
    BY <2>1 DEF Done, Outstanding, AcceptTypeOK
  <2>5. QED
    BY <2>1, <2>2, <2>3, <2>4
<1>11. CASE Persist
  <2>1. /\ pc = "Persisting" /\ UNCHANGED <<files, edited, journal, overtaken, doubted>>
        /\ \/ accepted' = accepted
           \/ accepted' = [q \in DOMAIN accepted \cup (left \ edited) |-> files[q]]
    BY <1>11 DEF Persist, world
  <2>2. Orderly => DOMAIN journal.items = {}
    BY <2>1 DEF Done, Outstanding, AcceptTypeOK
  <2>3. QED
    BY <2>1, <2>2
<1>12. CASE Restart
  <2>1. UNCHANGED <<stored, journal, overtaken, doubted>> /\ (Decided' <=> Decided)
    BY <1>12 DEF Restart, Decided
  <2>2. CASE UNCHANGED <<world, accepted>>
    BY <2>1, <2>2 DEF world
  <2>3. ASSUME NEW p \in Paths, Tears(p), accepted' = Drop(accepted, {p})
        PROVE  Durable'
    <3>1. edited' \subseteq edited /\ \A q \in Paths : q # p => files'[q] = files[q]
      BY <2>3 DEF Tears, AcceptTypeOK
    <3>2. /\ DOMAIN accepted \subseteq Paths
          /\ \A q \in DOMAIN accepted' :
               q \in DOMAIN accepted /\ q # p /\ accepted'[q] = accepted[q]
      BY <2>3 DEF Drop, AcceptTypeOK
    <3>3. QED
      BY <2>1, <2>3, <3>1, <3>2
  <2>4. QED
    BY <1>12, <2>2, <2>3 DEF Restart, CrashTears
<1>13. CASE \/ RollBackDone \/ (\E S : Reject(S)) \/ Recover \/ BindProject
            \/ (\E p \in Paths : Apply(p) \/ RollBack(p) \/ AcceptFile(p))
  <2>1. UNCHANGED <<files, edited, journal, stored, accepted, doubted>>
    BY <1>13 DEF RollBackDone, Reject, Recover, BindProject, Apply, RollBack, AcceptFile, world,
                 history
  <2>2. Orderly' => Orderly
    BY <1>13 DEF RollBackDone, Reject, Recover, BindProject, Apply, RollBack, AcceptFile, history,
                 AcceptTypeOK
  <2>3. Decided' <=> Decided
    BY <2>1 DEF Decided
  <2>4. QED
    BY <2>1, <2>2, <2>3
<1>14. CASE UNCHANGED vars
  BY <1>14 DEF vars, world, history, Decided
<1>15. QED
  BY <1>1, <1>2, <1>3, <1>4, <1>5, <1>6, <1>7, <1>8, <1>9, <1>10, <1>11, <1>12, <1>13,
     <1>14 DEF AcceptNext, RejectFile, RejectAll, Endings


-----------------------------------------------------------------------------
(* Theorems *)

\* The inductive invariant holds throughout.
LEMMA AcceptInvariant == AcceptSpec => []AcceptInv
<1>1. AcceptInit => AcceptInv
  <2> SUFFICES ASSUME AcceptInit PROVE AcceptInv
    OBVIOUS
  <2>1. AcceptTypeOK
    BY InitTypes
  <2>2. /\ pc = "Idle" /\ pending = NoProposals /\ stored = NoProposals
        /\ journal.items = NoProposals /\ journal.phase = "None"
        /\ fresh = 2 /\ edited = {} /\ accepted = NoProposals
    BY Nothing DEF AcceptInit
  <2>3. \A p \in Paths : files[p].text \in {0, 1}
    BY DEF AcceptInit, Absent
  <2>4. EditsForeign
    BY <2>2, <2>3, Nothing DEF EditsForeign, Known
  <2>5. WindowOK
    BY <2>2 DEF WindowOK, Target
  <2>6. Undone /\ Done /\ Durable
    BY <2>2, Nothing DEF Undone, Done, Durable, Decided, Outstanding
  <2>7. QED
    BY <2>1, <2>4, <2>5, <2>6 DEF AcceptInv
<1>2. AcceptInv /\ [AcceptNext]_vars => AcceptInv'
  BY NextTypes, NextForeign, NextWindow, NextUndone, NextDone, NextDurable DEF AcceptInv
<1>3. QED
  BY <1>1, <1>2, PTL DEF AcceptSpec

\* Type correctness: a step of the transaction always finds its journal on
\* disk, in the phase that the step before it saved (begin, apply, commit).
THEOREM AcceptTypeCorrect == AcceptSpec => []AcceptTypeOK
<1>1. AcceptInv => AcceptTypeOK
  BY DEF AcceptInv
<1>2. QED
  BY <1>1, AcceptInvariant, PTL

\* A step changes a file only as the editor of the user, or as the write or the
\* unlink that its comparison has led to.
LEMMA OnlyTargetsWritten ==
    ASSUME AcceptTypeOK, [AcceptNext]_vars, NEW p \in Paths
    PROVE  \/ files'[p] = files[p]
           \/ \E nl \in BOOLEAN : UserEdit(p, nl)
           \/ Target(p)
<1>0. files \in [Paths -> Content]
  BY DEF AcceptTypeOK
<1>1. ASSUME NEW q \in Paths, NEW content, WriteEffect(q, content), p # q
      PROVE  files'[p] = files[p]
  BY <1>0, <1>1 DEF WriteEffect
<1>2. ASSUME NEW q \in Paths, Overwrite(q) PROVE Target(q) /\ (p # q => files'[p] = files[p])
  <2>1. WriteEffect(q, journal.items[q].after) /\ Target(q)
    BY <1>2, Writes DEF Overwrite, Target
  <2>2. QED
    BY <1>1, <2>1
<1>3. ASSUME NEW q \in Paths, Restore(q) PROVE Target(q) /\ (p # q => files'[p] = files[p])
  <2>1. WriteEffect(q, Expected(journal.items[q])) /\ Target(q)
    BY <1>3, Writes DEF Restore, Target
  <2>2. QED
    BY <1>1, <2>1
<1>4. ASSUME NEW q \in Paths, AcceptWrite(q) PROVE Target(q) /\ (p # q => files'[p] = files[p])
  <2>1. WriteEffect(q, pending[q].after) /\ Target(q)
    BY <1>4, Writes DEF AcceptWrite, Target
  <2>2. QED
    BY <1>1, <2>1
<1>5. ASSUME NEW q \in Paths, CrashTears(q) PROVE Target(q) /\ (p # q => files'[p] = files[p])
  <2>1. WriteEffect(q, NextContent(q)) /\ Target(q)
    BY <1>5, Writes DEF CrashTears
  <2>2. QED
    BY <1>1, <2>1
<1>6. ASSUME NEW q \in Paths, NEW nl \in BOOLEAN, UserEdit(q, nl), p # q
      PROVE  files'[p] = files[p]
  BY <1>0, <1>6 DEF UserEdit
<1>7. CASE \E q \in Paths : Overwrite(q) \/ Restore(q) \/ AcceptWrite(q)
  BY <1>2, <1>3, <1>4, <1>7
<1>8. CASE Restart
  BY <1>5, <1>8 DEF Restart, world
<1>9. CASE \E q \in Paths, nl \in BOOLEAN : UserEdit(q, nl)
  BY <1>6, <1>9
<1>10. CASE \E q \in Paths : Apply(q) \/ RollBack(q) \/ AcceptFile(q)
  BY <1>10 DEF Apply, RollBack, AcceptFile, world
<1>11. CASE \/ Stages \/ Begin \/ MarkApplied \/ Decide \/ Commit \/ Remove \/ RollBackDone
            \/ (\E S : Reject(S)) \/ Persist \/ Recover \/ BindProject \/ UNCHANGED vars
  BY <1>11 DEF Stages, Stage, Begin, MarkApplied, Decide, Commit, Remove, RollBackDone, Reject,
               Persist, Recover, BindProject, world, vars
<1>12. QED
  BY <1>7, <1>8, <1>9, <1>10, <1>11 DEF AcceptNext, RejectFile, RejectAll, Endings, Stages

\* Neither an Accept nor a rollback nor a recovery overwrites what the user
\* wrote after staging, unless he saved it between the comparison of the file
\* and its write (write_verified_workspace_bytes).
THEOREM UserEditsSafe == AcceptSpec => UserEditsKept
<1>1. ASSUME AcceptInv, [AcceptNext]_vars
      PROVE  \A p \in edited :
                \/ files'[p] = files[p]
                \/ \E nl \in BOOLEAN : UserEdit(p, nl)
                \/ Target(p) /\ window # "Clean"
  <2> SUFFICES ASSUME NEW p \in edited
               PROVE  \/ files'[p] = files[p]
                      \/ \E nl \in BOOLEAN : UserEdit(p, nl)
                      \/ Target(p) /\ window # "Clean"
    OBVIOUS
  <2>1. p \in Paths /\ AcceptTypeOK
    BY <1>1 DEF AcceptInv, AcceptTypeOK
  <2>2. Target(p) => window # "Clean"
    BY <1>1, <2>1 DEF AcceptInv, WindowOK
  <2>3. QED
    BY <1>1, <2>1, <2>2, OnlyTargetsWritten
<1>2. AcceptInv /\ [AcceptNext]_vars =>
        [\A p \in edited :
            \/ files'[p] = files[p]
            \/ \E nl \in BOOLEAN : UserEdit(p, nl)
            \/ Target(p) /\ window # "Clean"]_vars
  BY <1>1
<1>3. QED
  BY <1>2, AcceptInvariant, PTL DEF AcceptSpec, UserEditsKept

\* Only remove_journal() takes the journal away.
LEMMA JournalRemoved ==
    ASSUME AcceptTypeOK, [AcceptNext]_vars, Outstanding, journal' = NoJournal
    PROVE  pc = "Removing" /\ overtaken' = overtaken /\ doubted' = doubted
<1>1. journal' # journal
  BY Nothing DEF Outstanding
<1>2. Remove \/ Begin \/ MarkApplied \/ Commit
  BY <1>1 DEF AcceptNext, Stage, UserEdit, Apply, Overwrite, Decide, RollBack, Restore,
              RollBackDone, AcceptFile, AcceptWrite, RejectFile, RejectAll, Reject, Persist,
              Restart, Recover, BindProject, vars
<1>3. ~Begin
  BY DEF Begin
<1>4. ~MarkApplied /\ ~Commit
  BY Nothing DEF MarkApplied, Commit, AcceptTypeOK
<1>5. QED
  BY <1>2, <1>3, <1>4 DEF Remove, history

\* A journal whose acceptance is not durable goes only with every file of it
\* restored (rollback_journal).
THEOREM RollbacksComplete == AcceptSpec => RollbackComplete
<1>1. ASSUME AcceptInv, [AcceptNext]_vars, Outstanding, journal' = NoJournal,
             journal.phase = "Applying" \/ (journal.phase = "Applied" /\ stored # NoProposals)
      PROVE  AllRestored
  BY <1>1, JournalRemoved DEF AcceptInv, Undone, Decided
<1>2. QED
  BY <1>1, AcceptInvariant, PTL DEF AcceptSpec, RollbackComplete

\* The journal goes only when its set is completely applied or completely
\* undone, whatever failed or crashed, as long as no command ran beside it and
\* no save of a decision failed after its rename (begin, apply, rollback,
\* commit, recover_accept_transaction).
THEOREM AllOrNothing == AcceptSpec => AllOrRollback
<1>1. ASSUME AcceptInv, [AcceptNext]_vars, Outstanding, journal' = NoJournal,
             ~overtaken', ~doubted'
      PROVE  AllApplied \/ AllRestored
  <2>1. pc = "Removing" /\ Orderly
    BY <1>1, JournalRemoved DEF AcceptInv, Orderly
  <2>2. QED
    BY <1>1, <2>1 DEF AcceptInv, Undone, Done
<1>2. QED
  BY <1>1, AcceptInvariant, PTL DEF AcceptSpec, AllOrRollback

\* No recovery takes a durable acceptance back, while no command ran beside an
\* outstanding journal and no save of a decision failed after its rename
\* (recover_accept_transaction).
THEOREM AcceptanceKept == AcceptSpec => []AcceptedStays
<1>1. AcceptInv => AcceptedStays
  BY DEF AcceptInv, AcceptTypeOK, Durable, Unsettled, AcceptedStays, Quiet, Outstanding, Orderly
<1>2. QED
  BY <1>1, AcceptInvariant, PTL

-----------------------------------------------------------------------------
(* What recovery finds when nothing failed *)

\* Nothing failed, and no command ran beside an outstanding journal.
Clean == Orderly /\ faults = 0

\* Somebody else wrote the file, or a crash cut its write short.
Foreign == edited \cup torn

\* A file of the journal holds what was before or after, unless it is foreign.
Intact ==
    \A p \in DOMAIN journal.items \ Foreign :
        files[p] \in {Expected(journal.items[p]), journal.items[p].after}

\* Memory and the session book agree outside a decision.
Agreed ==
    /\ bound /\ pc # "Persisting" => pending = stored
    /\ pc \in {"Accepting", "Persisting"} => bound
    /\ pc \in {"Applying", "Overwriting", "Deciding"} => stored = journal.items
    /\ ~Mixed

\* The rollback of an unbound project met what its comparison refuses.
Refused ==
    pc = "Idle" /\ ~bound =>
        \E p \in DOMAIN journal.items :
            p \in Foreign \/ Undoable(journal.items[p]) # journal.items[p].after

RefusalInv ==
    /\ faults \in Nat
    /\ doubted => faults # 0
    /\ Clean => Intact /\ Agreed /\ Refused

\* A step after which nothing has failed is one where nothing fails.
LEMMA CleanBefore ==
    ASSUME AcceptTypeOK, AcceptTypeOK', faults \in Nat, doubted => faults # 0,
           [AcceptNext]_vars
    PROVE  /\ faults' \in Nat
           /\ doubted' => faults' # 0
           /\ Clean' => Clean /\ ~Fails
<1>1. Fails => faults' \in Nat /\ faults' # 0
  BY AcceptAssumption DEF Fails
<1>2. Fails \/ faults' = faults
  <2>1. Fails \/ Works \/ UNCHANGED faults
    BY DEF AcceptNext, Stage, UserEdit, Begin, Apply, Overwrite, WriteWorks, WriteFails,
           MarkApplied, Decide, Commit, Remove, RollBack, Restore, RollBackDone, AcceptFile,
           AcceptWrite, RejectFile, RejectAll, Reject, Persist, Restart, Recover, BindProject,
           vars
  <2>2. QED
    BY <2>1 DEF Works
<1>3. overtaken => overtaken'
  BY DEF AcceptNext, Stage, UserEdit, Begin, Apply, Overwrite, MarkApplied, Decide, Commit,
         Remove, RollBack, Restore, RollBackDone, AcceptFile, AcceptWrite, RejectFile,
         RejectAll, Reject, Persist, Restart, Recover, BindProject, vars, history
<1>4. (doubted => doubted') /\ (doubted' => doubted \/ Fails)
  <2>1. ASSUME Decide PROVE (doubted => doubted') /\ (doubted' => doubted \/ Fails)
    <3>1. doubted' = doubted \/ (Fails /\ doubted' = (doubted \/ stored' # stored))
      BY <2>1 DEF Decide
    <3>2. doubted \in BOOLEAN /\ doubted' \in BOOLEAN
      BY DEF AcceptTypeOK
    <3>3. QED
      BY <3>1, <3>2, Zenon
  <2>2. Decide \/ doubted' = doubted
    BY DEF AcceptNext, Stage, UserEdit, Begin, Apply, Overwrite, MarkApplied, Commit,
           Remove, RollBack, Restore, RollBackDone, AcceptFile, AcceptWrite, RejectFile,
           RejectAll, Reject, Persist, Restart, Recover, BindProject, vars, history
  <2>3. QED
    BY <2>1, <2>2
<1>5. QED
  BY <1>1, <1>2, <1>3, <1>4 DEF Clean, Orderly

\* A file of the journal changes only from before to after or back, or is
\* foreign from then on.
LEMMA NextIntact ==
    ASSUME AcceptTypeOK, AcceptTypeOK', Done, Clean, Clean', ~Fails, Intact, [AcceptNext]_vars
    PROVE  Intact'
<1> USE DEF Intact, Foreign
<1>0. /\ files \in [Paths -> Content] /\ DOMAIN journal.items \subseteq Paths
      /\ Orderly /\ ~overtaken' /\ (~Outstanding => DOMAIN journal.items = {})
  BY DEF AcceptTypeOK, Clean, Orderly, Outstanding
<1>1. ASSUME NEW S \in SUBSET Paths, NEW E \in SUBSET Bare, Stage(S, E) PROVE Intact'
  <2>1. ~Outstanding /\ journal' = journal
    BY <1>0, <1>1 DEF Stage
  <2>2. QED
    BY <1>0, <2>1
<1>2. ASSUME NEW p \in Paths, NEW nl \in BOOLEAN, UserEdit(p, nl) PROVE Intact'
  <2>1. /\ journal' = journal /\ Foreign' = Foreign \cup {p}
        /\ files' = [files EXCEPT ![p] = NewText(nl)]
    BY <1>2 DEF UserEdit
  <2>2. QED
    BY <1>0, <2>1
<1>3. CASE Begin
  BY <1>3 DEF Begin, world
<1>4. ASSUME NEW p \in Paths, NEW content, p \in DOMAIN journal.items, journal' = journal,
             content \in {Expected(journal.items[p]), journal.items[p].after},
             UNCHANGED world \/ Written(p, content)
      PROVE  Intact'
  <2>1. CASE UNCHANGED world
    BY <1>4, <2>1 DEF world
  <2>2. CASE Written(p, content)
    <3>1. /\ edited' = edited \ {p} /\ torn' = torn
          /\ \A q \in Paths : files'[q] = IF q = p THEN content ELSE files[q]
      BY <1>0, <2>2 DEF Written
    <3>2. QED
      BY <1>0, <1>4, <3>1
  <2>3. QED
    BY <1>4, <2>1, <2>2
<1>5. ASSUME NEW p \in Paths, Overwrite(p) PROVE Intact'
  <2>1. /\ p \in DOMAIN journal.items /\ journal' = journal
        /\ UNCHANGED world \/ Written(p, journal.items[p].after)
    BY <1>5 DEF Overwrite, WriteWorks, WriteFails, IsFirst, AcceptTypeOK
  <2>2. QED
    BY <1>4, <2>1
<1>6. ASSUME NEW p \in Paths, Restore(p) PROVE Intact'
  <2>1. /\ p \in DOMAIN journal.items /\ journal' = journal
        /\ UNCHANGED world \/ Written(p, Expected(journal.items[p]))
    BY <1>6 DEF Restore, WriteWorks, WriteFails, IsLast, AcceptTypeOK
  <2>2. QED
    BY <1>4, <2>1
<1>7. ASSUME NEW p \in Paths, AcceptWrite(p) PROVE Intact'
  <2>1. journal' = journal /\ ~Outstanding
    BY <1>0, <1>7 DEF AcceptWrite, Done
  <2>2. QED
    BY <1>0, <2>1
<1>8. CASE MarkApplied \/ Commit
  <2>1. journal'.items = journal.items /\ UNCHANGED world
    BY <1>8 DEF MarkApplied, Commit, AcceptTypeOK
  <2>2. QED
    BY <2>1 DEF world
<1>9. CASE Remove
  <2>1. journal' = NoJournal
    BY <1>9 DEF Remove
  <2>2. QED
    BY <2>1, Nothing
<1>10. CASE Restart
  <2>1. journal' = journal
    BY <1>10 DEF Restart
  <2>2. CASE UNCHANGED world
    BY <2>1, <2>2 DEF world
  <2>3. ASSUME NEW p \in Paths, Tears(p) PROVE Intact'
    <3>1. /\ Foreign' = Foreign \cup {p}
          /\ files' = [files EXCEPT ![p] = NewText(TRUE)]
      BY <2>3 DEF Tears
    <3>2. QED
      BY <1>0, <2>1, <3>1
  <2>4. QED
    BY <1>10, <2>2, <2>3 DEF Restart, CrashTears
<1>11. CASE \/ (\E p \in Paths : Apply(p) \/ RollBack(p) \/ AcceptFile(p))
            \/ Decide \/ RollBackDone \/ (\E S : Reject(S)) \/ Persist \/ Recover
            \/ BindProject \/ UNCHANGED vars
  <2>1. UNCHANGED <<files, edited, torn, journal>>
    BY <1>11 DEF Apply, RollBack, AcceptFile, Decide, RollBackDone, Reject, Persist, Recover,
                 BindProject, world, vars
  <2>2. QED
    BY <2>1
<1>12. QED
  BY <1>1, <1>2, <1>3, <1>5, <1>6, <1>7, <1>8, <1>9, <1>10, <1>11
     DEF AcceptNext, RejectFile, RejectAll, Endings

\* The session book is the journal's set or the empty one while an Accept runs.
LEMMA NextAgreed ==
    ASSUME AcceptTypeOK, AcceptTypeOK', Done, Clean, Clean', ~Fails, Agreed, [AcceptNext]_vars
    PROVE  Agreed'
<1> USE DEF Agreed
<1>0. Orderly /\ ~overtaken'
  BY DEF Clean, Orderly
<1>1. ASSUME NEW S \in SUBSET Paths, NEW E \in SUBSET Bare, Stage(S, E) PROVE Agreed'
  <2>1. /\ journal.phase = "None" /\ UNCHANGED <<journal, pc, bound>> /\ pc = "Idle"
        /\ stored' = pending'
    BY <1>0, <1>1 DEF Stage, Ready, Outstanding
  <2>2. QED
    BY <2>1 DEF Mixed
<1>2. ASSUME NEW p \in Paths, NEW nl \in BOOLEAN, UserEdit(p, nl) PROVE Agreed'
  BY <1>2 DEF UserEdit, Mixed
<1>3. CASE Begin
  <2>1. /\ journal' = [phase |-> "Applying", items |-> pending]
        /\ pc' = "Applying" /\ bound' = bound /\ bound /\ pc = "Idle"
        /\ UNCHANGED <<pending, stored>>
    BY <1>3 DEF Begin, Ready, GoTo
  <2>2. QED
    BY <2>1 DEF Mixed
<1>4. ASSUME NEW p \in Paths, Apply(p) \/ Overwrite(p) PROVE Agreed'
  <2>1. /\ UNCHANGED <<journal, pending, stored, bound>> /\ pc \in {"Applying", "Overwriting"}
        /\ pc' \in {"Applying", "Overwriting", "RollingBack"}
    BY <1>4 DEF Apply, Overwrite, RollBackAll, GoTo
  <2>2. QED
    BY <2>1 DEF Mixed
<1>5. CASE MarkApplied
  <2>1. /\ journal' = [journal EXCEPT !.phase = "Applied"] /\ pc = "Applying"
        /\ pc' = "Deciding" /\ UNCHANGED <<pending, stored, bound>>
    BY <1>5 DEF MarkApplied, GoTo
  <2>2. journal'.items = journal.items
    BY <2>1 DEF AcceptTypeOK
  <2>3. QED
    BY <2>1, <2>2 DEF Mixed
<1>6. CASE Decide
  <2>1. /\ pending' = NoProposals /\ stored' = NoProposals /\ pc' = "Committing"
    BY <1>6 DEF Decide, GoTo
  <2>2. QED
    BY <2>1 DEF Mixed
<1>7. CASE Commit
  <2>1. /\ journal' = [journal EXCEPT !.phase = "Committed"] /\ pc = "Committing"
        /\ pc' = "Removing" /\ UNCHANGED <<pending, stored, bound>>
    BY <1>7 DEF Commit, GoTo
  <2>2. journal'.phase = "Committed"
    BY <2>1 DEF AcceptTypeOK
  <2>3. QED
    BY <2>1, <2>2 DEF Mixed
<1>8. CASE Remove
  <2>1. /\ journal' = NoJournal /\ pc = "Removing" /\ pc' = "Idle" /\ stored' = stored
        /\ pending' = IF bound THEN pending ELSE stored
    BY <1>8 DEF Remove, GoTo, Open
  <2>2. QED
    BY <2>1, Nothing DEF Mixed
<1>9. ASSUME NEW p \in Paths, RollBack(p) \/ Restore(p) PROVE Agreed'
  <2>1. /\ UNCHANGED <<journal, pending, stored, bound>> /\ pc \in {"RollingBack", "Restoring"}
        /\ pc' \in {"Idle", "RollingBack", "Restoring"}
    BY <1>9 DEF RollBack, Restore, GoTo
  <2>2. QED
    BY <2>1 DEF Mixed
<1>10. CASE RollBackDone
  BY <1>10 DEF RollBackDone, GoTo, Mixed
<1>11. ASSUME NEW p \in Paths, AcceptFile(p) PROVE Agreed'
  <2>1. /\ UNCHANGED <<journal, pending, stored, bound>> /\ bound /\ pc = "Idle"
        /\ pc' = "Accepting"
    BY <1>11 DEF AcceptFile, Ready, GoTo
  <2>2. QED
    BY <2>1 DEF Mixed
<1>12. ASSUME NEW p \in Paths, AcceptWrite(p) PROVE Agreed'
  <2>1. /\ UNCHANGED <<journal, stored, bound>> /\ pc = "Accepting"
        /\ pc' = "Persisting" \/ (pc' = "Idle" /\ pending' = pending)
    BY <1>12 DEF AcceptWrite, GoTo
  <2>2. QED
    BY <2>1 DEF Mixed
<1>13. CASE \E S : Reject(S)
  <2>1. /\ UNCHANGED <<journal, stored, bound>> /\ bound /\ pc' = "Persisting"
    BY <1>13 DEF Reject, Ready, GoTo
  <2>2. QED
    BY <2>1 DEF Mixed
<1>14. CASE Persist
  <2>1. /\ UNCHANGED <<journal, pending>> /\ stored' = pending /\ pc = "Persisting"
        /\ pc' = "Idle"
    BY <1>14 DEF Persist, GoTo
  <2>2. journal.phase = "None"
    BY <1>0, <2>1 DEF Done, Outstanding
  <2>3. QED
    BY <2>1, <2>2 DEF Mixed
<1>15. CASE Restart
  BY <1>15 DEF Restart, GoTo, Mixed
<1>16. CASE Recover
  <2>1. /\ UNCHANGED <<journal, stored>> /\ pc = "Starting"
        /\ pc' \in {"Idle", "Removing", "RollingBack"}
        /\ \/ pending' = (IF bound THEN pending ELSE stored)
           \/ UNCHANGED <<bound, pending>>
    BY <1>16 DEF Recover, RollBackAll, GoTo, Open
  <2>2. QED
    BY <2>1 DEF Mixed
<1>17. CASE BindProject
  BY <1>17 DEF BindProject, Open, Mixed
<1>18. CASE UNCHANGED vars
  BY <1>18 DEF vars, Mixed
<1>19. QED
  BY <1>1, <1>2, <1>3, <1>4, <1>5, <1>6, <1>7, <1>8, <1>9, <1>10, <1>11, <1>12, <1>13, <1>14,
     <1>15, <1>16, <1>17, <1>18 DEF AcceptNext, RejectFile, RejectAll, Endings

\* The project stays unbound only with a file in the journal that is foreign or
\* that no rollback would find as expected.
LEMMA NextRefused ==
    ASSUME AcceptTypeOK, AcceptTypeOK', WindowOK, Done, Clean, Clean', ~Fails, Intact, Agreed,
           Refused, [AcceptNext]_vars
    PROVE  Refused'
<1> USE DEF Refused, Foreign
<1>1. CASE \/ Stages \/ Begin \/ (\E p \in Paths : AcceptFile(p) \/ AcceptWrite(p))
           \/ (\E S : Reject(S)) \/ Persist
  <2>1. bound /\ UNCHANGED bound
    BY <1>1 DEF Stages, Stage, Begin, AcceptFile, AcceptWrite, Reject, Persist, Ready, Agreed
  <2>2. QED
    BY <2>1
<1>2. ASSUME NEW p \in Paths, NEW nl \in BOOLEAN, UserEdit(p, nl) PROVE Refused'
  <2>1. UNCHANGED <<pc, bound, journal>> /\ Foreign' = Foreign \cup {p}
    BY <1>2 DEF UserEdit
  <2>2. QED
    BY <2>1
<1>3. CASE MarkApplied \/ Decide \/ Commit \/ RollBackDone \/ Restart
  BY <1>3 DEF MarkApplied, Decide, Commit, RollBackDone, Restart, RollBackAll, GoTo
<1>4. ASSUME NEW p \in Paths, Apply(p) \/ Overwrite(p) PROVE Refused'
  <2>1. pc' # "Idle"
    BY <1>4 DEF Apply, Overwrite, RollBackAll, GoTo
  <2>2. QED
    BY <2>1
<1>5. CASE Remove \/ BindProject
  BY <1>5 DEF Remove, BindProject, Open
<1>6. ASSUME NEW p \in Paths, RollBack(p), pc' = "Idle" PROVE Refused'
  <2>1. /\ p \in DOMAIN journal.items
        /\ files[p] \notin {Expected(journal.items[p]), Undoable(journal.items[p])}
    BY <1>6 DEF RollBack, GoTo, IsLast, AcceptTypeOK
  <2>2. p \in Foreign \/ Undoable(journal.items[p]) # journal.items[p].after
    BY <2>1 DEF Intact
  <2>3. UNCHANGED <<journal, edited, torn>>
    BY <1>6 DEF RollBack, world
  <2>4. QED
    BY <2>1, <2>2, <2>3
<1>7. ASSUME NEW p \in Paths, Restore(p), pc' = "Idle" PROVE Refused'
  <2>1. /\ p \in DOMAIN journal.items /\ Target(p)
        /\ window = "Replaced" /\ UNCHANGED world /\ journal' = journal
    BY <1>7 DEF Restore, WriteWorks, WriteFails, Lands, GoTo, IsLast, Target, AcceptTypeOK
  <2>2. p \in edited
    BY <2>1 DEF WindowOK
  <2>3. QED
    BY <2>1, <2>2 DEF world
<1>8. ASSUME NEW p \in Paths, RollBack(p) \/ Restore(p), pc' # "Idle" PROVE Refused'
  BY <1>8
<1>9. CASE Recover
  BY <1>9 DEF Recover, Open, RollBackAll, GoTo, Agreed
<1>10. CASE UNCHANGED vars
  BY <1>10 DEF vars, world
<1>11. QED
  BY <1>1, <1>2, <1>3, <1>4, <1>5, <1>6, <1>7, <1>8, <1>9, <1>10
     DEF AcceptNext, RejectFile, RejectAll, Endings, Stages

\* Recovery refuses to bind the project only if a file of the journal was
\* changed by the user or torn, or cannot compare equal once written, or an
\* effect failed (rollback_journal, compose_current_bytes,
\* recover_accept_transaction).
THEOREM RefusalsJustified == AcceptSpec => []RecoveryOnlyRefusesForeign
<1>1. AcceptInit => RefusalInv
  <2> SUFFICES ASSUME AcceptInit PROVE RefusalInv
    OBVIOUS
  <2>1. /\ journal.phase = "None" /\ journal.items = NoProposals /\ bound
        /\ pending = stored /\ pc = "Idle" /\ faults = 0 /\ doubted = FALSE
    BY Nothing DEF AcceptInit
  <2>2. QED
    BY <2>1, Nothing DEF RefusalInv, Intact, Agreed, Refused, Mixed
<1>2. AcceptInv /\ AcceptInv' /\ RefusalInv /\ [AcceptNext]_vars => RefusalInv'
  <2> SUFFICES ASSUME AcceptInv, AcceptInv', RefusalInv, [AcceptNext]_vars
               PROVE  RefusalInv'
    OBVIOUS
  <2>1. AcceptTypeOK /\ AcceptTypeOK' /\ Done /\ WindowOK
    BY DEF AcceptInv
  <2>2. faults' \in Nat /\ (doubted' => faults' # 0) /\ (Clean' => Clean /\ ~Fails)
    BY <2>1, CleanBefore DEF RefusalInv
  <2>3. Clean' => Intact' /\ Agreed' /\ Refused'
    BY <2>1, <2>2, NextIntact, NextAgreed, NextRefused DEF RefusalInv
  <2>4. QED
    BY <2>2, <2>3 DEF RefusalInv
<1>3. RefusalInv => RecoveryOnlyRefusesForeign
  BY DEF RefusalInv, Clean, Orderly, Refused, Foreign, RecoveryOnlyRefusesForeign
<1>4. QED
  BY <1>1, <1>2, <1>3, AcceptInvariant, PTL DEF AcceptSpec
=============================================================================
