--------------------------- MODULE SessionLifecycle ---------------------------
(***************************************************************************)
(* The lock and unlock of the macOS session                                *)
(* (grok-build-tauri/src/session_lifecycle.rs) and the parts of the        *)
(* runtime manager and the prompt queue it drives: the account connection, *)
(* the grants of the browser, capture and desktop bridges, and the runs    *)
(* that hold credentials.                                                  *)
(*                                                                         *)
(* The resign notification records the stops before it returns and leaves  *)
(* the rest to a blocking task; the became-active notification is a task   *)
(* from its first step.  Tasks of successive notifications run             *)
(* concurrently: each of their steps takes the backend lock anew.          *)
(*                                                                         *)
(* Left out: why a connection attempt fails, and the bridges one by one    *)
(* (a grant is on or off).                                                 *)
(***************************************************************************)
EXTENDS Naturals, FiniteSets

CONSTANTS
    Runs,               \* identities of the top-level runs that may start
    MaxNotifications    \* bound on the notifications of the session

VARIABLES
    locked,            \* the state of the macOS session
    notifications,     \* how many notifications have come so far
    tasks,             \* notification :> [pc, ids, connected] of its task
    suspended,         \* QueueCoordinator::lifecycle_suspended
    runs,              \* run :> "New", "Running", "StopRequested" or "Ended"
    signalled,         \* runs whose cancellation handle was signalled
    connected,         \* the account is connected and holds its credential
    suspendedForLock,  \* RuntimeManager::suspended_for_lock
    reconnecting,      \* RuntimeManager::reconnecting
    granted            \* a browser, capture or desktop grant is on

sessionVars == <<locked, notifications, tasks, suspended, runs, signalled, connected,
                 suspendedForLock, reconnecting, granted>>

account == <<connected, suspendedForLock, reconnecting>>

Live == {r \in Runs : runs[r] \in {"Running", "StopRequested"}}

SessionInit ==
    /\ locked = FALSE
    /\ notifications = 0
    /\ tasks = [n \in {} |-> 0]
    /\ suspended = FALSE
    /\ runs = [r \in Runs |-> "New"]
    /\ signalled = {}
    /\ connected = TRUE
    /\ suspendedForLock = FALSE
    /\ reconnecting = FALSE
    /\ granted = FALSE

-----------------------------------------------------------------------------
(* Tasks *)

StartTask(pc, ids) ==
    /\ notifications < MaxNotifications
    /\ notifications' = notifications + 1
    /\ tasks' = [n \in DOMAIN tasks \cup {notifications + 1} |->
            IF n = notifications + 1 THEN [pc |-> pc, ids |-> ids, connected |-> FALSE]
            ELSE tasks[n]]

At(n, pc) == tasks[n].pc = pc

Goto(n, pc, seen) == tasks' = [tasks EXCEPT ![n].pc = pc, ![n].connected = seen]

EndTask(n) == tasks' = [m \in DOMAIN tasks \ {n} |-> tasks[m]]

-----------------------------------------------------------------------------
(* The session is locked *)

\* persist_session_resign_intent(), under the scheduler lock, on the thread of
\* the notification: the queue is suspended first, then the stops of all active
\* runs are recorded.  When that write fails nobody is signalled.
SessionResigned ==
    /\ ~locked
    /\ locked' = TRUE
    /\ suspended' = TRUE
    /\ \/ /\ runs' = [r \in Runs |-> IF r \in Live THEN "StopRequested" ELSE runs[r]]
          /\ StartTask("cancel", Live)
       \/ /\ StartTask("revoke", {})
          /\ UNCHANGED runs
    /\ UNCHANGED <<account, signalled, granted>>

\* execute_session_resign_policy(): cancel_run_ids() for the recorded stops.
CancelRuns(n) ==
    /\ At(n, "cancel")
    /\ signalled' = signalled \cup (tasks[n].ids \cap Live)
    /\ Goto(n, "revoke", FALSE)
    /\ UNCHANGED <<locked, notifications, suspended, runs, account, granted>>

\* revoke_session_security() and RuntimeManager::suspend_for_lock().  The mark
\* of a reconnect in progress stays.
RevokeSecurity(n) ==
    /\ At(n, "revoke")
    /\ granted' = FALSE
    /\ connected' = FALSE
    /\ suspendedForLock' = TRUE
    /\ EndTask(n)
    /\ UNCHANGED <<locked, notifications, suspended, runs, signalled, reconnecting>>

-----------------------------------------------------------------------------
(* The session is unlocked: handle_session_became_active() *)

SessionBecameActive ==
    /\ locked
    /\ locked' = FALSE
    /\ StartTask("begin", {})
    /\ UNCHANGED <<suspended, runs, account, signalled, granted>>

\* begin_unlock_reconnect(): reconnects only after a lock and within the
\* window of the saved authorization.
BeginReconnect(n) ==
    /\ At(n, "begin")
    /\ suspendedForLock' = FALSE
    /\ \/ suspendedForLock /\ reconnecting' = TRUE /\ Goto(n, "finish", FALSE)
       \/ Goto(n, "resume", connected) /\ UNCHANGED reconnecting
    /\ UNCHANGED <<locked, notifications, suspended, runs, signalled, connected, granted>>

\* finish_unlock_reconnect(), where the attempt may fail.
FinishReconnect(n) ==
    /\ At(n, "finish")
    /\ IF reconnecting THEN connected' \in BOOLEAN ELSE UNCHANGED connected
    /\ reconnecting' = FALSE
    /\ Goto(n, "resume", connected')
    /\ UNCHANGED <<locked, notifications, suspended, runs, signalled, suspendedForLock, granted>>

\* The suspension is lifted whatever happened meanwhile.
ResumeQueue(n) ==
    /\ At(n, "resume")
    /\ suspended' = FALSE
    /\ IF tasks[n].connected THEN Goto(n, "schedule", TRUE) ELSE EndTask(n)
    /\ UNCHANGED <<locked, notifications, runs, signalled, account, granted>>

\* A pass of the scheduler: a run starts only on a connected account.
Begun == \E r \in Runs :
    /\ ~suspended
    /\ connected
    /\ runs[r] = "New"
    /\ runs' = [runs EXCEPT ![r] = "Running"]

ScheduleAvailable(n) ==
    /\ At(n, "schedule")
    /\ Begun \/ UNCHANGED runs
    /\ EndTask(n)
    /\ UNCHANGED <<locked, notifications, suspended, signalled, account, granted>>

-----------------------------------------------------------------------------
(* The app between notifications *)

\* A command of the user starts a run or turns a grant on.
UserActs ==
    /\ ~locked
    /\ \/ Begun /\ UNCHANGED granted
       \/ granted' = TRUE /\ UNCHANGED runs
    /\ UNCHANGED <<locked, notifications, tasks, suspended, signalled, account>>

RunEnds(r) ==
    /\ r \in Live
    /\ runs' = [runs EXCEPT ![r] = "Ended"]
    /\ UNCHANGED <<locked, notifications, tasks, suspended, signalled, account, granted>>

SessionNext ==
    \/ SessionResigned
    \/ SessionBecameActive
    \/ \E n \in DOMAIN tasks :
        \/ CancelRuns(n) \/ RevokeSecurity(n) \/ BeginReconnect(n)
        \/ FinishReconnect(n) \/ ResumeQueue(n) \/ ScheduleAvailable(n)
    \/ UserActs
    \/ \E r \in Runs : RunEnds(r)

SessionSpec == SessionInit /\ [][SessionNext]_sessionVars

-----------------------------------------------------------------------------
(* Properties *)

\* Credential leases and high-power grants must not survive a session lock, the
\* comment of execute_session_resign_policy() says: once the tasks of all
\* notifications are done, a locked session has no connection and no grant.
NothingSurvivesLock == locked /\ tasks = << >> => ~connected /\ ~granted
=============================================================================
