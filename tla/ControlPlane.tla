---------------------------- MODULE ControlPlane ----------------------------
(***************************************************************************)
(* Start-up, the !login / !logout / !pause / !resume commands and their    *)
(* persisted flags (bridge/core.py), with the life cycle of the source     *)
(* backend's sync loop (start and stop of the Matrix backends).            *)
(*                                                                         *)
(* The asyncio tasks are: the main task, which runs BridgeCore.start; the  *)
(* tasks of the target backend, which deliver commands to                  *)
(* BridgeCore._handle_control; and one sync loop per successful            *)
(* source.start().  An action is the code between two awaits; the notices  *)
(* sent to the target room have no effect here and take no step.  Commands *)
(* from another room or from a sender who is no admin are dropped before   *)
(* they touch anything, so only accepted commands are modelled.  A failed  *)
(* database write is not modelled.                                         *)
(***************************************************************************)
EXTENDS Naturals

CONSTANTS
    SyncTask,     \* the target's sync loop, and its initial sync inside target.start()
    RecheckTask,  \* the target's periodic key recheck, which also dispatches messages
    Sessions,     \* a pool of identities for the source's sync loops
    None          \* no task, no session, no command

ASSUME ControlAssumption ==
    /\ SyncTask # RecheckTask
    /\ None \notin {SyncTask, RecheckTask} \cup Sessions

Handlers == {SyncTask, RecheckTask}

Commands == {"login", "logout", "pause", "resume", "status"}

VARIABLES
    main,        \* where the main task is: "down", "target" (inside target.start()),
                 \* "source" (inside source.start()) or "up"
    enabled,     \* BridgeCore._forwarding_enabled
    paused,      \* BridgeCore._forwarding_paused
    started,     \* BridgeCore._source_started
    dbEnabled,   \* the forwarding_enabled row of bridge_config
    dbPaused,    \* the forwarding_paused row of bridge_config
    pc,          \* where each handler task is in _handle_control
    cmd,         \* the command each handler works on
    lock,        \* the holder of BridgeCore._control_lock
    live,        \* the source sync loops that are running
    syncTask,    \* MatrixBackend._sync_task: the one loop that stop() knows
    running,     \* MatrixBackend._running of the source
    \* The next three record the past and guard no action.
    settled,     \* the flags after the last command that was saved in full
    early,       \* a login began before start-up was over
    stopFailed   \* the last source.stop() raised

core     == <<enabled, paused, started>>
database == <<dbEnabled, dbPaused>>
tasks    == <<pc, cmd, lock>>
source   == <<live, syncTask, running>>
history  == <<settled, early, stopFailed>>
vars     == <<main, core, database, tasks, source, history>>

Inside == {"locked", "starting", "stopping", "saveEnabled", "savePaused"}

TypeOK ==
    /\ main \in {"down", "target", "source", "up"}
    /\ enabled \in BOOLEAN /\ paused \in BOOLEAN /\ started \in BOOLEAN
    /\ dbEnabled \in BOOLEAN /\ dbPaused \in BOOLEAN
    /\ pc \in [Handlers -> {"idle", "waiting"} \cup Inside]
    /\ cmd \in [Handlers -> Commands \cup {None}]
    /\ lock \in Handlers \cup {None}
    /\ live \subseteq Sessions
    /\ syncTask \in Sessions \cup {None}
    /\ running \in BOOLEAN
    /\ settled \in [enabled : BOOLEAN, paused : BOOLEAN]
    /\ early \in BOOLEAN /\ stopFailed \in BOOLEAN

\* A first run: StateManager's defaults, nothing started.
Init ==
    /\ main = "down"
    /\ enabled = FALSE /\ paused = FALSE /\ started = FALSE
    /\ dbEnabled = TRUE /\ dbPaused = FALSE
    /\ pc = [h \in Handlers |-> "idle"]
    /\ cmd = [h \in Handlers |-> None]
    /\ lock = None
    /\ live = {} /\ syncTask = None /\ running = FALSE
    /\ settled = [enabled |-> TRUE, paused |-> FALSE]
    /\ early = FALSE /\ stopFailed = FALSE

-----------------------------------------------------------------------------
(* The source backend.                                                     *)

\* source.start() returns: its last statements set _running and create the loop
\* that stop() will know from then on.
SourceStarted ==
    \E s \in Sessions \ live :
        /\ live' = live \cup {s}
        /\ syncTask' = s
        /\ running' = TRUE

\* source.stop() up to the end of the cancellations.  It knows one sync loop.
SourceStopping ==
    /\ running' = FALSE
    /\ live' = live \ {syncTask}
    /\ syncTask' = None

\* A sync loop that was not cancelled ends when its long poll returns and it finds
\* _running cleared.
SessionExits(s) ==
    /\ s \in live
    /\ ~running
    /\ live' = live \ {s}
    /\ UNCHANGED <<main, core, database, tasks, syncTask, running, history>>

-----------------------------------------------------------------------------
(* The main task.                                                          *)

\* The process starts: state is loaded, the core is built and target.start() begins.
Boot ==
    /\ main = "down"
    /\ main' = "target"
    /\ UNCHANGED <<core, database, tasks, source, history>>

\* target.start() returned, which needs every callback of its initial sync to have
\* returned; the flags are read and the source is started if they say so.
LoadFlags ==
    /\ main = "target"
    /\ pc[SyncTask] = "idle"
    /\ paused' = dbPaused
    /\ enabled' = (enabled \/ dbEnabled)
    /\ main' = IF dbEnabled THEN "source" ELSE "up"
    /\ UNCHANGED <<started, database, tasks, source, history>>

BootSourceStarted ==
    /\ main = "source"
    /\ SourceStarted
    /\ started' = TRUE
    /\ main' = "up"
    /\ UNCHANGED <<enabled, paused, database, tasks, history>>

\* What a process that ends leaves behind: the database alone.
ProcessEnds ==
    /\ main' = "down"
    /\ enabled' = FALSE /\ paused' = FALSE /\ started' = FALSE
    /\ pc' = [h \in Handlers |-> "idle"]
    /\ cmd' = [h \in Handlers |-> None]
    /\ lock' = None
    /\ live' = {} /\ syncTask' = None /\ running' = FALSE
    /\ settled' = [enabled |-> dbEnabled, paused |-> dbPaused]
    /\ early' = FALSE /\ stopFailed' = FALSE
    /\ UNCHANGED database

\* source.start() raised in core.start(): main() shuts everything down and exits.
BootSourceFailed == main = "source" /\ ProcessEnds

\* A crash, a kill or an orderly shutdown, at any moment: core.stop() writes no flag.
ProcessStops == main # "down" /\ ProcessEnds

-----------------------------------------------------------------------------
(* Control commands.                                                       *)

Goto(h, place) == pc' = [pc EXCEPT ![h] = place]

\* The handler returns and leaves `async with self._control_lock`.
Return(h) ==
    /\ Goto(h, "idle")
    /\ cmd' = [cmd EXCEPT ![h] = None]
    /\ lock' = None

Receive(h, c) ==
    /\ main # "down"
    /\ pc[h] = "idle"
    /\ Goto(h, "waiting")
    /\ cmd' = [cmd EXCEPT ![h] = c]
    /\ UNCHANGED <<main, core, database, lock, source, history>>

\* A faulty variant: the handler does not wait for the lock.
AcquireWithoutWaiting(h) ==
    /\ pc[h] = "waiting"
    /\ lock' = h
    /\ Goto(h, "locked")
    /\ UNCHANGED <<main, core, database, cmd, source, history>>

Acquire(h) ==
    /\ pc[h] = "waiting"
    /\ lock = None
    /\ lock' = h
    /\ Goto(h, "locked")
    /\ UNCHANGED <<main, core, database, cmd, source, history>>

\* The commands that only answer with a notice: nothing changes, nothing is saved.
Refused(c) ==
    CASE c = "login"  -> started
      [] c = "logout" -> ~started
      [] c = "pause"  -> ~started \/ paused
      [] c = "resume" -> ~paused
      [] c = "status" -> TRUE

\* A faulty variant: the handler that only answers keeps the lock.
AnswerHoldingLock(h) ==
    /\ pc[h] = "locked"
    /\ Refused(cmd[h])
    /\ Goto(h, "idle")
    /\ cmd' = [cmd EXCEPT ![h] = None]
    /\ UNCHANGED <<main, core, database, lock, source, history>>

Answer(h) ==
    /\ pc[h] = "locked"
    /\ Refused(cmd[h])
    /\ Return(h)
    /\ UNCHANGED <<main, core, database, source, history>>

Accepted(h, c) == pc[h] = "locked" /\ cmd[h] = c /\ ~Refused(c)

LoginBegin(h) ==
    /\ Accepted(h, "login")
    /\ Goto(h, "starting")
    /\ early' = (early \/ main # "up")
    /\ UNCHANGED <<main, core, database, cmd, lock, source, settled, stopFailed>>

LoginDone(h) ==
    /\ pc[h] = "starting"
    /\ SourceStarted
    /\ started' = TRUE /\ enabled' = TRUE /\ paused' = FALSE
    /\ Goto(h, "saveEnabled")
    /\ UNCHANGED <<main, database, cmd, lock, history>>

\* source.start() raised: the flags keep their values and are saved all the same.
LoginFail(h) ==
    /\ pc[h] = "starting"
    /\ Goto(h, "saveEnabled")
    /\ UNCHANGED <<main, core, database, cmd, lock, source, history>>

LogoutBegin(h) ==
    /\ Accepted(h, "logout")
    /\ SourceStopping
    /\ Goto(h, "stopping")
    /\ UNCHANGED <<main, core, database, cmd, lock, history>>

\* A faulty variant: the logout forgets to mark forwarding as disabled.
LogoutDoneStillEnabled(h) ==
    /\ pc[h] = "stopping"
    /\ started' = FALSE /\ paused' = FALSE
    /\ stopFailed' = FALSE
    /\ Goto(h, "saveEnabled")
    /\ UNCHANGED <<main, enabled, database, cmd, lock, source, settled, early>>

\* source.stop() returned; the maps it clears as well are in module Forwarding.
LogoutDone(h) ==
    /\ pc[h] = "stopping"
    /\ started' = FALSE /\ enabled' = FALSE /\ paused' = FALSE
    /\ stopFailed' = FALSE
    /\ Goto(h, "saveEnabled")
    /\ UNCHANGED <<main, database, cmd, lock, source, settled, early>>

\* source.stop() raised after it cancelled its tasks: still "connected", without a loop.
LogoutFail(h) ==
    /\ pc[h] = "stopping"
    /\ stopFailed' = TRUE
    /\ Goto(h, "saveEnabled")
    /\ UNCHANGED <<main, core, database, cmd, lock, source, settled, early>>

SetPaused(h) ==
    /\ \/ Accepted(h, "pause")  /\ paused' = TRUE
       \/ Accepted(h, "resume") /\ paused' = FALSE
    /\ Goto(h, "saveEnabled")
    /\ UNCHANGED <<main, enabled, started, database, cmd, lock, source, history>>

\* The two flags are saved one after the other, each in a write of its own.
SaveEnabled(h) ==
    /\ pc[h] = "saveEnabled"
    /\ dbEnabled' = enabled
    /\ Goto(h, "savePaused")
    /\ UNCHANGED <<main, core, dbPaused, cmd, lock, source, history>>

\* A faulty variant: the second flag is not saved.
SavePausedForgotten(h) ==
    /\ pc[h] = "savePaused"
    /\ settled' = [enabled |-> enabled, paused |-> paused]
    /\ Return(h)
    /\ UNCHANGED <<main, core, database, source, early, stopFailed>>

SavePaused(h) ==
    /\ pc[h] = "savePaused"
    /\ dbPaused' = paused
    /\ settled' = [enabled |-> enabled, paused |-> paused]
    /\ Return(h)
    /\ UNCHANGED <<main, core, dbEnabled, source, early, stopFailed>>

-----------------------------------------------------------------------------

HandlerStep(h) ==
    \/ Acquire(h)
    \/ Answer(h)
    \/ LoginBegin(h)
    \/ LoginDone(h)
    \/ LoginFail(h)
    \/ LogoutBegin(h)
    \/ LogoutDone(h)
    \/ LogoutFail(h)
    \/ SetPaused(h)
    \/ SaveEnabled(h)
    \/ SavePaused(h)

Next ==
    \/ Boot
    \/ LoadFlags
    \/ BootSourceStarted
    \/ BootSourceFailed
    \/ ProcessStops
    \/ \E s \in Sessions : SessionExits(s)
    \/ \E h \in Handlers : HandlerStep(h) \/ \E c \in Commands : Receive(h, c)

Spec == Init /\ [][Next]_vars

\* Every network call returns or raises, so a handler that has the lock goes on; and
\* asyncio.Lock is first come, first served, so one that waits is served (strong
\* fairness, because the lock is free only now and then).  Nothing is assumed of the
\* users who send commands, nor of crashes.
Fairness ==
    /\ \A h \in Handlers : WF_vars(HandlerStep(h)) /\ SF_vars(Acquire(h))
    /\ \A s \in Sessions : WF_vars(SessionExits(s))

FairSpec == Spec /\ Fairness

-----------------------------------------------------------------------------
(* Properties.                                                             *)

\* No handler is at work and start-up is over.
Quiet == main = "up" /\ \A h \in Handlers : pc[h] = "idle"

\* Two loops would each receive, save and acknowledge every event of the source.  As
\* long as no login begins before core.start() is over, there is never a second source
\* sync loop, and none that stop() does not know (core.py:381-394).
SingleSession == ~early => live \subseteq {syncTask}

\* What !status reports is so: when nothing is in progress, the source is called
\* connected exactly if forwarding is enabled, and then a sync loop runs; unless a
\* login began during start-up or the last disconnect raised (core.py:414-424).
StatusIsTrue ==
    Quiet /\ ~early =>
        /\ started <=> enabled
        /\ ~stopFailed => (started <=> live # {})

\* Whatever happens between the two writes of a command, a restart finds for each flag
\* the value of the last command saved in full or that of the command in progress, and with
\* nothing in progress the value in force: a crash undoes one command at most
\* (core.py:445-448).
CrashUndoesOneCommand ==
    /\ dbEnabled \in {settled.enabled, enabled}
    /\ dbPaused \in {settled.paused, paused}
    /\ Quiet => dbEnabled = enabled /\ dbPaused = paused

\* Every command gets its answer: no handler waits for the control lock for ever.
EveryCommandReturns == \A h \in Handlers : pc[h] # "idle" ~> pc[h] = "idle"

\* What USERGUIDE.md says of !logout, "Disconnect from Server A and pause forwarding":
\* once the source counts as disconnected and nothing is in progress, no sync loop of
\* the source is running.
LogoutDisconnects == Quiet /\ ~started => live = {}
=============================================================================
