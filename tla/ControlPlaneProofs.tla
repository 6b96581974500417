------------------------- MODULE ControlPlaneProofs -------------------------
(***************************************************************************)
(* Proofs about ControlPlane, for every set of sessions.  Three inductive  *)
(* invariants are stacked on the type invariant: the control lock excludes *)
(* (LockInv), the saved flags trail those in force by the command that is  *)
(* being saved (SavedInv), and a login that begins after start-up finds no *)
(* sync loop (SessionInv).                                                 *)
(***************************************************************************)
EXTENDS ControlPlane, TLAPS

\* A handler is past the lock only while it holds it.
LockInv == \A h \in Handlers : pc[h] \in Inside => lock = h

Saving(h) == pc[h] \in {"saveEnabled", "savePaused"}

\* Between two commands the database holds what was settled and, once the flags are
\* loaded, what is in force.
SavedInv ==
    /\ \A h \in Handlers : pc[h] = "savePaused" =>
           dbEnabled = enabled /\ dbPaused = settled.paused
    /\ (\A h \in Handlers : pc[h] # "savePaused") =>
           dbEnabled = settled.enabled /\ dbPaused = settled.paused
    /\ (\A h \in Handlers : ~Saving(h)) =>
           /\ main \in {"source", "up"} => dbEnabled = enabled /\ dbPaused = paused
           /\ main = "target" => (enabled => dbEnabled)
    /\ main = "down" => ~enabled /\ \A h \in Handlers : pc[h] = "idle"

SessionInv ==
    ~early =>
        /\ live \subseteq {syncTask}
        /\ ~started => live = {}
        /\ main # "up" => ~started
        /\ main \in {"down", "target"} => ~enabled
        /\ main = "source" => enabled
        /\ main = "up" => (started <=> enabled)
        /\ \A h \in Handlers : pc[h] = "starting" => ~started /\ main = "up"
        /\ \A h \in Handlers : pc[h] = "stopping" => started /\ live = {}
        /\ started /\ ~stopFailed /\ (\A h \in Handlers : pc[h] # "stopping") =>
               running /\ live # {}

-----------------------------------------------------------------------------

\* Every variable keeps its type (the flags of BridgeCore, the places of the handlers,
\* the sync loops of the source).
THEOREM TypeCorrect == Spec => []TypeOK
<1> USE ControlAssumption DEF Handlers, TypeOK
<1>1. Init => TypeOK
  <2> SUFFICES ASSUME Init PROVE TypeOK
    OBVIOUS
  <2>1. pc \in [Handlers -> {"idle", "waiting"} \cup Inside]
    BY DEF Init
  <2>2. cmd \in [Handlers -> Commands \cup {None}]
    BY DEF Init
  <2>3. settled \in [enabled : BOOLEAN, paused : BOOLEAN]
    BY DEF Init
  <2>4. QED
    BY <2>1, <2>2, <2>3 DEF Init
<1>2. TypeOK /\ [Next]_vars => TypeOK'
  <2> SUFFICES ASSUME TypeOK, [Next]_vars PROVE TypeOK'
    OBVIOUS
  <2> USE DEF Goto, Return, Inside, Commands
  <2>1. CASE Boot
    BY <2>1 DEF Boot, core, database, tasks, source, history
  <2>2. CASE LoadFlags
    BY <2>2 DEF LoadFlags, database, tasks, source, history
  <2>3. CASE BootSourceStarted
    BY <2>3 DEF BootSourceStarted, SourceStarted, database, tasks, history
  <2>4. CASE ProcessEnds
    BY <2>4 DEF ProcessEnds, database
  <2>5. ASSUME NEW s \in Sessions, SessionExits(s) PROVE TypeOK'
    BY <2>5 DEF SessionExits, core, database, tasks, history
  <2>6. ASSUME NEW h \in Handlers, NEW c \in Commands, Receive(h, c) PROVE TypeOK'
    BY <2>6 DEF Receive, core, database, source, history
  <2>7. ASSUME NEW h \in Handlers, HandlerStep(h) PROVE TypeOK'
    <3>1. CASE Acquire(h)
      BY <3>1 DEF Acquire, core, database, source, history
    <3>2. CASE Answer(h)
      BY <3>2 DEF Answer, core, database, source, history
    <3>3. CASE LoginBegin(h)
      BY <3>3 DEF LoginBegin, core, database, source
    <3>4. CASE LoginDone(h)
      BY <3>4 DEF LoginDone, SourceStarted, database, history
    <3>5. CASE LoginFail(h)
      BY <3>5 DEF LoginFail, core, database, source, history
    <3>6. CASE LogoutBegin(h)
      BY <3>6 DEF LogoutBegin, SourceStopping, core, database, history
    <3>7. CASE LogoutDone(h)
      BY <3>7 DEF LogoutDone, database, source
    <3>8. CASE LogoutFail(h)
      BY <3>8 DEF LogoutFail, core, database, source
    <3>9. CASE SetPaused(h)
      <4>1. paused' \in BOOLEAN
        BY <3>9 DEF SetPaused, Accepted
      <4>2. QED
        BY <3>9, <4>1 DEF SetPaused, database, source, history
    <3>10. CASE SaveEnabled(h)
      BY <3>10 DEF SaveEnabled, core, source, history
    <3>11. CASE SavePaused(h)
      BY <3>11 DEF SavePaused, core, source
    <3>12. QED
      BY <2>7, <3>1, <3>2, <3>3, <3>4, <3>5, <3>6, <3>7, <3>8, <3>9, <3>10, <3>11
         DEF HandlerStep
  <2>8. CASE UNCHANGED vars
    BY <2>8 DEF vars, core, database, tasks, source, history
  <2>9. QED
    BY <2>1, <2>2, <2>3, <2>4, <2>5, <2>6, <2>7, <2>8
       DEF Next, BootSourceFailed, ProcessStops
<1>3. QED
  BY <1>1, <1>2, PTL DEF Spec

\* The control lock excludes: two handlers are never past `async with _control_lock`
\* together (core.py:376-377).
THEOREM LockExcludes == Spec => []LockInv
<1> USE ControlAssumption DEF Handlers, Inside, LockInv
<1>1. Init => LockInv
  BY DEF Init
<1>2. TypeOK /\ LockInv /\ [Next]_vars => LockInv'
  <2> SUFFICES ASSUME TypeOK, LockInv, [Next]_vars PROVE LockInv'
    OBVIOUS
  <2> USE DEF TypeOK, Goto, core, database, tasks, source, history
  <2>1. CASE Boot
    BY <2>1 DEF Boot
  <2>2. CASE LoadFlags
    BY <2>2 DEF LoadFlags
  <2>3. CASE BootSourceStarted
    BY <2>3 DEF BootSourceStarted, SourceStarted
  <2>4. CASE ProcessEnds
    BY <2>4 DEF ProcessEnds
  <2>5. ASSUME NEW s \in Sessions, SessionExits(s) PROVE LockInv'
    BY <2>5 DEF SessionExits
  <2>6. ASSUME NEW h \in Handlers, NEW c \in Commands, Receive(h, c) PROVE LockInv'
    BY <2>6 DEF Receive
  <2>7. ASSUME NEW h \in Handlers, HandlerStep(h) PROVE LockInv'
    <3>1. CASE Acquire(h)
      BY <3>1 DEF Acquire
    <3>2. CASE Answer(h)
      BY <3>2 DEF Answer, Return
    <3>3. CASE LoginBegin(h)
      BY <3>3 DEF LoginBegin, Accepted
    <3>4. CASE LoginDone(h)
      BY <3>4 DEF LoginDone, SourceStarted
    <3>5. CASE LoginFail(h)
      BY <3>5 DEF LoginFail
    <3>6. CASE LogoutBegin(h)
      BY <3>6 DEF LogoutBegin, Accepted, SourceStopping
    <3>7. CASE LogoutDone(h)
      BY <3>7 DEF LogoutDone
    <3>8. CASE LogoutFail(h)
      BY <3>8 DEF LogoutFail
    <3>9. CASE SetPaused(h)
      BY <3>9 DEF SetPaused, Accepted
    <3>10. CASE SaveEnabled(h)
      BY <3>10 DEF SaveEnabled
    <3>11. CASE SavePaused(h)
      BY <3>11 DEF SavePaused, Return
    <3>12. QED
      BY <2>7, <3>1, <3>2, <3>3, <3>4, <3>5, <3>6, <3>7, <3>8, <3>9, <3>10, <3>11
         DEF HandlerStep
  <2>8. CASE UNCHANGED vars
    BY <2>8 DEF vars
  <2>9. QED
    BY <2>1, <2>2, <2>3, <2>4, <2>5, <2>6, <2>7, <2>8
       DEF Next, BootSourceFailed, ProcessStops
<1>3. QED
  BY <1>1, <1>2, TypeCorrect, PTL DEF Spec

\* The database trails the flags in force by the command that is being saved
\* (core.py:445-448), start-up and restarts included.
THEOREM SavedFlagsTrail == Spec => []SavedInv
<1> USE ControlAssumption DEF Handlers, Inside, SavedInv, Saving, LockInv
<1>1. Init => SavedInv
  <2> SUFFICES ASSUME Init PROVE SavedInv
    OBVIOUS
  <2>1. \A h \in Handlers : pc[h] = "idle"
    BY DEF Init
  <2>2. QED
    BY <2>1 DEF Init
<1>2. TypeOK /\ LockInv /\ SavedInv /\ [Next]_vars => SavedInv'
  <2> SUFFICES ASSUME TypeOK, LockInv, SavedInv, [Next]_vars PROVE SavedInv'
    OBVIOUS
  <2> USE DEF TypeOK, Goto, core, database, tasks, source, history
  <2>1. CASE Boot
    BY <2>1 DEF Boot
  <2>2. CASE LoadFlags
    BY <2>2 DEF LoadFlags
  <2>3. CASE BootSourceStarted
    BY <2>3 DEF BootSourceStarted, SourceStarted
  <2>4. CASE ProcessEnds
    BY <2>4 DEF ProcessEnds
  <2>5. ASSUME NEW s \in Sessions, SessionExits(s) PROVE SavedInv'
    BY <2>5 DEF SessionExits
  <2>6. ASSUME NEW h \in Handlers, NEW c \in Commands, Receive(h, c) PROVE SavedInv'
    BY <2>6 DEF Receive
  <2>7. ASSUME NEW h \in Handlers, HandlerStep(h) PROVE SavedInv'
    <3>1. CASE Acquire(h)
      BY <3>1 DEF Acquire
    <3>2. CASE Answer(h)
      BY <3>2 DEF Answer, Return
    <3>3. CASE LoginBegin(h)
      BY <3>3 DEF LoginBegin, Accepted
    <3>4. CASE LoginDone(h)
      BY <3>4 DEF LoginDone, SourceStarted
    <3>5. CASE LoginFail(h)
      BY <3>5 DEF LoginFail
    <3>6. CASE LogoutBegin(h)
      BY <3>6 DEF LogoutBegin, Accepted, SourceStopping
    <3>7. CASE LogoutDone(h)
      BY <3>7 DEF LogoutDone
    <3>8. CASE LogoutFail(h)
      BY <3>8 DEF LogoutFail
    <3>9. CASE SetPaused(h)
      BY <3>9 DEF SetPaused, Accepted
    <3>10. CASE SaveEnabled(h)
      BY <3>10 DEF SaveEnabled
    <3>11. CASE SavePaused(h)
      BY <3>11 DEF SavePaused, Return
    <3>12. QED
      BY <2>7, <3>1, <3>2, <3>3, <3>4, <3>5, <3>6, <3>7, <3>8, <3>9, <3>10, <3>11
         DEF HandlerStep
  <2>8. CASE UNCHANGED vars
    BY <2>8 DEF vars
  <2>9. QED
    BY <2>1, <2>2, <2>3, <2>4, <2>5, <2>6, <2>7, <2>8
       DEF Next, BootSourceFailed, ProcessStops
<1>3. QED
  BY <1>1, <1>2, TypeCorrect, LockExcludes, PTL DEF Spec

\* The source's sync loop, _source_started and _forwarding_enabled go together as long
\* as no login begins during start-up (core.py:76-111, 381-408).
THEOREM SessionsFollowFlags == Spec => []SessionInv
<1> USE ControlAssumption DEF Handlers, Inside, SessionInv, LockInv
<1>1. Init => SessionInv
  BY DEF Init
<1>2. TypeOK /\ LockInv /\ SessionInv /\ [Next]_vars => SessionInv'
  <2> SUFFICES ASSUME TypeOK, LockInv, SessionInv, [Next]_vars PROVE SessionInv'
    OBVIOUS
  <2> USE DEF TypeOK, Goto, core, database, tasks, source, history
  <2>1. CASE Boot
    BY <2>1 DEF Boot
  <2>2. CASE LoadFlags
    BY <2>2 DEF LoadFlags
  <2>3. CASE BootSourceStarted
    BY <2>3 DEF BootSourceStarted, SourceStarted
  <2>4. CASE ProcessEnds
    BY <2>4 DEF ProcessEnds
  <2>5. ASSUME NEW s \in Sessions, SessionExits(s) PROVE SessionInv'
    BY <2>5 DEF SessionExits
  <2>6. ASSUME NEW h \in Handlers, NEW c \in Commands, Receive(h, c) PROVE SessionInv'
    BY <2>6 DEF Receive
  <2>7. ASSUME NEW h \in Handlers, HandlerStep(h) PROVE SessionInv'
    <3>1. CASE Acquire(h)
      BY <3>1 DEF Acquire
    <3>2. CASE Answer(h)
      BY <3>2 DEF Answer, Return
    <3>3. CASE LoginBegin(h)
      <4>1. ~started
        BY <3>3 DEF LoginBegin, Accepted, Refused
      <4>2. QED
        BY <3>3, <4>1 DEF LoginBegin
    <3>4. CASE LoginDone(h)
      BY <3>4 DEF LoginDone, SourceStarted
    <3>5. CASE LoginFail(h)
      BY <3>5 DEF LoginFail
    <3>6. CASE LogoutBegin(h)
      <4>1. started
        BY <3>6 DEF LogoutBegin, Accepted, Refused
      <4>2. pc[h] = "locked"
        BY <3>6 DEF LogoutBegin, Accepted
      <4>3. QED
        BY <3>6, <4>1, <4>2 DEF LogoutBegin, SourceStopping
    <3>7. CASE LogoutDone(h)
      BY <3>7 DEF LogoutDone
    <3>8. CASE LogoutFail(h)
      BY <3>8 DEF LogoutFail
    <3>9. CASE SetPaused(h)
      BY <3>9 DEF SetPaused, Accepted
    <3>10. CASE SaveEnabled(h)
      BY <3>10 DEF SaveEnabled
    <3>11. CASE SavePaused(h)
      BY <3>11 DEF SavePaused, Return
    <3>12. QED
      BY <2>7, <3>1, <3>2, <3>3, <3>4, <3>5, <3>6, <3>7, <3>8, <3>9, <3>10, <3>11
         DEF HandlerStep
  <2>8. CASE UNCHANGED vars
    BY <2>8 DEF vars
  <2>9. QED
    BY <2>1, <2>2, <2>3, <2>4, <2>5, <2>6, <2>7, <2>8
       DEF Next, BootSourceFailed, ProcessStops
<1>3. QED
  BY <1>1, <1>2, TypeCorrect, LockExcludes, PTL DEF Spec

\* A restart finds, for each flag, the value of the last command saved in full or that of
\* the command in progress, and with nothing in progress the values in force.
THEOREM FlagsSurviveRestarts == Spec => []CrashUndoesOneCommand
<1>1. TypeOK /\ SavedInv => CrashUndoesOneCommand
  BY DEF TypeOK, SavedInv, Saving, Quiet, CrashUndoesOneCommand, Inside
<1>2. QED
  BY <1>1, TypeCorrect, SavedFlagsTrail, PTL

\* One source sync loop at most, and it is the one that stop() cancels.
THEOREM OneSession == Spec => []SingleSession
<1>1. SessionInv => SingleSession
  BY DEF SessionInv, SingleSession
<1>2. QED
  BY <1>1, SessionsFollowFlags, PTL

\* What !status reports is so.
THEOREM StatusReportIsTrue == Spec => []StatusIsTrue
<1>1. SessionInv => StatusIsTrue
  BY DEF SessionInv, StatusIsTrue, Quiet
<1>2. QED
  BY <1>1, SessionsFollowFlags, PTL
=============================================================================
