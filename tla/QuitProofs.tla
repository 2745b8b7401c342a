----------------------------- MODULE QuitProofs -----------------------------
(***************************************************************************)
(* A quit that closes the windows stays a quit, whatever the platform, the *)
(* delays, and the order in which quits, updates and flushes come; it      *)
(* comes after the flush, leaves an updater's quit to the updater, is not  *)
(* forced, and nobody waits for it past its deadline.                      *)
(*                                                                         *)
(* NoOrphan alone is not inductive.  Within the frame of a native quit     *)
(* Electron must not be quitting and no window closing, and no microtask   *)
(* may call app.quit(): the only one that could is the install's, and no   *)
(* flush that an update waits for ends within such a frame, because only   *)
(* the microtask that starts a flush can end it there, and the update's    *)
(* flush was started by a task before.                                     *)
(***************************************************************************)
EXTENDS Quit, TLAPS

DrainShape ==
  [flush : {"idle", "running", "complete"}, elapsed : Nat, budget : Nat,
   resuming : BOOLEAN, updaterOwns : BOOLEAN]

Shape ==
  /\ drain \in DrainShape
  /\ work \in BOOLEAN
  /\ frame \in {"none", "held", "allowed"}
  /\ quitting \in BOOLEAN

\* Windows close only for a quit that Electron knows of.
ClosingIsQuitting == windows = "closing" => quitting

\* A frame is one of a quit that has not begun.
FrameIsBefore == frame # "none" => ~quitting

\* An update that waits for the flush has it started ...
UpdateFlushes == update = "flushing" => drain.flush # "idle"

\* ... in a task before any frame, so that nothing in a frame can end it.
NoInstallInFrame ==
  frame # "none" => /\ "install" \notin micro
                    /\ update = "flushing" => "stop" \notin micro

\* A quit that a frame lets through has nothing to wait for, and within the
\* frame that does not change.
FlushOrNothing == Complete(drain) \/ (~work /\ ~drain.updaterOwns)
AllowedIsFlushed == frame = "allowed" => FlushOrNothing

IInv == /\ Shape
        /\ ClosingIsQuitting
        /\ FrameIsBefore
        /\ UpdateFlushes
        /\ NoInstallInFrame
        /\ AllowedIsFlushed

-----------------------------------------------------------------------------
(* beforeQuit and hurry keep the drain's shape and never undo a flush. *)
LEMMA BeforeQuitFlush ==
  ASSUME NEW d \in DrainShape, work \in BOOLEAN
  PROVE  /\ AfterBeforeQuit(d) \in DrainShape
         /\ AfterBeforeQuit(d).flush # "idle"
         /\ AfterBeforeQuit(d).updaterOwns = d.updaterOwns
         /\ Complete(d) => Complete(AfterBeforeQuit(d))
BY DEF DrainShape, AfterBeforeQuit, Complete, Started, Bypass

(* hurry changes no flush and no owner. *)
LEMMA HurryFlush ==
  ASSUME NEW d \in DrainShape
  PROVE  /\ Hurried(d) \in DrainShape
         /\ Hurried(d).flush = d.flush
         /\ Hurried(d).updaterOwns = d.updaterOwns
BY TicksAssumption DEF DrainShape, Hurried, Complete

(* startFlush for an update: the flush is begun. *)
LEMMA StartFlush ==
  ASSUME NEW d \in DrainShape
  PROVE  /\ [Started(d) EXCEPT !.updaterOwns = TRUE] \in DrainShape
         /\ [Started(d) EXCEPT !.updaterOwns = TRUE].flush # "idle"
BY DEF DrainShape, Started

(* An allowed frame stays allowed when the flush completes, or nothing of the drain moves. *)
LEMMA AllowedKept ==
  ASSUME AllowedIsFlushed, UNCHANGED <<work, frame>>,
         \/ drain' = drain
         \/ Complete(drain)'
         \/ /\ drain'.flush = drain.flush
            /\ drain'.updaterOwns = drain.updaterOwns
  PROVE  AllowedIsFlushed'
BY DEF AllowedIsFlushed, FlushOrNothing, Complete

(* What changes neither the quit nor the flush, and queues nothing in a frame. *)
LEMMA KeepsIInv ==
  ASSUME IInv, UNCHANGED <<work, frame, quitting>>,
         drain' \in DrainShape,
         drain'.flush = drain.flush, drain'.updaterOwns = drain.updaterOwns,
         windows' = "closing" => quitting,
         update' = "flushing" => update = "flushing",
         micro' \subseteq micro
  PROVE  IInv'
<1>1. AllowedIsFlushed'
  BY AllowedKept DEF IInv
<1> QED
  BY <1>1 DEF IInv, Shape, ClosingIsQuitting, FrameIsBefore, UpdateFlushes,
              NoInstallInFrame

(* app.quit() from JavaScript outside of any frame. *)
LEMMA AppQuitIInv ==
  ASSUME IInv, NEW d \in DrainShape, d.flush = drain.flush,
         NEW queued, NEW now, now = "closing" => quitting,
         frame = "none", frame' = "none", work' = work,
         update' = "flushing" => update = "flushing",
         AppQuit(d, queued, now)
  PROVE  IInv'
<1>1. CASE quitting
  BY <1>1 DEF IInv, Shape, ClosingIsQuitting, FrameIsBefore, UpdateFlushes,
              NoInstallInFrame, AllowedIsFlushed, AppQuit
<1>2. CASE ~quitting
  <2>1. drain' \in DrainShape /\ drain'.flush # "idle"
    BY <1>2, BeforeQuitFlush DEF IInv, Shape, AppQuit
  <2>2. quitting' \in BOOLEAN /\ (windows' = "closing" => quitting')
    <3>1. CASE Prevented(d)
      BY <1>2, <3>1 DEF AppQuit
    <3>2. CASE ~Prevented(d)
      BY <1>2, <3>2 DEF AppQuit, Proceed
    <3> QED
      BY <3>1, <3>2
  <2> QED
    BY <2>1, <2>2 DEF IInv, Shape, ClosingIsQuitting, FrameIsBefore,
                      UpdateFlushes, NoInstallInFrame, AllowedIsFlushed
<1> QED
  BY <1>1, <1>2 DEF IInv, Shape

(* A native quit up to its microtasks. *)
LEMMA EnterFrameIInv ==
  ASSUME IInv, Idle, EnterFrame,
         UNCHANGED <<work, quitting, windows, update>>
  PROVE  IInv'
<1>1. CASE quitting
  BY <1>1 DEF IInv, Shape, ClosingIsQuitting, FrameIsBefore, UpdateFlushes,
              NoInstallInFrame, AllowedIsFlushed, FlushOrNothing, Complete,
              EnterFrame
<1>2. CASE ~quitting
  <2>1. drain' \in DrainShape /\ drain'.flush # "idle"
    BY <1>2, BeforeQuitFlush DEF IInv, Shape, EnterFrame
  <2>2. frame' \in {"held", "allowed"}
    BY <1>2 DEF EnterFrame
  <2>3. "install" \notin micro' /\ (update = "flushing" => "stop" \notin micro')
    BY <1>2 DEF EnterFrame, StopQueued, IInv, UpdateFlushes
  <2>4. frame' = "allowed" => FlushOrNothing'
    BY <1>2, BeforeQuitFlush
       DEF EnterFrame, Prevented, Bypass, FlushOrNothing, Complete, IInv, Shape
  <2> QED
    BY <1>2, <2>1, <2>2, <2>3, <2>4 DEF IInv, Shape, ClosingIsQuitting,
       FrameIsBefore, UpdateFlushes, NoInstallInFrame, AllowedIsFlushed
<1> QED
  BY <1>1, <1>2 DEF IInv, Shape

(* The flush ends: in a frame only by a stop that the frame has queued. *)
LEMMA FinishIInv ==
  ASSUME IInv, NEW others, Finish(others), others \subseteq micro,
         frame # "none" => "stop" \in micro,
         UNCHANGED <<work, frame, quitting, windows, update>>
  PROVE  IInv'
<1>1. drain' \in DrainShape /\ drain'.flush = "complete"
  BY DEF IInv, Shape, DrainShape, Finish
<1>2. frame # "none" =>
        "install" \notin micro' /\ (update = "flushing" => "stop" \notin micro')
  BY DEF IInv, NoInstallInFrame, Finish
<1>3. AllowedIsFlushed'
  BY <1>1, AllowedKept DEF IInv, Complete
<1> QED
  BY <1>1, <1>2, <1>3 DEF IInv, Shape, ClosingIsQuitting, FrameIsBefore,
                          UpdateFlushes, NoInstallInFrame

-----------------------------------------------------------------------------
(* Nothing is quitting in the beginning. *)
LEMMA InitIInv == Init => IInv
<1> SUFFICES ASSUME Init PROVE IInv
  OBVIOUS
<1>1. DeadlineTicks \in Nat
  BY TicksAssumption
<1>2. drain \in DrainShape
  BY <1>1 DEF Init, DrainShape
<1>3. quitting = FALSE /\ windows = "open" /\ frame = "none" /\ update = "none"
  BY DEF Init
<1> QED
  BY <1>2, <1>3 DEF Init, IInv, Shape, ClosingIsQuitting, FrameIsBefore,
     UpdateFlushes, NoInstallInFrame, AllowedIsFlushed

(* Every step keeps the frame before the quit. *)
LEMMA NextIInv == IInv /\ [Next]_vars => IInv'
<1> SUFFICES ASSUME IInv, [Next]_vars PROVE IInv'
  OBVIOUS
<1> USE DEF IInv
<1>1. CASE NativeQuit
  BY <1>1, EnterFrameIInv DEF NativeQuit
<1>2. CASE JsQuit
  BY <1>2, AppQuitIInv DEF JsQuit, Idle, Shape, ClosingIsQuitting
<1>3. CASE SystemShutdown
  BY <1>3, AppQuitIInv, HurryFlush
     DEF SystemShutdown, Idle, Shape, ClosingIsQuitting
<1>4. CASE InstallUpdate
  BY <1>4, StartFlush DEF InstallUpdate, Idle, Shape, ClosingIsQuitting,
     FrameIsBefore, UpdateFlushes, NoInstallInFrame, AllowedIsFlushed
<1>5. CASE FrameReturns
  <2>1. windows' = "closing" => frame = "allowed" \/ windows = "closing"
    BY <1>5 DEF FrameReturns, Proceed
  <2> QED
    BY <1>5, <2>1 DEF FrameReturns, Shape, ClosingIsQuitting, FrameIsBefore,
       UpdateFlushes, NoInstallInFrame, AllowedIsFlushed
<1>6. CASE StopCalled
  <2>1. CASE Finish(micro \ {"stop"})
    BY <1>6, <2>1, FinishIInv DEF StopCalled
  <2>2. CASE micro' = micro \ {"stop"} /\ UNCHANGED drain
    BY <1>6, <2>2, KeepsIInv DEF StopCalled, Shape, ClosingIsQuitting
  <2> QED
    BY <1>6, <2>1, <2>2 DEF StopCalled
<1>7. CASE StopSettles
  BY <1>7, FinishIInv DEF StopSettles, Idle
<1>8. CASE DeadlineFires
  BY <1>8, FinishIInv DEF DeadlineFires, Idle
<1>9. CASE ThenResume
  BY <1>9, KeepsIInv DEF ThenResume, Shape, ClosingIsQuitting
<1>10. CASE ResumeQuit
  <2>1. CASE StillResumes
    BY <1>10, <2>1, AppQuitIInv DEF ResumeQuit, Idle, Shape, ClosingIsQuitting
  <2>2. CASE ~StillResumes
    BY <1>10, <2>2, KeepsIInv DEF ResumeQuit, Idle, Shape, ClosingIsQuitting
  <2> QED
    BY <2>1, <2>2
<1>11. CASE ThenInstall
  <2>1. frame = "none"
    BY <1>11 DEF ThenInstall, NoInstallInFrame
  <2>2. CASE AppQuit(drain, micro \ {"install"}, windows) /\ update' = "quitting"
    BY <1>11, <2>1, <2>2, AppQuitIInv
       DEF ThenInstall, Shape, ClosingIsQuitting
  <2>3. CASE /\ update' \in {"none", "quitting"}
             /\ micro' = micro \ {"install"}
             /\ UNCHANGED <<drain, quitting, windows>>
    BY <1>11, <2>3, KeepsIInv DEF ThenInstall, Shape, ClosingIsQuitting
  <2> QED
    BY <1>11, <2>2, <2>3 DEF ThenInstall
<1>12. CASE UpdaterQuit
  <2>1. CASE platform = "darwin"
    BY <1>12, <2>1, EnterFrameIInv DEF UpdaterQuit
  <2>2. CASE platform # "darwin"
    BY <1>12, <2>2, AppQuitIInv DEF UpdaterQuit, Idle, Shape, ClosingIsQuitting
  <2> QED
    BY <2>1, <2>2
<1>13. CASE WindowsClosed
  <2>1. CASE quitting
    BY <1>13, <2>1, KeepsIInv DEF WindowsClosed, Proceed, Shape
  <2>2. CASE ~quitting /\ platform = "darwin"
    BY <1>13, <2>2, KeepsIInv DEF WindowsClosed, Shape
  <2>3. CASE ~quitting /\ platform # "darwin"
    <3>1. AppQuit(drain, {}, "closed")
      BY <1>13, <2>3 DEF WindowsClosed
    <3> QED
      BY <1>13, <3>1, AppQuitIInv DEF WindowsClosed, Idle, Shape
  <2> QED
    BY <2>1, <2>2, <2>3 DEF Shape
<1>14. CASE WorkChanges
  BY <1>14 DEF WorkChanges, Idle, Shape, ClosingIsQuitting, FrameIsBefore,
     UpdateFlushes, NoInstallInFrame, AllowedIsFlushed
<1>15. CASE ForcedExit
  BY <1>15, KeepsIInv DEF ForcedExit, Shape, ClosingIsQuitting
<1>16. CASE Tick
  <2>1. /\ drain' \in DrainShape
        /\ drain'.flush = drain.flush /\ drain'.updaterOwns = drain.updaterOwns
    BY <1>16 DEF Tick, Shape, DrainShape
  <2> QED
    BY <1>16, <2>1, KeepsIInv DEF Tick, Shape, ClosingIsQuitting
<1>17. CASE UNCHANGED vars
  BY <1>17, KeepsIInv DEF vars, Shape, ClosingIsQuitting
<1> QED
  BY <1>1, <1>2, <1>3, <1>4, <1>5, <1>6, <1>7, <1>8, <1>9, <1>10, <1>11, <1>12,
     <1>13, <1>14, <1>15, <1>16, <1>17 DEF Next, Asks, InTask, DueTask

-----------------------------------------------------------------------------
(* The drain, the retry and the updater never leave a half-done quit behind:       *)
(* windows that a quit closes end in will-quit and quit.                          *)
THEOREM NeverOrphaned == Spec => []NoOrphan
<1>1. IInv => NoOrphan
  BY DEF IInv, ClosingIsQuitting, NoOrphan
<1> QED
  BY InitIInv, NextIInv, <1>1, PTL DEF Spec

(* app.quit() begins a quit only with the flush complete, or nothing to flush. *)
LEMMA AppQuitFlushed ==
  ASSUME NEW d, NEW queued, NEW now, AppQuit(d, queued, now),
         d.flush = drain.flush, d.updaterOwns = drain.updaterOwns,
         ~quitting, quitting'
  PROVE  FlushOrNothing
<1>1. ~Prevented(d)
  BY DEF AppQuit
<1> QED
  BY <1>1 DEF Prevented, Bypass, FlushOrNothing, Complete

(* No quit, of whatever origin, begins to close the windows before the flush that  *)
(* pending work or an update's install has to wait for.                           *)
THEOREM FlushesFirst == Spec => FlushedFirst
<1>1. ASSUME IInv, [Next]_vars, ~quitting, quitting'
      PROVE  FlushOrNothing
  <2>1. CASE FrameReturns
    BY <1>1, <2>1 DEF FrameReturns, IInv, AllowedIsFlushed
  <2>2. CASE \E q, now : AppQuit(drain, q, now)
    BY <1>1, <2>2, AppQuitFlushed
  <2>3. CASE SystemShutdown
    BY <1>1, <2>3, AppQuitFlushed, HurryFlush DEF SystemShutdown, IInv, Shape
  <2>4. CASE UNCHANGED quitting
    BY <1>1, <2>4
  <2>5. CASE WindowsClosed
    <3>1. (quitting' = quitting) \/ AppQuit(drain, {}, "closed")
      BY <2>5 DEF WindowsClosed
    <3> QED
      BY <3>1, <2>2, <2>4
  <2>6. CASE JsQuit \/ ResumeQuit \/ ThenInstall \/ UpdaterQuit
    <3>1. (quitting' = quitting) \/ \E q, now : AppQuit(drain, q, now)
      BY <2>6 DEF JsQuit, ResumeQuit, ThenInstall, UpdaterQuit
    <3> QED
      BY <3>1, <2>2, <2>4
  <2>7. CASE NativeQuit \/ InstallUpdate \/ StopCalled \/ StopSettles
             \/ DeadlineFires \/ ThenResume \/ WorkChanges \/ ForcedExit \/ Tick
             \/ UNCHANGED vars
    BY <2>7, <2>4 DEF NativeQuit, InstallUpdate, StopCalled, StopSettles,
       DeadlineFires, ThenResume, WorkChanges, ForcedExit, Tick, vars
  <2> QED
    BY <1>1, <2>1, <2>3, <2>5, <2>6, <2>7 DEF Next, Asks, InTask, DueTask
<1>2. IInv /\ [Next]_vars =>
        [~quitting /\ quitting' /\ (work \/ drain.updaterOwns) => Complete(drain)]_vars
  BY <1>1 DEF FlushOrNothing
<1> QED
  BY InitIInv, NextIInv, <1>2, PTL DEF Spec, FlushedFirst

-----------------------------------------------------------------------------
(* No quit ends by an exit behind it, for any delays with                       *)
(* SYSTEM_SHUTDOWN_FLUSH_MS below SYSTEM_SHUTDOWN_EXIT_MS.                       *)
(*                                                                             *)
(* Time passes only while a flush runs: a deferred quit that nothing holds any     *)
(* more is a task that is due.  And the flush that a shutdown waits for has less   *)
(* time left than the shutdown's exit (FlushBeforeExit), so its deadline is due   *)
(* first.  The fail-safe of a resumed quit never runs down, since that quit is     *)
(* closing the windows.                                                          *)

\* A quit under way is closing windows.
QuittingCloses == ended = "no" /\ quitting => windows = "closing"

\* A fail-safe is armed behind a quit under way, and has all of its time.
FailSafeBehindQuit == failSafe # {} => quitting /\ failSafe = {ResumeTicks}

\* Whoever waits for the flush goes on only when it is complete.
AfterFlush ==
  /\ "resume" \in micro \cup immediates => Complete(drain)
  /\ "install" \in micro => Complete(drain) /\ update = "flushing"

\* An update that owns the quit has its next step ahead.
UpdateGoesOn ==
  /\ drain.updaterOwns /\ ~dropped => update # "none"
  /\ update = "flushing" => drain.flush = "running" \/ "install" \in micro
  /\ update = "quitting" =>
       /\ Complete(drain)
       /\ quitting \/ frame = "allowed" \/ "updaterQuit" \in immediates

\* So has a deferred quit.
ResumeGoesOn ==
  drain.resuming =>
    /\ drain.flush # "idle"
    /\ drain.updaterOwns \/ drain.flush = "running" \/ quitting
         \/ "resume" \in micro \cup immediates

\* A shutdown's quit is under way or deferred.
ShutdownQuits == osExit # {} /\ ~dropped => quitting \/ drain.resuming

\* A flush that a shutdown waits for ends before the shutdown's exit.
FlushBeforeExit ==
  ~dropped => \A n \in osExit :
    /\ n > 0
    /\ ~quitting /\ drain.flush = "running" => drain.budget < drain.elapsed + n

QInv == /\ QuittingCloses
        /\ FailSafeBehindQuit
        /\ AfterFlush
        /\ UpdateGoesOn
        /\ ResumeGoesOn
        /\ ShutdownQuits
        /\ FlushBeforeExit
        /\ NeverForced

DInv == TypeOK /\ IInv /\ QInv

-----------------------------------------------------------------------------
(* The drain. *)

Drains == [flush : {"idle", "running", "complete"},
           elapsed : 0..DeadlineTicks, budget : 1..DeadlineTicks,
           resuming : BOOLEAN, updaterOwns : BOOLEAN]

InBudget(d) == d \in Drains /\ d.elapsed <= d.budget

(* beforeQuit, to a drain within its budget. *)
LEMMA BeforeQuitDrain ==
  ASSUME NEW d, InBudget(d), work \in BOOLEAN
  PROVE  /\ InBudget(AfterBeforeQuit(d))
         /\ AfterBeforeQuit(d).elapsed = d.elapsed
         /\ AfterBeforeQuit(d).budget = d.budget
         /\ AfterBeforeQuit(d).updaterOwns = d.updaterOwns
         /\ d.resuming => AfterBeforeQuit(d).resuming
         /\ Complete(d) => AfterBeforeQuit(d) = d
         /\ ~Complete(d) => AfterBeforeQuit(d).flush = "running"
         /\ Prevented(d) => AfterBeforeQuit(d).resuming
         /\ AfterBeforeQuit(d).resuming => d.resuming \/ Prevented(d)
BY DEF InBudget, Drains, AfterBeforeQuit, Complete, Started, Bypass, Prevented

(* hurry, to a drain within its budget. *)
LEMMA HurryDrain ==
  ASSUME NEW d, InBudget(d)
  PROVE  /\ InBudget(Hurried(d))
         /\ Hurried(d).flush = d.flush
         /\ Hurried(d).elapsed = d.elapsed
         /\ Hurried(d).resuming = d.resuming
         /\ Hurried(d).updaterOwns = d.updaterOwns
         /\ ~Complete(d) => Hurried(d).budget < d.elapsed + ExitTicks
<1>1. FlushTicks \in Nat /\ FlushTicks > 0 /\ ExitTicks \in Nat /\ FlushTicks < ExitTicks
  BY TicksAssumption
<1>2. DeadlineTicks \in Nat
  BY TicksAssumption
<1>3. CASE Complete(d) \/ d.elapsed + FlushTicks >= d.budget
  BY <1>1, <1>2, <1>3 DEF InBudget, Drains, Hurried, Complete
<1>4. CASE ~Complete(d) /\ ~(d.elapsed + FlushTicks >= d.budget)
  <2>1. Hurried(d) = [d EXCEPT !.budget = d.elapsed + FlushTicks]
    BY <1>4 DEF Hurried
  <2>2. d.elapsed + FlushTicks \in 1..DeadlineTicks
    BY <1>1, <1>2, <1>4 DEF InBudget, Drains
  <2> QED
    BY <1>1, <1>2, <2>1, <2>2 DEF InBudget, Drains
<1> QED
  BY <1>3, <1>4

-----------------------------------------------------------------------------
(* app.quit(): it has no effect, it is held, or it goes through. *)

AppQuitIgnored(d, queued, now) ==
  /\ quitting /\ quitting'
  /\ drain' = d /\ micro' = queued
  /\ windows' = now /\ ended' = ended

AppQuitHeld(d, queued, now) ==
  /\ ~quitting /\ quitting' = FALSE
  /\ ~Complete(d)
  /\ InBudget(drain')
  /\ drain'.flush = "running"
  /\ drain'.resuming
  /\ drain'.elapsed = d.elapsed /\ drain'.budget = d.budget
  /\ drain'.updaterOwns = d.updaterOwns
  /\ micro' = queued \cup StopQueued(d)
  /\ windows' = now /\ ended' = ended

AppQuitGoes(d, queued, now) ==
  /\ ~quitting /\ quitting' = TRUE
  /\ InBudget(drain')
  /\ Complete(d) => drain' = d
  /\ ~Complete(d) => drain'.flush = "running"
  /\ drain'.resuming = d.resuming
  /\ drain'.updaterOwns = d.updaterOwns
  /\ micro' = queued \cup StopQueued(d)
  /\ windows' = IF now = "open" THEN "closing" ELSE now
  /\ ended' = IF now = "closed" THEN "quit" ELSE ended

(* A quit is ignored, opens a frame, or goes straight through its pass. *)
LEMMA AppQuitCases ==
  ASSUME NEW d, InBudget(d), work \in BOOLEAN, quitting \in BOOLEAN,
         NEW queued, NEW now, AppQuit(d, queued, now)
  PROVE  \/ AppQuitIgnored(d, queued, now)
         \/ AppQuitHeld(d, queued, now)
         \/ AppQuitGoes(d, queued, now)
<1>1. CASE quitting
  BY <1>1 DEF AppQuit, AppQuitIgnored
<1>2. CASE ~quitting /\ Prevented(d)
  <2>1. /\ drain' = AfterBeforeQuit(d) /\ micro' = queued \cup StopQueued(d)
        /\ quitting' = FALSE /\ windows' = now /\ ended' = ended
    BY <1>2 DEF AppQuit
  <2>2. ~Complete(d)
    BY <1>2 DEF Prevented
  <2> QED
    BY <1>2, <2>1, <2>2, BeforeQuitDrain DEF AppQuitHeld
<1>3. CASE ~quitting /\ ~Prevented(d)
  <2>1. /\ drain' = AfterBeforeQuit(d) /\ micro' = queued \cup StopQueued(d)
        /\ quitting' = TRUE
        /\ windows' = IF now = "open" THEN "closing" ELSE now
        /\ ended' = IF now = "closed" THEN "quit" ELSE ended
    BY <1>3 DEF AppQuit, Proceed
  <2>2. drain'.resuming = d.resuming
    BY <1>3, <2>1, BeforeQuitDrain DEF InBudget, Drains
  <2> QED
    BY <1>3, <2>1, <2>2, BeforeQuitDrain DEF AppQuitGoes
<1> QED
  BY <1>1, <1>2, <1>3

-----------------------------------------------------------------------------
(* Types. *)

(* A quit keeps the types. *)
LEMMA AppQuitTypes ==
  ASSUME TypeOK, NEW d, InBudget(d), NEW queued, NEW now,
         queued \subseteq {"stop", "resume", "install"},
         now \in {"open", "closing", "closed"},
         AppQuit(d, queued, now)
  PROVE  /\ InBudget(drain') /\ quitting' \in BOOLEAN
         /\ micro' \subseteq {"stop", "resume", "install"}
         /\ windows' \in {"open", "closing", "closed"}
         /\ ended' \in {"no", "quit", "exit"}
<1>1. work \in BOOLEAN /\ quitting \in BOOLEAN /\ ended \in {"no", "quit", "exit"}
  BY DEF TypeOK
<1>2. CASE AppQuitIgnored(d, queued, now)
  BY <1>1, <1>2 DEF AppQuitIgnored
<1>3. CASE AppQuitHeld(d, queued, now)
  BY <1>1, <1>3 DEF AppQuitHeld, StopQueued
<1>4. CASE AppQuitGoes(d, queued, now)
  BY <1>1, <1>4 DEF AppQuitGoes, StopQueued
<1> QED
  BY <1>1, <1>2, <1>3, <1>4, AppQuitCases

(* A native quit that enters its frame keeps the types. *)
LEMMA EnterFrameTypes ==
  ASSUME TypeOK, EnterFrame
  PROVE  /\ InBudget(drain') /\ frame' \in {"none", "held", "allowed"}
         /\ micro' \subseteq {"stop", "resume", "install"}
<1>1. InBudget(drain) /\ work \in BOOLEAN
  BY DEF TypeOK, InBudget, Drains
<1>2. CASE quitting
  BY <1>1, <1>2 DEF EnterFrame, TypeOK
<1>3. CASE ~quitting
  BY <1>1, <1>3, BeforeQuitDrain DEF EnterFrame, StopQueued
<1> QED
  BY <1>2, <1>3

(* The end of a flush keeps the types. *)
LEMMA FinishTypes ==
  ASSUME TypeOK, NEW others, others \subseteq {"stop", "resume", "install"},
         Finish(others)
  PROVE  InBudget(drain') /\ micro' \subseteq {"stop", "resume", "install"}
BY DEF TypeOK, Finish, InBudget, Drains

(* The delays are numbers. *)
LEMMA TicksAreNat ==
  /\ DeadlineTicks \in Nat /\ FlushTicks \in Nat
  /\ ExitTicks \in Nat /\ ExitTicks > 0
  /\ ResumeTicks \in Nat /\ ResumeTicks > 0
BY TicksAssumption

(* The passing of time keeps the types. *)
LEMMA TickTypes ==
  ASSUME TypeOK, Tick
  PROVE  TypeOK'
<1>1. ASSUME NEW max \in Nat, NEW timer, timer \in {{}} \cup {{n} : n \in 0..max},
             0 \notin timer
      PROVE  Less(timer) \in {{}} \cup {{n} : n \in 0..max}
  <2>1. CASE timer = {}
    BY <2>1 DEF Less
  <2>2. CASE timer # {}
    <3>1. PICK n \in 0..max : timer = {n}
      BY <1>1, <2>2
    <3>2. n - 1 \in 0..max
      BY <1>1, <3>1
    <3>3. Less(timer) = {n - 1}
      BY <3>1 DEF Less
    <3> QED
      BY <3>2, <3>3
  <2> QED
    BY <2>1, <2>2
<1>2. failSafe' \in {{}} \cup {{n} : n \in 0..ResumeTicks}
  BY <1>1, TicksAreNat DEF TypeOK, Tick, Expired
<1>3. osExit' \in {{}} \cup {{n} : n \in 0..ExitTicks}
  BY <1>1, TicksAreNat DEF TypeOK, Tick, Expired
<1>4. InBudget(drain')
  <2>1. CASE drain.flush = "running" /\ drain.elapsed < DeadlineTicks
    <3>1. drain' = [drain EXCEPT !.elapsed = drain.elapsed + 1]
      BY <2>1 DEF Tick
    <3>2. drain.elapsed + 1 \in 0..DeadlineTicks /\ drain.elapsed + 1 <= drain.budget
      BY <2>1, TicksAreNat DEF TypeOK, Tick, DeadlineDue
    <3> QED
      BY <3>1, <3>2 DEF TypeOK, InBudget, Drains
  <2>2. CASE ~(drain.flush = "running" /\ drain.elapsed < DeadlineTicks)
    BY <2>2 DEF Tick, TypeOK, InBudget, Drains
  <2> QED
    BY <2>1, <2>2
<1>5. waited' \in 0..(DeadlineTicks + 1)
  BY TicksAreNat DEF Tick, TypeOK
<1> QED
  BY <1>2, <1>3, <1>4, <1>5 DEF Tick, TypeOK, InBudget, Drains

(* Every step keeps the types. *)
LEMMA NextTypeOK == TypeOK /\ [Next]_vars => TypeOK'
<1> SUFFICES ASSUME TypeOK, [Next]_vars PROVE TypeOK'
  OBVIOUS
<1>0. /\ InBudget(drain)
      /\ 0 \in 0..(DeadlineTicks + 1)
      /\ {ResumeTicks} \in {{}} \cup {{n} : n \in 0..ResumeTicks}
      /\ {ExitTicks} \in {{}} \cup {{n} : n \in 0..ExitTicks}
  BY TicksAreNat DEF TypeOK, InBudget, Drains
<1>1. CASE NativeQuit
  BY <1>1, EnterFrameTypes DEF NativeQuit, TypeOK, InBudget, Drains
<1>2. CASE JsQuit
  <2>1. AppQuit(drain, {}, windows) /\ windows \in {"open", "closing", "closed"}
    BY <1>2 DEF JsQuit, TypeOK
  <2> QED
    BY <1>0, <1>2, <2>1, AppQuitTypes DEF JsQuit, TypeOK, InBudget, Drains
<1>3. CASE SystemShutdown
  <2>1. /\ AppQuit(Hurried(drain), {}, windows) /\ InBudget(Hurried(drain))
        /\ windows \in {"open", "closing", "closed"}
    BY <1>0, <1>3, HurryDrain DEF SystemShutdown, TypeOK
  <2> QED
    BY <1>0, <1>3, <2>1, AppQuitTypes DEF SystemShutdown, TypeOK, InBudget, Drains
<1>4. CASE InstallUpdate
  BY <1>4 DEF InstallUpdate, Started, StopQueued, TypeOK
<1>5. CASE FrameReturns
  BY <1>5 DEF FrameReturns, Proceed, TypeOK, clocks
<1>6. CASE StopCalled
  <2>1. CASE Finish(micro \ {"stop"})
    <3>1. InBudget(drain') /\ micro' \subseteq {"stop", "resume", "install"}
      BY <2>1, FinishTypes DEF TypeOK
    <3> QED
      BY <1>6, <3>1 DEF StopCalled, TypeOK, InBudget, Drains, clocks
  <2>2. CASE micro' = micro \ {"stop"} /\ UNCHANGED drain
    BY <1>6, <2>2 DEF StopCalled, TypeOK, clocks
  <2> QED
    BY <1>6, <2>1, <2>2 DEF StopCalled
<1>7. CASE StopSettles \/ DeadlineFires
  <2>1. /\ Finish({})
        /\ UNCHANGED <<platform, work, immediates, frame, quitting, windows, update,
                       clocks, ended>>
    BY <1>7 DEF StopSettles, DeadlineFires
  <2>2. InBudget(drain') /\ micro' \subseteq {"stop", "resume", "install"}
    BY <2>1, FinishTypes
  <2> QED
    BY <2>1, <2>2 DEF TypeOK, InBudget, Drains, clocks
<1>8. CASE ThenResume
  <2>1. /\ micro' \subseteq {"stop", "resume", "install"}
        /\ immediates' \subseteq {"resume", "updaterQuit"}
    BY <1>8 DEF ThenResume, TypeOK
  <2> QED
    BY <1>8, <2>1 DEF ThenResume, TypeOK, clocks
<1>9. CASE ResumeQuit
  <2>1. CASE StillResumes
    <3>1. AppQuit(drain, {}, windows) /\ windows \in {"open", "closing", "closed"}
      BY <1>9, <2>1 DEF ResumeQuit, TypeOK
    <3> QED
      BY <1>0, <1>9, <2>1, <3>1, AppQuitTypes DEF ResumeQuit, TypeOK, InBudget, Drains
  <2>2. CASE ~StillResumes
    <3>1. /\ immediates' \subseteq {"resume", "updaterQuit"}
          /\ UNCHANGED <<drain, micro, quitting, windows, ended, failSafe>>
          /\ UNCHANGED <<platform, work, frame, update, osExit, dropped, asked, waited>>
      BY <1>9, <2>2 DEF ResumeQuit, TypeOK
    <3> QED
      BY <3>1 DEF TypeOK
  <2> QED
    BY <2>1, <2>2
<1>10. CASE ThenInstall
  <2>1. CASE AppQuit(drain, micro \ {"install"}, windows) /\ update' = "quitting"
             /\ UNCHANGED <<immediates, asked, waited, dropped>>
    <3>1. /\ windows \in {"open", "closing", "closed"}
          /\ micro \ {"install"} \subseteq {"stop", "resume", "install"}
      BY DEF TypeOK
    <3> QED
      BY <1>0, <1>10, <2>1, <3>1, AppQuitTypes DEF ThenInstall, TypeOK, InBudget, Drains
  <2>2. CASE /\ micro' = micro \ {"install"}
             /\ \/ /\ immediates' = immediates \cup {"updaterQuit"}
                   /\ update' = "quitting"
                   /\ UNCHANGED <<asked, waited, dropped>>
                \/ /\ update' = "none" /\ dropped' = TRUE
                   /\ asked' = FALSE /\ waited' = 0
                   /\ UNCHANGED immediates
             /\ UNCHANGED <<drain, quitting, windows, ended>>
    <3>1. /\ micro' \subseteq {"stop", "resume", "install"}
          /\ immediates' \subseteq {"resume", "updaterQuit"}
          /\ update' \in {"none", "flushing", "quitting"}
      BY <2>2 DEF TypeOK
    <3>2. dropped' \in BOOLEAN /\ asked' \in BOOLEAN /\ waited' \in 0..(DeadlineTicks + 1)
      BY <1>0, <2>2 DEF TypeOK
    <3> QED
      BY <1>10, <2>2, <3>1, <3>2 DEF ThenInstall, TypeOK
  <2> QED
    BY <1>10, <2>1, <2>2 DEF ThenInstall
<1>11. CASE UpdaterQuit
  <2>1. CASE platform = "darwin"
    BY <1>11, <2>1, EnterFrameTypes DEF UpdaterQuit, TypeOK, InBudget, Drains, clocks
  <2>2. CASE platform # "darwin"
    <3>1. AppQuit(drain, {}, windows) /\ windows \in {"open", "closing", "closed"}
      BY <1>11, <2>2 DEF UpdaterQuit, TypeOK
    <3> QED
      BY <1>0, <1>11, <2>2, <3>1, AppQuitTypes
         DEF UpdaterQuit, TypeOK, InBudget, Drains, clocks
  <2> QED
    BY <2>1, <2>2
<1>12. CASE WindowsClosed
  <2>1. CASE quitting \/ platform = "darwin"
    BY <1>12, <2>1 DEF WindowsClosed, Proceed, TypeOK
  <2>2. CASE ~quitting /\ platform # "darwin"
    <3>1. AppQuit(drain, {}, "closed") /\ asked' = TRUE
      BY <1>12, <2>2 DEF WindowsClosed
    <3> QED
      BY <1>0, <1>12, <3>1, AppQuitTypes DEF WindowsClosed, TypeOK, InBudget, Drains
  <2> QED
    BY <2>1, <2>2
<1>13. CASE WorkChanges
  BY <1>13 DEF WorkChanges, TypeOK, clocks
<1>14. CASE ForcedExit
  BY <1>14 DEF ForcedExit, TypeOK, clocks
<1>15. CASE Tick
  BY <1>15, TickTypes
<1>16. CASE UNCHANGED vars
  BY <1>16 DEF vars, TypeOK
<1> QED
  BY <1>1, <1>2, <1>3, <1>4, <1>5, <1>6, <1>7, <1>8, <1>9, <1>10, <1>11, <1>12,
     <1>13, <1>14, <1>15, <1>16 DEF Next, Asks, InTask, DueTask

-----------------------------------------------------------------------------
(* What the invariant says of the quit, beyond the types. *)

(* app.quit(), of whatever origin. *)
LEMMA AppQuitQInv ==
  ASSUME DInv, ended = "no", frame = "none",
         NEW d, InBudget(d), NEW queued, NEW now, AppQuit(d, queued, now),
         queued \subseteq micro, "install" \notin queued,
         "install" \in micro => update' = "quitting",
         now \in {"open", "closing", "closed"}, quitting => now = windows,
         immediates' \subseteq immediates,
         update' = update \/ (update' = "quitting" /\ Complete(drain)),
         UNCHANGED failSafe \/ (failSafe' = {ResumeTicks} /\ Complete(drain)),
         \/ d = drain /\ UNCHANGED osExit
         \/ d = Hurried(drain) /\ osExit' = {ExitTicks},
         UNCHANGED <<frame, dropped>>
  PROVE  QInv'
<1>1. /\ InBudget(drain) /\ work \in BOOLEAN /\ quitting \in BOOLEAN
      /\ QInv /\ ClosingIsQuitting /\ UpdateFlushes
  BY DEF DInv, QInv, TypeOK, InBudget, Drains, IInv
<1>2. /\ d.flush = drain.flush /\ d.elapsed = drain.elapsed
      /\ d.resuming = drain.resuming /\ d.updaterOwns = drain.updaterOwns
      /\ Complete(drain) => d = drain
  BY <1>1, HurryDrain DEF Hurried
<1>3. \A n \in osExit' : ~dropped => n > 0
  BY <1>1, TicksAreNat DEF QInv, FlushBeforeExit
<1>4. ASSUME AppQuitIgnored(d, queued, now) \/ AppQuitGoes(d, queued, now)
      PROVE  QInv'
  <2>1. /\ quitting' = TRUE
        /\ Complete(drain') <=> Complete(drain)
        /\ drain'.flush = drain.flush \/ drain'.flush = "running"
        /\ drain'.resuming = drain.resuming
        /\ drain'.updaterOwns = drain.updaterOwns
        /\ micro' \subseteq queued \cup {"stop"}
        /\ ended' = "no" => windows' = "closing"
        /\ ended' \in {"no", "quit"}
    <3>1. CASE AppQuitIgnored(d, queued, now)
      BY <1>1, <1>2, <3>1 DEF AppQuitIgnored, QInv, QuittingCloses, Complete
    <3>2. CASE AppQuitGoes(d, queued, now)
      BY <1>1, <1>2, <3>2 DEF AppQuitGoes, Complete, StopQueued, InBudget, Drains
    <3> QED
      BY <1>4, <3>1, <3>2
  <2>2. QuittingCloses' /\ NeverForced' /\ ShutdownQuits'
    BY <2>1 DEF QuittingCloses, NeverForced, ShutdownQuits
  <2>3. FailSafeBehindQuit'
    BY <1>1, <2>1 DEF QInv, FailSafeBehindQuit
  <2>4. AfterFlush'
    BY <1>1, <2>1 DEF QInv, AfterFlush, Complete
  <2>5. UpdateGoesOn'
    BY <1>1, <2>1 DEF QInv, UpdateGoesOn, Complete
  <2>6. ResumeGoesOn'
    BY <1>1, <2>1 DEF QInv, ResumeGoesOn
  <2>7. FlushBeforeExit'
    BY <1>3, <2>1 DEF FlushBeforeExit
  <2> QED
    BY <2>2, <2>3, <2>4, <2>5, <2>6, <2>7 DEF QInv
<1>5. ASSUME AppQuitHeld(d, queued, now)
      PROVE  QInv'
  <2>1. /\ ~quitting /\ quitting' = FALSE
        /\ ~Complete(drain) /\ drain'.flush = "running" /\ drain'.resuming
        /\ drain'.elapsed = d.elapsed /\ drain'.budget = d.budget
        /\ drain'.updaterOwns = drain.updaterOwns
        /\ micro' \subseteq queued \cup {"stop"}
        /\ ended' = "no"
    BY <1>2, <1>5 DEF AppQuitHeld, Complete, StopQueued
  <2>2. QuittingCloses' /\ NeverForced' /\ ShutdownQuits' /\ ResumeGoesOn'
    BY <2>1 DEF QuittingCloses, NeverForced, ShutdownQuits, ResumeGoesOn
  <2>3. FailSafeBehindQuit'
    BY <1>1, <2>1 DEF QInv, FailSafeBehindQuit
  <2>4. AfterFlush'
    BY <1>1, <2>1 DEF QInv, AfterFlush
  <2>5. UpdateGoesOn'
    BY <1>1, <2>1 DEF QInv, UpdateGoesOn
  <2>6. FlushBeforeExit'
    <3>1. CASE d = drain /\ UNCHANGED osExit
      <4>1. ~dropped /\ osExit # {} => drain.flush = "running"
        BY <1>1, <2>1 DEF QInv, ShutdownQuits, ResumeGoesOn, Complete, InBudget, Drains
      <4> QED
        BY <1>1, <1>3, <2>1, <3>1, <4>1 DEF QInv, FlushBeforeExit
    <3>2. CASE d = Hurried(drain) /\ osExit' = {ExitTicks}
      <4>1. drain'.budget < drain'.elapsed + ExitTicks
        BY <1>1, <1>2, <2>1, <3>2, HurryDrain
      <4> QED
        BY <1>3, <3>2, <4>1 DEF FlushBeforeExit
    <3> QED
      BY <3>1, <3>2
  <2> QED
    BY <2>2, <2>3, <2>4, <2>5, <2>6 DEF QInv
<1> QED
  BY <1>1, <1>4, <1>5, AppQuitCases

(* A native quit up to its microtasks. *)
LEMMA EnterFrameQInv ==
  ASSUME DInv, Idle, EnterFrame,
         immediates' \subseteq immediates,
         "resume" \in immediates => "resume" \in immediates',
         UNCHANGED <<quitting, windows, failSafe, osExit, update, dropped, ended>>
  PROVE  QInv'
<1>1. /\ InBudget(drain) /\ work \in BOOLEAN /\ quitting \in BOOLEAN
      /\ QInv /\ ended = "no" /\ micro = {} /\ frame = "none"
  BY DEF DInv, QInv, TypeOK, InBudget, Drains, Idle
<1>2. CASE quitting
  <2>1. UNCHANGED <<drain, micro, frame>>
    BY <1>2 DEF EnterFrame
  <2>2. QuittingCloses' /\ FailSafeBehindQuit' /\ NeverForced' /\ ShutdownQuits'
          /\ FlushBeforeExit'
    BY <1>1, <1>2, <2>1 DEF QInv, QuittingCloses, FailSafeBehindQuit, NeverForced,
       ShutdownQuits, FlushBeforeExit
  <2>3. AfterFlush' /\ UpdateGoesOn' /\ ResumeGoesOn'
    BY <1>1, <1>2, <2>1 DEF QInv, AfterFlush, UpdateGoesOn, ResumeGoesOn, Complete
  <2> QED
    BY <2>2, <2>3 DEF QInv
<1>3. CASE ~quitting
  <2>1. /\ drain' = AfterBeforeQuit(drain)
        /\ micro' \subseteq {"stop"}
        /\ frame' = IF Prevented(drain) THEN "held" ELSE "allowed"
    BY <1>3 DEF EnterFrame, StopQueued
  <2>2. /\ drain'.elapsed = drain.elapsed /\ drain'.budget = drain.budget
        /\ drain'.updaterOwns = drain.updaterOwns
        /\ drain.resuming => drain'.resuming
        /\ Complete(drain) => drain' = drain /\ frame' = "allowed"
        /\ ~Complete(drain) => drain'.flush = "running"
    BY <1>1, <2>1, BeforeQuitDrain DEF Prevented
  <2>3. QuittingCloses' /\ FailSafeBehindQuit' /\ NeverForced' /\ ShutdownQuits'
    BY <1>1, <1>3, <2>2 DEF QInv, QuittingCloses, FailSafeBehindQuit, NeverForced,
       ShutdownQuits
  <2>4. AfterFlush'
    BY <1>1, <2>1, <2>2 DEF QInv, AfterFlush
  <2>5. UpdateGoesOn'
    BY <1>1, <1>3, <2>2 DEF QInv, UpdateGoesOn, Complete
  <2>6. ResumeGoesOn'
    BY <1>1, <1>3, <2>2 DEF QInv, ResumeGoesOn, Complete
  <2>7. FlushBeforeExit'
    <3>1. ~dropped /\ osExit # {} /\ ~Complete(drain) => drain.flush = "running"
      BY <1>1, <1>3 DEF QInv, ShutdownQuits, ResumeGoesOn, Complete, InBudget, Drains
    <3> QED
      BY <1>1, <1>3, <2>2, <3>1 DEF QInv, FlushBeforeExit, Complete
  <2> QED
    BY <2>3, <2>4, <2>5, <2>6, <2>7 DEF QInv
<1> QED
  BY <1>1, <1>2, <1>3

(* The flush ends. *)
LEMMA FinishQInv ==
  ASSUME DInv, ended = "no", NEW others, Finish(others), others \subseteq micro,
         "resume" \in micro => "resume" \in others,
         "install" \in micro => "install" \in others,
         UNCHANGED <<immediates, frame, quitting, windows, failSafe, osExit, update,
                     dropped, ended>>
  PROVE  QInv'
<1>1. /\ QInv /\ InBudget(drain)
      /\ drain' = [drain EXCEPT !.flush = "complete"]
      /\ micro' = others \cup {r \in {"resume"} : drain.resuming}
                     \cup {r \in {"install"} : update = "flushing"}
  BY DEF DInv, QInv, TypeOK, InBudget, Drains, Finish
<1>2. /\ drain'.flush = "complete" /\ drain'.resuming = drain.resuming
      /\ drain'.updaterOwns = drain.updaterOwns
  BY <1>1 DEF InBudget, Drains
<1>3. /\ "install" \in micro' => update = "flushing"
      /\ update = "flushing" => "install" \in micro'
      /\ drain.resuming => "resume" \in micro'
  BY <1>1 DEF QInv, AfterFlush
<1>4. QuittingCloses' /\ FailSafeBehindQuit' /\ NeverForced' /\ ShutdownQuits'
  BY <1>1, <1>2 DEF QInv, QuittingCloses, FailSafeBehindQuit, NeverForced,
     ShutdownQuits
<1>5. AfterFlush' /\ ResumeGoesOn'
  BY <1>2, <1>3 DEF AfterFlush, ResumeGoesOn, Complete
<1>6. UpdateGoesOn'
  BY <1>1, <1>2, <1>3 DEF QInv, UpdateGoesOn, Complete
<1>7. FlushBeforeExit'
  BY <1>1, <1>2 DEF QInv, FlushBeforeExit
<1> QED
  BY <1>4, <1>5, <1>6, <1>7 DEF QInv

(* Time passes only when no task is due, and keeps the deadlines in their order. *)
LEMMA TickQInv == DInv /\ Tick => QInv'
<1> SUFFICES ASSUME DInv, Tick PROVE QInv'
  OBVIOUS
<1>1. /\ QInv /\ InBudget(drain) /\ quitting \in BOOLEAN
      /\ ended = "no" /\ micro = {} /\ frame = "none" /\ immediates = {}
      /\ windows # "closing" /\ ~DeadlineDue
      /\ UNCHANGED <<immediates, micro, frame, quitting, windows, update, dropped,
                     ended>>
  BY DEF DInv, QInv, TypeOK, InBudget, Drains, Tick, Idle
<1>2. ~quitting /\ failSafe = {} /\ failSafe' = {}
  <2>1. ~quitting
    BY <1>1 DEF QInv, QuittingCloses
  <2>2. failSafe = {}
    BY <1>1, <2>1 DEF QInv, FailSafeBehindQuit
  <2> QED
    BY <2>1, <2>2 DEF Tick, Less
<1>3. /\ drain'.flush = drain.flush /\ drain'.resuming = drain.resuming
      /\ drain'.updaterOwns = drain.updaterOwns /\ drain'.budget = drain.budget
      /\ drain.flush = "running" /\ drain.elapsed < DeadlineTicks
            => drain'.elapsed = drain.elapsed + 1
  BY <1>1 DEF Tick, InBudget, Drains
<1>4. ~dropped /\ osExit # {} => drain.flush = "running"
  BY <1>1, <1>2 DEF QInv, ShutdownQuits, ResumeGoesOn, UpdateGoesOn, TypeOK, DInv
<1>5. FlushBeforeExit'
  <2> SUFFICES ASSUME ~dropped, NEW m \in osExit'
               PROVE  m > 0 /\ drain'.budget < drain'.elapsed + m
    BY <1>1 DEF FlushBeforeExit
  <2>1. PICK n \in osExit : m = n - 1
    BY DEF Tick, Less
  <2>2. n \in 0..ExitTicks
    BY <2>1, TicksAreNat DEF DInv, TypeOK
  <2>3. drain.budget < drain.elapsed + n /\ drain.flush = "running"
    BY <1>1, <1>2, <1>4, <2>1 DEF QInv, FlushBeforeExit
  <2>4. drain.elapsed < drain.budget /\ drain.budget <= DeadlineTicks
          /\ drain.elapsed \in Nat /\ drain.budget \in Nat
    BY <1>1, <2>3, TicksAreNat DEF DeadlineDue, InBudget, Drains
  <2>5. drain'.elapsed = drain.elapsed + 1 /\ drain'.budget = drain.budget
    BY <1>3, <2>3, <2>4, TicksAreNat
  <2> QED
    BY <2>1, <2>2, <2>3, <2>4, <2>5, TicksAreNat
<1>6. osExit' # {} => osExit # {}
  BY DEF Tick, Less
<1> QED
  BY <1>1, <1>2, <1>3, <1>5, <1>6 DEF QInv, QuittingCloses, FailSafeBehindQuit,
     AfterFlush, UpdateGoesOn, ResumeGoesOn, ShutdownQuits, NeverForced, Complete

-----------------------------------------------------------------------------
(* Nothing is due in the beginning. *)
LEMMA InitDInv == Init => DInv
<1> SUFFICES ASSUME Init PROVE DInv
  OBVIOUS
<1>1. /\ 0 \in 0..DeadlineTicks /\ DeadlineTicks \in 1..DeadlineTicks
      /\ 0 <= DeadlineTicks /\ 0 \in 0..(DeadlineTicks + 1)
  BY TicksAssumption
<1>2. TypeOK
  BY <1>1 DEF Init, TypeOK
<1> QED
  BY <1>2, InitIInv DEF Init, DInv, QInv, QuittingCloses, FailSafeBehindQuit, AfterFlush,
     UpdateGoesOn, ResumeGoesOn, ShutdownQuits, FlushBeforeExit, NeverForced, Complete

(* Every step keeps who waits for what. *)
LEMMA NextQInv == DInv /\ [Next]_vars => QInv'
<1> SUFFICES ASSUME DInv, [Next]_vars PROVE QInv'
  OBVIOUS
<1>1. /\ QInv /\ InBudget(drain) /\ InBudget(Hurried(drain))
      /\ windows \in {"open", "closing", "closed"}
      /\ quitting \in BOOLEAN /\ dropped \in BOOLEAN
      /\ FrameIsBefore /\ NoInstallInFrame
  BY HurryDrain DEF DInv, QInv, TypeOK, InBudget, Drains, IInv
<1>2. CASE NativeQuit
  BY <1>2, EnterFrameQInv DEF NativeQuit
<1>3. CASE JsQuit
  BY <1>1, <1>3, AppQuitQInv DEF JsQuit, Idle
<1>4. CASE SystemShutdown
  BY <1>1, <1>4, AppQuitQInv DEF SystemShutdown, Idle
<1>5. CASE InstallUpdate
  <2>1. /\ ~quitting /\ ended = "no" /\ micro = {} /\ frame = "none"
        /\ UNCHANGED <<frame, quitting, windows, failSafe, osExit, dropped, ended>>
        /\ update' = "flushing"
        /\ immediates' \subseteq immediates \cup {"updaterQuit"}
        /\ immediates \subseteq immediates'
        /\ micro' = StopQueued(drain) \cup {r \in {"install"} : Complete(drain)}
    BY <1>1, <1>5 DEF InstallUpdate, Idle, QInv, QuittingCloses
  <2>2. /\ drain'.elapsed = drain.elapsed /\ drain'.budget = drain.budget
        /\ drain'.resuming = drain.resuming /\ drain'.updaterOwns = TRUE
        /\ Complete(drain) => drain'.flush = "complete"
        /\ ~Complete(drain) => drain'.flush = "running"
    BY <1>1, <1>5 DEF InstallUpdate, Started, InBudget, Drains, Complete
  <2>3. /\ "resume" \notin micro'
        /\ "install" \in micro' <=> Complete(drain)
    BY <2>1 DEF StopQueued
  <2>4. QuittingCloses' /\ FailSafeBehindQuit' /\ NeverForced' /\ ShutdownQuits'
    BY <1>1, <2>1, <2>2 DEF QInv, QuittingCloses, FailSafeBehindQuit, NeverForced,
       ShutdownQuits
  <2>5. AfterFlush' /\ UpdateGoesOn' /\ ResumeGoesOn'
    BY <1>1, <2>1, <2>2, <2>3 DEF QInv, AfterFlush, UpdateGoesOn, ResumeGoesOn, Complete
  <2>6. ~dropped /\ osExit # {} => drain.flush # "idle"
    BY <1>1, <2>1 DEF QInv, ShutdownQuits, ResumeGoesOn
  <2>7. FlushBeforeExit'
    BY <1>1, <2>1, <2>2, <2>6 DEF QInv, FlushBeforeExit, Complete, InBudget, Drains
  <2> QED
    BY <2>4, <2>5, <2>7 DEF QInv
<1>6. CASE FrameReturns
  <2>1. /\ ~quitting /\ frame \in {"held", "allowed"}
        /\ quitting' = (frame = "allowed") /\ frame' = "none"
        /\ ended' = "no" /\ quitting' => windows' = "closing"
        /\ ended' \in {"no", "quit"}
        /\ UNCHANGED <<drain, micro, immediates, update, failSafe, osExit, dropped>>
    BY <1>1, <1>6 DEF FrameReturns, Proceed, FrameIsBefore, DInv, TypeOK, clocks
  <2>2. QuittingCloses' /\ FailSafeBehindQuit' /\ NeverForced' /\ ShutdownQuits'
    BY <1>1, <2>1 DEF QInv, QuittingCloses, FailSafeBehindQuit, NeverForced,
       ShutdownQuits
  <2>3. AfterFlush' /\ UpdateGoesOn' /\ ResumeGoesOn' /\ FlushBeforeExit'
    BY <1>1, <2>1 DEF QInv, AfterFlush, UpdateGoesOn, ResumeGoesOn, FlushBeforeExit,
       Complete
  <2> QED
    BY <2>2, <2>3 DEF QInv
<1>7. CASE StopCalled
  <2>1. CASE Finish(micro \ {"stop"})
    BY <1>7, <2>1, FinishQInv DEF StopCalled, clocks
  <2>2. CASE micro' = micro \ {"stop"} /\ UNCHANGED drain
    BY <1>1, <1>7, <2>2 DEF StopCalled, clocks, QInv, QuittingCloses,
       FailSafeBehindQuit, NeverForced, ShutdownQuits, AfterFlush, UpdateGoesOn,
       ResumeGoesOn, FlushBeforeExit, Complete
  <2> QED
    BY <1>7, <2>1, <2>2 DEF StopCalled
<1>8. CASE StopSettles
  BY <1>8, FinishQInv DEF StopSettles, Idle, clocks
<1>9. CASE DeadlineFires
  BY <1>9, FinishQInv DEF DeadlineFires, Idle, clocks
<1>10. CASE ThenResume
  BY <1>1, <1>10 DEF ThenResume, clocks, QInv, QuittingCloses,
     FailSafeBehindQuit, NeverForced, ShutdownQuits, AfterFlush, UpdateGoesOn,
     ResumeGoesOn, FlushBeforeExit, Complete
<1>11. CASE ResumeQuit
  <2>1. CASE StillResumes
    <3>1. Complete(drain)
      BY <1>1, <1>11 DEF ResumeQuit, QInv, AfterFlush
    <3> QED
      BY <1>1, <1>11, <2>1, <3>1, AppQuitQInv DEF ResumeQuit, Idle
  <2>2. CASE ~StillResumes
    BY <1>1, <1>11, <2>2 DEF ResumeQuit, StillResumes, QInv, QuittingCloses,
       FailSafeBehindQuit, NeverForced, ShutdownQuits, AfterFlush, UpdateGoesOn,
       ResumeGoesOn, FlushBeforeExit, Complete
  <2> QED
    BY <2>1, <2>2
<1>12. CASE ThenInstall
  <2>1. Complete(drain) /\ frame = "none" /\ ended = "no"
    BY <1>1, <1>12 DEF ThenInstall, QInv, AfterFlush, NoInstallInFrame
  <2>2. CASE AppQuit(drain, micro \ {"install"}, windows) /\ update' = "quitting"
             /\ UNCHANGED <<immediates, dropped>>
    BY <1>1, <1>12, <2>1, <2>2, AppQuitQInv DEF ThenInstall
  <2>3. CASE /\ micro' = micro \ {"install"}
             /\ \/ /\ immediates' = immediates \cup {"updaterQuit"}
                   /\ update' = "quitting" /\ UNCHANGED dropped
                \/ update' = "none" /\ dropped' = TRUE /\ UNCHANGED immediates
             /\ UNCHANGED <<drain, quitting, windows, ended>>
    BY <1>1, <1>12, <2>1, <2>3 DEF ThenInstall, QInv, QuittingCloses,
       FailSafeBehindQuit, NeverForced, ShutdownQuits, AfterFlush, UpdateGoesOn,
       ResumeGoesOn, FlushBeforeExit, Complete
  <2> QED
    BY <1>12, <2>2, <2>3 DEF ThenInstall
<1>13. CASE UpdaterQuit
  <2>1. CASE platform = "darwin"
    BY <1>13, <2>1, EnterFrameQInv DEF UpdaterQuit, clocks
  <2>2. CASE platform # "darwin"
    BY <1>1, <1>13, <2>2, AppQuitQInv DEF UpdaterQuit, Idle, clocks
  <2> QED
    BY <2>1, <2>2
<1>14. CASE WindowsClosed
  <2>1. CASE quitting \/ platform = "darwin"
    BY <1>1, <1>14, <2>1 DEF WindowsClosed, Proceed, QInv, QuittingCloses,
       FailSafeBehindQuit, NeverForced, ShutdownQuits, AfterFlush, UpdateGoesOn,
       ResumeGoesOn, FlushBeforeExit, Complete
  <2>2. CASE ~quitting /\ platform # "darwin"
    <3>1. AppQuit(drain, {}, "closed")
      BY <1>14, <2>2 DEF WindowsClosed
    <3> QED
      BY <1>1, <1>14, <2>2, <3>1, AppQuitQInv DEF WindowsClosed, Idle
  <2> QED
    BY <2>1, <2>2
<1>15. CASE WorkChanges \/ UNCHANGED vars
  BY <1>1, <1>15 DEF WorkChanges, vars, clocks, QInv, QuittingCloses,
     FailSafeBehindQuit, NeverForced, ShutdownQuits, AfterFlush, UpdateGoesOn,
     ResumeGoesOn, FlushBeforeExit, Complete
<1>16. CASE ForcedExit
  <2>1. dropped
    BY <1>1, <1>16, TicksAreNat DEF ForcedExit, Expired, QInv, FailSafeBehindQuit,
       FlushBeforeExit
  <2> QED
    BY <1>1, <1>16, <2>1 DEF ForcedExit, clocks, QInv, QuittingCloses,
       FailSafeBehindQuit, NeverForced, ShutdownQuits, AfterFlush, UpdateGoesOn,
       ResumeGoesOn, FlushBeforeExit, Complete
<1>17. CASE Tick
  BY <1>17, TickQInv
<1> QED
  BY <1>2, <1>3, <1>4, <1>5, <1>6, <1>7, <1>8, <1>9, <1>10, <1>11, <1>12, <1>13,
     <1>14, <1>15, <1>16, <1>17 DEF Next, Asks, InTask, DueTask

(* Every step keeps the invariant of the deadlines. *)
LEMMA NextDInv == DInv /\ [Next]_vars => DInv'
BY NextTypeOK, NextIInv, NextQInv DEF DInv

-----------------------------------------------------------------------------
(* The drain, the timers and Electron's quit keep their types: above all, a   *)
(* running flush is never past its deadline.                                  *)
THEOREM TypesKept == Spec => []TypeOK
<1>1. DInv => TypeOK
  BY DEF DInv
<1> QED
  BY InitDInv, NextDInv, <1>1, PTL DEF Spec

(* Neither the exit behind a resumed quit nor the one behind a shutdown ends  *)
(* the application, unless an update that failed has dropped a quit.          *)
THEOREM ExitsBehindNeverFire == Spec => []NeverForced
<1>1. DInv => NeverForced
  BY DEF DInv, QInv
<1> QED
  BY InitDInv, NextDInv, <1>1, PTL DEF Spec
-----------------------------------------------------------------------------
(* Nobody who asked to quit waits longer than the drain's deadline.             *)
(*                                                                             *)
(* While the flush runs, its clock is not behind the one of whoever asked; when   *)
(* it is over, the quit is a task that is due, and no time passes before it.     *)

\* Whoever asked has a quit under way, a flush that ends in one, or its task due.
AskedGoesOn ==
  asked /\ ended = "no" =>
    \/ quitting \/ frame = "allowed"
    \/ /\ drain.flush = "running" /\ waited <= drain.elapsed
       /\ drain.resuming \/ update = "flushing"
    \/ /\ drain.flush = "complete"
       /\ \/ "install" \in micro \/ "updaterQuit" \in immediates
          \/ "resume" \in micro \cup immediates /\ ~drain.updaterOwns

WaitsInTime == waited <= DeadlineTicks /\ (~asked => waited = 0)

\* An update that failed had flushed.
DroppedIsFlushed == dropped => drain.flush = "complete"

AskedInv == AskedGoesOn /\ WaitsInTime /\ DroppedIsFlushed

TInv == DInv /\ AskedInv

\* An updater that owns the quit waits for the flush, while it runs.
LEMMA OwnedIsFlushing ==
  ASSUME TInv, drain.updaterOwns, drain.flush = "running"
  PROVE  update = "flushing"
BY DEF TInv, DInv, QInv, UpdateGoesOn, AskedInv, DroppedIsFlushed, Complete, TypeOK

\* app.quit() is under way then, or held for the flush.
LEMMA AppQuitAsked ==
  ASSUME TInv, ended = "no", frame = "none",
         NEW d, d = drain \/ d = Hurried(drain), NEW queued, NEW now, AppQuit(d, queued, now),
         asked' = asked \/ asked' = TRUE, UNCHANGED <<waited, dropped>>
  PROVE  AskedInv'
<1>1. /\ InBudget(drain) /\ work \in BOOLEAN /\ quitting \in BOOLEAN
      /\ waited \in Nat /\ drain.elapsed \in Nat
  BY TicksAreNat DEF TInv, DInv, TypeOK, InBudget, Drains
<1>2. /\ d.flush = drain.flush /\ d.elapsed = drain.elapsed
      /\ d.updaterOwns = drain.updaterOwns /\ InBudget(d)
      /\ Complete(drain) => d = drain
  BY <1>1, HurryDrain DEF Hurried
<1>3. WaitsInTime'
  BY DEF TInv, AskedInv, WaitsInTime
<1>4. DroppedIsFlushed'
  <2>1. Complete(drain) => drain' = d /\ d = drain
    BY <1>1, <1>2, BeforeQuitDrain DEF AppQuit, Complete
  <2> QED BY <2>1 DEF TInv, AskedInv, DroppedIsFlushed, Complete
<1>5. AskedGoesOn'
  <2>1. CASE AppQuitIgnored(d, queued, now) \/ AppQuitGoes(d, queued, now)
    BY <2>1 DEF AppQuitIgnored, AppQuitGoes, AskedGoesOn
  <2>2. CASE AppQuitHeld(d, queued, now)
    <3>1. /\ ~quitting /\ drain.flush # "complete"
          /\ drain'.flush = "running" /\ drain'.resuming /\ drain'.elapsed = drain.elapsed
      BY <1>2, <2>2 DEF AppQuitHeld, Complete
    <3>2. waited <= drain.elapsed
      BY <1>1, <3>1 DEF TInv, AskedInv, AskedGoesOn, WaitsInTime
    <3> QED BY <3>1, <3>2 DEF AskedGoesOn
  <2> QED BY <1>1, <1>2, <2>1, <2>2, AppQuitCases
<1> QED
  BY <1>3, <1>4, <1>5 DEF AskedInv

\* So is a native quit.
LEMMA EnterFrameAsked ==
  ASSUME TInv, Idle, EnterFrame, asked' = asked \/ asked' = TRUE,
         UNCHANGED <<quitting, waited, dropped>>
  PROVE  AskedInv'
<1>1. /\ InBudget(drain) /\ work \in BOOLEAN /\ quitting \in BOOLEAN
      /\ waited \in Nat /\ drain.elapsed \in Nat /\ ended = "no" /\ frame = "none"
  BY TicksAreNat DEF TInv, DInv, TypeOK, InBudget, Drains, Idle
<1>2. CASE quitting
  BY <1>1, <1>2 DEF EnterFrame, TInv, AskedInv, AskedGoesOn, WaitsInTime, DroppedIsFlushed
<1>3. CASE ~quitting
  <2>1. /\ drain' = AfterBeforeQuit(drain)
        /\ frame' = IF Prevented(drain) THEN "held" ELSE "allowed"
    BY <1>3 DEF EnterFrame
  <2>2. /\ drain'.elapsed = drain.elapsed
        /\ Complete(drain) => drain' = drain /\ frame' = "allowed"
        /\ ~Complete(drain) => drain'.flush = "running"
        /\ Prevented(drain) => drain'.resuming
    BY <1>1, <2>1, BeforeQuitDrain DEF Prevented
  <2>3. ~Complete(drain) => waited <= drain.elapsed
    BY <1>1, <1>3 DEF TInv, AskedInv, AskedGoesOn, WaitsInTime, Complete
  <2>4. AskedGoesOn'
    BY <2>1, <2>2, <2>3 DEF AskedGoesOn
  <2>5. WaitsInTime' /\ DroppedIsFlushed'
    BY <2>2 DEF TInv, AskedInv, WaitsInTime, DroppedIsFlushed, Complete
  <2> QED BY <2>4, <2>5 DEF AskedInv
<1> QED
  BY <1>1, <1>2, <1>3

\* The end of the flush makes due what waits for it.
LEMMA FinishAsked ==
  ASSUME TInv, NEW others, Finish(others), others \subseteq micro,
         "resume" \in micro => "resume" \in others,
         "install" \in micro => "install" \in others,
         UNCHANGED <<immediates, frame, quitting, update, dropped, asked, waited, ended>>
  PROVE  AskedInv'
<1>1. /\ InBudget(drain) /\ drain' = [drain EXCEPT !.flush = "complete"]
      /\ micro' = others \cup {r \in {"resume"} : drain.resuming}
                     \cup {r \in {"install"} : update = "flushing"}
  BY DEF TInv, DInv, TypeOK, InBudget, Drains, Finish
<1>2. /\ drain'.flush = "complete" /\ drain'.resuming = drain.resuming
      /\ drain'.updaterOwns = drain.updaterOwns
  BY <1>1 DEF InBudget, Drains
<1>3. /\ update = "flushing" => "install" \in micro'
      /\ drain.resuming => "resume" \in micro'
      /\ "resume" \in micro => "resume" \in micro'
      /\ "install" \in micro => "install" \in micro'
  BY <1>1
<1>4. AskedGoesOn'
  BY <1>2, <1>3, OwnedIsFlushing DEF TInv, AskedInv, AskedGoesOn
<1> QED
  BY <1>2, <1>4 DEF TInv, AskedInv, WaitsInTime, DroppedIsFlushed

\* The clocks of the flush and of whoever asked advance together.
LEMMA TickAsked == TInv /\ Tick => AskedInv'
<1> SUFFICES ASSUME TInv, Tick PROVE AskedInv'
  OBVIOUS
<1>1. /\ QInv /\ InBudget(drain) /\ waited \in Nat
      /\ ended = "no" /\ micro = {} /\ frame = "none" /\ immediates = {}
      /\ windows # "closing" /\ ~DeadlineDue
      /\ UNCHANGED <<immediates, micro, frame, quitting, update, dropped, asked, ended>>
  BY TicksAreNat DEF TInv, DInv, TypeOK, InBudget, Drains, Tick, Idle
<1>2. ~quitting
  BY <1>1 DEF QInv, QuittingCloses
<1>3. /\ drain'.flush = drain.flush /\ drain'.resuming = drain.resuming
      /\ drain.flush = "running" /\ drain.elapsed < DeadlineTicks
            => drain'.elapsed = drain.elapsed + 1
  BY <1>1 DEF Tick, InBudget, Drains
<1>4. DroppedIsFlushed'
  BY <1>1, <1>3 DEF TInv, AskedInv, DroppedIsFlushed
<1>5. CASE ~asked
  BY <1>1, <1>4, <1>5 DEF Tick, TInv, AskedInv, WaitsInTime, AskedGoesOn
<1>6. CASE asked
  <2>1. /\ drain.flush = "running" /\ waited <= drain.elapsed
        /\ drain.resuming \/ update = "flushing"
    BY <1>1, <1>2, <1>6 DEF TInv, AskedInv, AskedGoesOn
  <2>2. drain.elapsed < drain.budget /\ drain.budget <= DeadlineTicks
          /\ drain.elapsed \in Nat /\ drain.budget \in Nat /\ DeadlineTicks \in Nat
    BY <1>1, <2>1, TicksAreNat DEF DeadlineDue, InBudget, Drains
  <2>3. drain'.elapsed = drain.elapsed + 1 /\ waited' = waited + 1
    BY <1>1, <1>3, <1>6, <2>1, <2>2 DEF Tick
  <2>4. waited' <= drain'.elapsed /\ waited' <= DeadlineTicks
    BY <1>1, <2>1, <2>2, <2>3
  <2> QED
    BY <1>1, <1>3, <1>4, <1>6, <2>1, <2>4 DEF AskedInv, AskedGoesOn, WaitsInTime
<1> QED
  BY <1>5, <1>6

(* Nothing has been asked for in the beginning. *)
LEMMA AskedInvInit == Init => AskedInv
BY TicksAreNat DEF Init, AskedInv, AskedGoesOn, WaitsInTime, DroppedIsFlushed

(* Every step keeps what was asked for on its way. *)
LEMMA AskedInvNext == TInv /\ [Next]_vars => AskedInv'
<1> SUFFICES ASSUME TInv, [Next]_vars PROVE AskedInv'
  OBVIOUS
<1>1. /\ DInv /\ QInv /\ AskedInv /\ InBudget(drain)
      /\ FrameIsBefore /\ NoInstallInFrame
      /\ waited \in Nat /\ drain.elapsed \in Nat /\ 0 <= DeadlineTicks
      /\ quitting \in BOOLEAN
  BY TicksAreNat DEF TInv, DInv, TypeOK, InBudget, Drains, IInv
<1>2. CASE NativeQuit
  BY <1>2, EnterFrameAsked DEF NativeQuit
<1>3. CASE JsQuit
  BY <1>3, AppQuitAsked DEF JsQuit, Idle
<1>4. CASE SystemShutdown
  BY <1>4, AppQuitAsked DEF SystemShutdown, Idle
<1>5. CASE InstallUpdate
  <2>1. /\ ~quitting /\ ended = "no" /\ frame = "none"
        /\ UNCHANGED <<quitting, waited, dropped, ended, frame>>
        /\ update' = "flushing"
        /\ micro' = StopQueued(drain) \cup {r \in {"install"} : Complete(drain)}
    BY <1>1, <1>5 DEF InstallUpdate, Idle, QInv, QuittingCloses
  <2>2. /\ drain'.elapsed = drain.elapsed
        /\ Complete(drain) => drain'.flush = "complete"
        /\ ~Complete(drain) => drain'.flush = "running"
    BY <1>1, <1>5 DEF InstallUpdate, Started, InBudget, Drains, Complete
  <2>3. ~Complete(drain) => waited <= drain.elapsed
    BY <1>1, <2>1 DEF AskedInv, AskedGoesOn, WaitsInTime, Complete
  <2>4. Complete(drain) => "install" \in micro'
    BY <2>1
  <2>5. AskedGoesOn'
    BY <2>1, <2>2, <2>3, <2>4 DEF AskedGoesOn
  <2>6. asked' = TRUE
    BY <1>5 DEF InstallUpdate
  <2>7. WaitsInTime' /\ DroppedIsFlushed'
    BY <1>1, <2>1, <2>2, <2>6 DEF AskedInv, WaitsInTime, DroppedIsFlushed, Complete
  <2> QED BY <2>5, <2>7 DEF AskedInv
<1>6. CASE FrameReturns
  <2>1. /\ ended = "no" /\ frame # "none" /\ ~quitting
        /\ quitting' = (frame = "allowed")
        /\ UNCHANGED <<drain, micro, immediates, update, asked, waited, dropped>>
    BY <1>1, <1>6 DEF FrameReturns, clocks, FrameIsBefore
  <2>2. AskedGoesOn'
    BY <1>1, <2>1 DEF AskedInv, AskedGoesOn
  <2> QED BY <1>1, <2>1, <2>2 DEF AskedInv, WaitsInTime, DroppedIsFlushed
<1>7. CASE StopCalled
  <2>1. CASE Finish(micro \ {"stop"})
    BY <1>7, <2>1, FinishAsked DEF StopCalled, clocks
  <2>2. CASE micro' = micro \ {"stop"} /\ UNCHANGED drain
    BY <1>1, <1>7, <2>2 DEF StopCalled, clocks, AskedInv, AskedGoesOn, WaitsInTime,
       DroppedIsFlushed
  <2> QED
    BY <1>7, <2>1, <2>2 DEF StopCalled
<1>8. CASE StopSettles
  BY <1>8, FinishAsked DEF StopSettles, Idle, clocks
<1>9. CASE DeadlineFires
  BY <1>9, FinishAsked DEF DeadlineFires, Idle, clocks
<1>10. CASE ThenResume
  BY <1>1, <1>10 DEF ThenResume, clocks, AskedInv, AskedGoesOn, WaitsInTime,
     DroppedIsFlushed
<1>11. CASE ResumeQuit
  <2>1. CASE StillResumes
    BY <1>11, <2>1, AppQuitAsked DEF ResumeQuit, Idle
  <2>2. CASE ~StillResumes
    BY <1>1, <1>11, <2>2 DEF ResumeQuit, StillResumes, AskedInv, AskedGoesOn, WaitsInTime,
       DroppedIsFlushed
  <2> QED
    BY <2>1, <2>2
<1>12. CASE ThenInstall
  <2>1. Complete(drain) /\ frame = "none" /\ ended = "no"
    BY <1>1, <1>12 DEF ThenInstall, QInv, AfterFlush, NoInstallInFrame
  <2>2. CASE /\ AppQuit(drain, micro \ {"install"}, windows)
             /\ UNCHANGED <<asked, waited, dropped>>
    BY <1>12, <2>1, <2>2, AppQuitAsked
  <2>3. CASE /\ immediates' = immediates \cup {"updaterQuit"}
             /\ UNCHANGED <<drain, quitting, ended, asked, waited, dropped>>
    BY <1>1, <1>12, <2>1, <2>3 DEF ThenInstall, AskedInv, AskedGoesOn, WaitsInTime,
       DroppedIsFlushed, Complete
  <2>4. CASE asked' = FALSE /\ waited' = 0 /\ drain' = drain
    BY <1>1, <2>1, <2>4 DEF AskedInv, AskedGoesOn, WaitsInTime, DroppedIsFlushed, Complete
  <2> QED
    BY <1>12, <2>2, <2>3, <2>4 DEF ThenInstall
<1>13. CASE UpdaterQuit
  <2>1. CASE platform = "darwin"
    BY <1>13, <2>1, EnterFrameAsked DEF UpdaterQuit, clocks
  <2>2. CASE platform # "darwin"
    BY <1>13, <2>2, AppQuitAsked DEF UpdaterQuit, Idle, clocks
  <2> QED
    BY <2>1, <2>2
<1>14. CASE WindowsClosed
  <2>1. CASE quitting \/ platform = "darwin"
    BY <1>1, <1>14, <2>1 DEF WindowsClosed, Proceed, AskedInv, AskedGoesOn, WaitsInTime,
       DroppedIsFlushed
  <2>2. CASE ~quitting /\ platform # "darwin"
    <3>1. AppQuit(drain, {}, "closed") /\ asked' = TRUE
      BY <1>14, <2>2 DEF WindowsClosed
    <3> QED
      BY <1>14, <3>1, AppQuitAsked DEF WindowsClosed, Idle
  <2> QED
    BY <2>1, <2>2
<1>15. CASE WorkChanges \/ ForcedExit \/ UNCHANGED vars
  BY <1>1, <1>15 DEF WorkChanges, ForcedExit, vars, clocks, AskedInv, AskedGoesOn,
     WaitsInTime, DroppedIsFlushed
<1>16. CASE Tick
  BY <1>16, TickAsked
<1> QED
  BY <1>2, <1>3, <1>4, <1>5, <1>6, <1>7, <1>8, <1>9, <1>10, <1>11, <1>12, <1>13,
     <1>14, <1>15, <1>16 DEF Next, Asks, InTask, DueTask

(* Whoever asks to quit waits for QUIT_FLUSH_DEADLINE_MS at most, counted from the  *)
(* first request, however long the flush hangs and whatever is asked meanwhile:    *)
(* the part of QuitEnds that is about time (bounded-shutdown.ts: the deadline,     *)
(* which no later request starts anew).                                           *)
THEOREM NobodyWaitsPastTheDeadline == Spec => [](asked => waited <= DeadlineTicks)
<1>1. Init => TInv
  BY InitDInv, AskedInvInit DEF TInv
<1>2. TInv /\ [Next]_vars => TInv'
  BY NextDInv, AskedInvNext DEF TInv
<1>3. TInv => (asked => waited <= DeadlineTicks)
  BY DEF TInv, AskedInv, WaitsInTime
<1> QED
  BY <1>1, <1>2, <1>3, PTL DEF Spec

-----------------------------------------------------------------------------
(* The exit behind a resumed quit is armed for a quit that the drain makes itself,  *)
(* and it makes none once an updater has taken the quit over, not even one that     *)
(* was on its way through the hop of quit-retry.ts.                               *)
THEOREM UpdaterHasTheQuit == Spec => YieldsToUpdater
<1>1. ASSUME [Next]_vars, drain.updaterOwns, failSafe = {} PROVE failSafe' = {}
  <2>1. CASE ResumeQuit
    BY <1>1, <2>1 DEF ResumeQuit, StillResumes
  <2>2. CASE Tick
    BY <1>1, <2>2 DEF Tick, Less
  <2>3. CASE Asks \/ InTask \/ WindowsClosed \/ StopSettles \/ WorkChanges
    BY <1>1, <2>3 DEF Asks, InTask, NativeQuit, JsQuit, SystemShutdown, InstallUpdate,
       FrameReturns, StopCalled, ThenResume, ThenInstall, WindowsClosed, StopSettles,
       WorkChanges, clocks
  <2>4. CASE DeadlineFires \/ UpdaterQuit \/ ForcedExit \/ UNCHANGED vars
    BY <1>1, <2>4 DEF DeadlineFires, UpdaterQuit, ForcedExit, vars, clocks
  <2> QED
    BY <1>1, <2>1, <2>2, <2>3, <2>4 DEF Next, DueTask
<1>2. [Next]_vars => [drain.updaterOwns /\ failSafe = {} => failSafe' = {}]_vars
  BY <1>1
<1> QED
  BY <1>2, PTL DEF Spec, YieldsToUpdater
=============================================================================
