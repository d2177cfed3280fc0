----------------------------- MODULE TargetOps -----------------------------
(***************************************************************************)
(* The operations of main windows on a target window of another process    *)
(* (MainWindow_MenuCommands.cpp), and the overlays that two of them open   *)
(* on threads of their own (OverlayWindow.cpp): "Locate" lays a window     *)
(* over the target for two seconds, "Resize" one that the user moves and   *)
(* the target with it, the main window being disabled meanwhile.           *)
(*                                                                         *)
(* All main windows share the UI thread, which stands still while it waits *)
(* for a target to close.  An overlay's thread is followed call by call;   *)
(* the targets move and go away by themselves at any time.                 *)
(***************************************************************************)
EXTENDS Naturals

CONSTANTS
  Main,      \* the main windows
  Target,    \* the windows of other processes
  Overlay,   \* the overlay threads (a bound on their number)
  Place,     \* positions and sizes of a window
  Zero,      \* the empty rectangle a failed GetWindowRect leaves
  Null       \* the null handle

ASSUME PlaceAssumption == Zero \in Place
ASSUME NullAssumption == Null \notin Main \cup Target

VARIABLES
  open,     \* the main windows for which IsWindow() holds
  enabled,  \* the main windows that are not disabled
  target,   \* MainWindow::target
  waiting,  \* the main window whose command the UI thread waits in, if any
  swp,      \* the target of each main window's SetWindowPos dialog
  alive,    \* the targets that exist
  at,       \* where they are
  ov        \* the overlay threads (see Off)

mains == <<open, enabled, target, waiting, swp>>
targets == <<alive, at>>
vars == <<mains, targets, ov>>

Position == Place \ {Zero}

\* No thread; and what there is to say of one.
Off ==
  [pc    |-> "off",
   kind  |-> "locate",  \* the command that started it
   owner |-> Null,      \* the main window that started it
   goal  |-> Null,      \* the target it was started for
   aim   |-> Null,      \* OverlayWindow::target
   place |-> Zero,      \* where the overlay is
   sizes |-> 0,         \* messages WM_SIZE posted to the overlay and not handled
   moved |-> FALSE]     \* the target was moved since the overlay was put over it

Resizing(m) == {o \in Overlay : ov[o].kind = "resize" /\ ov[o].owner = m}

-----------------------------------------------------------------------------

Init ==
  /\ open = Main
  /\ enabled = Main
  /\ target = [m \in Main |-> Null]
  /\ waiting = {}
  /\ swp = [m \in Main |-> Null]
  /\ alive = Target
  /\ at \in [Target -> Position]
  /\ ov = [o \in Overlay |-> Off]

\* GetWindowRect into a zeroed rectangle.
Rect(t) == IF t \in alive THEN at[t] ELSE Zero

\* Overlays all, seen after target t has moved.
Moved(all, t) ==
  [o \in Overlay |-> [all[o] EXCEPT !.moved = @ \/ all[o].aim = t]]

\* SetWindowPos and whatever else moves a target.
Move(t, p) ==
  /\ at' = IF t \in alive THEN [at EXCEPT ![t] = p] ELSE at
  /\ ov' = Moved(ov, t)
  /\ UNCHANGED alive

-----------------------------------------------------------------------------
(* The targets themselves.                                                 *)

TargetMoves(t, p) ==
  /\ t \in alive
  /\ Move(t, p)
  /\ UNCHANGED mains

TargetDies(t) ==
  /\ t \in alive
  /\ alive' = alive \ {t}
  /\ UNCHANGED <<mains, at, ov>>

-----------------------------------------------------------------------------
(* The main windows, on the UI thread.                                     *)

UI == waiting = {}

\* A command from the menu or a button, which a disabled window does not get.
Command(m) == UI /\ m \in open \cap enabled

\* The finder, the dialog "find window" and "switch to parent".
SelectTarget(m, t) ==
  /\ Command(m)
  /\ target' = [target EXCEPT ![m] = t]
  /\ UNCHANGED <<open, enabled, waiting, swp, targets, ov>>

\* "Restore", "hide", "minimize", "maximize" and the change of order.
ShowTarget(m, p) ==
  /\ Command(m)
  /\ target[m] \in alive
  /\ Move(target[m], p)
  /\ UNCHANGED mains

\* "Destroy": the window is destroyed in its own process, or not.
DestroyTarget(m) ==
  /\ Command(m)
  /\ target[m] \in alive
  /\ alive' = alive \ {target[m]}
  /\ UNCHANGED <<mains, at, ov>>

\* A mutant: the main window is not disabled.
Disable_Not(m) == enabled
Disable(m) == enabled \ {m}

\* "Close" and "EndTask" disable the main window and wait, in a call that keeps
\* the UI thread, for the target to close or for the time to run out; "Close"
\* looks whether there is a target first.
CloseTarget(m) ==
  /\ Command(m)
  /\ target[m] \in alive
  /\ enabled' = Disable(m)
  /\ waiting' = {m}
  /\ UNCHANGED <<open, target, swp, targets, ov>>

EndTask(m) ==
  /\ Command(m)
  /\ enabled' = Disable(m)
  /\ waiting' = {m}
  /\ UNCHANGED <<open, target, swp, targets, ov>>

\* The call returns: the target is closed, will not close, or may later.
CloseReturns(m) ==
  /\ m \in waiting
  /\ waiting' = {}
  /\ enabled' = enabled \cup {m}
  /\ alive' \in {alive, alive \ {target[m]}}
  /\ UNCHANGED <<open, target, swp, at, ov>>

\* "SetWindowPos": a modal dialog, so the main window is disabled while it is
\* open; it keeps the target it was opened for.
OpenSwp(m) ==
  /\ Command(m)
  /\ target[m] \in alive
  /\ swp' = [swp EXCEPT ![m] = target[m]]
  /\ enabled' = enabled \ {m}
  /\ UNCHANGED <<open, target, waiting, targets, ov>>

ApplySwp(m, p) ==
  /\ UI /\ swp[m] # Null
  /\ Move(swp[m], p)
  /\ UNCHANGED mains

EndSwp(m) ==
  /\ UI /\ swp[m] # Null
  /\ swp' = [swp EXCEPT ![m] = Null]
  /\ enabled' = enabled \cup {m}
  /\ UNCHANGED <<open, target, waiting, targets, ov>>

\* "Locate" and "Resize" start a thread and go on.
Start(m, o, k) ==
  /\ Command(m)
  /\ target[m] \in alive
  /\ ov[o] = Off
  /\ ov' = [ov EXCEPT ![o] = [Off EXCEPT !.pc = "created", !.kind = k,
                                        !.owner = m, !.goal = target[m]]]
  /\ UNCHANGED <<open, target, waiting, swp, targets>>

Locate(m, o) == Start(m, o, "locate") /\ UNCHANGED enabled
Resize(m, o) == Start(m, o, "resize") /\ enabled' = Disable(m)

\* The main window is closed from the tray, which needs it neither enabled nor
\* without a dialog; its object goes with it.
CloseMain(m) ==
  /\ UI /\ m \in open
  /\ open' = open \ {m}
  /\ enabled' = enabled \ {m}
  /\ target' = [target EXCEPT ![m] = Null]
  /\ swp' = [swp EXCEPT ![m] = Null]
  /\ UNCHANGED <<waiting, targets, ov>>

\* The process ends, with its threads: the last window was closed, or an overlay
\* could not be created, which no handler in its thread catches.
ProcessEnds ==
  /\ open' = {}
  /\ enabled' = {}
  /\ waiting' = {}
  /\ target' = [m \in Main |-> Null]
  /\ swp' = target'
  /\ ov' = [o \in Overlay |-> Off]
  /\ UNCHANGED targets

-----------------------------------------------------------------------------
(* An overlay's thread.                                                    *)

\* setType(TYPE_PROACTIVE), before there is a target: initSize shrinks the
\* overlay to nothing, and WM_SIZE is posted for later.
SetType(o) ==
  /\ ov[o].pc = "created" /\ ov[o].kind = "resize"
  /\ ov' = [ov EXCEPT ![o].pc = "typed", ![o].place = Rect(ov[o].aim),
                      ![o].sizes = @ + 1]
  /\ UNCHANGED <<mains, targets>>

\* A mutant: setTarget leaves the overlay where it is.
InitSize_Not(o, t) == ov[o].place

\* initSize: the overlay goes where the target is; what that sends to the
\* overlay itself is ignored (isUserSize).
InitSize(o, t) == Rect(t)

\* setTarget; then show, for "Locate" setClosable(false) and closeAfter(2000), and
\* run, which change nothing of the overlay that is modelled.
SetTarget(o) ==
  /\ ov[o].pc = IF ov[o].kind = "resize" THEN "typed" ELSE "created"
  /\ ov' = [ov EXCEPT ![o].pc = "run", ![o].aim = ov[o].goal,
                      ![o].place = InitSize(o, ov[o].goal),
                      ![o].sizes = @ + 1]
  /\ UNCHANGED <<mains, targets>>

\* doLayout while the overlay is at p and s messages are left: the overlay of
\* "Locate" returns to its target, that of "Resize" takes its target along.
DoLayout(o, p, s) ==
  /\ UNCHANGED <<mains, alive>>
  /\ IF ov[o].kind = "locate"
     THEN /\ ov' = [ov EXCEPT ![o].place = Rect(ov[o].aim), ![o].sizes = s,
                              ![o].moved = FALSE]
          /\ UNCHANGED at
     ELSE /\ at' = IF ov[o].aim \in alive THEN [at EXCEPT ![ov[o].aim] = p] ELSE at
          /\ ov' = [Moved(ov, ov[o].aim) EXCEPT ![o].place = p, ![o].sizes = s,
                                               ![o].moved = FALSE]

\* A posted WM_SIZE.
HandleSize(o) ==
  /\ ov[o].pc = "run" /\ ov[o].sizes > 0
  /\ DoLayout(o, ov[o].place, ov[o].sizes - 1)

\* The user moves the overlay or changes its size.
Drag(o, p) ==
  /\ ov[o].pc = "run"
  /\ DoLayout(o, p, ov[o].sizes)

\* Escape, Enter or WM_CLOSE, which only the overlay of "Resize" obeys.
UserCloses(o) ==
  /\ ov[o].pc = "run" /\ ov[o].kind = "resize"
  /\ ov' = [ov EXCEPT ![o].pc = "closed"]
  /\ UNCHANGED <<mains, targets>>

\* A mutant: the timer has another number than onTimer looks for.
TimerIs2_Not(o) == FALSE
TimerIs2(o) == ov[o].kind = "locate"

\* onTimer, two seconds after closeAfter.
Timer(o) ==
  /\ ov[o].pc = "run" /\ TimerIs2(o)
  /\ ov' = [ov EXCEPT ![o] = Off]
  /\ UNCHANGED <<mains, targets>>

\* A mutant: the end of the thread forgets the main window.
EnableSelf_Not(m) == enabled
EnableSelf(m) == enabled \cup ({m} \cap open)

\* After run: the main window, if it is still there, is enabled again.
Release(o) ==
  /\ ov[o].pc = "closed"
  /\ ov' = [ov EXCEPT ![o] = Off]
  /\ enabled' = EnableSelf(ov[o].owner)
  /\ UNCHANGED <<open, target, waiting, swp, targets>>

Thread(o) ==
  SetType(o) \/ SetTarget(o) \/ HandleSize(o) \/ Timer(o) \/ Release(o)

MainNext(m) ==
  \/ \E t \in Target : SelectTarget(m, t)
  \/ \E p \in Position : ShowTarget(m, p) \/ ApplySwp(m, p)
  \/ DestroyTarget(m) \/ CloseTarget(m) \/ EndTask(m) \/ CloseReturns(m)
  \/ OpenSwp(m) \/ EndSwp(m) \/ CloseMain(m)
  \/ \E o \in Overlay : Locate(m, o) \/ Resize(m, o)

Next ==
  \/ \E t \in Target : TargetDies(t) \/ \E p \in Position : TargetMoves(t, p)
  \/ \E m \in Main : MainNext(m)
  \/ \E o \in Overlay : Thread(o) \/ UserCloses(o) \/ \E p \in Position : Drag(o, p)
  \/ ProcessEnds

Spec == Init /\ [][Next]_vars

\* Threads run on, timers fire, and the wait for a target ends after five
\* seconds (or when the system's own patience with EndTask does).  Whether the
\* user ever closes an overlay or a dialog is up to him.
Runs(o) == WF_vars(Thread(o)) /\ WF_vars(Timer(o))
Returns(m) == WF_vars(CloseReturns(m))
FairSpec == Spec /\ (\A o \in Overlay : Runs(o)) /\ (\A m \in Main : Returns(m))

-----------------------------------------------------------------------------
(* Properties.                                                             *)

OverlayState ==
  [pc    : {"off", "created", "typed", "run", "closed"},
   kind  : {"locate", "resize"},
   owner : Main \cup {Null},
   goal  : Target \cup {Null},
   aim   : Target \cup {Null},
   place : Place,
   sizes : Nat,
   moved : BOOLEAN]

TypeOK ==
  /\ open \subseteq Main
  /\ enabled \subseteq open
  /\ target \in [Main -> Target \cup {Null}]
  /\ waiting \subseteq open
  /\ swp \in [Main -> Target \cup {Null}]
  /\ alive \subseteq Target
  /\ at \in [Target -> Place]
  /\ ov \in [Overlay -> OverlayState]

\* A main window is disabled by one thing at a time, and by nothing that is no
\* longer there: a wait for its target, its dialog, or one overlay.
Disabled(m) ==
  \/ waiting = {m} /\ swp[m] = Null /\ Resizing(m) = {}
  \/ m \notin waiting /\ swp[m] # Null /\ Resizing(m) = {}
  \/ m \notin waiting /\ swp[m] = Null /\ \E o \in Overlay : Resizing(m) = {o}
Free(m) == m \notin waiting /\ swp[m] = Null /\ Resizing(m) = {}
DisabledByOne == \A m \in open : IF m \in enabled THEN Free(m) ELSE Disabled(m)

\* The overlay of "Resize" is over its target as long as nobody else moves that.
OverTarget ==
  \A o \in Overlay :
    /\ ov[o].pc = "run" /\ ov[o].kind = "resize"
    /\ ov[o].aim \in alive /\ ~ov[o].moved
    => ov[o].place = at[ov[o].aim]

\* The messages posted while an overlay is set up move the target of "Resize"
\* nowhere, although at the time of the first there was no target and no size:
\* the one thing they undo is a move made by somebody else in between.
SetUpMovesNothing ==
  [][\A o \in Overlay : HandleSize(o) => at' = at \/ ov[o].moved]_vars

\* Dialogs are those of windows still there.
DialogOfOpen == \A m \in Main : swp[m] # Null => m \in open

\* An overlay knows no target but the one it was started for, nor that before
\* setTarget; what only "Resize" does happens only to its overlay.
Aimed ==
  \A o \in Overlay :
    LET v == ov[o] IN
      /\ v.aim = IF v.pc \in {"off", "created", "typed"} THEN Null ELSE v.goal
      /\ v.pc # "off" => v.goal # Null
      /\ v.pc \in {"typed", "closed"} => v.kind = "resize"
      /\ v.aim = Null => ~v.moved
      /\ v.pc = "off" => v = Off

IndInv == TypeOK /\ DisabledByOne /\ OverTarget /\ DialogOfOpen /\ Aimed

\* A main window is not disabled for good, unless the user leaves the dialog or
\* the overlay open that disables it: the wait for a target ends, and an overlay
\* that was begun comes up, and when it is closed lets the main window go.
Back(m) == m \notin open \/ m \in enabled
WaitEnds(m) == m \in waiting ~> Back(m)
LetsGo(m, o) == o \in Resizing(m) ~> Back(m) \/ ov[o].pc = "run"
EnabledAgain == \A m \in Main : WaitEnds(m) /\ \A o \in Overlay : LetsGo(m, o)

\* The overlay of "Locate", which the user cannot close, goes away.
GoesAway(o) == ov[o].pc # "off" /\ ov[o].kind = "locate" ~> ov[o] = Off
LocateEnds == \A o \in Overlay : GoesAway(o)
=============================================================================
