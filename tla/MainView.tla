------------------------------ MODULE MainView ------------------------------
(***************************************************************************)
(* What a main window shows of its target, and where it puts itself while  *)
(* its finder is used: Finder, with the handle and the always-on-top box   *)
(* that update_target fills, the timer that calls it, and the order of the *)
(* windows.  The target belongs to somebody else and changes on its own;   *)
(* a target that is gone is one that is not topmost and never will be.     *)
(* The other boxes and fields are filled in the same way.                  *)
(***************************************************************************)
EXTENDS Finder

VARIABLES
  topmost,          \* the windows that are always on top
  isTopMost,        \* the option: the main window is one of them
  putBottomWhenUse, \* the option: it goes to the bottom during a search
  autoRefresh,      \* the option: the timer updates the view
  typing,           \* the main window is the foreground window, and an edit
                    \* control of it has the focus
  edit_targetHwnd,  \* the window whose handle is shown
  cb_topmost,       \* the box "Always on top"
  touched           \* history: somebody else changed the main window's order,
                    \* or the option was switched off during a search

options == <<isTopMost, putBottomWhenUse, autoRefresh>>
view == <<edit_targetHwnd, cb_topmost>>
viewVars == <<vars, topmost, options, typing, view, touched>>

ViewInit ==
  /\ Init
  /\ topmost \in SUBSET (Others \cup {Self})
  /\ isTopMost = (Self \in topmost)
  /\ putBottomWhenUse \in BOOLEAN /\ autoRefresh \in BOOLEAN
  /\ typing = FALSE
  /\ edit_targetHwnd = None /\ cb_topmost = FALSE
  /\ touched = FALSE

\* update_target: without a target the box is left as it is.
UpdateTarget ==
  /\ edit_targetHwnd' = target'
  /\ cb_topmost' = IF target' = None THEN cb_topmost ELSE target' \in topmost'

-----------------------------------------------------------------------------
(* A search, and other ways to another target.                             *)

\* onselectstart: at the bottom a window is not always on top.
BeginSearch ==
  /\ StartFind
  /\ topmost' = IF putBottomWhenUse THEN topmost \ {Self} ELSE topmost
  /\ UNCHANGED <<options, typing, view, touched>>

\* onselecting.
Search == DuringFind /\ UNCHANGED <<topmost, options, typing, touched>> /\ UpdateTarget

\* A mutant: HWND_TOP always.
RestoredOrder_Top == topmost

\* onselectend: HWND_TOPMOST, or HWND_TOP, which leaves a window what it is.
RestoredOrder ==
  IF putBottomWhenUse /\ isTopMost THEN topmost \cup {Self} ELSE topmost

\* A mutant: onselectend does not show the target it has put back.
EndSearch_Unseen ==
  /\ EndFind
  /\ topmost' = RestoredOrder
  /\ UNCHANGED <<options, typing, view, touched>>

\* onselectend.
EndSearch ==
  /\ EndFind
  /\ topmost' = RestoredOrder
  /\ UpdateTarget
  /\ UNCHANGED <<options, typing, touched>>

\* "Switch To" and the dialog that finds a window.
ChooseTarget ==
  OtherTarget /\ UNCHANGED <<topmost, options, typing, touched>> /\ UpdateTarget

-----------------------------------------------------------------------------
(* The view.                                                               *)

\* Reload, F5, a parent that is not there, a change of what is shown: all of
\* them only update.
Refresh == UNCHANGED <<vars, topmost, options, typing, touched>> /\ UpdateTarget

\* A mutant: the timer only renews what the user looks at most.
TimerRefresh_Handle ==
  /\ autoRefresh /\ ~typing
  /\ edit_targetHwnd' = target
  /\ UNCHANGED <<vars, topmost, options, typing, cb_topmost, touched>>

\* onTimer does not disturb a user who types.
TimerRefresh == autoRefresh /\ ~typing /\ Refresh

\* A mutant: the result is reported, and the view updated, only on success.
AfterClick_Success(checked) ==
  IF target # None /\ topmost' # topmost
  THEN cb_topmost' = checked
  ELSE cb_topmost' = (target # None /\ checked)

\* What the handler makes of the box that the click has turned over: it turns it
\* back if there is no target, leaves it if it tells the truth, and else reports.
AfterClick(checked) ==
  cb_topmost' =
    IF target = None THEN FALSE
    ELSE IF checked = (target \in topmost) THEN checked
    ELSE target \in topmost'

\* SetWindowPos: it may fail, and a window that is put behind the main window
\* stays always on top if that one is, or does not.
SetOrder(checked) ==
  \/ topmost' = topmost
  \/ /\ target \in Others \cup {Self} /\ checked # (target \in topmost)
     /\ topmost' = IF checked THEN topmost \cup {target} ELSE topmost \ {target}

\* cb_topmost.onChanged.
ClickTopmost ==
  /\ ~capture
  /\ SetOrder(~cb_topmost)
  /\ AfterClick(~cb_topmost)
  /\ touched' = (touched \/ (Self \in topmost) # (Self \in topmost'))
  /\ UNCHANGED <<vars, options, typing, edit_targetHwnd>>

-----------------------------------------------------------------------------
(* The options, and the world.                                             *)

\* toggleTopMostState, by the menu or Ctrl+T.
ToggleTopMost ==
  /\ isTopMost' = ~isTopMost
  /\ topmost' = IF isTopMost THEN topmost \ {Self} ELSE topmost \cup {Self}
  /\ UNCHANGED <<vars, putBottomWhenUse, autoRefresh, typing, view, touched>>

TogglePutBottom ==
  /\ ~capture
  /\ putBottomWhenUse' = ~putBottomWhenUse
  /\ touched' = (touched \/ (isFinding /\ putBottomWhenUse))
  /\ UNCHANGED <<vars, topmost, isTopMost, autoRefresh, typing, view>>

ToggleAutoRefresh ==
  /\ ~capture
  /\ autoRefresh' = ~autoRefresh
  /\ UNCHANGED <<vars, topmost, isTopMost, putBottomWhenUse, typing, view, touched>>

FocusMoves ==
  /\ typing' = ~typing
  /\ UNCHANGED <<vars, topmost, options, view, touched>>

\* Other programs, and other main windows, change the order of a window.
OrderChanges ==
  /\ \E w \in Others \cup {Self} :
       /\ topmost' \in {topmost \cup {w}, topmost \ {w}}
       /\ touched' = (touched \/ w = Self)
  /\ UNCHANGED <<vars, options, typing, view>>

\* Another window takes the mouse from the finder.
CaptureLost == LoseCapture /\ UNCHANGED <<topmost, options, typing, view, touched>>

ViewNext ==
  \/ BeginSearch \/ Search \/ EndSearch \/ ChooseTarget
  \/ Refresh \/ TimerRefresh \/ ClickTopmost
  \/ ToggleTopMost \/ TogglePutBottom \/ ToggleAutoRefresh
  \/ FocusMoves \/ OrderChanges \/ CaptureLost

\* Timer 4 runs as long as the window is there.
ViewSpec == ViewInit /\ [][ViewNext]_viewVars /\ WF_viewVars(TimerRefresh)

-----------------------------------------------------------------------------
(* Properties.                                                             *)

ViewTypeOK ==
  /\ topmost \in SUBSET (Others \cup {Self})
  /\ isTopMost \in BOOLEAN /\ putBottomWhenUse \in BOOLEAN /\ autoRefresh \in BOOLEAN
  /\ typing \in BOOLEAN
  /\ edit_targetHwnd \in Windows \cup {None} /\ cb_topmost \in BOOLEAN
  /\ touched \in BOOLEAN

\* The handle on the screen is that of the window the next click will act on,
\* though five handlers change the target.
TargetNamed == edit_targetHwnd = target

\* Unless somebody else interferes, the main window is always on top exactly if
\* the option says so, but for the searches that put it to the bottom: each of
\* them puts it back, however often a button was pressed, the capture lost or the
\* option changed on the way ("restore the Z order", MainWindow.cpp:200).
OwnOrderKept ==
  ~touched =>
    /\ Self \in topmost => isTopMost
    /\ isTopMost /\ Self \notin topmost => isFinding /\ putBottomWhenUse

\* The inductive invariant, with that of Finder.
ViewInv == IndInv /\ ViewTypeOK /\ TargetNamed /\ OwnOrderKept

\* After a click the box tells the truth about the target, whatever it showed
\* before, whether or not the click had an effect and whether or not there is a
\* target.
BoxTruthful == [][ClickTopmost => (cb_topmost' <=> target \in topmost')]_viewVars

Fresh == target # None => (cb_topmost <=> target \in topmost)

\* As long as the option is on and the user does not type into the window, the
\* view catches up with the target again and again.
ViewCatchesUp ==
  <>[](autoRefresh /\ ~typing) => []<>Fresh
=============================================================================
