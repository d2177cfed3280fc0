----------------------------- MODULE AppWindows -----------------------------
(***************************************************************************)
(* The window life cycle of one process of the tool: the registry app::win *)
(* of main.cpp, the creation and destruction of main windows, the hiding   *)
(* of a main window, the tray menu, the hidden IPC window that other       *)
(* processes talk to, and the two ways the message loop is told to stop.   *)
(*                                                                         *)
(* Everything here runs on one UI thread, so an action is one message      *)
(* handler, run to its end.  What interleaves is the order of messages:    *)
(*   - a message SENT by another process (Launch) is handled as soon as    *)
(*     the loop looks for a message;                                       *)
(*   - a POSTED message waits in queue, first in first out;                *)
(*   - WM_QUIT is no message but a flag, quitPosted, which GetMessage      *)
(*     turns into WM_QUIT only when no posted message is left;             *)
(*   - input from the user comes after both.                               *)
(***************************************************************************)
EXTENDS Naturals, Sequences

CONSTANTS
  Win,      \* the main windows the process can create (a bound on their number)
  MaxPosts, \* bound on the clicks and keys that post a message
  MaxHides  \* bound on the listeners the user's closing leaves on a window

ASSUME BoundsAssumption == MaxPosts \in Nat /\ MaxHides \in Nat

VARIABLES
  phase,             \* "start" in wWinMain, "loop" in Window::run, "exited"
  no_main_window,    \* the process was started with --no-main-window
  win,               \* app::win, the windows created, oldest first
  alive,             \* the windows for which IsWindow() holds
  show,              \* "normal", "minimized", "hidden" (minimized and invisible)
  hideWhenMinimized, \* each window's own copy of the option
  cfgHide,           \* the option in app::config
  hideListeners,     \* WM_SIZE listeners hideMainWindow left on each window
  queue,             \* messages posted and not yet dispatched
  quitPosted,        \* PostQuitMessage was called
  posts              \* clicks and keys that posted a message so far

vars == <<phase, no_main_window, win, alive, show, hideWhenMinimized, cfgHide,
          hideListeners, queue, quitPosted, posts>>

ShowStates == {"none", "normal", "minimized", "hidden"}

\* What can be posted: a tray click ("show"), a choice in the tray menu, and
\* WM_APP+WM_CLOSE to a main window ("close").
Messages ==
  [op : {"show", "open", "hide", "new", "closeAll", "exit"}]
    \cup [op : {"close", "restore"}, w : Win]

-----------------------------------------------------------------------------
(* The registry.                                                           *)

Registered == {win[i] : i \in 1..Len(win)}

AliveIndices == {i \in 1..Len(win) : win[i] \in alive}

\* app::firstAliveMainWindow; it throws when AliveIndices is empty.
FirstAlive == win[CHOOSE i \in AliveIndices : \A j \in AliveIndices : i <= j]

IsWindowVisible(w) == show[w] \in {"normal", "minimized"}

-----------------------------------------------------------------------------
(* What the handlers are made of.                                          *)

\* app::create_win: a new window joins the registry only once it is complete;
\* when the creation throws, the dialog of handle_error ends in "no window".
CreateWin ==
  /\ \/ \E w \in Win \ Registered :
          /\ win' = Append(win, w)
          /\ alive' = alive \cup {w}
          /\ show' = [show EXCEPT ![w] = "normal"]
          /\ hideWhenMinimized' = [hideWhenMinimized EXCEPT ![w] = cfgHide]
     \/ UNCHANGED <<win, alive, show, hideWhenMinimized>>
  /\ UNCHANGED <<hideListeners, quitPosted>>

\* Mutants of QuitsWith: the dying window counts as alive; a single closed
\* window is enough; the process without a main window is forgotten.
QuitsWith_SelfCounts(dying) == ~no_main_window /\ AliveIndices = {}
QuitsWith_Always(dying) == ~no_main_window
QuitsWith_NoResident(dying) == \A i \in AliveIndices : win[i] \in dying

\* MainWindow::onDestroy stops the process when no registered window but the
\* dying ones is alive, unless it was started without a main window.
QuitsWith(dying) ==
  /\ ~no_main_window
  /\ \A i \in AliveIndices : win[i] \in dying

\* The windows of a set are destroyed, one after the other.
Destroy(dying) ==
  /\ alive' = alive \ dying
  /\ show' = [w \in Win |-> IF w \in dying THEN "none" ELSE show[w]]
  /\ hideListeners' = [w \in Win |-> IF w \in dying THEN 0 ELSE hideListeners[w]]
  /\ quitPosted' = (quitPosted \/ (dying # {} /\ QuitsWith(dying)))
  /\ UNCHANGED <<win, hideWhenMinimized>>

\* app::quit: every living window gets WM_APP+WM_CLOSE at once; a hard quit, or
\* a soft one that found no window, also posts WM_QUIT itself.
Quit(soft) ==
  LET closed == {win[i] : i \in AliveIndices}
  IN  /\ alive' = alive \ closed
      /\ show' = [w \in Win |-> IF w \in closed THEN "none" ELSE show[w]]
      /\ hideListeners' = [w \in Win |-> IF w \in closed THEN 0 ELSE hideListeners[w]]
      /\ quitPosted' = \/ quitPosted
                       \/ closed # {} /\ QuitsWith(closed)
                       \/ ~soft
                       \/ closed = {}
      /\ UNCHANGED <<win, hideWhenMinimized>>

\* ShowWindow(SW_MINIMIZE) while the listeners in n wait on window w.  Only a
\* window that was not minimized before gets WM_SIZE with SIZE_MINIMIZED, which
\* onMinimize and every waiting listener answer by hiding the window; a hidden
\* window (which is minimized already) just becomes visible again.
Minimize(w, n) ==
  IF show[w] = "normal"
  THEN /\ show' = [show EXCEPT ![w] = IF hideWhenMinimized[w] \/ n > 0
                                      THEN "hidden" ELSE "minimized"]
       /\ hideListeners' = [hideListeners EXCEPT ![w] = 0]
  ELSE /\ show' = [show EXCEPT ![w] = "minimized"]
       /\ hideListeners' = [hideListeners EXCEPT ![w] = n]

\* MainWindow::hideMainWindow: add the listener that hides the window at the
\* end of the animation, then minimize.
HideMainWindow(w) ==
  /\ Minimize(w, hideListeners[w] + 1)
  /\ UNCHANGED <<win, alive, hideWhenMinimized, quitPosted>>

\* ShowWindow(SW_RESTORE); the SW_MINIMIZE that the callers put before it for
\* an invisible window sends no SIZE_MINIMIZED, see Minimize.
Restore(w) ==
  /\ show' = [show EXCEPT ![w] = "normal"]
  /\ UNCHANGED <<win, alive, hideWhenMinimized, hideListeners, quitPosted>>

Nothing ==
  UNCHANGED <<win, alive, show, hideWhenMinimized, hideListeners, quitPosted>>

\* MainWindow::onClose, the handler of WM_CLOSE.
Close(w) ==
  IF hideWhenMinimized[w] THEN HideMainWindow(w) ELSE Destroy({w})

\* IPCWindow::showOrCreateWindow, for a launch (WM_APP+WM_CREATE) and for a
\* click on the tray icon (WM_APP+WM_SHOWWINDOW).
ShowOrCreateWindow(launch) ==
  IF AliveIndices = {} \/ (launch /\ IsWindowVisible(FirstAlive))
  THEN CreateWin
  ELSE Restore(FirstAlive)

-----------------------------------------------------------------------------
(* wWinMain before the loop.                                               *)

Init ==
  /\ phase = "start"
  /\ no_main_window \in BOOLEAN
  /\ win = <<>>
  /\ alive = {}
  /\ show = [w \in Win |-> "none"]
  /\ cfgHide \in BOOLEAN
  /\ hideWhenMinimized = [w \in Win |-> FALSE]
  /\ hideListeners = [w \in Win |-> 0]
  /\ queue = <<>>
  /\ quitPosted = FALSE
  /\ posts = 0

\* Without --no-main-window the process opens a window and gives up if it
\* cannot; the IPC window, and with it the loop, come after that.
Start ==
  /\ phase = "start"
  /\ IF no_main_window
     THEN Nothing /\ phase' = "loop"
     ELSE CreateWin /\ phase' = IF win' = win THEN "exited" ELSE "loop"
  /\ UNCHANGED <<no_main_window, cfgHide, queue, posts>>

-----------------------------------------------------------------------------
(* Posted messages.                                                        *)

\* A click on the tray icon, a choice in its menu, or one of the keys and menu
\* entries that close a window for good by posting WM_APP+WM_CLOSE to it.
Post(m) ==
  /\ phase = "loop"
  /\ posts < MaxPosts
  /\ m.op = "restore" => m.w \in alive
  /\ m.op = "close" => m.w \in alive /\ ~quitPosted /\ show[m.w] # "hidden"
  /\ posts' = posts + 1
  /\ queue' = Append(queue, m)
  /\ UNCHANGED <<phase, no_main_window, cfgHide>>
  /\ Nothing

\* A mutant: the menu identifiers are taken for the windows.
CloseAllMessages_Ids(n) == [i \in 1..n |-> [op |-> "close", w |-> i]]

\* The entry "close all" of the window list, which was made when n windows were
\* registered; others may have been opened while the menu was on the screen.
\* What is posted to a window that is gone reaches nobody.
CloseAllMessages(n) == [i \in 1..n |-> [op |-> "close", w |-> win[i]]]

\* A mutant: WM_CLOSE in place of WM_APP+WM_CLOSE.
CloseTotally_Close(w) == IF w \in alive THEN Close(w) ELSE Nothing

\* The handler of WM_APP+WM_CLOSE, whatever the option "hide when minimized".
CloseTotally(w) == IF w \in alive THEN Destroy({w}) ELSE Nothing

\* The handler of the first posted message.  A choice that needs a window when
\* there is none only raises a message box, and a message to a destroyed window
\* is dropped.
Handle(m) ==
  CASE m.op = "show" -> ShowOrCreateWindow(FALSE)
    [] m.op = "open" -> IF AliveIndices = {} THEN Nothing ELSE Restore(FirstAlive)
    [] m.op = "hide" -> IF AliveIndices = {} THEN Nothing
                                             ELSE HideMainWindow(FirstAlive)
    [] m.op = "new" -> CreateWin
    [] m.op = "restore" -> IF m.w \in alive THEN Restore(m.w) ELSE Nothing
    [] m.op = "close" -> CloseTotally(m.w)
    [] m.op = "closeAll" -> Nothing
    [] m.op = "exit" -> Quit(FALSE)

Dispatch ==
  /\ phase = "loop"
  /\ queue # <<>>
  /\ Handle(Head(queue))
  /\ IF Head(queue).op = "closeAll"
     THEN \E n \in 0..Len(win) : queue' = Tail(queue) \o CloseAllMessages(n)
     ELSE queue' = Tail(queue)
  /\ UNCHANGED <<phase, no_main_window, cfgHide, posts>>

-----------------------------------------------------------------------------
(* The message another process sends in its wWinMain; it overtakes the     *)
(* queue, and a pending quit.                                              *)

Launch ==
  /\ phase = "loop"
  /\ ShowOrCreateWindow(TRUE)
  /\ UNCHANGED <<phase, no_main_window, cfgHide, queue, posts>>

-----------------------------------------------------------------------------
(* Input from the user, which the loop does not look at once it must quit. *)

Input ==
  /\ phase = "loop"
  /\ ~quitPosted
  /\ UNCHANGED <<phase, no_main_window, queue, posts>>

\* The close button of the window or of its taskbar entry, or Ctrl+W.
UserClose(w) ==
  /\ Input
  /\ w \in alive /\ IsWindowVisible(w)
  /\ hideWhenMinimized[w] => hideListeners[w] < MaxHides
  /\ Close(w)
  /\ UNCHANGED cfgHide

\* The minimize button: no listener of hideMainWindow is added.
UserMinimize(w) ==
  /\ Input
  /\ w \in alive /\ show[w] = "normal"
  /\ Minimize(w, hideListeners[w])
  /\ UNCHANGED <<win, alive, hideWhenMinimized, quitPosted, cfgHide>>

\* A click on the taskbar entry of a minimized window.
UserRestore(w) ==
  /\ Input
  /\ w \in alive /\ show[w] = "minimized"
  /\ Restore(w)
  /\ UNCHANGED cfgHide

\* Ctrl+N and the menu entry "new".
UserNewWindow(w) ==
  /\ Input
  /\ w \in alive /\ show[w] = "normal"
  /\ CreateWin
  /\ UNCHANGED cfgHide

\* The menu entry "exit": app::quit() with its default, soft.
UserExit(w) ==
  /\ Input
  /\ w \in alive /\ show[w] = "normal"
  /\ Quit(TRUE)
  /\ UNCHANGED cfgHide

\* The option "hide when minimized": the window's copy is turned over and
\* written to the configuration; the other windows keep theirs.
UserToggleHide(w) ==
  /\ Input
  /\ w \in alive /\ show[w] = "normal"
  /\ hideWhenMinimized' = [hideWhenMinimized EXCEPT ![w] = ~@]
  /\ cfgHide' = ~hideWhenMinimized[w]
  /\ UNCHANGED <<win, alive, show, hideListeners, quitPosted>>

-----------------------------------------------------------------------------
(* GetMessage returns WM_QUIT: wWinMain deletes the windows and returns.   *)

\* A mutant: a window opened meanwhile holds the quit back.
QuitDue_Windows == quitPosted /\ queue = <<>> /\ alive = {}

\* GetMessage generates WM_QUIT when no posted message is left.
QuitDue == quitPosted /\ queue = <<>>

Stop ==
  /\ phase = "loop"
  /\ QuitDue
  /\ phase' = "exited"
  /\ win' = <<>>
  /\ alive' = {}
  /\ show' = [w \in Win |-> "none"]
  /\ hideListeners' = [w \in Win |-> 0]
  /\ UNCHANGED <<no_main_window, hideWhenMinimized, cfgHide, queue, quitPosted, posts>>

WindowInput(w) ==
  \/ UserClose(w)
  \/ UserMinimize(w)
  \/ UserRestore(w)
  \/ UserNewWindow(w)
  \/ UserExit(w)
  \/ UserToggleHide(w)

Next ==
  \/ Start
  \/ \E m \in Messages : Post(m)
  \/ Dispatch
  \/ Launch
  \/ \E w \in Win : WindowInput(w)
  \/ Stop

Spec == Init /\ [][Next]_vars

\* The UI thread keeps fetching messages: it starts, dispatches what is posted
\* and notices a pending quit.  Clicks, keys and launches happen or not.
FairSpec == Spec /\ WF_vars(Start) /\ WF_vars(Dispatch) /\ WF_vars(Stop)

-----------------------------------------------------------------------------
(* Properties.                                                             *)

TypeOK ==
  /\ phase \in {"start", "loop", "exited"}
  /\ no_main_window \in BOOLEAN
  /\ win \in Seq(Win)
  /\ alive \subseteq Win
  /\ show \in [Win -> ShowStates]
  /\ hideWhenMinimized \in [Win -> BOOLEAN]
  /\ cfgHide \in BOOLEAN
  /\ hideListeners \in [Win -> Nat]
  /\ queue \in Seq(Messages)
  /\ quitPosted \in BOOLEAN
  /\ posts \in 0..MaxPosts

\* "When all main windows are closed, exit": a process in its loop that shows
\* no window (and was not started to stay in the tray) is on its way out,
\* whatever the order of closing, hiding, launching and exiting was.
NoProcessWithoutWindow ==
  phase = "loop" /\ ~no_main_window /\ alive = {} => quitPosted

\* WM_QUIT is posted only by a step that leaves no window open: closing one of
\* several windows, hidden ones included, never stops the others.
QuitOnlyWithoutWindows ==
  [][~quitPosted /\ quitPosted' => alive' = {}]_vars

\* A process started with --no-main-window stays in the tray when its windows
\* close; only the tray's exit ends it.
ResidentStays ==
  [][no_main_window /\ ~quitPosted /\ quitPosted'
       => queue # <<>> /\ Head(queue).op = "exit"]_vars

\* The invariant that makes the two promises above inductive: every living
\* window is registered, so onDestroy's look at app::win misses none, and
\* nothing has happened before the loop starts.
AliveRegistered == alive \subseteq Registered

NothingBeforeLoop ==
  phase = "start" => win = <<>> /\ alive = {} /\ queue = <<>> /\ ~quitPosted

IndInv ==
  /\ TypeOK
  /\ AliveRegistered
  /\ NothingBeforeLoop
  /\ NoProcessWithoutWindow

\* "Close for good" (Ctrl+Shift+W, the system menu, "close all") does close the
\* window it was posted to, also one that hides instead of closing.
ClosePosted(w) == \E i \in 1..Len(queue) : queue[i] = [op |-> "close", w |-> w]
ClosedForGood == \A w \in Win : ClosePosted(w) ~> w \notin alive

\* The handlers, the queue and the registry together keep the promise of
\* AppLifetime: one window's end is the process's end only if it was the last.
Lifetime == INSTANCE AppLifetime
  WITH open <- alive, resident <- no_main_window, ending <- quitPosted
ImplementsLifetime == Lifetime!Spec

\* The same with liveness: whatever launches and clicks come after WM_QUIT was
\* posted, the process ends.
ImplementsFairLifetime == Lifetime!FairSpec

-----------------------------------------------------------------------------
(* A statement of the tray menu that the code breaks.                      *)

\* The tray's "hide main window" (main.cpp:269) makes the first living window
\* invisible.
HideHides ==
  [][\A w \in Win :
       Dispatch /\ Head(queue).op = "hide" /\ AliveIndices # {} /\ w = FirstAlive
         => show'[w] = "hidden"]_vars
=============================================================================
