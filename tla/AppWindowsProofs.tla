-------------------------- MODULE AppWindowsProofs --------------------------
(***************************************************************************)
(* Proofs about AppWindows and Placement for every set of windows and      *)
(* every bound.                                                            *)
(*                                                                         *)
(* Every handler does one of four things to the life of the process, see   *)
(* LifeStep.  The lemmas show this handler by handler; the theorems follow *)
(* from it without looking at the handlers again.                          *)
(***************************************************************************)
EXTENDS Placement, NaturalDescent, SequenceTheorems, TLAPS

\* The part of TypeOK that the handlers can disturb.
WindowsTypeOK ==
  /\ win \in Seq(Win)
  /\ alive \subseteq Win
  /\ show \in [Win -> ShowStates]
  /\ hideWhenMinimized \in [Win -> BOOLEAN]
  /\ hideListeners \in [Win -> Nat]
  /\ quitPosted \in BOOLEAN

\* What a handler may do to the life of the process.
Stays == alive' = alive /\ quitPosted' = quitPosted
Opens == /\ \E w \in Win \ alive : alive' = alive \cup {w}
         /\ quitPosted' = quitPosted
Closes == /\ \E gone \in (SUBSET alive) \ {{}} : alive' = alive \ gone
          /\ quitPosted' = (quitPosted \/ (~no_main_window /\ alive' = {}))
Leaves == alive' = {} /\ quitPosted' = TRUE

LifeStep == Stays \/ Opens \/ Closes

-----------------------------------------------------------------------------

\* create_win: the new window is registered as it becomes alive.
LEMMA CreateWinLife ==
  ASSUME WindowsTypeOK, AliveRegistered, cfgHide \in BOOLEAN, CreateWin
  PROVE  WindowsTypeOK' /\ AliveRegistered' /\ (Stays \/ Opens)
         /\ (win' = win => Stays) /\ (win' # win => Opens /\ alive' # {})
<1>1. ASSUME UNCHANGED <<win, alive, show, hideWhenMinimized>>
      PROVE  WindowsTypeOK' /\ AliveRegistered' /\ Stays /\ win' = win
  BY <1>1 DEF CreateWin, WindowsTypeOK, AliveRegistered, Registered, Stays
<1>2. ASSUME NEW w \in Win \ Registered,
             win' = Append(win, w),
             alive' = alive \cup {w},
             show' = [show EXCEPT ![w] = "normal"],
             hideWhenMinimized' = [hideWhenMinimized EXCEPT ![w] = cfgHide]
      PROVE  WindowsTypeOK' /\ AliveRegistered' /\ Opens /\ win' # win /\ alive' # {}
  <2>1. /\ win' \in Seq(Win) /\ Len(win') = Len(win) + 1
        /\ \A i \in 1..Len(win) : win'[i] = win[i]
        /\ win'[Len(win) + 1] = w
    BY <1>2, AppendProperties DEF WindowsTypeOK
  <2>2. Len(win) \in Nat
    BY LenProperties DEF WindowsTypeOK
  <2>3. Registered' = Registered \cup {w}
    BY <2>1, <2>2 DEF Registered
  <2>4. w \notin alive
    BY <1>2 DEF AliveRegistered
  <2>5. hideListeners' = hideListeners /\ quitPosted' = quitPosted
    BY DEF CreateWin
  <2>6. WindowsTypeOK'
    BY <1>2, <2>1, <2>5 DEF WindowsTypeOK, ShowStates
  <2> QED
    BY <1>2, <2>1, <2>2, <2>3, <2>4, <2>5, <2>6 DEF AliveRegistered, Opens
<1> QED
  BY <1>1, <1>2 DEF CreateWin

\* onDestroy: the registry holds every living window, so its scan finds one
\* exactly when one remains.
LEMMA QuitsWithMeaning ==
  ASSUME WindowsTypeOK, AliveRegistered, NEW dying \in SUBSET alive
  PROVE  QuitsWith(dying) <=> ~no_main_window /\ alive \ dying = {}
<1>1. ASSUME alive \ dying = {}
      PROVE  \A i \in AliveIndices : win[i] \in dying
  BY <1>1 DEF AliveIndices
<1>2. ASSUME \A i \in AliveIndices : win[i] \in dying
      PROVE  alive \ dying = {}
  <2> SUFFICES ASSUME NEW w \in alive
               PROVE  w \in dying
    OBVIOUS
  <2>1. PICK i \in 1..Len(win) : w = win[i]
    BY DEF AliveRegistered, Registered
  <2> QED
    BY <2>1, <1>2 DEF AliveIndices
<1> QED
  BY <1>1, <1>2 DEF QuitsWith

\* A destroyed window, or none.
LEMMA DestroyLife ==
  ASSUME WindowsTypeOK, AliveRegistered, no_main_window \in BOOLEAN,
         NEW dying \in SUBSET alive, Destroy(dying)
  PROVE  WindowsTypeOK' /\ AliveRegistered' /\ (Stays \/ Closes)
<1>1. quitPosted' = (quitPosted \/ (dying # {} /\ ~no_main_window /\ alive' = {}))
  BY QuitsWithMeaning DEF Destroy
<1>2. WindowsTypeOK'
  <2>1. show' \in [Win -> ShowStates]
    BY DEF Destroy, WindowsTypeOK, ShowStates
  <2>2. hideListeners' \in [Win -> Nat]
    BY DEF Destroy, WindowsTypeOK
  <2>3. quitPosted' \in BOOLEAN
    BY <1>1 DEF WindowsTypeOK
  <2> QED
    BY <2>1, <2>2, <2>3 DEF Destroy, WindowsTypeOK
<1>3. AliveRegistered'
  BY DEF Destroy, AliveRegistered, Registered
<1>4. alive' = alive \ dying
  BY DEF Destroy
<1>5. CASE dying = {}
  BY <1>1, <1>2, <1>3, <1>4, <1>5 DEF Stays, WindowsTypeOK
<1>6. CASE dying # {}
  BY <1>1, <1>2, <1>3, <1>4, <1>6 DEF Closes
<1> QED
  BY <1>5, <1>6

\* app::quit closes all windows; the soft one is an ordinary closing as long
\* as there is a window to close.
LEMMA QuitLife ==
  ASSUME WindowsTypeOK, AliveRegistered, no_main_window \in BOOLEAN,
         NEW soft \in BOOLEAN, Quit(soft)
  PROVE  /\ WindowsTypeOK' /\ AliveRegistered' /\ alive' = {}
         /\ ~soft => Leaves
         /\ soft /\ alive # {} => Closes
<1> DEFINE closed == {win[i] : i \in AliveIndices}
<1>1. closed = alive
  BY DEF AliveIndices, AliveRegistered, Registered
<1>2. /\ alive' = alive \ closed
      /\ show' = [w \in Win |-> IF w \in closed THEN "none" ELSE show[w]]
      /\ hideListeners' = [w \in Win |-> IF w \in closed THEN 0 ELSE hideListeners[w]]
      /\ quitPosted' = (quitPosted \/ (closed # {} /\ QuitsWith(closed))
                          \/ ~soft \/ closed = {})
      /\ UNCHANGED <<win, hideWhenMinimized>>
  BY DEF Quit
<1>3. QuitsWith(closed) <=> ~no_main_window
  BY <1>1, QuitsWithMeaning
<1>4. alive' = {} /\ quitPosted' \in BOOLEAN
  BY <1>1, <1>2 DEF WindowsTypeOK
<1>5. WindowsTypeOK' /\ AliveRegistered'
  <2>1. show' \in [Win -> ShowStates]
    BY <1>2 DEF WindowsTypeOK, ShowStates
  <2>2. hideListeners' \in [Win -> Nat]
    BY <1>2 DEF WindowsTypeOK
  <2> QED
    BY <1>2, <1>4, <2>1, <2>2 DEF WindowsTypeOK, AliveRegistered
<1>6. ~soft => Leaves
  BY <1>2, <1>4 DEF Leaves
<1>7. ASSUME soft, alive # {}
      PROVE  Closes
  <2>1. quitPosted' = (quitPosted \/ (~no_main_window /\ alive' = {}))
    BY <1>1, <1>2, <1>3, <1>4, <1>7
  <2> QED
    BY <2>1, <1>4, <1>7 DEF Closes
<1> QED
  BY <1>4, <1>5, <1>6, <1>7

\* Minimizing, hiding and restoring touch only how a window is shown.
LEMMA ShowingLife ==
  ASSUME WindowsTypeOK, AliveRegistered, NEW w,
         HideMainWindow(w) \/ Restore(w) \/ Nothing
  PROVE  WindowsTypeOK' /\ AliveRegistered' /\ Stays
<1>1. /\ UNCHANGED <<win, alive, hideWhenMinimized, quitPosted>>
      /\ AliveRegistered' /\ Stays
  BY DEF HideMainWindow, Restore, Nothing, Stays, AliveRegistered, Registered
<1>2. show' \in [Win -> ShowStates]
  BY DEF HideMainWindow, Minimize, Restore, Nothing, WindowsTypeOK, ShowStates
<1>3. hideListeners' \in [Win -> Nat]
  BY DEF HideMainWindow, Minimize, Restore, Nothing, WindowsTypeOK
<1> QED
  BY <1>1, <1>2, <1>3 DEF WindowsTypeOK

LEMMA ShowOrCreateLife ==
  ASSUME WindowsTypeOK, AliveRegistered, cfgHide \in BOOLEAN,
         NEW launch, ShowOrCreateWindow(launch)
  PROVE  WindowsTypeOK' /\ AliveRegistered' /\ LifeStep
BY CreateWinLife, ShowingLife DEF ShowOrCreateWindow, LifeStep

\* A posted message: only the tray's exit can end a process that is not
\* losing its last window.
LEMMA HandleLife ==
  ASSUME WindowsTypeOK, AliveRegistered, cfgHide \in BOOLEAN,
         no_main_window \in BOOLEAN, NEW m \in Messages, Handle(m)
  PROVE  /\ WindowsTypeOK' /\ AliveRegistered'
         /\ LifeStep \/ Leaves
         /\ m.op # "exit" => LifeStep
<1>1. m.op \in {"show", "open", "hide", "new", "closeAll", "exit", "close", "restore"}
  BY DEF Messages
<1>2. CASE m.op = "show"
  <2>1. ShowOrCreateWindow(FALSE)
    BY <1>2 DEF Handle
  <2> QED
    BY <2>1, <1>2, ShowOrCreateLife
<1>3. CASE m.op \in {"open", "hide", "restore", "closeAll"}
  <2>1. \E w : HideMainWindow(w) \/ Restore(w) \/ Nothing
    BY <1>3 DEF Handle
  <2> QED
    BY <2>1, <1>3, ShowingLife DEF LifeStep
<1>4. CASE m.op = "new"
  <2>1. CreateWin
    BY <1>4 DEF Handle
  <2> QED
    BY <2>1, <1>4, CreateWinLife DEF LifeStep
<1>5. CASE m.op = "close"
  <2>1. CloseTotally(m.w)
    BY <1>5 DEF Handle
  <2>2. CASE m.w \in alive
    <3>1. Destroy({m.w}) /\ {m.w} \in SUBSET alive
      BY <2>1, <2>2 DEF CloseTotally
    <3> QED
      BY <3>1, <1>5, DestroyLife DEF LifeStep
  <2>3. CASE m.w \notin alive
    <3>1. Nothing
      BY <2>1, <2>3 DEF CloseTotally
    <3> QED
      BY <3>1, <1>5, ShowingLife DEF LifeStep
  <2> QED
    BY <2>2, <2>3
<1>6. CASE m.op = "exit"
  <2>1. Quit(FALSE)
    BY <1>6 DEF Handle
  <2> QED
    BY <2>1, <1>6, QuitLife
<1> QED
  BY <1>1, <1>2, <1>3, <1>4, <1>5, <1>6

\* What the user does to a window that is alive.
LEMMA WindowInputLife ==
  ASSUME IndInv, NEW w \in Win, WindowInput(w)
  PROVE  /\ WindowsTypeOK' /\ AliveRegistered' /\ cfgHide' \in BOOLEAN
         /\ LifeStep
         /\ UNCHANGED <<phase, no_main_window, queue, posts>>
<1>1. WindowsTypeOK /\ AliveRegistered /\ no_main_window \in BOOLEAN /\ cfgHide \in BOOLEAN
  BY DEF IndInv, TypeOK, WindowsTypeOK
<1>2. CASE UserClose(w)
  <2>1. w \in alive /\ (HideMainWindow(w) \/ Destroy({w})) /\ UNCHANGED cfgHide /\ Input
    BY <1>2 DEF UserClose, Close
  <2>2. {w} \in SUBSET alive
    BY <2>1
  <2>3. WindowsTypeOK' /\ AliveRegistered' /\ LifeStep
    BY <2>1, <2>2, <1>1, ShowingLife, DestroyLife DEF LifeStep
  <2> QED
    BY <2>1, <2>3, <1>1 DEF Input
<1>3. CASE UserMinimize(w)
  <2>1. /\ UNCHANGED <<win, alive, hideWhenMinimized, quitPosted, cfgHide>>
        /\ Minimize(w, hideListeners[w]) /\ Input
    BY <1>3 DEF UserMinimize
  <2>2. show' \in [Win -> ShowStates]
    BY <2>1, <1>1 DEF Minimize, WindowsTypeOK, ShowStates
  <2>3. hideListeners' \in [Win -> Nat]
    BY <2>1, <1>1 DEF Minimize, WindowsTypeOK
  <2> QED
    BY <2>1, <2>2, <2>3, <1>1 DEF WindowsTypeOK, AliveRegistered, Registered, LifeStep, Stays, Input
<1>4. CASE UserRestore(w)
  BY <1>4, <1>1, ShowingLife DEF UserRestore, LifeStep, Input
<1>5. CASE UserNewWindow(w)
  BY <1>5, <1>1, CreateWinLife DEF UserNewWindow, LifeStep, Input
<1>6. CASE UserExit(w)
  <2>1. alive # {} /\ Quit(TRUE) /\ UNCHANGED cfgHide /\ Input
    BY <1>6 DEF UserExit
  <2>2. WindowsTypeOK' /\ AliveRegistered' /\ Closes
    BY <2>1, <1>1, QuitLife
  <2> QED
    BY <2>1, <2>2, <1>1 DEF LifeStep, Input
<1>7. CASE UserToggleHide(w)
  BY <1>7, <1>1 DEF UserToggleHide, WindowsTypeOK, AliveRegistered, Registered,
                    LifeStep, Stays, Input
<1> QED
  BY <1>2, <1>3, <1>4, <1>5, <1>6, <1>7 DEF WindowInput

-----------------------------------------------------------------------------
(* The invariant.                                                          *)

\* The parts of TypeOK that belong to the loop, not to the windows.
LEMMA TypeSplit ==
  TypeOK <=> /\ WindowsTypeOK
             /\ phase \in {"start", "loop", "exited"}
             /\ no_main_window \in BOOLEAN
             /\ cfgHide \in BOOLEAN
             /\ queue \in Seq(Messages)
             /\ posts \in 0..MaxPosts
BY DEF TypeOK, WindowsTypeOK

LEMMA InitIndInv == Init => IndInv
<1> SUFFICES ASSUME Init PROVE IndInv
  OBVIOUS
<1>1. win \in Seq(Win) /\ queue \in Seq(Messages)
  BY EmptySeq DEF Init
<1>2. show \in [Win -> ShowStates] /\ posts \in 0..MaxPosts
  BY BoundsAssumption DEF Init, ShowStates
<1>3. hideWhenMinimized \in [Win -> BOOLEAN] /\ hideListeners \in [Win -> Nat]
  BY DEF Init
<1>4. TypeOK
  BY <1>1, <1>2, <1>3 DEF Init, TypeOK
<1> QED
  BY <1>4 DEF Init, IndInv, AliveRegistered, NothingBeforeLoop, NoProcessWithoutWindow

\* Starting, one case per way it can go.
LEMMA StartStep ==
  ASSUME IndInv, Start
  PROVE  /\ IndInv'
         /\ \/ phase' = "loop" /\ no_main_window /\ Stays
            \/ phase' = "loop" /\ ~no_main_window /\ Opens
            \/ phase' = "exited" /\ ~no_main_window /\ Stays
<1>1. /\ WindowsTypeOK /\ AliveRegistered /\ TypeOK
      /\ phase = "start" /\ alive = {} /\ ~quitPosted
      /\ UNCHANGED <<no_main_window, cfgHide, queue, posts>>
  BY TypeSplit DEF IndInv, NothingBeforeLoop, Start
<1>2. CASE no_main_window
  <2>1. Nothing /\ phase' = "loop"
    BY <1>2 DEF Start
  <2>2. WindowsTypeOK' /\ AliveRegistered' /\ Stays
    BY <2>1, <1>1, ShowingLife
  <2>3. TypeOK'
    BY <2>1, <2>2, <1>1, TypeSplit DEF TypeOK, WindowsTypeOK
  <2> QED
    BY <2>1, <2>2, <2>3, <1>1, <1>2 DEF IndInv, NothingBeforeLoop, NoProcessWithoutWindow
<1>3. CASE ~no_main_window
  <2>1. CreateWin /\ phase' = IF win' = win THEN "exited" ELSE "loop"
    BY <1>3 DEF Start
  <2>2. /\ WindowsTypeOK' /\ AliveRegistered'
        /\ win' = win => Stays
        /\ win' # win => Opens /\ alive' # {}
    BY <2>1, <1>1, CreateWinLife DEF TypeOK
  <2>3. TypeOK'
    BY <2>1, <2>2, <1>1 DEF TypeOK, WindowsTypeOK
  <2> QED
    BY <2>1, <2>2, <2>3, <1>1, <1>3 DEF IndInv, NothingBeforeLoop, NoProcessWithoutWindow
<1> QED
  BY <1>2, <1>3

\* A handler's step in the loop keeps the promise "no window, no process".
LEMMA LifeStepKeeps ==
  ASSUME IndInv, phase = "loop", phase' = "loop", no_main_window' = no_main_window,
         LifeStep \/ Leaves
  PROVE  NoProcessWithoutWindow'
BY DEF IndInv, NoProcessWithoutWindow, LifeStep, Stays, Opens, Closes, Leaves

LEMMA DispatchStep ==
  ASSUME IndInv, Dispatch
  PROVE  /\ IndInv'
         /\ LifeStep \/ Leaves
         /\ Head(queue).op # "exit" => LifeStep
         /\ phase' = phase /\ phase = "loop" /\ queue # <<>>
<1>1. /\ WindowsTypeOK /\ AliveRegistered /\ TypeOK
      /\ phase = "loop" /\ queue # <<>> /\ Handle(Head(queue))
      /\ UNCHANGED <<phase, no_main_window, cfgHide, posts>>
  BY TypeSplit DEF IndInv, Dispatch
<1>2. queue \in Seq(Messages) /\ Head(queue) \in Messages /\ Tail(queue) \in Seq(Messages)
  BY <1>1, HeadTailProperties DEF TypeOK
<1>3. /\ WindowsTypeOK' /\ AliveRegistered'
      /\ LifeStep \/ Leaves
      /\ Head(queue).op # "exit" => LifeStep
  BY <1>1, <1>2, HandleLife DEF TypeOK
<1>4. ASSUME NEW n \in 0..Len(win)
      PROVE  CloseAllMessages(n) \in Seq(Messages)
  <2>1. Len(win) \in Nat /\ n \in Nat /\ n <= Len(win)
    BY <1>1, LenProperties DEF TypeOK
  <2>2. \A i \in 1..n : [op |-> "close", w |-> win[i]] \in Messages
    <3> SUFFICES ASSUME NEW i \in 1..n
                 PROVE  [op |-> "close", w |-> win[i]] \in Messages
      OBVIOUS
    <3>1. i \in 1..Len(win)
      BY <2>1
    <3> QED
      BY <3>1, <1>1, ElementOfSeq DEF TypeOK, Messages
  <2> QED
    BY <2>1, <2>2, IsASeq DEF CloseAllMessages
<1>5. queue' \in Seq(Messages)
  BY <1>2, <1>4, ConcatProperties DEF Dispatch
<1>6. TypeOK'
  BY <1>1, <1>3, <1>5 DEF TypeOK, WindowsTypeOK
<1> QED
  BY <1>1, <1>3, <1>6, LifeStepKeeps DEF IndInv, NothingBeforeLoop

\* The handlers run by another process's launch and by the user's input.
LEMMA OtherHandlerStep ==
  ASSUME IndInv, Launch \/ \E w \in Win : WindowInput(w)
  PROVE  IndInv' /\ LifeStep /\ phase' = phase /\ phase = "loop"
<1>1. /\ WindowsTypeOK /\ AliveRegistered /\ TypeOK
  BY TypeSplit DEF IndInv
<1>2. /\ WindowsTypeOK' /\ AliveRegistered' /\ cfgHide' \in BOOLEAN /\ LifeStep
      /\ UNCHANGED <<phase, no_main_window, queue, posts>>
  <2>1. CASE Launch
    BY <2>1, <1>1, ShowOrCreateLife DEF Launch, TypeOK
  <2>2. ASSUME NEW w \in Win, WindowInput(w)
        PROVE  /\ WindowsTypeOK' /\ AliveRegistered' /\ cfgHide' \in BOOLEAN /\ LifeStep
               /\ UNCHANGED <<phase, no_main_window, queue, posts>>
    BY <2>2, WindowInputLife
  <2> QED
    BY <2>1, <2>2
<1>3. phase = "loop"
  BY DEF Launch, WindowInput, UserClose, UserMinimize, UserRestore, UserNewWindow,
         UserExit, UserToggleHide, Input
<1>4. TypeOK'
  BY <1>1, <1>2 DEF TypeOK, WindowsTypeOK
<1> QED
  BY <1>1, <1>2, <1>3, <1>4, LifeStepKeeps DEF IndInv, NothingBeforeLoop

LEMMA StopStep ==
  ASSUME IndInv, Stop
  PROVE  IndInv' /\ phase = "loop" /\ phase' = "exited" /\ quitPosted
         /\ alive' = {} /\ UNCHANGED <<no_main_window, quitPosted>>
<1>1. /\ TypeOK /\ phase = "loop" /\ quitPosted
      /\ phase' = "exited" /\ win' = <<>> /\ alive' = {}
      /\ show' = [w \in Win |-> "none"]
      /\ hideListeners' = [w \in Win |-> 0]
      /\ UNCHANGED <<no_main_window, hideWhenMinimized, cfgHide, queue, quitPosted, posts>>
  BY DEF IndInv, Stop, QuitDue
<1>2. win' \in Seq(Win)
  BY <1>1, EmptySeq
<1>3. show' \in [Win -> ShowStates] /\ hideListeners' \in [Win -> Nat]
  BY <1>1 DEF ShowStates
<1>4. TypeOK'
  BY <1>1, <1>2, <1>3 DEF TypeOK
<1> QED
  BY <1>1, <1>4 DEF IndInv, AliveRegistered, NothingBeforeLoop, NoProcessWithoutWindow

\* Posting a message runs no handler.
LEMMA PostStep ==
  ASSUME IndInv, NEW m \in Messages, Post(m)
  PROVE  IndInv' /\ Stays /\ phase' = phase /\ no_main_window' = no_main_window
<1>1. /\ TypeOK /\ phase = "loop" /\ posts < MaxPosts /\ posts' = posts + 1
      /\ queue' = Append(queue, m)
      /\ UNCHANGED <<phase, no_main_window, cfgHide>>
      /\ UNCHANGED <<win, alive, show, hideWhenMinimized, hideListeners, quitPosted>>
  BY DEF IndInv, Post, Nothing
<1>2. queue' \in Seq(Messages)
  BY <1>1, AppendProperties DEF TypeOK
<1>3. posts' \in 0..MaxPosts
  BY <1>1, BoundsAssumption DEF TypeOK
<1>4. TypeOK'
  BY <1>1, <1>2, <1>3 DEF TypeOK
<1> QED
  BY <1>1, <1>4 DEF IndInv, AliveRegistered, Registered, NothingBeforeLoop,
                    NoProcessWithoutWindow, Stays

LEMMA NextIndInv == IndInv /\ [Next]_vars => IndInv'
<1> SUFFICES ASSUME IndInv, [Next]_vars PROVE IndInv'
  OBVIOUS
<1>1. CASE Start
  BY <1>1, StartStep
<1>2. ASSUME NEW m \in Messages, Post(m) PROVE IndInv'
  BY <1>2, PostStep
<1>3. CASE Dispatch
  BY <1>3, DispatchStep
<1>4. CASE Launch \/ \E w \in Win : WindowInput(w)
  BY <1>4, OtherHandlerStep
<1>5. CASE Stop
  BY <1>5, StopStep
<1>6. CASE UNCHANGED vars
  BY <1>6 DEF vars, IndInv, TypeOK, AliveRegistered, Registered, NothingBeforeLoop,
              NoProcessWithoutWindow
<1> QED
  BY <1>1, <1>2, <1>3, <1>4, <1>5, <1>6 DEF Next

\* The inductive invariant holds in every reachable state.
THEOREM Invariant == Spec => []IndInv
BY InitIndInv, NextIndInv, PTL DEF Spec

\* "When all main windows are closed, exit" (MainWindow::onDestroy): a process
\* that shows no window is stopping, for every number of windows and messages.
THEOREM NoProcessWithoutWindowHolds == Spec => []NoProcessWithoutWindow
<1>1. IndInv => NoProcessWithoutWindow
  BY DEF IndInv
<1> QED
  BY <1>1, Invariant, PTL

\* Every state has the right types.
THEOREM TypeCorrect == Spec => []TypeOK
<1>1. IndInv => TypeOK
  BY DEF IndInv
<1> QED
  BY <1>1, Invariant, PTL

-----------------------------------------------------------------------------
(* Action properties and refinement.                                       *)

\* The steps of Next by what they do to the life of the process.
LEMMA NextLife ==
  ASSUME IndInv, [Next]_vars
  PROVE  \/ Start
         \/ /\ LifeStep /\ phase' = phase /\ no_main_window' = no_main_window
            /\ ~Stays => phase = "loop"
         \/ /\ Leaves /\ phase' = phase /\ phase = "loop"
            /\ no_main_window' = no_main_window
            /\ queue # <<>> /\ Head(queue).op = "exit"
         \/ Stop
<1>1. ASSUME NEW m \in Messages, Post(m)
      PROVE  LifeStep /\ phase' = phase /\ no_main_window' = no_main_window /\ Stays
  BY <1>1, PostStep DEF LifeStep
<1>2. CASE Dispatch
  <2>1. no_main_window' = no_main_window
    BY <1>2 DEF Dispatch
  <2> QED
    BY <1>2, <2>1, DispatchStep
<1>3. CASE Launch \/ \E w \in Win : WindowInput(w)
  <2>1. no_main_window' = no_main_window
    BY <1>3 DEF Launch, WindowInput, UserClose, UserMinimize, UserRestore,
                UserNewWindow, UserExit, UserToggleHide, Input
  <2> QED
    BY <1>3, <2>1, OtherHandlerStep
<1>4. CASE UNCHANGED vars
  BY <1>4 DEF vars, LifeStep, Stays
<1> QED
  BY <1>1, <1>2, <1>3, <1>4 DEF Next

\* WM_QUIT is posted only when no window is left (MainWindow::onDestroy, app::quit).
THEOREM QuitOnlyWithoutWindowsHolds == Spec => QuitOnlyWithoutWindows
<1>1. ASSUME IndInv, [Next]_vars, ~quitPosted, quitPosted'
      PROVE  alive' = {}
  <2>1. CASE Start
    BY <2>1, <1>1, StartStep DEF Stays, Opens
  <2>2. CASE LifeStep \/ Leaves
    BY <2>2, <1>1 DEF LifeStep, Stays, Opens, Closes, Leaves
  <2>3. CASE Stop
    BY <2>3, <1>1, StopStep
  <2> QED
    BY <2>1, <2>2, <2>3, <1>1, NextLife
<1> QED
  BY <1>1, Invariant, PTL DEF Spec, QuitOnlyWithoutWindows

\* A process started with --no-main-window is ended by the tray's exit alone.
THEOREM ResidentStaysHolds == Spec => ResidentStays
<1>1. ASSUME IndInv, [Next]_vars, no_main_window, ~quitPosted, quitPosted'
      PROVE  queue # <<>> /\ Head(queue).op = "exit"
  <2>1. CASE Start
    BY <2>1, <1>1, StartStep DEF Stays, Opens
  <2>2. CASE LifeStep
    BY <2>2, <1>1 DEF LifeStep, Stays, Opens, Closes
  <2>3. CASE Stop
    BY <2>3, <1>1, StopStep
  <2> QED
    BY <2>1, <2>2, <2>3, <1>1, NextLife
<1> QED
  BY <1>1, Invariant, PTL DEF Spec, ResidentStays

\* AppWindows implements AppLifetime: the registry, the handlers and the queue
\* give exactly the life it promises.
THEOREM Refinement == Spec => ImplementsLifetime
<1>1. Init => Lifetime!Init
  BY DEF Init, Lifetime!Init
<1>2. ASSUME IndInv, [Next]_vars
      PROVE  [Lifetime!Next]_(Lifetime!lifeVars)
  <2>1. TypeOK
    BY <1>2 DEF IndInv
  <2>2. CASE Start
    <3>1. phase = "start" /\ alive = {} /\ ~quitPosted /\ no_main_window' = no_main_window
      BY <2>2, <1>2 DEF Start, IndInv, NothingBeforeLoop
    <3>2. Lifetime!Begin
      BY <2>2, <3>1, <1>2, StartStep DEF Lifetime!Begin, Stays, Opens
    <3> QED
      BY <3>2 DEF Lifetime!Next
  <2>3. CASE LifeStep /\ phase' = phase /\ no_main_window' = no_main_window
             /\ (~Stays => phase = "loop")
    <3>1. CASE Stays
      BY <3>1, <2>3 DEF Stays, Lifetime!lifeVars
    <3>2. CASE ~Stays /\ Opens
      <4>1. Lifetime!Open
        BY <3>2, <2>3, <2>1 DEF Opens, Lifetime!Open, TypeOK
      <4> QED
        BY <4>1 DEF Lifetime!Next
    <3>3. CASE ~Stays /\ Closes
      <4>1. Lifetime!Close
        BY <3>3, <2>3 DEF Closes, Lifetime!Close
      <4> QED
        BY <4>1 DEF Lifetime!Next
    <3> QED
      BY <3>1, <3>2, <3>3, <2>3 DEF LifeStep
  <2>4. CASE Leaves /\ phase' = phase /\ phase = "loop" /\ no_main_window' = no_main_window
    BY <2>4 DEF Leaves, Lifetime!Leave, Lifetime!Next
  <2>5. CASE Stop
    BY <2>5, <1>2, StopStep DEF Lifetime!End, Lifetime!Next
  <2> QED
    BY <2>2, <2>3, <2>4, <2>5, <1>2, NextLife
<1> QED
  BY <1>1, <1>2, Invariant, PTL DEF Spec, ImplementsLifetime, Lifetime!Spec

-----------------------------------------------------------------------------
(* The places of the windows.                                              *)

\* Moving a window is nothing to AppWindows.
LEMMA PlaceStep == [PlaceNext]_placeVars => [Next]_vars
<1> SUFFICES ASSUME [PlaceNext]_placeVars PROVE [Next]_vars
  OBVIOUS
<1>1. CASE Next /\ Placed
  BY <1>1
<1>2. ASSUME NEW w \in Win, UserMove(w)
      PROVE  UNCHANGED vars
  BY <1>2 DEF UserMove, Input, Nothing, vars
<1>3. CASE UNCHANGED placeVars
  BY <1>3 DEF placeVars
<1> QED
  BY <1>1, <1>2, <1>3 DEF PlaceNext

\* The windows and their places behave as AppWindows says.
THEOREM PlaceImplements == PlaceSpec => Spec
<1>1. PlaceInit => Init
  BY DEF PlaceInit
<1> QED
  BY <1>1, PlaceStep, PTL DEF PlaceSpec, Spec

\* Only living windows of the registry are closed.
LEMMA ClosedWindow ==
  ASSUME IndInv, NEW i \in 1..Len(win), win[i] \in Closed
  PROVE  win[i] \in Win /\ win[i] \in alive
<1>1. win[i] \in Win
  BY ElementOfSeq DEF IndInv, TypeOK
<1> QED
  BY <1>1 DEF Closed

\* A step of AppWindows, and what its windows save and restore, keep the types
\* of the places and the windows on the screen.
LEMMA PlacedKeeps ==
  ASSUME PlaceInv, IndInv', Placed
  PROVE  PlaceTypeOK' /\ OnScreen'
<1> USE DEF PlaceInv
<1>1. OpensAt \in Places /\ (OpensAt = "off" => cfgPlace = "off")
  BY DEF OpensAt, PlaceTypeOK, Places
<1>2. place' \in [Win -> Places]
  BY <1>1 DEF Placed, PlaceTypeOK, Places
<1>3. \A w \in alive' : w \in Win /\ (place'[w] = "off" => cfgPlace = "off"
                                        \/ (w \in alive /\ place[w] = "off"))
  BY <1>1 DEF Placed, Opened, IndInv, TypeOK
<1>4. CASE Closed = {}
  <2>1. UNCHANGED <<cfgPlace, left, lost>>
    BY <1>4 DEF Placed, Saved
  <2> QED
    BY <1>2, <1>3, <2>1 DEF PlaceTypeOK, OnScreen
<1>5. CASE Closed # {}
  <2>1. PICK i \in 1..Len(win) :
          /\ win[i] \in Closed
          /\ cfgPlace' = WindowRect(win[i])
          /\ left' = place[win[i]]
          /\ lost' = (lost \/ Minimized(win[i]))
    BY <1>5 DEF Placed, Saved
  <2>2. win[i] \in Win /\ win[i] \in alive
    BY <2>1, ClosedWindow
  <2>3. place[win[i]] \in Places
    BY <2>2 DEF PlaceTypeOK
  <2>4. cfgPlace' \in Places /\ left' \in Places /\ lost' \in BOOLEAN
    <3>1. lost' \in BOOLEAN
      BY <2>1, Zenon DEF PlaceTypeOK
    <3> QED
      BY <2>1, <2>3, <3>1 DEF WindowRect, Places
  <2>5. PlaceTypeOK'
    BY <1>2, <2>4 DEF PlaceTypeOK
  <2>6. OnScreen'
    <3> SUFFICES ASSUME ~lost'
                 PROVE  /\ cfgPlace' = left' /\ cfgPlace' # "off"
                        /\ \A w \in alive' : place'[w] # "off"
      BY DEF OnScreen
    <3>1. ~lost /\ ~Minimized(win[i])
      BY <2>1
    <3>2. cfgPlace' = place[win[i]]
      BY <2>1, <3>1 DEF WindowRect
    <3> QED
      BY <1>3, <2>1, <2>2, <3>1, <3>2 DEF OnScreen
  <2> QED
    BY <2>5, <2>6
<1> QED
  BY <1>4, <1>5

\* Every state satisfies the invariant of the places.
THEOREM PlaceInvariant == PlaceSpec => []PlaceInv
<1>1. PlaceInit => PlaceInv
  <2> SUFFICES ASSUME PlaceInit PROVE PlaceInv
    OBVIOUS
  <2>1. IndInv
    BY InitIndInv DEF PlaceInit
  <2>2. alive = {}
    BY DEF PlaceInit, Init
  <2> QED
    BY <2>1, <2>2 DEF PlaceInit, PlaceInv, PlaceTypeOK, Places, OnScreen
<1>2. PlaceInv /\ [PlaceNext]_placeVars => PlaceInv'
  <2> SUFFICES ASSUME PlaceInv, [PlaceNext]_placeVars PROVE PlaceInv'
    OBVIOUS
  <2>1. IndInv'
    BY PlaceStep, NextIndInv DEF PlaceInv
  <2>2. CASE Next /\ Placed
    BY <2>1, <2>2, PlacedKeeps DEF PlaceInv
  <2>3. ASSUME NEW w \in Win, UserMove(w)
        PROVE  PlaceTypeOK' /\ OnScreen'
    BY <2>3 DEF UserMove, Nothing, PlaceInv, PlaceTypeOK, OnScreen, Places, IndInv, TypeOK
  <2>4. ASSUME UNCHANGED placeVars
        PROVE  PlaceTypeOK' /\ OnScreen'
    BY <2>4 DEF placeVars, placing, vars, PlaceInv, PlaceTypeOK, OnScreen
  <2> QED
    BY <2>1, <2>2, <2>3, <2>4 DEF PlaceNext, PlaceInv
<1> QED
  BY <1>1, <1>2, PTL DEF PlaceSpec

\* The first window opens where the one closed last was.
THEOREM OpensWhereLeftHolds == PlaceSpec => OpensWhereLeft
<1>1. PlaceInv /\ PlaceInv' /\ [PlaceNext]_placeVars
        => [\A w \in Opened :
              ~lost => place'[w] = IF alive = {} /\ left \notin {"none", "edge"}
                                   THEN left ELSE "center"]_placeVars
  <2> SUFFICES ASSUME PlaceInv, PlaceInv', PlaceNext, NEW w \in Opened, ~lost
               PROVE  place'[w] = IF alive = {} /\ left \notin {"none", "edge"}
                                  THEN left ELSE "center"
    OBVIOUS
  <2>1. w \in Win
    BY DEF Opened, PlaceInv, IndInv, TypeOK
  <2>2. cfgPlace = left
    BY DEF PlaceInv, OnScreen
  <2>3. Placed
    BY DEF PlaceNext, UserMove, Nothing, Opened
  <2> QED
    BY <2>1, <2>2, <2>3 DEF Placed, OpensAt
<1> QED
  BY <1>1, PlaceInvariant, PTL DEF PlaceSpec, OpensWhereLeft

-----------------------------------------------------------------------------
(* Liveness.  How far a posted message is from the head of the queue is a  *)
(* natural number that each Dispatch makes smaller.                        *)

\* The UI thread gets to its loop, fetches what is posted, and notices that it has
\* to quit.
RunsOn ==
  /\ []<>~(phase = "start") \/ []<><<Start>>_vars
  /\ []<>~(phase = "loop" /\ queue # <<>>) \/ []<><<Dispatch>>_vars
  /\ []<>~(phase = "loop" /\ QuitDue) \/ []<><<Stop>>_vars

\* That is the fairness of the model, wherever the next step is possible.
LEMMA FairRunsOn ==
  /\ WF_vars(Start) /\ WF_vars(Dispatch) /\ WF_vars(Stop)
  /\ [](phase = "start" => ENABLED <<Start>>_vars)
  /\ [](phase = "loop" /\ queue # <<>> => ENABLED <<Dispatch>>_vars)
  /\ [](phase = "loop" /\ QuitDue => ENABLED <<Stop>>_vars)
  => RunsOn
BY PTL DEF RunsOn

\* A process that has ended has no window.
NothingAfterLoop == phase = "exited" => alive = {}

LEMMA NothingAfterLoopHolds == Spec => []NothingAfterLoop
<1>1. Init => NothingAfterLoop
  BY DEF Init, NothingAfterLoop
<1>2. ASSUME IndInv, NothingAfterLoop, [Next]_vars
      PROVE  NothingAfterLoop'
  <2>1. CASE Start
    BY <2>1, <1>2, StartStep DEF Start, IndInv, NothingBeforeLoop, NothingAfterLoop, Stays
  <2>2. CASE Stop
    BY <2>2, <1>2, StopStep DEF NothingAfterLoop
  <2> QED
    BY <2>1, <2>2, <1>2, NextLife DEF NothingAfterLoop, Stays
<1> QED
  BY <1>1, <1>2, Invariant, PTL DEF Spec

\* What a Dispatch does to the queue: the others move up, and what "close all" posts
\* is no "close all".
LEMMA DispatchQueue ==
  ASSUME IndInv, Dispatch
  PROVE  /\ Len(queue) \in Nat \ {0} /\ Len(queue') \in Nat
         /\ \A i \in 1..Len(queue) - 1 : i \in 1..Len(queue') /\ queue'[i] = queue[i + 1]
         /\ \A i \in 1..Len(queue') : i > Len(queue) - 1 => queue'[i].op = "close"
         /\ Head(queue).op # "closeAll" => Len(queue') = Len(queue) - 1
<1> DEFINE rest == Tail(queue)
<1>1. queue \in Seq(Messages) /\ queue # <<>>
  BY DEF IndInv, TypeOK, Dispatch
<1>2. /\ Len(queue) \in Nat \ {0} /\ rest \in Seq(Messages) /\ Len(rest) = Len(queue) - 1
      /\ \A i \in 1..Len(queue) - 1 : rest[i] = queue[i + 1]
  BY <1>1
<1>3. CASE queue' = rest
  BY <1>2, <1>3
<1>4. ASSUME NEW n \in 0..Len(win), queue' = rest \o CloseAllMessages(n),
             Head(queue).op = "closeAll"
      PROVE  /\ Len(queue') \in Nat
             /\ \A i \in 1..Len(queue) - 1 : i \in 1..Len(queue') /\ queue'[i] = queue[i + 1]
             /\ \A i \in 1..Len(queue') : i > Len(queue) - 1 => queue'[i].op = "close"
  <2>1. n \in Nat
    BY LenProperties DEF IndInv, TypeOK
  <2>2. /\ CloseAllMessages(n) \in Seq([op : {"close"}, w : {win[i] : i \in 1..n}])
        /\ Len(CloseAllMessages(n)) = n
        /\ \A i \in 1..n : CloseAllMessages(n)[i].op = "close"
    BY <2>1, IsASeq DEF CloseAllMessages
  <2> HIDE DEF rest
  <2>3. /\ Len(queue') = Len(rest) + n
        /\ \A i \in 1..Len(rest) : queue'[i] = rest[i]
        /\ \A i \in 1..n : queue'[Len(rest) + i] = CloseAllMessages(n)[i]
    <3> DEFINE T == Messages \cup [op : {"close"}, w : {win[i] : i \in 1..n}]
    <3>1. rest \in Seq(T) /\ CloseAllMessages(n) \in Seq(T)
      BY <1>2, <2>2, SeqMonotonic
    <3>2. Len(rest) \in Nat
      BY <1>2
    <3>3. /\ Len(rest \o CloseAllMessages(n)) = Len(rest) + Len(CloseAllMessages(n))
          /\ \A i \in 1..Len(rest) + Len(CloseAllMessages(n)) :
               (rest \o CloseAllMessages(n))[i] =
                 IF i <= Len(rest) THEN rest[i] ELSE CloseAllMessages(n)[i - Len(rest)]
      BY <3>1, ConcatProperties
    <3>4. \A i \in 1..n : /\ Len(rest) + i \in 1..Len(rest) + n
                         /\ ~(Len(rest) + i <= Len(rest)) /\ (Len(rest) + i) - Len(rest) = i
      BY <2>1, <3>2
    <3>5. \A i \in 1..Len(rest) : i \in 1..Len(rest) + n /\ i <= Len(rest)
      BY <2>1, <3>2
    <3> QED
      BY <1>4, <2>2, <3>3, <3>4, <3>5
  <2>4. ASSUME NEW i \in 1..Len(queue'), i > Len(rest) PROVE queue'[i].op = "close"
    <3>1. i - Len(rest) \in 1..n /\ i = Len(rest) + (i - Len(rest))
      BY <1>2, <2>1, <2>3, <2>4
    <3> QED
      BY <2>2, <2>3, <3>1
  <2> QED
    BY <1>2, <2>1, <2>3, <2>4
<1> QED
  BY <1>2, <1>3, <1>4 DEF Dispatch

\* What every other step of the loop does to it.
LEMMA OtherQueue ==
  ASSUME IndInv, [Next]_vars, ~Dispatch, phase = "loop"
  PROVE  \/ Stop
         \/ phase' = "loop" /\ queue' = queue
         \/ /\ phase' = "loop" /\ posts' # posts
            /\ Len(queue) \in Nat /\ Len(queue') = Len(queue) + 1
            /\ \A i \in 1..Len(queue) : queue'[i] = queue[i]
<1>1. ASSUME NEW m \in Messages, Post(m)
      PROVE  /\ phase' = "loop" /\ posts' # posts
             /\ Len(queue) \in Nat /\ Len(queue') = Len(queue) + 1
             /\ \A i \in 1..Len(queue) : queue'[i] = queue[i]
  <2>1. queue \in Seq(Messages) /\ posts \in Nat /\ posts' = posts + 1
    BY <1>1, BoundsAssumption DEF IndInv, TypeOK, Post
  <2> QED
    BY <1>1, <2>1, AppendProperties, LenProperties DEF Post
<1>2. ~Start
  BY DEF Start
<1> QED
  BY <1>1, <1>2 DEF Next, vars, Launch, WindowInput, UserClose, UserMinimize, UserRestore,
                    UserNewWindow, UserExit, UserToggleHide, Input

\* A living window with WM_APP+WM_CLOSE among the first n messages.
Ahead(w, n) ==
  /\ phase = "loop" /\ w \in alive
  /\ \E i \in 1..Len(queue) : i <= n /\ queue[i] = [op |-> "close", w |-> w]

\* A message to a window that is alive stays where it is or moves up, and closes
\* the window when it is the first.
LEMMA AheadStep ==
  ASSUME IndInv, [Next]_vars, NEW w \in Win, NEW n \in Nat, Ahead(w, n + 1)
  PROVE  /\ Ahead(w, n + 1)' \/ w \notin alive'
         /\ Dispatch => Ahead(w, n)' \/ w \notin alive'
<1> DEFINE close == [op |-> "close", w |-> w]
<1> SUFFICES ASSUME w \in alive'
             PROVE  Ahead(w, n + 1)' /\ (Dispatch => Ahead(w, n)')
  OBVIOUS
<1>1. PICK i \in 1..Len(queue) : i <= n + 1 /\ queue[i] = close
  BY DEF Ahead
<1>2. queue \in Seq(Messages) /\ Len(queue) \in Nat /\ phase = "loop" /\ w \in alive
  BY DEF IndInv, TypeOK, Ahead
<1>3. CASE Dispatch
  <2>1. phase' = "loop"
    BY <1>2, <1>3 DEF Dispatch
  <2>2. i # 1
    <3> SUFFICES ASSUME i = 1 PROVE FALSE
      OBVIOUS
    <3>1. Head(queue) = close
      BY <1>1, <1>2
    <3>2. ASSUME NEW m, m.op = "close", Handle(m) PROVE CloseTotally(m.w)
      BY <3>2 DEF Handle
    <3>3. Handle(Head(queue)) /\ Head(queue).op = "close" /\ Head(queue).w = w
      BY <1>3, <3>1 DEF Dispatch
    <3>4. CloseTotally(w)
      BY <3>2, <3>3
    <3> QED
      BY <1>2, <3>4 DEF CloseTotally, Destroy
  <2>3. i - 1 \in 1..Len(queue) - 1 /\ (i - 1) + 1 = i
    BY <1>1, <1>2, <2>2
  <2>4. i - 1 \in 1..Len(queue') /\ queue'[i - 1] = close
    BY <1>1, <1>3, <2>3, DispatchQueue
  <2> QED
    BY <1>1, <2>1, <2>4 DEF Ahead
<1>4. CASE ~Dispatch
  <2>1. ~Stop
    BY <1>1, <1>2 DEF Stop, QuitDue
  <2> QED
    BY <1>1, <1>2, <1>4, <2>1, OtherQueue DEF Ahead
<1> QED
  BY <1>3, <1>4

\* Each message of a "close for good" gets to the head of the queue, by descent.
LEMMA AheadDescends ==
  ASSUME NEW w \in Win, NEW n \in Nat
  PROVE  Spec /\ RunsOn => (Ahead(w, n + 1) ~> Ahead(w, n) \/ w \notin alive)
<1>1. ASSUME IndInv, [Next]_vars, Ahead(w, n + 1)
      PROVE  Ahead(w, n + 1)' \/ (w \notin alive)'
  BY <1>1, AheadStep
<1>2. ASSUME IndInv, Ahead(w, n + 1), <<Dispatch>>_vars
      PROVE  Ahead(w, n)' \/ (w \notin alive)'
  BY <1>2, AheadStep DEF Next
<1>3. IndInv /\ Ahead(w, n + 1) => phase = "loop" /\ queue # <<>>
  BY DEF Ahead, IndInv, TypeOK
<1> QED
  BY <1>1, <1>2, <1>3, Invariant, PTL DEF Spec, RunsOn

\* "Close for good" closes the window it was posted to, wherever in the queue, and
\* whatever is posted or launched meanwhile.
THEOREM ClosedForGoodHolds ==
  /\ Spec /\ RunsOn
  /\ \A w \in Win : Descent(LAMBDA n : Ahead(w, n), w \notin alive)
  => ClosedForGood
<1> DEFINE Closes1(w) == ClosePosted(w) ~> w \notin alive
           Way(w) == Descent(LAMBDA n : Ahead(w, n), w \notin alive)
           Nearer(w) == \A n \in Nat : Ahead(w, n + 1) ~> Ahead(w, n) \/ w \notin alive
           Some(w) == \E n \in Nat : Ahead(w, n)
<1>1. SUFFICES ASSUME NEW w \in Win
               PROVE  Spec /\ RunsOn /\ Way(w) => Closes1(w)
  <2>1. \A w \in Win : Spec /\ RunsOn /\ Way(w) => Closes1(w)
    BY <1>1
  <2> QED
    BY <2>1 DEF ClosedForGood
<1>2. Spec /\ RunsOn => Nearer(w)
  BY AheadDescends
<1>3. Way(w) => [](Nearer(w) => (Some(w) ~> Ahead(w, 0) \/ w \notin alive))
  BY DEF Descent
<1>4. ~Ahead(w, 0)
  BY DEF Ahead
<1>5. IndInv /\ NothingAfterLoop /\ ClosePosted(w) => Some(w) \/ w \notin alive
  <2> SUFFICES ASSUME IndInv, NothingAfterLoop, ClosePosted(w), w \in alive
               PROVE  Some(w)
    OBVIOUS
  <2>1. PICK i \in 1..Len(queue) : queue[i] = [op |-> "close", w |-> w]
    BY DEF ClosePosted
  <2>2. i \in Nat /\ i <= i
    BY DEF IndInv, TypeOK
  <2>3. phase = "loop"
    BY DEF IndInv, TypeOK, NothingBeforeLoop, NothingAfterLoop
  <2> QED
    BY <2>1, <2>2, <2>3 DEF Ahead
<1> HIDE DEF Way, Nearer, Some
<1> QED
  BY <1>2, <1>3, <1>4, <1>5, Invariant, NothingAfterLoopHolds, PTL

\* The user does not click for ever: an assumption about the user, which the bound
\* on posts grants in the model and nothing grants in the program.
PostsStop == <>[][posts' = posts]_vars

\* A pending WM_QUIT stays pending until the loop ends.
Quitting == phase = "loop" /\ quitPosted

\* On the way out, no "close all" beyond the first n messages.
MayGrow(n) ==
  /\ Quitting
  /\ \A i \in 1..Len(queue) : i > n => queue[i].op # "closeAll"

\* On the way out, n messages left at most, none of which posts others.
Short(n) ==
  /\ Quitting
  /\ Len(queue) <= n
  /\ \A i \in 1..Len(queue) : queue[i].op # "closeAll"

\* What is opened, closed or launched meanwhile takes no WM_QUIT back.
LEMMA QuittingStep ==
  ASSUME IndInv, [Next]_vars, Quitting
  PROVE  /\ Quitting' \/ phase' = "exited"
         /\ ~Stop => Quitting'
<1>1. ~Start
  BY DEF Start, Quitting
<1>2. CASE Stop
  BY <1>2, StopStep
<1>3. CASE ~Stop
  BY <1>1, <1>3, NextLife DEF Quitting, LifeStep, Stays, Opens, Closes, Leaves
<1> QED
  BY <1>2, <1>3

\* With nothing posted from outside, the last "close all" moves up.
LEMMA MayGrowStep ==
  ASSUME IndInv, [Next]_vars, posts' = posts, NEW n \in Nat, MayGrow(n + 1)
  PROVE  /\ MayGrow(n + 1)' \/ phase' = "exited"
         /\ Dispatch => MayGrow(n)'
<1>1. Quitting /\ phase = "loop" /\ \A i \in 1..Len(queue) : i > n + 1 => queue[i].op # "closeAll"
  BY DEF MayGrow, Quitting
<1>2. CASE Dispatch
  <2>1. Quitting'
    BY <1>1, <1>2, QuittingStep DEF Dispatch, Stop, QuitDue
  <2>2. ASSUME NEW i \in 1..Len(queue'), i > n PROVE queue'[i].op # "closeAll"
    <3>1. Len(queue) \in Nat \ {0} /\ Len(queue') \in Nat
      BY <1>2, DispatchQueue
    <3>2. CASE i > Len(queue) - 1
      BY <1>2, <3>2, DispatchQueue
    <3>3. CASE ~(i > Len(queue) - 1)
      <4>1. i \in 1..Len(queue) - 1 /\ i + 1 \in 1..Len(queue) /\ i + 1 > n + 1
        BY <2>2, <3>1, <3>3
      <4> QED
        BY <1>1, <1>2, <4>1, DispatchQueue
    <3> QED
      BY <3>2, <3>3
  <2>3. \A i \in 1..Len(queue') : i > n + 1 => i > n
    BY <1>2, DispatchQueue
  <2> QED
    BY <2>1, <2>2, <2>3 DEF MayGrow
<1>3. CASE ~Dispatch
  <2>1. Stop \/ queue' = queue
    BY <1>1, <1>3, OtherQueue
  <2> QED
    BY <1>1, <1>3, <2>1, QuittingStep, StopStep DEF MayGrow
<1> QED
  BY <1>2, <1>3

\* Without "close all", each message dispatched is one less to dispatch.
LEMMA ShortStep ==
  ASSUME IndInv, [Next]_vars, posts' = posts, NEW n \in Nat, Short(n)
  PROVE  /\ Short(n)' \/ phase' = "exited"
         /\ \A m \in Nat : n = m + 1 /\ Dispatch => Short(m)'
<1>1. /\ Quitting /\ phase = "loop" /\ Len(queue) <= n
      /\ \A i \in 1..Len(queue) : queue[i].op # "closeAll"
  BY DEF Short, Quitting
<1>2. CASE Dispatch
  <2>1. Quitting'
    BY <1>1, <1>2, QuittingStep DEF Dispatch, Stop, QuitDue
  <2>2. Len(queue) \in Nat \ {0} /\ Len(queue') \in Nat
    BY <1>2, DispatchQueue
  <2>3. Head(queue) = queue[1] /\ 1 \in 1..Len(queue)
    BY <2>2 DEF IndInv, TypeOK
  <2>4. Len(queue') = Len(queue) - 1
    BY <1>1, <1>2, <2>3, DispatchQueue
  <2>5. \A i \in 1..Len(queue') : queue'[i].op # "closeAll"
    <3>1. \A i \in 1..Len(queue') : i \in 1..Len(queue) - 1 /\ i + 1 \in 1..Len(queue)
      BY <2>2, <2>4
    <3> QED
      BY <1>1, <1>2, <3>1, DispatchQueue
  <2>6. \A m \in Nat : n = m + 1 => Len(queue') <= m
    BY <1>1, <2>2, <2>4
  <2>7. Len(queue') <= n
    BY <1>1, <2>2, <2>4
  <2> QED
    BY <2>1, <2>5, <2>6, <2>7 DEF Short
<1>3. CASE ~Dispatch
  <2>1. Stop \/ queue' = queue
    BY <1>1, <1>3, OtherQueue
  <2> QED
    BY <1>1, <1>3, <2>1, QuittingStep, StopStep DEF Short
<1> QED
  BY <1>2, <1>3

\* The two descents, once nothing is posted from outside any more.
LEMMA MayGrowDescends ==
  ASSUME NEW n \in Nat
  PROVE  []IndInv /\ [][Next]_vars /\ RunsOn /\ [][posts' = posts]_vars
           => (MayGrow(n + 1) ~> MayGrow(n) \/ phase = "exited")
<1>1. ASSUME IndInv, [Next]_vars, [posts' = posts]_vars, MayGrow(n + 1)
      PROVE  MayGrow(n + 1)' \/ (phase = "exited")'
  BY <1>1, MayGrowStep DEF vars
<1>2. ASSUME IndInv, MayGrow(n + 1), [posts' = posts]_vars, <<Dispatch>>_vars
      PROVE  MayGrow(n)'
  BY <1>2, MayGrowStep DEF vars, Next
<1>3. IndInv /\ MayGrow(n + 1) => phase = "loop" /\ (queue # <<>> \/ MayGrow(n))
  BY DEF MayGrow, Quitting, IndInv, TypeOK
<1> QED
  BY <1>1, <1>2, <1>3, PTL DEF RunsOn

LEMMA ShortDescends ==
  ASSUME NEW n \in Nat
  PROVE  []IndInv /\ [][Next]_vars /\ RunsOn /\ [][posts' = posts]_vars
           => (Short(n + 1) ~> Short(n) \/ phase = "exited")
<1>1. ASSUME IndInv, [Next]_vars, [posts' = posts]_vars, Short(n + 1)
      PROVE  Short(n + 1)' \/ (phase = "exited")'
  BY <1>1, ShortStep DEF vars
<1>2. ASSUME IndInv, Short(n + 1), [posts' = posts]_vars, <<Dispatch>>_vars
      PROVE  Short(n)'
  BY <1>2, ShortStep DEF vars, Next
<1>3. IndInv /\ Short(n + 1) => phase = "loop" /\ (queue # <<>> \/ Short(n))
  BY DEF Short, Quitting, IndInv, TypeOK
<1> QED
  BY <1>1, <1>2, <1>3, PTL DEF RunsOn

\* An empty queue lets WM_QUIT through.
LEMMA QuitComes ==
  []IndInv /\ [][Next]_vars /\ RunsOn /\ [][posts' = posts]_vars
    => (Short(0) ~> phase = "exited")
<1>1. ASSUME IndInv, [Next]_vars, [posts' = posts]_vars, Short(0)
      PROVE  Short(0)' \/ (phase = "exited")'
  BY <1>1, ShortStep DEF vars
<1>2. ASSUME IndInv, Short(0), <<Stop>>_vars
      PROVE  (phase = "exited")'
  BY <1>2 DEF Stop
<1>3. IndInv /\ Short(0) => phase = "loop" /\ QuitDue
  BY EmptySeq, LenProperties DEF Short, Quitting, QuitDue, IndInv, TypeOK
<1> QED
  BY <1>1, <1>2, <1>3, PTL DEF RunsOn

\* The process that AppLifetime promises to begin begins, and the end it promises
\* comes, whatever launches, clicks and "close all" come after WM_QUIT was posted.
THEOREM ImplementsFairLifetimeHolds ==
  /\ Spec /\ RunsOn /\ PostsStop
  /\ Descent(MayGrow, phase = "exited")
  /\ Descent(Short, phase = "exited")
  => ImplementsFairLifetime
<1> DEFINE Rest == []IndInv /\ [][Next]_vars /\ RunsOn /\ [][posts' = posts]_vars
           GrowNearer == \A n \in Nat : MayGrow(n + 1) ~> MayGrow(n) \/ phase = "exited"
           ShortNearer == \A n \in Nat : Short(n + 1) ~> Short(n) \/ phase = "exited"
           Growing == \E n \in Nat : MayGrow(n)
           Shrinking == \E n \in Nat : Short(n)
           GrowWay == Descent(MayGrow, phase = "exited")
           ShortWay == Descent(Short, phase = "exited")
<1>1. Rest => GrowNearer
  BY MayGrowDescends
<1>2. Rest => ShortNearer
  BY ShortDescends
<1>3. GrowWay => [](GrowNearer => (Growing ~> MayGrow(0) \/ phase = "exited"))
  BY DEF Descent
<1>4. ShortWay => [](ShortNearer => (Shrinking ~> Short(0) \/ phase = "exited"))
  BY DEF Descent
<1>5. IndInv /\ Quitting => Growing
  <2> SUFFICES ASSUME IndInv, Quitting PROVE Growing
    OBVIOUS
  <2>1. Len(queue) \in Nat /\ \A i \in 1..Len(queue) : ~(i > Len(queue))
    BY DEF IndInv, TypeOK
  <2> QED
    BY <2>1 DEF MayGrow
<1>6. IndInv /\ MayGrow(0) => Shrinking
  <2> SUFFICES ASSUME IndInv, MayGrow(0) PROVE Shrinking
    OBVIOUS
  <2>1. Len(queue) \in Nat /\ Len(queue) <= Len(queue) /\ \A i \in 1..Len(queue) : i > 0
    BY DEF IndInv, TypeOK
  <2>2. Short(Len(queue))
    BY <2>1 DEF MayGrow, Short
  <2> QED
    BY <2>1, <2>2
<1>7. ASSUME IndInv, [Next]_vars, Quitting
      PROVE  Quitting' \/ (phase = "exited")'
  BY <1>7, QuittingStep
<1> HIDE DEF GrowNearer, ShortNearer, Growing, Shrinking, GrowWay, ShortWay
<1>8. []IndInv /\ [][Next]_vars /\ RunsOn /\ PostsStop /\ GrowWay /\ ShortWay
        => (Quitting ~> phase = "exited")
  <2>1. Rest => (Short(0) ~> phase = "exited")
    BY QuitComes
  <2>2. ASSUME [Next]_vars, phase = "exited" PROVE (phase = "exited")'
    BY <2>2 DEF Next, vars, Start, Post, Dispatch, Launch, WindowInput, UserClose,
                UserMinimize, UserRestore, UserNewWindow, UserExit, UserToggleHide,
                Input, Stop
  <2> QED
    BY <1>1, <1>2, <1>3, <1>4, <1>5, <1>6, <1>7, <2>1, <2>2, PTL DEF PostsStop, RunsOn
<1>9. []IndInv /\ [][Next]_vars /\ RunsOn => Lifetime!Begins
  <2>1. ASSUME IndInv, <<Start>>_vars PROVE ~(phase = "start")'
    BY <2>1, StartStep
  <2>2. phase # "start" <=> ~(phase = "start")
    OBVIOUS
  <2> QED
    BY <2>1, <2>2, PTL DEF Lifetime!Begins, RunsOn
<1>10. Quitting <=> phase = "loop" /\ quitPosted
  BY DEF Quitting
<1> QED
  BY <1>8, <1>9, <1>10, Invariant, Refinement, PTL
     DEF Spec, GrowWay, ShortWay, ImplementsFairLifetime, ImplementsLifetime,
         Lifetime!FairSpec, Lifetime!Ends
=============================================================================
