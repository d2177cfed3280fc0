---------------------------- MODULE FinderProofs ----------------------------
(***************************************************************************)
(* Proofs about Finder and MainView for every set of windows.              *)
(***************************************************************************)
EXTENDS MainView, TLAPS

\* The initial state satisfies the inductive invariant.
LEMMA InitIndInv == Init => IndInv
BY DEF Init, IndInv, TypeOK, Icons, Windows, FrameOnTarget, SavedTarget, IconShown, IconsKept

\* What the mouse is over is a window or nothing, as the handlers see it.
LEMMA GetWinType ==
  ASSUME NEW w \in UnderMouse
  PROVE  GetWin(w) \in Windows \cup {None}
BY DEF UnderMouse, GetWin, Windows

\* Every step keeps the inductive invariant.
LEMMA NextIndInv == IndInv /\ [Next]_vars => IndInv'
<1> SUFFICES ASSUME IndInv, [Next]_vars PROVE IndInv'
  OBVIOUS
<1> USE DEF IndInv, TypeOK, Icons, FrameOnTarget, SavedTarget, IconShown, IconsKept, icons
<1>1. CASE StartFind
  BY <1>1 DEF StartFind, Remembered
<1>2. CASE DuringFind
  BY <1>2, GetWinType DEF DuringFind
<1>3. CASE EndFind
  BY <1>3, GetWinType DEF EndFind, Ending, Erased
<1>4. CASE LoseCapture
  BY <1>4 DEF LoseCapture
<1>5. CASE OtherTarget
  BY <1>5 DEF OtherTarget
<1>6. CASE UNCHANGED vars
  BY <1>6 DEF vars
<1> QED
  BY <1>1, <1>2, <1>3, <1>4, <1>5, <1>6 DEF Next

\* Every state satisfies the inductive invariant.
THEOREM Invariant == Spec => []IndInv
BY InitIndInv, NextIndInv, PTL DEF Spec

\* A frame is there only during a search, around the target.
THEOREM FrameOnTargetHolds == Spec => []FrameOnTarget
<1>1. IndInv => FrameOnTarget
  BY DEF IndInv
<1> QED
  BY <1>1, Invariant, PTL

\* The finder shows the icon of what it is doing, until a second press of a button
\* during a search takes the filled one from it for good.
THEOREM IconShownHolds == Spec => []IconShown
<1>1. IndInv => IconShown
  BY DEF IndInv
<1> QED
  BY <1>1, Invariant, PTL

\* A search that ends over the main window changes nothing.
THEOREM OwnWindowKeepsTargetHolds == Spec => OwnWindowKeepsTarget
<1>1. IndInv /\ [Next]_vars
        => [isFinding /\ ~isFinding' /\ m_target' = Self /\ ~again
              => target' = before]_vars
  <2> SUFFICES ASSUME IndInv, Next, isFinding, ~isFinding', m_target' = Self, ~again
               PROVE  target' = before
    OBVIOUS
  <2>1. target_old = before
    BY DEF IndInv, SavedTarget
  <2>2. EndFind
    BY DEF Next, StartFind, DuringFind, LoseCapture, OtherTarget
  <2> QED
    BY <2>1, <2>2 DEF EndFind
<1> QED
  BY <1>1, Invariant, PTL DEF Spec, OwnWindowKeepsTarget

-----------------------------------------------------------------------------
(* The view of the main window.                                            *)

\* Every step of MainView is one of Finder, or none.
LEMMA ViewStep == [ViewNext]_viewVars => [Next]_vars
<1> SUFFICES ASSUME [ViewNext]_viewVars PROVE [Next]_vars
  OBVIOUS
<1>1. CASE BeginSearch \/ Search \/ EndSearch \/ ChooseTarget \/ CaptureLost
  BY <1>1 DEF BeginSearch, Search, EndSearch, ChooseTarget, CaptureLost, Next
<1>2. CASE Refresh \/ TimerRefresh \/ ClickTopmost
  BY <1>2 DEF TimerRefresh, Refresh, ClickTopmost
<1>3. CASE ToggleTopMost \/ TogglePutBottom \/ ToggleAutoRefresh
  BY <1>3 DEF ToggleTopMost, TogglePutBottom, ToggleAutoRefresh
<1>4. CASE FocusMoves \/ OrderChanges \/ UNCHANGED viewVars
  BY <1>4 DEF FocusMoves, OrderChanges, viewVars
<1> QED
  BY <1>1, <1>2, <1>3, <1>4 DEF ViewNext

\* The finder of a main window behaves as Finder says.
THEOREM ViewImplements == ViewSpec => Spec
<1>1. ViewInit => Init
  BY DEF ViewInit
<1> QED
  BY <1>1, ViewStep, PTL DEF ViewSpec, Spec

\* The main window is none of the other windows, nor is it no window.
LEMMA SelfIsWindow == Self \in Windows /\ Self # None
BY WindowsAssumption DEF Windows

\* The initial state satisfies the invariant of the view.
LEMMA InitViewInv == ViewInit => ViewInv
<1> SUFFICES ASSUME ViewInit PROVE ViewInv
  OBVIOUS
<1>1. IndInv
  BY InitIndInv DEF ViewInit
<1>2. isTopMost \in BOOLEAN
  <2>1. (Self \in topmost) \in BOOLEAN
    OBVIOUS
  <2> QED
    BY <2>1 DEF ViewInit
<1>3. topmost \in SUBSET (Others \cup {Self}) /\ typing \in BOOLEAN
      /\ putBottomWhenUse \in BOOLEAN /\ autoRefresh \in BOOLEAN
  BY Zenon DEF ViewInit
<1>4. edit_targetHwnd \in Windows \cup {None} /\ cb_topmost \in BOOLEAN /\ touched \in BOOLEAN
  BY Zenon DEF ViewInit
<1>5. ViewTypeOK
  BY <1>2, <1>3, <1>4, Zenon DEF ViewTypeOK
<1>6. TargetNamed /\ OwnOrderKept
  BY DEF ViewInit, Init, TargetNamed, OwnOrderKept
<1> QED
  BY <1>1, <1>5, <1>6 DEF ViewInv

\* update_target gives the view its type, and names the target.
LEMMA UpdateView ==
  ASSUME IndInv', ViewTypeOK, UpdateTarget
  PROVE  /\ edit_targetHwnd' \in Windows \cup {None} /\ cb_topmost' \in BOOLEAN
         /\ TargetNamed'
<1>1. edit_targetHwnd' \in Windows \cup {None}
  BY Zenon DEF IndInv, TypeOK, UpdateTarget
<1>2. cb_topmost' \in BOOLEAN
  <2>1. CASE target' = None
    BY <2>1, Zenon DEF ViewTypeOK, UpdateTarget
  <2>2. CASE target' # None
    <3>1. (target' \in topmost') \in BOOLEAN
      OBVIOUS
    <3> QED
      BY <2>2, <3>1 DEF UpdateTarget
  <2> QED
    BY <2>1, <2>2
<1>3. TargetNamed'
  BY Zenon DEF UpdateTarget, TargetNamed
<1> QED
  BY <1>1, <1>2, <1>3

\* Every step keeps the types of the view.
LEMMA NextViewType ==
  ASSUME ViewInv, IndInv', [ViewNext]_viewVars
  PROVE  ViewTypeOK'
<1> USE DEF ViewInv
<1>1. CASE BeginSearch
  BY <1>1 DEF BeginSearch, ViewTypeOK, options, view
<1>2. CASE Search \/ ChooseTarget
  BY <1>2, UpdateView DEF Search, ChooseTarget, ViewTypeOK, options
<1>3. CASE EndSearch
  <2>1. topmost' \in SUBSET (Others \cup {Self})
    BY <1>3 DEF EndSearch, RestoredOrder, ViewTypeOK
  <2>2. edit_targetHwnd' \in Windows \cup {None} /\ cb_topmost' \in BOOLEAN
    BY <1>3, UpdateView DEF EndSearch
  <2> QED
    BY <1>3, <2>1, <2>2 DEF EndSearch, ViewTypeOK, options
<1>4. CASE Refresh \/ TimerRefresh
  BY <1>4, UpdateView DEF TimerRefresh, Refresh, ViewTypeOK, options
<1>5. CASE ClickTopmost
  <2>1. topmost' \in SUBSET (Others \cup {Self})
    BY <1>5 DEF ClickTopmost, SetOrder, ViewTypeOK
  <2>2. cb_topmost' \in BOOLEAN
    <3>1. (target \in topmost') \in BOOLEAN /\ (~cb_topmost) \in BOOLEAN
      OBVIOUS
    <3> QED
      BY <1>5, <3>1 DEF ClickTopmost, AfterClick
  <2>3. touched' \in BOOLEAN
    BY <1>5 DEF ClickTopmost, ViewTypeOK
  <2> QED
    BY <1>5, <2>1, <2>2, <2>3 DEF ClickTopmost, ViewTypeOK, options
<1>6. CASE ToggleTopMost
  BY <1>6 DEF ToggleTopMost, ViewTypeOK, view
<1>7. CASE TogglePutBottom
  BY <1>7 DEF TogglePutBottom, ViewTypeOK, view, options
<1>8. CASE ToggleAutoRefresh
  BY <1>8 DEF ToggleAutoRefresh, ViewTypeOK, view, options
<1>9. CASE FocusMoves
  BY <1>9 DEF FocusMoves, ViewTypeOK, view, options
<1>10. CASE OrderChanges
  BY <1>10 DEF OrderChanges, ViewTypeOK, view, options
<1>11. CASE CaptureLost \/ UNCHANGED viewVars
  BY <1>11 DEF CaptureLost, viewVars, ViewTypeOK, view, options
<1> QED
  BY <1>1, <1>2, <1>3, <1>4, <1>5, <1>6, <1>7, <1>8, <1>9, <1>10, <1>11 DEF ViewNext

\* Every step leaves the handle of the target on the screen.
LEMMA NextNamed ==
  ASSUME ViewInv, IndInv', [ViewNext]_viewVars
  PROVE  TargetNamed'
<1> USE DEF ViewInv
<1>1. CASE Search \/ EndSearch \/ ChooseTarget \/ Refresh \/ TimerRefresh
  BY <1>1, UpdateView DEF Search, EndSearch, ChooseTarget, TimerRefresh, Refresh
<1>2. CASE BeginSearch \/ CaptureLost
  BY <1>2 DEF BeginSearch, CaptureLost, StartFind, LoseCapture, view, TargetNamed
<1>3. CASE ClickTopmost
  BY <1>3 DEF ClickTopmost, vars, TargetNamed
<1>4. CASE ToggleTopMost \/ TogglePutBottom \/ ToggleAutoRefresh
  BY <1>4 DEF ToggleTopMost, TogglePutBottom, ToggleAutoRefresh, vars, view, TargetNamed
<1>5. CASE FocusMoves \/ OrderChanges \/ UNCHANGED viewVars
  BY <1>5 DEF FocusMoves, OrderChanges, viewVars, vars, view, TargetNamed
<1> QED
  BY <1>1, <1>2, <1>3, <1>4, <1>5 DEF ViewNext

\* Every step keeps the main window's place among the windows.
LEMMA NextOwnOrder ==
  ASSUME ViewInv, [ViewNext]_viewVars
  PROVE  OwnOrderKept'
<1> USE DEF ViewInv, OwnOrderKept
<1>1. CASE BeginSearch
  BY <1>1 DEF BeginSearch, StartFind, options
<1>2. CASE Search
  BY <1>2 DEF Search, DuringFind, options
<1>3. CASE EndSearch
  BY <1>3 DEF EndSearch, RestoredOrder, EndFind, options
<1>4. CASE ChooseTarget \/ CaptureLost
  BY <1>4 DEF ChooseTarget, OtherTarget, CaptureLost, LoseCapture, options
<1>5. CASE Refresh \/ TimerRefresh
  BY <1>5 DEF TimerRefresh, Refresh, vars, options
<1>6. CASE ClickTopmost
  BY <1>6 DEF ClickTopmost, vars, options
<1>7. CASE ToggleTopMost
  BY <1>7 DEF ToggleTopMost, vars
<1>8. CASE TogglePutBottom
  BY <1>8 DEF TogglePutBottom, vars
<1>9. CASE ToggleAutoRefresh \/ FocusMoves
  BY <1>9 DEF ToggleAutoRefresh, FocusMoves, vars, options
<1>10. CASE OrderChanges
  BY <1>10 DEF OrderChanges, vars, options
<1>11. CASE UNCHANGED viewVars
  BY <1>11 DEF viewVars, vars, options
<1> QED
  BY <1>1, <1>2, <1>3, <1>4, <1>5, <1>6, <1>7, <1>8, <1>9, <1>10, <1>11 DEF ViewNext

\* Every state satisfies the invariant of the view.
THEOREM ViewInvariant == ViewSpec => []ViewInv
<1>1. ViewInv /\ [ViewNext]_viewVars => ViewInv'
  <2> SUFFICES ASSUME ViewInv, [ViewNext]_viewVars PROVE ViewInv'
    OBVIOUS
  <2>1. IndInv'
    BY ViewStep, NextIndInv DEF ViewInv
  <2> QED
    BY <2>1, NextViewType, NextNamed, NextOwnOrder DEF ViewInv
<1> QED
  BY <1>1, InitViewInv, PTL DEF ViewSpec

\* The main window is where its option says, whatever searches it went through.
THEOREM OwnOrderKeptHolds == ViewSpec => []OwnOrderKept
<1>1. ViewInv => OwnOrderKept
  BY DEF ViewInv
<1> QED
  BY <1>1, ViewInvariant, PTL

\* After a click the box tells the truth.
THEOREM BoxTruthfulHolds == ViewSpec => BoxTruthful
<1>1. ViewInv /\ [ViewNext]_viewVars
        => [ClickTopmost => (cb_topmost' <=> target \in topmost')]_viewVars
  <2> SUFFICES ASSUME ViewInv, ClickTopmost
               PROVE  cb_topmost' <=> target \in topmost'
    OBVIOUS
  <2>1. CASE target = None
    <3>1. None \notin Others \cup {Self}
      BY WindowsAssumption
    <3>2. target \notin topmost'
      BY <2>1, <3>1 DEF ViewInv, ViewTypeOK, ClickTopmost, SetOrder
    <3>3. cb_topmost' = FALSE
      BY <2>1 DEF ClickTopmost, AfterClick
    <3> QED
      BY <3>2, <3>3
  <2>2. CASE target # None /\ (~cb_topmost) = (target \in topmost)
    <3>1. topmost' = topmost
      BY <2>2 DEF ClickTopmost, SetOrder
    <3>2. cb_topmost' = ~cb_topmost
      BY <2>2 DEF ClickTopmost, AfterClick
    <3> QED
      BY <2>2, <3>1, <3>2
  <2>3. CASE target # None /\ (~cb_topmost) # (target \in topmost)
    BY <2>3 DEF ClickTopmost, AfterClick
  <2> QED
    BY <2>1, <2>2, <2>3
<1> QED
  BY <1>1, ViewInvariant, PTL DEF ViewSpec, BoxTruthful

-----------------------------------------------------------------------------
(* Liveness.                                                               *)

\* Timer 4 fires: as long as it may and has something to do, it updates the view
\* again and again.
TimerFires ==
  []<>~(autoRefresh /\ ~typing /\ ~Fresh) \/ []<><<TimerRefresh>>_viewVars

\* That is the fairness of the model, wherever the timer can do so.
LEMMA FairTimerFires ==
  /\ WF_viewVars(TimerRefresh)
  /\ [](autoRefresh /\ ~typing /\ ~Fresh => ENABLED <<TimerRefresh>>_viewVars)
  => TimerFires
BY PTL DEF TimerFires

\* As long as the timer may update the view, the box tells the truth again and
\* again: the timer's update makes it true whenever it is not.
THEOREM ViewCatchesUpHolds ==
  ViewInit /\ [][ViewNext]_viewVars /\ TimerFires => ViewCatchesUp
<1>1. ASSUME TimerRefresh
      PROVE  Fresh'
  BY <1>1 DEF TimerRefresh, Refresh, UpdateTarget, Fresh
<1>2. <<TimerRefresh>>_viewVars => Fresh'
  BY <1>1
<1> QED
  BY <1>2, PTL DEF TimerFires, ViewCatchesUp
=============================================================================
