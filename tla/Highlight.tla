----------------------------- MODULE Highlight -----------------------------
(***************************************************************************)
(* HighlightWindow of winlib.cpp, which draws a frame around a window by   *)
(* inverting pixels and remembers in global variables what to invert again *)
(* to erase it, with the callers the program has:                          *)
(*   - the finders, one on the UI thread and one on the thread of each     *)
(*     parent editor: a frame follows the mouse while the user looks for a *)
(*     window, and is erased at the end, unless the finder's window is     *)
(*     closed during the search (Ctrl+W, or Esc in the editor);            *)
(*   - one detached thread for each click on "Highlight", which shows and  *)
(*     erases a frame five times.                                          *)
(* The globals have no lock, so threads interleave inside the function.    *)
(* One step is one test of the globals, one drawing or one group of        *)
(* adjacent assignments; finer interleavings (a rectangle read while half  *)
(* of it is written) come on top of the outcomes shown here.               *)
(***************************************************************************)
EXTENDS Naturals

CONSTANTS
  UI,      \* the UI thread
  Finders, \* the threads with a finder: the UI thread and those of parent editors
  Flashers, \* the detached threads that flash a frame
  Rects,   \* the rectangles windows have on the screen
  Empty,   \* the empty rectangle, that of no window or of one that is gone
  Flashes  \* how often a detached thread shows the frame (5 in the code)

ASSUME CallersAssumption ==
  /\ UI \in Finders
  /\ Finders \cap Flashers = {}
  /\ Empty \notin Rects
  /\ Flashes \in Nat \ {0}

Threads == Flashers \cup Finders

VARIABLES
  g_lastRect,  \* the rectangle of the frame on the screen
  g_lastPen,   \* g_lastPen is a pen; FALSE for nullptr
  g_lastStyle, \* g_lastColor and g_lastWidth are those of the frame
  screen,      \* the frames on the screen: those inverted an odd number of times
  pc,          \* where each thread is in HighlightWindow, "idle" outside
  rcCurrent,   \* the rectangle each thread's call is to frame, Empty for none
  hasTarget,   \* the call has a window, if only one without a rectangle
  left,        \* the rounds each caller still has to make
  erasing,     \* the caller's next or present call is RestoreScreenContent
  overlap,     \* history: a caller began while another was not done
  abandoned    \* history: a search was cut off, and no frame erased since then

globals == <<g_lastRect, g_lastPen, g_lastStyle>>
vars == <<g_lastRect, g_lastPen, g_lastStyle, screen, pc, rcCurrent, hasTarget,
          left, erasing, overlap, abandoned>>

Frames == Rects \X BOOLEAN

\* A caller is not done; a finder has one round, which ends with an erasing call.
Busy(t) == left[t] > 0

Finding(f) == Busy(f) /\ ~erasing[f]

Init ==
  /\ g_lastRect = Empty
  /\ g_lastPen = FALSE
  /\ g_lastStyle = FALSE
  /\ screen = {}
  /\ pc = [t \in Threads |-> "idle"]
  /\ rcCurrent = [t \in Threads |-> Empty]
  /\ hasTarget = [t \in Threads |-> FALSE]
  /\ left = [t \in Threads |-> 0]
  /\ erasing = [t \in Threads |-> FALSE]
  /\ overlap = FALSE
  /\ abandoned = FALSE

\* A mutant: the frame is painted, not inverted.
Rectangle_Paints(r) ==
  screen' = IF r = Empty THEN screen ELSE screen \cup {<<r, g_lastPen>>}

\* Rectangle with R2_NOTXORPEN: a frame drawn twice with the same pen is gone.
\* Without a pen of its own the device context keeps its default one.
Rectangle(r) ==
  LET frame == <<r, g_lastPen>>
  IN  screen' = IF r = Empty THEN screen
                ELSE IF frame \in screen THEN screen \ {frame} ELSE screen \cup {frame}

-----------------------------------------------------------------------------
(* The callers.                                                            *)

\* A caller with n rounds to make appears.
Begin(t, n) ==
  /\ ~Busy(t)
  /\ left' = [left EXCEPT ![t] = n]
  /\ overlap' = (overlap \/ \E u \in Threads : Busy(u))
  /\ UNCHANGED <<globals, screen, pc, rcCurrent, hasTarget, erasing, abandoned>>

\* startFind, on a mouse button over the finder.
StartFind(f) == f \in Finders /\ Begin(f, 1)

\* A click on "Highlight", which the UI thread takes, starts a thread.
StartFlash(t) == t \in Flashers /\ pc[UI] = "idle" /\ Begin(t, Flashes)

\* HighlightWindow is called: GetWindowRect comes before any global is looked at.
Enter(t, target, rect) ==
  /\ pc[t] = "idle"
  /\ pc' = [pc EXCEPT ![t] = "compare"]
  /\ hasTarget' = [hasTarget EXCEPT ![t] = target]
  /\ rcCurrent' = [rcCurrent EXCEPT ![t] = rect]
  /\ UNCHANGED <<globals, screen, overlap, abandoned>>

\* during: a frame for the window under the mouse, whatever it is.
MoveFind(f) ==
  /\ f \in Finders /\ Finding(f)
  /\ \/ \E r \in Rects \cup {Empty} : Enter(f, TRUE, r)
     \/ Enter(f, FALSE, Empty)
  /\ UNCHANGED <<left, erasing>>

\* end.
EndFind(f) ==
  /\ f \in Finders /\ Finding(f)
  /\ Enter(f, FALSE, Empty)
  /\ erasing' = [erasing EXCEPT ![f] = TRUE]
  /\ UNCHANGED left

\* The finder is destroyed with its window; onDestroy knows of no search.
Abandon(f) ==
  /\ f \in Finders /\ Finding(f) /\ pc[f] = "idle"
  /\ left' = [left EXCEPT ![f] = 0]
  /\ abandoned' = TRUE
  /\ UNCHANGED <<globals, screen, pc, rcCurrent, hasTarget, erasing, overlap>>

\* The next call of a detached thread; its window may have moved or gone.
CallFlash(t) ==
  /\ t \in Flashers
  /\ Busy(t)
  /\ \/ ~erasing[t] /\ \E r \in Rects \cup {Empty} : Enter(t, TRUE, r)
     \/ erasing[t] /\ Enter(t, FALSE, Empty)
  /\ UNCHANGED <<left, erasing>>

-----------------------------------------------------------------------------
(* HighlightWindow.                                                        *)

\* Thread t goes on to place p.
Goto(t, p) ==
  /\ pc' = [pc EXCEPT ![t] = p]
  /\ UNCHANGED <<rcCurrent, hasTarget, overlap, abandoned>>

\* The function returns.  An erasing call ends a round; the first call of a
\* detached thread's round is followed by an erasing one.
Return(t) ==
  /\ pc' = [pc EXCEPT ![t] = "idle"]
  /\ left' = IF erasing[t] THEN [left EXCEPT ![t] = @ - 1] ELSE left
  /\ erasing' = [erasing EXCEPT ![t] = t \in Flashers /\ ~erasing[t]]
  /\ rcCurrent' = [rcCurrent EXCEPT ![t] = Empty]
  /\ hasTarget' = [hasTarget EXCEPT ![t] = FALSE]
  /\ abandoned' = (abandoned /\ ~erasing[t])
  /\ UNCHANGED overlap

\* The frame that is to be drawn is there already.
Same(t) ==
  hasTarget[t] /\ g_lastRect # Empty /\ rcCurrent[t] = g_lastRect /\ g_lastStyle

Compare(t) ==
  /\ pc[t] = "compare"
  /\ IF Same(t) THEN Return(t) ELSE Goto(t, "old") /\ UNCHANGED <<left, erasing>>
  /\ UNCHANGED <<globals, screen>>

\* A mutant: the old frame is left where it is.
Old_Skips(t) ==
  /\ pc[t] = "old"
  /\ Goto(t, "new")
  /\ UNCHANGED <<globals, screen, left, erasing>>

\* Is there an old frame?  Without one, a call without a window only clears the
\* globals.
Old(t) ==
  /\ pc[t] = "old"
  /\ IF g_lastRect # Empty
     THEN Goto(t, "erase") /\ UNCHANGED globals
     ELSE /\ Goto(t, "new")
          /\ IF hasTarget[t]
             THEN UNCHANGED globals
             ELSE g_lastRect' = Empty /\ g_lastPen' = FALSE /\ g_lastStyle' = FALSE
  /\ UNCHANGED <<screen, left, erasing>>

\* Erase the old frame.
EraseOld(t) ==
  /\ pc[t] = "erase"
  /\ Rectangle(g_lastRect)
  /\ Goto(t, "forget")
  /\ UNCHANGED <<globals, left, erasing>>

\* A mutant: the rectangle of the erased frame is kept.
Forget_KeepsRect(t) ==
  /\ pc[t] = "forget"
  /\ g_lastPen' = FALSE /\ g_lastStyle' = FALSE
  /\ Goto(t, "new")
  /\ UNCHANGED <<g_lastRect, screen, left, erasing>>

Forget(t) ==
  /\ pc[t] = "forget"
  /\ g_lastRect' = Empty /\ g_lastPen' = FALSE /\ g_lastStyle' = FALSE
  /\ Goto(t, "new")
  /\ UNCHANGED <<screen, left, erasing>>

\* A window with a rectangle gets its frame: first the pen.
New(t) ==
  /\ pc[t] = "new"
  /\ IF hasTarget[t] /\ rcCurrent[t] # Empty
     THEN g_lastPen' = TRUE /\ Goto(t, "draw") /\ UNCHANGED <<left, erasing>>
     ELSE Return(t) /\ UNCHANGED g_lastPen
  /\ UNCHANGED <<g_lastRect, g_lastStyle, screen>>

DrawNew(t) ==
  /\ pc[t] = "draw"
  /\ Rectangle(rcCurrent[t])
  /\ Goto(t, "remember")
  /\ UNCHANGED <<globals, left, erasing>>

Remember(t) ==
  /\ pc[t] = "remember"
  /\ g_lastRect' = rcCurrent[t]
  /\ g_lastStyle' = TRUE
  /\ Return(t)
  /\ UNCHANGED <<g_lastPen, screen>>

Step(t) ==
  Compare(t) \/ Old(t) \/ EraseOld(t) \/ Forget(t) \/ New(t) \/ DrawNew(t) \/ Remember(t)

Next ==
  \/ \E f \in Finders : StartFind(f) \/ MoveFind(f) \/ EndFind(f) \/ Abandon(f)
  \/ \E t \in Flashers : StartFlash(t) \/ CallFlash(t)
  \/ \E t \in Threads : Step(t)

Spec == Init /\ [][Next]_vars

-----------------------------------------------------------------------------
(* Properties.                                                             *)

Places == {"idle", "compare", "old", "erase", "forget", "new", "draw", "remember"}

TypeOK ==
  /\ g_lastRect \in Rects \cup {Empty}
  /\ g_lastPen \in BOOLEAN
  /\ g_lastStyle \in BOOLEAN
  /\ screen \subseteq Frames
  /\ pc \in [Threads -> Places]
  /\ rcCurrent \in [Threads -> Rects \cup {Empty}]
  /\ hasTarget \in [Threads -> BOOLEAN]
  /\ left \in [Threads -> Nat]
  /\ erasing \in [Threads -> BOOLEAN]
  /\ overlap \in BOOLEAN /\ abandoned \in BOOLEAN

\* While no two callers ever ran at the same time, the function keeps the
\* promise of Frame: it erases one frame before it draws the next.
F == INSTANCE Frame WITH Rects <- Frames
ImplementsFrame == [][~overlap' => [F!Next]_screen]_vars

\* No caller is left.
Quiet == \A t \in Threads : ~Busy(t)

\* The globals tell what is on the screen.
Consistent ==
  IF g_lastRect = Empty THEN screen = {}
                        ELSE screen = {<<g_lastRect, TRUE>>} /\ g_lastPen

\* When every finder has finished and every flashing has ended, no frame is left
\* on the screen, provided no two of them ever ran at the same time.  A search that
\* was cut off leaves at most one frame, which the globals know: the next caller
\* to end erases it with its own.
CleanWhenAlone ==
  ~overlap /\ Quiet => IF abandoned THEN Consistent ELSE screen = {}

\* What holds at each place of a caller that is alone.
At(t) ==
  /\ pc[t] \in {"idle", "compare", "old", "erase"} => Consistent
  /\ pc[t] = "erase" => g_lastRect # Empty
  /\ pc[t] \in {"forget", "new", "draw"} => screen = {}
  /\ pc[t] \in {"new", "draw"} => g_lastRect = Empty
  /\ pc[t] \in {"draw", "remember"} => g_lastPen /\ rcCurrent[t] # Empty /\ hasTarget[t]
  /\ pc[t] = "remember" => screen = {<<rcCurrent[t], TRUE>>}

\* A call is made by a caller that is not done, and one of RestoreScreenContent
\* has no window; a finder erases only at its end.
CallsOfCallers ==
  \A t \in Threads :
    /\ pc[t] # "idle" => Busy(t) /\ (erasing[t] => ~hasTarget[t])
    /\ pc[t] = "idle" /\ t \in Finders => ~erasing[t]

Alone ==
  ~overlap =>
    /\ \A t, u \in Threads : Busy(t) /\ Busy(u) => t = u
    /\ \A t \in Threads : Busy(t) => At(t)
    /\ Quiet => Consistent /\ (abandoned \/ g_lastRect = Empty)

\* The inductive invariant.
IndInv == TypeOK /\ CallsOfCallers /\ Alone

\* RestoreScreenContent "erases the old frame" (winlib.hpp:14), and every caller
\* that is not cut off ends with it: no frame is left whatever ran at the same time.
CleanWhenQuiet == Quiet /\ ~abandoned => screen = {}
=============================================================================
