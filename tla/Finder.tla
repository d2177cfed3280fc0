------------------------------- MODULE Finder -------------------------------
(***************************************************************************)
(* The finder of a main window: the icon the user drags over the screen to *)
(* choose a target window, from the press of a button to its release, and  *)
(* what the main window makes of it.  Each handler runs to its end on the  *)
(* UI thread.  HighlightWindow is taken as Frame describes it: a call      *)
(* leaves the frame of its window, or none.                                *)
(*                                                                         *)
(* Both mouse buttons start and end a search, and nothing keeps the second *)
(* one from being pressed during a search.  The capture can be taken away  *)
(* (another window comes up), which no handler notices.                    *)
(***************************************************************************)
CONSTANTS
  Others, \* windows of other programs
  Self,   \* the main window
  Child,  \* a control of the main window, the finder included
  None    \* no window

ASSUME WindowsAssumption ==
  /\ {Self, Child, None} \cap Others = {}
  /\ Self # Child /\ Self # None /\ Child # None

Windows == Others \cup {Self, Child}

VARIABLES
  isFinding,
  capture,       \* the finder has the mouse capture
  findRoot,      \* locator.mode: the root window is wanted, not the control
  m_target,      \* locator.m_target
  frame,         \* the window that has a frame on the screen
  shown,         \* the icon the finder shows
  hFinderEmpty,  \* the icons the finder believes to be the empty and filled one
  hFinderFilled,
  target,        \* the window the main window works on
  target_old,
  before,        \* history: target when the search began
  again,         \* history: a button was pressed during the search
  spoilt         \* history: the same, in this search or an earlier one

vars == <<isFinding, capture, findRoot, m_target, frame, shown, hFinderEmpty,
          hFinderFilled, target, target_old, before, again, spoilt>>
icons == <<shown, hFinderEmpty, hFinderFilled>>

Init ==
  /\ isFinding = FALSE /\ capture = FALSE /\ findRoot = FALSE
  /\ m_target = None /\ frame = None
  /\ shown = "filled" /\ hFinderEmpty = "empty" /\ hFinderFilled = "filled"
  /\ target = None /\ target_old = None
  /\ before = None /\ again = FALSE /\ spoilt = FALSE

\* getwin: a control of the main window counts as the main window when the root
\* is wanted.
GetWin(w) == IF findRoot /\ w = Child THEN Self ELSE w

\* What is under the mouse when the finder gets its messages: with the capture
\* anything, without it the finder itself.
UnderMouse == IF capture THEN Windows \cup {None} ELSE {Child}

\* A mutant: the target is remembered after the search has changed it.
Remembered_Stale == m_target

\* onselectstart saves the target.
Remembered == target

\* startFind, on a press of either button over the finder, or with the capture.
StartFind ==
  /\ findRoot' \in BOOLEAN
  /\ target_old' = Remembered
  /\ isFinding' = TRUE
  /\ capture' = TRUE
  /\ hFinderFilled' = shown /\ shown' = hFinderEmpty
  /\ m_target' = None
  /\ before' = IF isFinding THEN before ELSE target
  /\ again' = isFinding
  /\ spoilt' = (spoilt \/ isFinding)
  /\ UNCHANGED <<frame, hFinderEmpty, target>>

\* duringFind, on a move of the mouse.
DuringFind ==
  /\ isFinding
  /\ \E w \in UnderMouse :
       m_target' = GetWin(w) /\ frame' = GetWin(w) /\ target' = GetWin(w)
  /\ UNCHANGED <<isFinding, capture, findRoot, icons, target_old, before, again, spoilt>>

\* A mutant: the frame is left to the redrawing of the desktop.
Erased_Not == frame

\* RestoreScreenContent.
Erased == None

\* A mutant: the release of the second button ends a search that has ended.
Ending_Any == TRUE

\* endFind returns at once when no search is going on.
Ending == isFinding

\* endFind, on a release of either button, and onselectend.
EndFind ==
  /\ Ending
  /\ frame' = Erased
  /\ isFinding' = FALSE
  /\ capture' = FALSE
  /\ hFinderEmpty' = shown /\ shown' = hFinderFilled
  /\ \E w \in UnderMouse :
       /\ m_target' = GetWin(w)
       /\ IF GetWin(w) = Self
          THEN target' = target_old /\ UNCHANGED target_old
          ELSE target' = GetWin(w) /\ target_old' = GetWin(w)
  /\ UNCHANGED <<findRoot, hFinderFilled, before, again, spoilt>>

\* Another window takes the capture.
LoseCapture ==
  /\ capture
  /\ capture' = FALSE
  /\ UNCHANGED <<isFinding, findRoot, m_target, frame, icons, target, target_old,
                 before, again, spoilt>>

\* "Switch To" the parent, and the dialog that finds a window by its name, set
\* the target too; the user gets at them when the finder has no capture.
OtherTarget ==
  /\ ~capture
  /\ \E w \in Windows : target' = w
  /\ UNCHANGED <<isFinding, capture, findRoot, m_target, frame, icons, target_old,
                 before, again, spoilt>>

Next == StartFind \/ DuringFind \/ EndFind \/ LoseCapture \/ OtherTarget

Spec == Init /\ [][Next]_vars

-----------------------------------------------------------------------------
(* Properties.                                                             *)

Icons == {"empty", "filled"}

TypeOK ==
  /\ isFinding \in BOOLEAN /\ capture \in BOOLEAN /\ findRoot \in BOOLEAN
  /\ m_target \in Windows \cup {None} /\ frame \in Windows \cup {None}
  /\ shown \in Icons /\ hFinderEmpty \in Icons /\ hFinderFilled \in Icons
  /\ target \in Windows \cup {None} /\ target_old \in Windows \cup {None}
  /\ before \in Windows \cup {None} /\ again \in BOOLEAN /\ spoilt \in BOOLEAN

\* The frame is there only during a search, and around the very window that the
\* main window shows as its target, as long as the finder keeps the capture.
FrameOnTarget ==
  /\ frame # None => isFinding
  /\ capture /\ ~again /\ frame # None => frame = target

\* What startFind saved is the target before the search, unless a second press
\* saved again.
SavedTarget ==
  /\ isFinding /\ ~again => target_old = before
  /\ capture => isFinding

\* The finder shows its filled icon, and the empty one during a search, until a
\* second button is pressed during a search: startFind then takes the empty icon
\* for the filled one, and the finder stays empty for good (WindowLocator.cpp:89).
IconShown == shown = IF isFinding \/ spoilt THEN "empty" ELSE "filled"

\* What makes it so: between them the two handles hold what they are named for,
\* unless the filled icon was lost.
IconsKept ==
  /\ hFinderEmpty = "empty"
  /\ isFinding => hFinderFilled = IF spoilt THEN "empty" ELSE "filled"

\* The inductive invariant.
IndInv == TypeOK /\ FrameOnTarget /\ SavedTarget /\ IconShown /\ IconsKept

\* A search that ends over the main window leaves the main window the target it
\* had before the search, if only one button was used.
OwnWindowKeepsTarget ==
  [][isFinding /\ ~isFinding' /\ m_target' = Self /\ ~again
       => target' = before]_vars
=============================================================================
