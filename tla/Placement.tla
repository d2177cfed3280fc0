----------------------------- MODULE Placement -----------------------------
(***************************************************************************)
(* Where the main windows of AppWindows are on the screen, and what of it  *)
(* survives them in app::config: onDestroy saves the rectangle, onCreated  *)
(* of the first window restores it.  What is open when the process ends is *)
(* deleted as a Window, without onDestroy.                                 *)
(*                                                                         *)
(* A place is "user", where the user has put a window; "edge", the same    *)
(* with a coordinate of -1, which onCreated takes for no value; "center";  *)
(* or "off", far outside, where Windows has the rectangle of a minimized   *)
(* window.                                                                 *)
(***************************************************************************)
EXTENDS AppWindows

VARIABLES
  place,    \* where each window is when it is not minimized
  cfgPlace, \* app.main_window.userwindow, "none" if there is none
  left,     \* history: where the window closed last was when not minimized
  lost      \* history: a window was closed while minimized

placing == <<place, cfgPlace, left, lost>>
placeVars == <<vars, placing>>

Places == {"user", "edge", "center", "off"}

PlaceInit ==
  /\ Init
  /\ place = [w \in Win |-> "center"]
  /\ cfgPlace \in {"none", "user"}
  /\ left = cfgPlace
  /\ lost = FALSE

Minimized(w) == show[w] \in {"minimized", "hidden"}

\* A mutant: the window is hidden before its rectangle is taken.
WindowRect_Late(w) == "off"

\* GetWindowRect.
WindowRect(w) == IF Minimized(w) THEN "off" ELSE place[w]

\* The windows a step opens, and those it closes through onDestroy.
Opened == alive' \ alive
Closed == IF phase' = "exited" THEN {} ELSE alive \ alive'

\* A mutant: any window restores the place of the user.
OpensAt_Any == IF cfgPlace \notin {"none", "edge"} THEN cfgPlace ELSE "center"

\* onCreated: a place of the user's for the first window, the center for others.
OpensAt ==
  IF alive = {} /\ cfgPlace \notin {"none", "edge"} THEN cfgPlace ELSE "center"

\* onDestroy of the windows a step closes; quit closes them in the order of the
\* registry, so what the last one saves stays.
Saved ==
  IF Closed = {}
  THEN UNCHANGED <<cfgPlace, left, lost>>
  ELSE \E i \in 1..Len(win) :
         /\ win[i] \in Closed
         /\ \A j \in 1..Len(win) : win[j] \in Closed => j <= i
         /\ cfgPlace' = WindowRect(win[i])
         /\ left' = place[win[i]]
         /\ lost' = (lost \/ Minimized(win[i]))

\* What the windows that open and close in a step of AppWindows do.
Placed ==
  /\ place' = [w \in Win |-> IF w \in Opened THEN OpensAt
                             ELSE IF w \in alive' THEN place[w] ELSE "center"]
  /\ Saved

\* The user moves a window.
UserMove(w) ==
  /\ Input
  /\ w \in alive /\ show[w] = "normal"
  /\ \E p \in {"user", "edge"} : place' = [place EXCEPT ![w] = p]
  /\ UNCHANGED <<cfgHide, cfgPlace, left, lost>> /\ Nothing

PlaceNext ==
  \/ Next /\ Placed
  \/ \E w \in Win : UserMove(w)

PlaceSpec == PlaceInit /\ [][PlaceNext]_placeVars

\* As in AppWindows.
PlaceFairSpec ==
  PlaceSpec /\ WF_vars(Start) /\ WF_vars(Dispatch) /\ WF_vars(Stop)

-----------------------------------------------------------------------------
(* Properties.                                                             *)

PlaceTypeOK ==
  /\ place \in [Win -> Places]
  /\ cfgPlace \in Places \cup {"none"} /\ left \in Places \cup {"none"}
  /\ lost \in BOOLEAN

\* Unless a window was closed while minimized, no window is outside the screen,
\* nor will the next one be: the place in the configuration is that of the
\* window closed last, whatever was opened, hidden or closed in between.
OnScreen ==
  ~lost => /\ cfgPlace = left /\ cfgPlace # "off"
           /\ \A w \in alive : place[w] # "off"

\* The inductive invariant, with that of AppWindows.
PlaceInv == IndInv /\ PlaceTypeOK /\ OnScreen

\* With the same exception, and but for the coordinate -1, the first window
\* opens where the one closed last was, and a further one never covers it.
OpensWhereLeft ==
  [][\A w \in Opened :
       ~lost => place'[w] = IF alive = {} /\ left \notin {"none", "edge"}
                            THEN left ELSE "center"]_placeVars

\* What "restore the user's window position" (MainWindow.cpp:64) says: windows
\* open on the screen.
OpensOnScreen == [][\A w \in Opened : place'[w] # "off"]_placeVars
=============================================================================
