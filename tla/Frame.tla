------------------------------- MODULE Frame -------------------------------
(***************************************************************************)
(* What HighlightWindow promises its callers: at most one frame is on the  *)
(* screen, and a frame is drawn only where none is.  Highlight is the      *)
(* detailed model; it implements this one as long as its callers take      *)
(* turns.                                                                  *)
(***************************************************************************)
CONSTANT Rects

VARIABLE screen \* the frames on the screen

Init == screen = {}

Draw == screen = {} /\ \E r \in Rects : screen' = {r}

Erase == screen' = {}

Next == Draw \/ Erase

Spec == Init /\ [][Next]_screen
=============================================================================
