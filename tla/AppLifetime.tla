---------------------------- MODULE AppLifetime ----------------------------
(***************************************************************************)
(* What a process of the tool promises about its life: it lives as long as *)
(* it shows a window, or for ever when it was started to stay in the tray; *)
(* the last window that closes, or the user's order, sets the end; and     *)
(* the end comes.  No handler, queue or registry is mentioned: AppWindows  *)
(* is the detailed model, and implements this one.                         *)
(***************************************************************************)
CONSTANT Win

VARIABLES
  phase,    \* "start", "loop", "exited"
  resident, \* started with --no-main-window
  open,     \* the windows on show or hidden
  ending    \* the end is decided

lifeVars == <<phase, resident, open, ending>>

Init ==
  /\ phase = "start"
  /\ resident \in BOOLEAN
  /\ open = {}
  /\ ending = FALSE

\* The first window opens, or the process gives up; a resident process needs none.
Begin ==
  /\ phase = "start"
  /\ \/ resident /\ phase' = "loop" /\ open' = {}
     \/ ~resident /\ phase' = "loop" /\ \E w \in Win : open' = {w}
     \/ ~resident /\ phase' = "exited" /\ open' = {}
  /\ UNCHANGED <<resident, ending>>

\* A window that was not open before opens, even when the end is decided.
Open ==
  /\ phase = "loop"
  /\ \E w \in Win \ open : open' = open \cup {w}
  /\ UNCHANGED <<phase, resident, ending>>

\* Windows close: the end is decided exactly when none remains and the process
\* is not resident.
Close ==
  /\ phase = "loop"
  /\ \E gone \in (SUBSET open) \ {{}} :
       /\ open' = open \ gone
       /\ ending' = (ending \/ (~resident /\ open' = {}))
  /\ UNCHANGED <<phase, resident>>

\* The user orders the end: all windows close.
Leave ==
  /\ phase = "loop"
  /\ open' = {}
  /\ ending' = TRUE
  /\ UNCHANGED <<phase, resident>>

End ==
  /\ phase = "loop"
  /\ ending
  /\ phase' = "exited"
  /\ open' = {}
  /\ UNCHANGED <<resident, ending>>

Next == Begin \/ Open \/ Close \/ Leave \/ End

Spec == Init /\ [][Next]_lifeVars

\* The process does begin, and an end that is decided comes, whatever opens and
\* closes in between.
Begins == phase = "start" ~> phase # "start"
Ends == phase = "loop" /\ ending ~> phase = "exited"

FairSpec == Spec /\ Begins /\ Ends
=============================================================================
