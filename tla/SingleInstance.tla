--------------------------- MODULE SingleInstance ---------------------------
(***************************************************************************)
(* Several launches of the tool: a launch looks for the IPC window of a    *)
(* process that is there already and sends it WM_APP+WM_CREATE, to open a  *)
(* window on its behalf; if there is none, or no answer within five        *)
(* seconds, the launch becomes a process of its own.  What a process does  *)
(* with its windows is AppWindows; here a window is open or not.           *)
(*                                                                         *)
(* A process creates its IPC window only after its configuration is loaded *)
(* and its first main window is open, so launches can miss each other.     *)
(***************************************************************************)
EXTENDS Naturals

CONSTANTS
  Proc,   \* the launches
  MaxBusy \* bound on how often UI threads stall

ASSUME BusyAssumption == MaxBusy \in Nat

VARIABLES
  pc,      \* where the launch or process is, see Places
  to,      \* whom a waiting launch has sent to
  inbox,   \* launches whose message a process has not handled yet
  busy,    \* the UI thread does not fetch messages: it waits for a foreign
           \* window, a closing one or the Notepad of an error dialog
  stalls,  \* how often a UI thread stalled
  window,  \* the process has a main window
  served,  \* how often a launch has led to a window being shown
  overlap, \* history: a launch began while another was on its way
  unheard  \* history: the launches that gave up on a process

vars == <<pc, to, inbox, busy, stalls, window, served, overlap, unheard>>

\* "off": not launched; "find", "wait": looking for a process, waiting for it;
\* "init", "create": loading, and creating the windows; "loop": a process with
\* an IPC window; "exited".
Places == {"off", "find", "wait", "init", "create", "loop", "exited"}

Starting == {p \in Proc : pc[p] \in {"find", "wait", "init", "create"}}

\* The processes whose IPC window FindWindow can find.
Listening == {p \in Proc : pc[p] = "loop"}

Init ==
  /\ pc = [p \in Proc |-> "off"]
  /\ to = [p \in Proc |-> p]
  /\ inbox = [p \in Proc |-> {}]
  /\ busy = [p \in Proc |-> FALSE]
  /\ stalls = 0
  /\ window = [p \in Proc |-> FALSE]
  /\ served = [p \in Proc |-> 0]
  /\ overlap = FALSE
  /\ unheard = {}

Goto(p, place) == pc' = [pc EXCEPT ![p] = place]

Serve(p) == served' = [served EXCEPT ![p] = @ + 1]

-----------------------------------------------------------------------------
(* A launch.                                                               *)

Launch(p) ==
  /\ pc[p] = "off"
  /\ Goto(p, "find")
  /\ overlap' = (overlap \/ Starting # {})
  /\ UNCHANGED <<to, inbox, busy, stalls, window, served, unheard>>

\* A mutant: the IPC window is not looked for.
Found_Nobody == {}

\* FindWindow.
Found == Listening

Find(p) ==
  /\ pc[p] = "find"
  /\ \/ \E q \in Found :
          /\ Goto(p, "wait")
          /\ to' = [to EXCEPT ![p] = q]
          /\ inbox' = [inbox EXCEPT ![q] = @ \cup {p}]
     \/ Found = {} /\ Goto(p, "init") /\ UNCHANGED <<to, inbox>>
  /\ UNCHANGED <<busy, stalls, window, served, overlap, unheard>>

\* A mutant: SendMessage, without a timeout.
Unanswered_Gone(p) == to[p] \notin Listening

\* The process went away, or did not answer within five seconds.
Unanswered(p) == to[p] \notin Listening \/ busy[to[p]]

\* SendMessageTimeout gives up; the message stays where it is.
NoAnswer(p) ==
  /\ pc[p] = "wait"
  /\ Unanswered(p)
  /\ Goto(p, "init")
  /\ unheard' = unheard \cup {p}
  /\ UNCHANGED <<to, inbox, busy, stalls, window, served, overlap>>

-----------------------------------------------------------------------------
(* A process of its own.                                                   *)

\* init_config, and the main window unless --no-main-window is given.
CreateWindow(p) ==
  /\ pc[p] = "init"
  /\ \/ window' = [window EXCEPT ![p] = TRUE] /\ Serve(p)
     \/ UNCHANGED <<window, served>>
  /\ Goto(p, "create")
  /\ UNCHANGED <<to, inbox, busy, stalls, overlap, unheard>>

\* The configuration or the window could not be had: wWinMain returns.
GiveUp(p) ==
  /\ pc[p] = "init"
  /\ Goto(p, "exited")
  /\ UNCHANGED <<to, inbox, busy, stalls, window, served, overlap, unheard>>

\* The IPC window is created and the loop entered.
Listen(p) ==
  /\ pc[p] = "create"
  /\ Goto(p, "loop")
  /\ UNCHANGED <<to, inbox, busy, stalls, window, served, overlap, unheard>>

\* A mutant: the launch goes on whatever the answer.
Answer_GoesOn(q, p) ==
  IF pc[p] = "wait" /\ to[p] = q THEN Goto(p, "init") ELSE UNCHANGED pc

\* The answer ends the launch, unless it no longer waits.
Answer(q, p) ==
  IF pc[p] = "wait" /\ to[p] = q THEN Goto(p, "exited") ELSE UNCHANGED pc

\* The loop handles the message of launch p: showOrCreateWindow, which may fail
\* to create a window; it answers all the same.
Handle(q, p) ==
  /\ pc[q] = "loop" /\ ~busy[q]
  /\ p \in inbox[q]
  /\ inbox' = [inbox EXCEPT ![q] = @ \ {p}]
  /\ \/ window' = [window EXCEPT ![q] = TRUE] /\ Serve(p)
     \/ UNCHANGED <<window, served>>
  /\ Answer(q, p)
  /\ UNCHANGED <<to, busy, stalls, overlap, unheard>>

Stall(q) ==
  /\ pc[q] = "loop" /\ ~busy[q]
  /\ stalls < MaxBusy
  /\ stalls' = stalls + 1
  /\ busy' = [busy EXCEPT ![q] = TRUE]
  /\ UNCHANGED <<pc, to, inbox, window, served, overlap, unheard>>

GoOn(q) ==
  /\ busy[q]
  /\ busy' = [busy EXCEPT ![q] = FALSE]
  /\ UNCHANGED <<pc, to, inbox, stalls, window, served, overlap, unheard>>

\* The process ends; messages it has not handled are lost, their senders told.
Exit(q) ==
  /\ pc[q] = "loop" /\ ~busy[q]
  /\ Goto(q, "exited")
  /\ inbox' = [inbox EXCEPT ![q] = {}]
  /\ window' = [window EXCEPT ![q] = FALSE]
  /\ UNCHANGED <<to, busy, stalls, served, overlap, unheard>>

Start(p) == Find(p) \/ NoAnswer(p) \/ CreateWindow(p) \/ GiveUp(p) \/ Listen(p)

Next ==
  \E p \in Proc :
    \/ Launch(p) \/ Start(p)
    \/ \E q \in Proc : Handle(q, p)
    \/ Stall(p) \/ GoOn(p) \/ Exit(p)

Spec == Init /\ [][Next]_vars

\* A launch goes on, which takes the user to answer the dialogs about a file or a
\* window that could not be had (CreateWindow, GiveUp); and the loop of a process
\* that is not stalled answers.  That a stall ends, and that a process ends, is not
\* assumed.
FairSpec ==
  /\ Spec
  /\ \A p \in Proc : WF_vars(Start(p)) /\ WF_vars(\E q \in Proc : Handle(q, p))

-----------------------------------------------------------------------------
(* Properties.                                                             *)

TypeOK ==
  /\ pc \in [Proc -> Places]
  /\ to \in [Proc -> Proc]
  /\ inbox \in [Proc -> SUBSET Proc]
  /\ busy \in [Proc -> BOOLEAN]
  /\ stalls \in 0..MaxBusy
  /\ window \in [Proc -> BOOLEAN]
  /\ served \in [Proc -> Nat]
  /\ overlap \in BOOLEAN /\ unheard \subseteq Proc

\* As long as every launch waited for the one before it to come up, the processes
\* that can answer are one, and those that got no answer from it in time.
OneProcess ==
  ~overlap => \A p, q \in Listening \ unheard : p = q

\* What makes it so: one launch at a time is on its way, and unless it gave up it
\* gets beyond the search only when nobody listens.
OneAtATime ==
  ~overlap =>
    /\ \A p, q \in Starting : p = q
    /\ \A p \in Proc \ unheard : pc[p] \in {"init", "create"} => Listening = {}

\* A launch shows one window at most: it is answered by one process, or opens a
\* window itself.  One that gave up shows two at most, its own and that of the
\* message it left behind (main.cpp:243-246), however late that is handled.
WindowsPerLaunch ==
  \A p \in Proc : served[p] <= IF p \in unheard THEN 2 ELSE 1

\* What makes it so: a message that waits to be handled is that of a launch that
\* waits for its answer or gave up, and who can still show a window has shown one
\* less.
MessageOfWaiting ==
  /\ \A p, q \in Proc : p \in inbox[q] => to[p] = q /\ (pc[p] = "wait" \/ p \in unheard)
  /\ \A p \in Proc \ unheard : pc[p] \in {"off", "find", "wait", "init"} => served[p] = 0
  /\ \A p \in unheard :
       /\ pc[p] \in {"init", "create", "loop", "exited"}
       /\ p \in inbox[to[p]] \/ pc[p] = "init" => served[p] <= 1
       /\ p \in inbox[to[p]] /\ pc[p] = "init" => served[p] = 0

\* The inductive invariant.
IndInv == TypeOK /\ OneProcess /\ OneAtATime /\ MessageOfWaiting /\ WindowsPerLaunch

\* Whoever it sent to, and whatever that process is busy with, a launch comes to
\* an end: it was answered, or is a process of its own.
EndsUp(p) == pc[p] = "find" ~> pc[p] \in {"loop", "exited"}
LaunchEnds == \A p \in Proc : EndsUp(p)
=============================================================================
