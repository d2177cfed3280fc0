---------------------------- MODULE SharedConfig ----------------------------
(***************************************************************************)
(* The launches of SingleInstance with what they share besides the IPC     *)
(* window: the configuration file.  A process reads it once, at its start, *)
(* and writes it back whole: from a timer, and when wWinMain returns.      *)
(* What is in the file is abstracted to who knows it; a save is one step,  *)
(* its two halves are in ConfigStore.                                      *)
(*                                                                         *)
(* wWinMain destroys the IPC window before configSaver saves, since it is  *)
(* declared later (main.cpp:343 and 252): for a while a process is neither *)
(* to be found nor done with the file.                                     *)
(***************************************************************************)
EXTENDS SingleInstance

VARIABLES
  loaded,  \* the processes that have an app::config to save
  leaving, \* those whose IPC window is gone and that still have to save
  knows,   \* those for which the file is as they last read or wrote it
  early    \* history: a process loaded while another was leaving

configVars == <<loaded, leaving, knows, early>>
sharedVars == <<vars, configVars>>

SharedInit ==
  /\ Init
  /\ loaded = {} /\ leaving = {} /\ knows = {}
  /\ early = FALSE

-----------------------------------------------------------------------------
(* The start of a process.                                                 *)

\* A mutant: the configuration is loaded before the IPC window is looked for.
Loading_First(p) == pc[p] \in {"find", "wait", "init"} /\ p \notin loaded

\* init_config comes after the search for the IPC window.
Loading(p) == pc[p] = "init" /\ p \notin loaded

\* load_config.
Load(p) ==
  /\ Loading(p)
  /\ loaded' = loaded \cup {p}
  /\ knows' = knows \cup {p}
  /\ early' = (early \/ leaving # {})
  /\ UNCHANGED <<vars, leaving>>

Create(p) == p \in loaded /\ CreateWindow(p) /\ UNCHANGED configVars

\* A mutant: configSaver is set up before the configuration is loaded.
SaversOf_All == Proc

\* configSaver is set up after init_config.
SaversOf == loaded

\* wWinMain returns early: the dialog for the file was cancelled, or create_win
\* failed.
Fail(p) ==
  /\ GiveUp(p)
  /\ leaving' = leaving \cup ({p} \cap SaversOf)
  /\ UNCHANGED <<loaded, knows, early>>

-----------------------------------------------------------------------------
(* A process that runs, and its end.                                       *)

\* save_config: the others no longer know the file, unless the process had no
\* change to make to what was there.
Knowing(p) == IF p \in knows THEN {knows, {p}} ELSE {{p}}

\* The timer of the IPC window.
TimerSave(p) ==
  /\ pc[p] = "loop" /\ ~busy[p]
  /\ knows' \in Knowing(p)
  /\ UNCHANGED <<vars, loaded, leaving, early>>

\* WM_QUIT: the windows are deleted, then the IPC window is destroyed.
Leave(p) ==
  /\ Exit(p)
  /\ leaving' = leaving \cup {p}
  /\ UNCHANGED <<loaded, knows, early>>

\* configSaver, and the end of the process.
ExitSave(p) ==
  /\ p \in leaving
  /\ leaving' = leaving \ {p} /\ loaded' = loaded \ {p}
  /\ \E k \in Knowing(p) : knows' = k \ {p}
  /\ UNCHANGED <<vars, early>>

\* The process is ended from outside.
Die(p) ==
  /\ \/ Exit(p)
     \/ p \in leaving /\ UNCHANGED vars
  /\ leaving' = leaving \ {p} /\ loaded' = loaded \ {p} /\ knows' = knows \ {p}
  /\ UNCHANGED early

Answers(q, p) == Handle(q, p) /\ UNCHANGED configVars

SharedStart(p) ==
  \/ (Find(p) \/ NoAnswer(p) \/ Listen(p)) /\ UNCHANGED configVars
  \/ Load(p) \/ Create(p) \/ Fail(p)

SharedNext ==
  \E p \in Proc :
    \/ SharedStart(p)
    \/ (Launch(p) \/ Stall(p) \/ GoOn(p)) /\ UNCHANGED configVars
    \/ \E q \in Proc : Answers(q, p)
    \/ TimerSave(p) \/ Leave(p) \/ ExitSave(p) \/ Die(p)

SharedSpec == SharedInit /\ [][SharedNext]_sharedVars

\* As in SingleInstance, the user's answers to the start-up dialogs (Load, Create,
\* Fail) included.  A timer's message is dispatched only when there is none
\* that was sent, so saves do not keep an answer waiting.
Heard(p) == \E q \in Proc : Answers(q, p)
Fair(p) == WF_sharedVars(SharedStart(p)) /\ WF_sharedVars(Heard(p))
SharedFairSpec == SharedSpec /\ \A p \in Proc : Fair(p)

-----------------------------------------------------------------------------
(* Properties.                                                             *)

SharedTypeOK ==
  /\ loaded \subseteq Proc /\ leaving \subseteq Proc /\ knows \subseteq Proc
  /\ early \in BOOLEAN

\* Who leaves, or knows the file, has loaded it; who has loaded it runs or
\* leaves; and who runs has loaded it.
Savers ==
  /\ leaving \cup knows \subseteq loaded
  /\ \A p \in loaded : pc[p] \in {"init", "create", "loop"} \/ p \in leaving
  /\ \A p \in leaving : pc[p] = "exited"
  /\ \A p \in Proc : pc[p] \in {"create", "loop"} => p \in loaded

\* Launches wait for one another, are answered in time, and do not slip between
\* the end of an IPC window and the save that follows.
TakingTurns == ~overlap /\ unheard = {} /\ ~early

\* Under these conditions one process at a time uses the file, and knows it.
OneUser ==
  TakingTurns => knows = loaded /\ \A p, q \in loaded : p = q

\* The inductive invariant, with that of SingleInstance.
SharedInv == IndInv /\ SharedTypeOK /\ Savers /\ OneUser

\* No process saves over settings that another one saved since it read the file,
\* as long as launches take turns.
NoLostUpdate ==
  [][\A p \in Proc :
       TakingTurns /\ (TimerSave(p) \/ ExitSave(p)) => p \in knows]_sharedVars

\* The UI threads do not begin to stall again and again: an assumption about the
\* windows they wait for, which the bound on stalls grants in the model and nothing
\* in the program.
StallsStop == <>[][stalls' = stalls]_sharedVars
=============================================================================
