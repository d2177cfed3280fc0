---------------------------- MODULE ConfigStore ----------------------------
(***************************************************************************)
(* The configuration of the tool: the object app::config in memory, the    *)
(* file it is loaded from and saved to, and the error dialog of            *)
(* handle_error that load_config and create_win share, over any number of  *)
(* runs of one process, any of which may crash.                            *)
(*                                                                         *)
(* The content of the file is abstracted to what the code can tell apart:  *)
(* no file, a file that does not parse (an empty or half-written one       *)
(* included), or settings; settings are usable or make the constructor of  *)
(* a main window throw, because a value has the wrong type.                *)
(*                                                                         *)
(* load_config is called by wWinMain ("main") or, after the user agreed to *)
(* a reset, by handle_error: from the dialog of load_config itself (each   *)
(* such call adds one to resets) or from the dialog of create_win          *)
(* ("create").                                                             *)
(***************************************************************************)
EXTENDS Naturals

CONSTANTS
  Usable,   \* settings a main window can be built from
  Mistyped, \* settings that parse but make create_win throw
  Default,  \* the empty object, usable
  MaxFails, \* bound on failures of the file system
  MaxRuns   \* bound on the runs of the program

ASSUME SettingsAssumption ==
  /\ Default \in Usable
  /\ Usable \cap Mistyped = {}
  /\ {"absent", "garbled", "unknown"} \cap (Usable \cup Mistyped) = {}
  /\ MaxFails \in Nat /\ MaxRuns \in Nat

Settings == Usable \cup Mistyped
Contents == Settings \cup {"absent", "garbled"}

VARIABLES
  file,     \* the content of config.json
  mem,      \* app::config
  pc,       \* where the UI thread is
  caller,   \* who called init_config: "main" or "create"
  resets,   \* nested calls of init_config from the dialog of load_config
  no_main_window, \* this run was started with --no-main-window
  inLoop,   \* wWinMain has entered the message loop
  resume,   \* where a save returns to
  known,    \* history: the content the process last read or wrote
  fixed,    \* history: the file was opened for repair from create_win's dialog,
            \* and not reset since
  fails,    \* failures of the file system so far
  runs      \* runs so far

vars == <<file, mem, pc, caller, resets, no_main_window, inLoop, resume, known,
          fixed, fails, runs>>

Places == {"off", "load", "loadDialog", "loaded", "create", "createDialog", "run", "exit", "saving"}

Init ==
  /\ file \in Contents
  /\ mem = Default
  /\ pc = "off"
  /\ caller = "main"
  /\ resets = 0
  /\ no_main_window = FALSE
  /\ inLoop = FALSE
  /\ resume = "off"
  /\ known = "unknown"
  /\ fixed = FALSE
  /\ fails = 0
  /\ runs = 0

\* Something goes wrong with the file; how often is bounded.
Failure == fails < MaxFails /\ fails' = fails + 1

-----------------------------------------------------------------------------
(* Starting and ending a run.                                              *)

StartRun ==
  /\ pc = "off"
  /\ runs < MaxRuns
  /\ runs' = runs + 1
  /\ pc' = "load" /\ caller' = "main" /\ resets' = 0
  /\ no_main_window' \in BOOLEAN
  /\ inLoop' = FALSE /\ known' = "unknown" /\ fixed' = FALSE
  /\ UNCHANGED <<file, mem, resume, fails>>

\* The process dies; a save that was under way leaves the file truncated.
Crash ==
  /\ pc # "off"
  /\ pc' = "off"
  /\ UNCHANGED <<file, mem, caller, resets, no_main_window, inLoop, resume, known, fixed, fails, runs>>

-----------------------------------------------------------------------------
(* dump_file: fopen with "wb" truncates, fwrite follows; save_config and   *)
(* load_config swallow every exception.                                    *)

\* The save begins, to go on at place next.
BeginSave(next) ==
  \/ /\ file' = "garbled" /\ known' = "garbled"
     /\ pc' = "saving" /\ resume' = next
     /\ UNCHANGED fails
  \/ /\ Failure
     /\ pc' = next
     /\ UNCHANGED <<file, known, resume>>

EndSave ==
  /\ pc = "saving"
  /\ pc' = resume
  /\ \/ file' = mem /\ known' = mem /\ UNCHANGED fails
     \/ Failure /\ UNCHANGED <<file, known>>
  /\ UNCHANGED <<mem, caller, resets, no_main_window, inLoop, resume, fixed, runs>>

\* A mutant: the timer's identifier is not the one onTimer handles.
TimerSave_WrongId == FALSE

\* The ten-second timer of the IPC window; it also runs under a dialog.
TimerSave ==
  /\ pc \in {"run", "createDialog"} /\ inLoop
  /\ BeginSave(pc)
  /\ UNCHANGED <<mem, caller, resets, no_main_window, inLoop, fixed, runs>>

\* The first time a window is hidden, the notification is noted as shown and
\* the configuration is saved at once.
HideSave ==
  /\ pc = "run"
  /\ mem \in Usable
  /\ \E s \in Usable : mem' = s
  /\ BeginSave("run")
  /\ UNCHANGED <<caller, resets, no_main_window, inLoop, fixed, runs>>

\* configSaver, on every way out of wWinMain after init_config succeeded.
ExitSave ==
  /\ pc = "exit"
  /\ BeginSave("off")
  /\ UNCHANGED <<mem, caller, resets, no_main_window, inLoop, fixed, runs>>

-----------------------------------------------------------------------------
(* load_config.                                                            *)

LoadMissing ==
  /\ pc = "load"
  /\ file = "absent"
  /\ mem' = Default
  /\ BeginSave("loaded")
  /\ UNCHANGED <<caller, resets, no_main_window, inLoop, fixed, runs>>

LoadSettings ==
  /\ pc = "load"
  /\ file \in Settings
  /\ mem' = file
  /\ known' = file
  /\ pc' = "loaded"
  /\ UNCHANGED <<file, caller, resets, no_main_window, inLoop, resume, fixed, fails, runs>>

\* A mutant: load_config does not look whether the file exists.
Unparsed_Missing == {"garbled", "absent"}

\* What parse_file throws on.
Unparsed == {"garbled"}

\* The file does not parse, or cannot be read; app::config is already empty.
LoadFails ==
  /\ pc = "load"
  /\ \/ file \in Unparsed /\ UNCHANGED fails
     \/ file # "absent" /\ Failure
  /\ mem' = Default
  /\ pc' = "loadDialog"
  /\ UNCHANGED <<file, caller, resets, no_main_window, inLoop, resume, known, fixed, runs>>

\* load_config returned 0: a reset from its own dialog retries the call that
\* failed, any other caller goes on to create a window.
Loaded ==
  /\ pc = "loaded"
  /\ \/ resets > 0 /\ resets' = resets - 1 /\ pc' = "load"
     \/ resets = 0 /\ pc' = "create" /\ UNCHANGED resets
  /\ UNCHANGED <<file, mem, caller, no_main_window, inLoop, resume, known, fixed, fails, runs>>

\* A mutant: configSaver is set up before init_config.
WithoutConfig_Saves == "exit"

\* Where wWinMain goes when init_config failed: configSaver does not exist yet.
WithoutConfig == "off"

\* create_win returned false: at startup wWinMain returns, in the loop the
\* message handler does.
NoWindow == IF inLoop THEN "run" ELSE "exit"

\* load_config, and every call of it that waits for this one, returned an error.
LoadGivesUp ==
  /\ resets' = 0
  /\ pc' = IF caller = "main" THEN WithoutConfig ELSE NoWindow

-----------------------------------------------------------------------------
(* handle_error.                                                           *)

Dialog == pc \in {"loadDialog", "createDialog"}

\* What the dialog's handler is: load_config or create_win.
Retried == IF pc = "loadDialog" THEN "load" ELSE "create"

\* The dialog, or the step it chose, failed.
GiveUp ==
  IF pc = "loadDialog" THEN LoadGivesUp
                       ELSE pc' = NoWindow /\ UNCHANGED resets

\* Cancel, or a Notepad that does not start, or a file that cannot be deleted.
DialogCancel ==
  /\ Dialog
  /\ GiveUp
  /\ UNCHANGED <<file, mem, caller, no_main_window, inLoop, resume, known, fixed, fails, runs>>

\* OK: Notepad edits the file, the handler is called when it is closed.
DialogNotepad ==
  /\ Dialog
  /\ \E c \in Contents : file' = c
  /\ pc' = Retried
  /\ fixed' = (fixed \/ pc = "createDialog")
  /\ UNCHANGED <<mem, caller, resets, no_main_window, inLoop, resume, known, fails, runs>>

\* Yes: the file is deleted, init_config makes a new one.
DialogReset ==
  /\ Dialog
  /\ file # "absent"
  /\ file' = "absent"
  /\ pc' = "load"
  /\ fixed' = FALSE
  /\ \/ pc = "loadDialog" /\ resets' = resets + 1 /\ UNCHANGED caller
     \/ pc = "createDialog" /\ caller' = "create" /\ resets' = 0
  /\ UNCHANGED <<mem, no_main_window, inLoop, resume, known, fails, runs>>

DialogRetry ==
  /\ Dialog
  /\ pc' = Retried
  /\ UNCHANGED <<file, mem, caller, resets, no_main_window, inLoop, resume, known, fixed, fails, runs>>

-----------------------------------------------------------------------------
(* The rest of wWinMain.                                                   *)

\* create_win: the constructor of the window reads its settings.
Create ==
  /\ pc = "create"
  /\ ~no_main_window \/ inLoop
  /\ \/ mem \in Usable /\ pc' = "run" /\ inLoop' = TRUE
     \/ mem \in Mistyped /\ pc' = "createDialog" /\ UNCHANGED inLoop
  /\ UNCHANGED <<file, mem, caller, resets, no_main_window, resume, known, fixed, fails, runs>>

\* --no-main-window: the loop starts without a window.
StartWithoutWindow ==
  /\ pc = "create"
  /\ no_main_window /\ ~inLoop
  /\ pc' = "run" /\ inLoop' = TRUE
  /\ UNCHANGED <<file, mem, caller, resets, no_main_window, resume, known, fixed, fails, runs>>

\* A launch, Ctrl+N or the tray opens another window.
OpenWindow ==
  /\ pc = "run"
  /\ mem \in Mistyped
  /\ pc' = "createDialog"
  /\ UNCHANGED <<file, mem, caller, resets, no_main_window, inLoop, resume, known, fixed, fails, runs>>

\* A menu command or a closing window stores a setting.
ChangeSetting ==
  /\ pc = "run"
  /\ mem \in Usable
  /\ \E s \in Usable : mem' = s
  /\ UNCHANGED <<file, pc, caller, resets, no_main_window, inLoop, resume, known, fixed, fails, runs>>

QuitLoop ==
  /\ pc = "run"
  /\ pc' = "exit"
  /\ UNCHANGED <<file, mem, caller, resets, no_main_window, inLoop, resume, known, fixed, fails, runs>>

Next ==
  \/ StartRun \/ Crash
  \/ EndSave \/ TimerSave \/ HideSave \/ ExitSave
  \/ LoadMissing \/ LoadSettings \/ LoadFails \/ Loaded
  \/ DialogCancel \/ DialogNotepad \/ DialogReset \/ DialogRetry
  \/ Create \/ StartWithoutWindow \/ OpenWindow \/ ChangeSetting \/ QuitLoop

Spec == Init /\ [][Next]_vars

\* The UI thread goes on with what it is doing, and the timer fires.  What the
\* user does with a dialog or a menu, and when the process ends, is open.
Fairness ==
  /\ WF_vars(EndSave) /\ WF_vars(TimerSave) /\ WF_vars(ExitSave)
  /\ WF_vars(LoadMissing \/ LoadSettings \/ LoadFails \/ Loaded)
  /\ WF_vars(Create)

FairSpec == Spec /\ Fairness

-----------------------------------------------------------------------------
(* Properties.                                                             *)

TypeOK ==
  /\ file \in Contents
  /\ mem \in Settings
  /\ pc \in Places /\ resume \in Places
  /\ caller \in {"main", "create"}
  /\ resets \in {0, 1}
  /\ no_main_window \in BOOLEAN /\ inLoop \in BOOLEAN
  /\ known \in Contents \cup {"unknown"}
  /\ fixed \in BOOLEAN
  /\ fails \in 0..MaxFails /\ runs \in 0..MaxRuns

\* A reset recovers: the load it starts never ends in the dialog again, so
\* handle_error, init_config and load_config are never nested more than once.
ResetRecovers == pc = "loadDialog" => resets = 0 /\ caller = "main"

\* A load that follows a reset finds no file; its caller is remembered only
\* until it returns.
ResetLoads ==
  /\ pc = "load" /\ (resets = 1 \/ caller = "create") => file = "absent"
  /\ caller = "create" => resets = 0
  /\ resets = 1 => pc \in {"load", "loaded", "saving", "off"}
  /\ resets = 1 /\ pc = "saving" => resume = "loaded"

\* Half-way through a save the file is truncated, and no place of the startup
\* is returned to but the one after load_config.
SaveTruncates ==
  /\ pc = "saving" => file = "garbled" /\ known = "garbled"
  /\ resume \in {"off", "loaded", "run", "createDialog"}

\* Once load_config has succeeded the file holds what the process last read or
\* wrote, or is missing, unless it was opened for repair since.
FileKnown ==
  pc \in {"loaded", "create", "createDialog", "run", "exit"} /\ ~fixed
    => file \in {known, "absent"}

\* The inductive invariant.
IndInv == TypeOK /\ ResetRecovers /\ ResetLoads /\ SaveTruncates /\ FileKnown

\* A save begins: save_config, or the default file of load_config.
Overwrites == pc # "saving" /\ pc' = "saving"

\* What the file holds is never overwritten by a process that has not read or
\* written it, unless its user opened it for repair from the dialog of
\* create_win: in particular a file that does not parse, or that the user
\* repaired from the dialog of load_config, survives a Cancel.
NoBlindOverwriteUnlessFixed ==
  [][Overwrites /\ ~fixed => file \in {known, "absent"}]_vars

\* The same without the exception: "You can also try to open the configuration
\* file to fix the error ... To open it to fix the error, click OK" (the dialog
\* of handle_error, main.cpp:60-63).  A repair would be worth nothing if the
\* process overwrote it with the settings the user has just corrected.
NoBlindOverwrite == [][Overwrites => file \in {known, "absent"}]_vars

\* The timer brings every setting to the file, unless it changes again or the
\* process ends first.
ReachesFile(s) == pc = "run" /\ mem = s ~> file = s \/ mem # s \/ pc = "off"
SettingsReachFile == \A s \in Usable : ReachesFile(s)

\* The file system does not fail for ever: an assumption about the environment,
\* which the bound on failures grants in the model and nothing in the program.
FailuresStop == <>[][fails' = fails]_vars
=============================================================================
