-------------------------- MODULE ConfigStoreProofs --------------------------
(***************************************************************************)
(* Proofs about ConfigStore for every set of settings and every number of  *)
(* failures and runs.                                                      *)
(***************************************************************************)
EXTENDS ConfigStore, TLAPS

\* Counters start within their bounds.
LEMMA Zero == ASSUME NEW m \in Nat PROVE 0 \in 0..m
OBVIOUS

\* What the assumption says of the constants one by one.
LEMMA ConstantTypes == Default \in Settings /\ MaxFails \in Nat /\ MaxRuns \in Nat
BY SettingsAssumption DEF SettingsAssumption, Settings

\* Settings are none of the marks for contents that are not settings.
LEMMA SettingsApart ==
  ASSUME NEW s \in Settings
  PROVE  s # "absent" /\ s # "garbled" /\ s # "unknown"
BY SettingsAssumption DEF SettingsAssumption, Settings

\* The initial states satisfy the inductive invariant.
LEMMA InitIndInv == Init => IndInv
<1> SUFFICES ASSUME Init PROVE IndInv
  OBVIOUS
<1>1. TypeOK
  <2>1. file \in Contents /\ mem \in Settings
    BY ConstantTypes DEF Init
  <2>2. fails \in 0..MaxFails /\ runs \in 0..MaxRuns
    BY ConstantTypes, Zero DEF Init
  <2>3. known \in Contents \cup {"unknown"}
    BY DEF Init
  <2>4. pc \in Places /\ resume \in Places
    BY DEF Init, Places
  <2>5. caller \in {"main", "create"} /\ resets \in {0, 1}
    BY DEF Init
  <2>6. no_main_window \in BOOLEAN /\ inLoop \in BOOLEAN /\ fixed \in BOOLEAN
    BY DEF Init
  <2> QED
    BY <2>1, <2>2, <2>3, <2>4, <2>5, <2>6 DEF TypeOK
<1>2. ResetRecovers /\ ResetLoads /\ SaveTruncates /\ FileKnown
  BY DEF Init, ResetRecovers, ResetLoads, SaveTruncates, FileKnown
<1> QED
  BY <1>1, <1>2 DEF IndInv

\* Every step keeps the inductive invariant.
LEMMA NextIndInv == IndInv /\ [Next]_vars => IndInv'
<1> SUFFICES ASSUME IndInv, [Next]_vars PROVE IndInv'
  OBVIOUS
<1> USE ConstantTypes DEF IndInv, TypeOK, ResetRecovers, ResetLoads,
      SaveTruncates, FileKnown, Contents, Places
<1>1. CASE StartRun
  <2>1. TypeOK'
    <3>1. runs' \in 0..MaxRuns
      BY <1>1 DEF StartRun
    <3>2. pc' \in Places /\ caller' \in {"main", "create"} /\ resets' \in {0, 1}
      BY <1>1 DEF StartRun
    <3>3. /\ no_main_window' \in BOOLEAN /\ inLoop' \in BOOLEAN
          /\ fixed' \in BOOLEAN /\ known' \in Contents \cup {"unknown"}
      BY <1>1 DEF StartRun
    <3>4. UNCHANGED <<file, mem, resume, fails>>
      BY <1>1 DEF StartRun
    <3> QED
      BY <3>1, <3>2, <3>3, <3>4
  <2>2. (ResetRecovers /\ ResetLoads /\ SaveTruncates /\ FileKnown)'
    BY <1>1 DEF StartRun
  <2> QED
    BY <2>1, <2>2
<1>2. CASE Crash
  BY <1>2, SettingsApart DEF Crash
<1>3. CASE EndSave
  BY <1>3, SettingsApart DEF EndSave, Failure
<1>4. CASE TimerSave
  BY <1>4, SettingsApart DEF TimerSave, BeginSave, Failure
<1>5. CASE ExitSave
  BY <1>5, SettingsApart DEF ExitSave, BeginSave, Failure
<1>6. CASE LoadMissing
  BY <1>6, SettingsApart DEF LoadMissing, BeginSave, Failure
<1>7. CASE LoadSettings
  BY <1>7, SettingsApart DEF LoadSettings
<1>8. CASE LoadFails
  BY <1>8, SettingsApart DEF LoadFails, Failure, Unparsed
<1>9. CASE Loaded
  BY <1>9, SettingsApart DEF Loaded
<1>10. CASE DialogCancel
  BY <1>10, SettingsApart DEF DialogCancel, Dialog, GiveUp, LoadGivesUp, WithoutConfig, NoWindow
<1>11. CASE DialogNotepad
  BY <1>11, SettingsApart DEF DialogNotepad, Dialog, Retried
<1>12. CASE DialogReset
  <2>1. CASE pc = "loadDialog"
    <3>1. resets' = 1 /\ caller' = "main"
      BY <1>12, <2>1 DEF DialogReset
    <3> QED
      BY <1>12, <2>1, <3>1 DEF DialogReset
  <2>2. CASE pc = "createDialog"
    BY <1>12, <2>2 DEF DialogReset
  <2> QED
    BY <1>12, <2>1, <2>2 DEF DialogReset, Dialog
<1>13. CASE DialogRetry
  BY <1>13, SettingsApart DEF DialogRetry, Dialog, Retried
<1>14. CASE Create
  BY <1>14, SettingsApart DEF Create
<1>15. CASE StartWithoutWindow
  BY <1>15, SettingsApart DEF StartWithoutWindow
<1>16. CASE OpenWindow
  BY <1>16, SettingsApart DEF OpenWindow
<1>17. CASE ChangeSetting
  BY <1>17, SettingsApart DEF ChangeSetting, Settings
<1>18. CASE QuitLoop
  BY <1>18, SettingsApart DEF QuitLoop
<1>19. CASE HideSave
  BY <1>19, SettingsApart DEF HideSave, BeginSave, Failure, Settings
<1>20. CASE UNCHANGED vars
  BY <1>20 DEF vars
<1>21. QED
  BY <1>1, <1>2, <1>3, <1>4, <1>5, <1>6, <1>7, <1>8, <1>9, <1>10, <1>11, <1>12, <1>13, <1>14, <1>15, <1>16, <1>17, <1>18, <1>19, <1>20 DEF Next

\* Every state satisfies the inductive invariant.
THEOREM Invariant == Spec => []IndInv
<1>1. Init => IndInv
  BY InitIndInv
<1>2. IndInv /\ [Next]_vars => IndInv'
  BY NextIndInv
<1> QED
  BY <1>1, <1>2, PTL DEF Spec

\* The variables keep their types.
THEOREM TypeCorrect == Spec => []TypeOK
<1>1. IndInv => TypeOK
  BY DEF IndInv
<1> QED
  BY <1>1, Invariant, PTL

\* A load that follows a reset never ends in the error dialog again.
THEOREM ResetRecoversHolds == Spec => []ResetRecovers
<1>1. IndInv => ResetRecovers
  BY DEF IndInv
<1> QED
  BY <1>1, Invariant, PTL

\* A save begins only in the timer's handler, when a window is first hidden, in
\* configSaver, or in a load_config that found no file.
LEMMA OnlySaversOverwrite ==
  ASSUME TypeOK, Next, Overwrites
  PROVE  pc \in {"run", "createDialog", "exit"} \/ file = "absent"
<1> USE DEF Overwrites
<1>1. CASE StartRun
  BY <1>1 DEF StartRun
<1>2. CASE Crash
  BY <1>2 DEF Crash
<1>3. CASE EndSave
  BY <1>3 DEF EndSave, Failure, TypeOK
<1>4. CASE TimerSave
  BY <1>4 DEF TimerSave, BeginSave, Failure
<1>5. CASE ExitSave
  BY <1>5 DEF ExitSave, BeginSave, Failure
<1>6. CASE LoadMissing
  BY <1>6 DEF LoadMissing, BeginSave, Failure
<1>7. CASE LoadSettings
  BY <1>7 DEF LoadSettings
<1>8. CASE LoadFails
  BY <1>8 DEF LoadFails, Failure, Unparsed
<1>9. CASE Loaded
  BY <1>9 DEF Loaded
<1>10. CASE DialogCancel
  BY <1>10 DEF DialogCancel, Dialog, GiveUp, LoadGivesUp, WithoutConfig, NoWindow
<1>11. CASE DialogNotepad
  BY <1>11 DEF DialogNotepad, Dialog, Retried
<1>12. CASE DialogReset
  BY <1>12 DEF DialogReset, Dialog
<1>13. CASE DialogRetry
  BY <1>13 DEF DialogRetry, Dialog, Retried
<1>14. CASE Create
  BY <1>14 DEF Create
<1>15. CASE StartWithoutWindow
  BY <1>15 DEF StartWithoutWindow
<1>16. CASE OpenWindow
  BY <1>16 DEF OpenWindow
<1>17. CASE ChangeSetting
  BY <1>17 DEF ChangeSetting
<1>18. CASE QuitLoop
  BY <1>18 DEF QuitLoop
<1>19. CASE HideSave
  BY <1>19 DEF HideSave, BeginSave, Failure
<1>20. QED
  BY <1>1, <1>2, <1>3, <1>4, <1>5, <1>6, <1>7, <1>8, <1>9, <1>10, <1>11, <1>12, <1>13, <1>14, <1>15, <1>16, <1>17, <1>18, <1>19 DEF Next

\* Unless it was opened for repair from the dialog of create_win, the process
\* overwrites only what it has read or written itself.
THEOREM NoBlindOverwriteUnlessFixedHolds == Spec => NoBlindOverwriteUnlessFixed
<1>1. IndInv /\ [Next]_vars
        => [Overwrites /\ ~fixed => file \in {known, "absent"}]_vars
  <2> SUFFICES ASSUME IndInv, Next, Overwrites, ~fixed
               PROVE  file \in {known, "absent"}
    OBVIOUS
  <2>1. pc \in {"run", "createDialog", "exit"} \/ file = "absent"
    BY OnlySaversOverwrite DEF IndInv
  <2> QED
    BY <2>1 DEF IndInv, FileKnown
<1> QED
  BY <1>1, Invariant, PTL DEF Spec, NoBlindOverwriteUnlessFixed

-----------------------------------------------------------------------------
(* Liveness, from fairness and from the UI thread's being able to go on.   *)

\* Where the UI thread can be while a setting has not been changed again.
Unsaved(s) ==
  /\ mem = s
  /\ \/ pc = "run" /\ inLoop
     \/ pc = "saving" /\ resume = "run" /\ inLoop
     \/ pc = "exit"
     \/ pc = "saving" /\ resume = "off"

\* How that ends.
Reached(s) == file = s \/ mem # s \/ pc = "off"

\* The loop runs, and a save from it returns to it, only after it was entered.
LoopEntered == pc = "run" \/ (pc = "saving" /\ resume = "run") => inLoop = TRUE

\* It holds in every state.
LEMMA LoopEnteredHolds == Spec => []LoopEntered
<1>1. Init => LoopEntered
  BY DEF Init, LoopEntered
<1>2. IndInv /\ LoopEntered /\ [Next]_vars => LoopEntered'
  <2> SUFFICES ASSUME IndInv, LoopEntered, [Next]_vars PROVE LoopEntered'
    OBVIOUS
  <2>0. inLoop \in BOOLEAN
    BY DEF IndInv, TypeOK
  <2> USE DEF LoopEntered
  <2>1. CASE StartRun \/ Crash
    BY <2>1 DEF StartRun, Crash
  <2>2. CASE EndSave
    BY <2>2 DEF EndSave
  <2>3. CASE TimerSave \/ HideSave \/ ExitSave
    BY <2>0, <2>3 DEF TimerSave, HideSave, ExitSave, BeginSave
  <2>4. CASE LoadMissing \/ LoadSettings \/ LoadFails \/ Loaded
    BY <2>4 DEF LoadMissing, LoadSettings, LoadFails, Loaded, BeginSave
  <2>5. CASE DialogCancel
    BY <2>5 DEF DialogCancel, GiveUp, LoadGivesUp, NoWindow, WithoutConfig
  <2>6. CASE DialogNotepad \/ DialogReset \/ DialogRetry
    BY <2>6 DEF DialogNotepad, DialogReset, DialogRetry, Retried
  <2>7. CASE Create \/ StartWithoutWindow \/ OpenWindow \/ ChangeSetting \/ QuitLoop
    BY <2>7 DEF Create, StartWithoutWindow, OpenWindow, ChangeSetting, QuitLoop
  <2>8. CASE UNCHANGED vars
    BY <2>8 DEF vars
  <2> QED
    BY <2>1, <2>2, <2>3, <2>4, <2>5, <2>6, <2>7, <2>8 DEF Next
<1> QED
  BY <1>1, <1>2, Invariant, PTL DEF Spec

\* What may happen to a setting that is not in the file yet.
LEMMA UnsavedStep ==
  ASSUME IndInv, Next, NEW s \in Usable, Unsaved(s), ~Reached(s), ~Reached(s)'
  PROVE  /\ Unsaved(s)' /\ mem' = s
         /\ \/ pc' = pc /\ resume' = resume
            \/ pc = "run" /\ pc' = "saving" /\ resume' = "run"
            \/ pc = "saving" /\ resume = "run" /\ pc' = "run" /\ fails' = fails + 1
            \/ pc = "run" /\ pc' = "exit"
            \/ pc = "exit" /\ pc' = "saving" /\ resume' = "off"
<1>1. mem = s /\ mem' = s /\ pc' # "off" /\ file' # s /\ s \notin Mistyped
  BY SettingsAssumption DEF Unsaved, Reached
<1>2. CASE EndSave
  BY <1>1, <1>2 DEF EndSave, Failure, Unsaved, Reached
<1>3. CASE TimerSave \/ HideSave
  BY <1>1, <1>3 DEF TimerSave, HideSave, BeginSave, Failure, Unsaved, Reached
<1>4. CASE ExitSave
  BY <1>1, <1>4 DEF ExitSave, BeginSave, Unsaved
<1>5. CASE ChangeSetting \/ QuitLoop
  BY <1>1, <1>5 DEF ChangeSetting, QuitLoop, Unsaved
<1>6. ~StartRun /\ ~Crash /\ ~OpenWindow
  BY <1>1 DEF StartRun, Crash, OpenWindow, Unsaved
<1>7. ~LoadMissing /\ ~LoadSettings /\ ~LoadFails /\ ~Loaded /\ ~Create /\ ~StartWithoutWindow
  BY DEF LoadMissing, LoadSettings, LoadFails, Loaded, Create, StartWithoutWindow, Unsaved
<1>8. ~DialogCancel /\ ~DialogNotepad /\ ~DialogReset /\ ~DialogRetry
  BY DEF DialogCancel, DialogNotepad, DialogReset, DialogRetry, Dialog, Unsaved
<1> QED
  BY <1>2, <1>3, <1>4, <1>5, <1>6, <1>7, <1>8 DEF Next

\* The timer fires in the loop, and a save that was begun goes on.
TimerFires == []<>~(pc = "run" /\ inLoop) \/ []<><<TimerSave>>_vars
SaveGoesOn ==
  /\ []<>(pc # "saving") \/ []<><<EndSave>>_vars
  /\ []<>(pc # "exit") \/ []<><<ExitSave>>_vars

\* That is the fairness of the model, wherever the next step is possible.
LEMMA FairSaves ==
  /\ Fairness
  /\ [](pc = "run" /\ inLoop => ENABLED <<TimerSave>>_vars)
  /\ [](~(pc # "saving") => ENABLED <<EndSave>>_vars)
  /\ [](~(pc # "exit") => ENABLED <<ExitSave>>_vars)
  => TimerFires /\ SaveGoesOn
BY PTL DEF Fairness, TimerFires, SaveGoesOn

\* The timer brings every setting to the file, unless it is changed again or the
\* process ends first, as soon as the file system no longer fails.
THEOREM SettingsReachFileHolds ==
  Spec /\ TimerFires /\ SaveGoesOn /\ FailuresStop => SettingsReachFile
<1> DEFINE Loop(s) == mem = s /\ pc = "run" /\ inLoop
           Saving(s) == mem = s /\ pc = "saving" /\ resume = "run" /\ inLoop
           Exit(s) == mem = s /\ pc = "exit"
           Last(s) == mem = s /\ pc = "saving" /\ resume = "off"
<1>1. SUFFICES ASSUME NEW s \in Usable
               PROVE  Spec /\ TimerFires /\ SaveGoesOn /\ FailuresStop => ReachesFile(s)
  <2>1. \A s \in Usable :
          Spec /\ TimerFires /\ SaveGoesOn /\ FailuresStop => ReachesFile(s)
    BY <1>1
  <2> QED
    BY <2>1 DEF SettingsReachFile
<1>2. LoopEntered /\ pc = "run" /\ mem = s => Loop(s)
  BY DEF LoopEntered
<1>3. ASSUME IndInv, [Next]_vars, Loop(s)
      PROVE  Loop(s)' \/ Saving(s)' \/ Exit(s)' \/ Reached(s) \/ Reached(s)'
  BY <1>3, UnsavedStep DEF vars, Unsaved
<1>4. ASSUME IndInv, [Next]_vars, Saving(s)
      PROVE  /\ Saving(s)' \/ Loop(s)' \/ Reached(s) \/ Reached(s)'
             /\ [fails' = fails]_vars => Saving(s)' \/ Reached(s) \/ Reached(s)'
  <2>1. fails \in Nat
    BY <1>4, SettingsAssumption DEF IndInv, TypeOK
  <2>2. CASE UNCHANGED vars
    BY <1>4, <2>2 DEF vars
  <2>3. CASE Next /\ (Reached(s) \/ Reached(s)')
    BY <2>3
  <2>4. CASE Next /\ ~Reached(s) /\ ~Reached(s)'
    <3>1. /\ Unsaved(s)' /\ mem' = s
          /\ (pc' = pc /\ resume' = resume) \/ (pc' = "run" /\ fails' = fails + 1)
      BY <1>4, <2>4, UnsavedStep DEF Unsaved
    <3>2. fails' = fails + 1 => ~[fails' = fails]_vars
      BY <2>1 DEF vars
    <3> QED
      BY <1>4, <3>1, <3>2 DEF Unsaved
  <2> QED
    BY <1>4, <2>2, <2>3, <2>4
<1>5. ASSUME IndInv, [Next]_vars, Exit(s)
      PROVE  Exit(s)' \/ Last(s)' \/ Reached(s) \/ Reached(s)'
  BY <1>5, UnsavedStep DEF vars, Unsaved
<1>6. ASSUME IndInv, [Next]_vars, Last(s)
      PROVE  Last(s)' \/ Reached(s) \/ Reached(s)'
  BY <1>6, UnsavedStep DEF vars, Unsaved
<1>7. ASSUME Loop(s), <<TimerSave>>_vars, [fails' = fails]_vars, IndInv
      PROVE  Saving(s)'
  BY <1>7 DEF TimerSave, BeginSave, Failure, IndInv, TypeOK
<1>8. ASSUME Saving(s), <<EndSave>>_vars, [fails' = fails]_vars, IndInv
      PROVE  Reached(s)'
  BY <1>8 DEF EndSave, Failure, IndInv, TypeOK, Reached
<1>9. ASSUME Exit(s), <<ExitSave>>_vars
      PROVE  Last(s)' \/ Reached(s)'
  BY <1>9 DEF ExitSave, BeginSave, Reached
<1>10. ASSUME Last(s), <<EndSave>>_vars
       PROVE  Reached(s)'
  BY <1>10 DEF EndSave, Reached
<1>11. /\ Loop(s) => pc = "run" /\ inLoop
       /\ Saving(s) \/ Last(s) => ~(pc # "saving")
       /\ Exit(s) => ~(pc # "exit")
  OBVIOUS
<1>12. ReachesFile(s) <=> (pc = "run" /\ mem = s ~> Reached(s))
  BY DEF ReachesFile, Reached
<1> HIDE DEF Loop, Saving, Exit, Last
<1> QED
  BY <1>2, <1>3, <1>4, <1>5, <1>6, <1>7, <1>8, <1>9, <1>10, <1>11, <1>12,
     Invariant, LoopEnteredHolds, PTL DEF TimerFires, SaveGoesOn, Spec, FailuresStop
=============================================================================
