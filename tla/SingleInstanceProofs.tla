------------------------ MODULE SingleInstanceProofs ------------------------
(***************************************************************************)
(* Proofs about SingleInstance, and about SharedConfig, which extends it,  *)
(* for any number of launches.                                             *)
(***************************************************************************)
EXTENDS SharedConfig, TLAPS

\* The initial state satisfies the inductive invariant.
LEMMA InitIndInv == Init => IndInv
<1> SUFFICES ASSUME Init PROVE IndInv
  OBVIOUS
<1>1. TypeOK
  <2>1. stalls \in 0..MaxBusy
    BY BusyAssumption DEF Init
  <2>2. served \in [Proc -> Nat] /\ pc \in [Proc -> Places]
    BY DEF Init, Places
  <2> QED
    BY <2>1, <2>2 DEF Init, TypeOK
<1>2. OneProcess /\ OneAtATime
  BY DEF Init, OneProcess, OneAtATime, Listening, Starting
<1>3. MessageOfWaiting /\ WindowsPerLaunch
  BY DEF Init, MessageOfWaiting, WindowsPerLaunch
<1> QED
  BY <1>1, <1>2, <1>3 DEF IndInv

\* Types: one step per action.
LEMMA NextType == TypeOK /\ [Next]_vars => TypeOK'
<1> SUFFICES ASSUME TypeOK, [Next]_vars PROVE TypeOK'
  OBVIOUS
<1> USE BusyAssumption DEF TypeOK, Goto, Serve, Places
<1>1. ASSUME NEW p \in Proc, Launch(p) PROVE TypeOK'
  BY <1>1 DEF Launch
<1>2. ASSUME NEW p \in Proc, Find(p) PROVE TypeOK'
  BY <1>2 DEF Find, Found, Listening
<1>3. ASSUME NEW p \in Proc, NoAnswer(p) PROVE TypeOK'
  BY <1>3 DEF NoAnswer
<1>4. ASSUME NEW p \in Proc, CreateWindow(p) PROVE TypeOK'
  <2>1. served[p] + 1 \in Nat
    OBVIOUS
  <2>2. served' \in [Proc -> Nat] /\ window' \in [Proc -> BOOLEAN]
    <3>1. \/ served' = [served EXCEPT ![p] = @ + 1]
          \/ served' = served
      BY <1>4 DEF CreateWindow
    <3>2. window' \in [Proc -> BOOLEAN]
      BY <1>4 DEF CreateWindow
    <3> QED
      BY <2>1, <3>1, <3>2
  <2> QED
    BY <1>4, <2>2 DEF CreateWindow
<1>5. ASSUME NEW p \in Proc, GiveUp(p) PROVE TypeOK'
  BY <1>5 DEF GiveUp
<1>6. ASSUME NEW p \in Proc, Listen(p) PROVE TypeOK'
  BY <1>6 DEF Listen
<1>7. ASSUME NEW p \in Proc, NEW q \in Proc, Handle(q, p) PROVE TypeOK'
  <2>1. served[p] + 1 \in Nat
    OBVIOUS
  <2>2. served' \in [Proc -> Nat] /\ window' \in [Proc -> BOOLEAN]
    <3>1. \/ served' = [served EXCEPT ![p] = @ + 1]
          \/ served' = served
      BY <1>7 DEF Handle
    <3>2. window' \in [Proc -> BOOLEAN]
      BY <1>7 DEF Handle
    <3> QED
      BY <2>1, <3>1, <3>2
  <2>3. pc' \in [Proc -> Places] /\ inbox' \in [Proc -> SUBSET Proc]
    BY <1>7 DEF Handle, Answer
  <2> QED
    BY <1>7, <2>2, <2>3 DEF Handle
<1>8. ASSUME NEW p \in Proc, Stall(p) PROVE TypeOK'
  BY <1>8 DEF Stall
<1>9. ASSUME NEW p \in Proc, GoOn(p) PROVE TypeOK'
  BY <1>9 DEF GoOn
<1>10. ASSUME NEW p \in Proc, Exit(p) PROVE TypeOK'
  BY <1>10 DEF Exit
<1>11. CASE UNCHANGED vars
  BY <1>11 DEF vars
<1> QED
  BY <1>1, <1>2, <1>3, <1>4, <1>5, <1>6, <1>7, <1>8, <1>9, <1>10, <1>11 DEF Next, Start

\* Launches that take turns find the one process there is.
LEMMA NextOneProcess ==
  TypeOK /\ OneProcess /\ OneAtATime /\ [Next]_vars => OneProcess' /\ OneAtATime'
<1> SUFFICES ASSUME TypeOK, OneProcess, OneAtATime, [Next]_vars,
                    ~overlap'
             PROVE  /\ \A a, b \in (Listening \ unheard)' : a = b
                    /\ \A a, b \in Starting' : a = b
                    /\ \A a \in Proc \ unheard' : pc'[a] \in {"init", "create"} => Listening' = {}
  BY DEF OneProcess, OneAtATime
<1> USE DEF TypeOK, OneProcess, OneAtATime, Goto, Serve, Listening, Starting
<1>1. CASE \E p \in Proc : Launch(p)
  <2>1. PICK p \in Proc : Launch(p)
    BY <1>1
  <2>2. \A a \in Proc : pc[a] \notin {"find", "wait", "init", "create"}
    BY <2>1 DEF Launch
  <2>3. \A a \in Proc : pc'[a] = IF a = p THEN "find" ELSE pc[a]
    BY <2>1 DEF Launch
  <2>4. Listening' = Listening /\ ~overlap /\ unheard' = unheard
    BY <2>1, <2>3 DEF Launch
  <2> QED
    BY <2>2, <2>3, <2>4
<1>2. CASE \E p \in Proc : Find(p)
  BY <1>2 DEF Find, Found
<1>3. CASE \E p \in Proc : NoAnswer(p)
  BY <1>3 DEF NoAnswer
<1>4. CASE \E p \in Proc : CreateWindow(p)
  BY <1>4 DEF CreateWindow
<1>5. CASE \E p \in Proc : GiveUp(p)
  BY <1>5 DEF GiveUp
<1>6. CASE \E p \in Proc : Listen(p)
  BY <1>6 DEF Listen
<1>7. CASE \E p \in Proc : \E q \in Proc : Handle(q, p)
  BY <1>7 DEF Handle, Answer
<1>8. CASE \E p \in Proc : Stall(p) \/ GoOn(p)
  BY <1>8 DEF Stall, GoOn
<1>9. CASE \E p \in Proc : Exit(p)
  BY <1>9 DEF Exit
<1>10. CASE UNCHANGED vars
  BY <1>10 DEF vars
<1> QED
  BY <1>1, <1>2, <1>3, <1>4, <1>5, <1>6, <1>7, <1>8, <1>9, <1>10 DEF Next, Start

\* A launch that did not give up on a process is served by it or serves itself;
\* one that did serves itself, and may be served still.
LEMMA NextWindows ==
  TypeOK /\ MessageOfWaiting /\ WindowsPerLaunch /\ [Next]_vars
    => MessageOfWaiting' /\ WindowsPerLaunch'
<1> DEFINE Windows(a) ==
             /\ a \notin unheard' =>
                  /\ pc'[a] \in {"off", "find", "wait", "init"} => served'[a] = 0
                  /\ served'[a] <= 1
             /\ a \in unheard' =>
                  /\ pc'[a] \in {"init", "create", "loop", "exited"}
                  /\ a \in inbox'[to'[a]] \/ pc'[a] = "init" => served'[a] <= 1
                  /\ a \in inbox'[to'[a]] /\ pc'[a] = "init" => served'[a] = 0
                  /\ served'[a] <= 2
           Mails(a, b) ==
             a \in inbox'[b] => to'[a] = b /\ (pc'[a] = "wait" \/ a \in unheard')
           Goal == \A a \in Proc : Windows(a) /\ \A b \in Proc : Mails(a, b)
<1> SUFFICES ASSUME TypeOK, MessageOfWaiting, WindowsPerLaunch, [Next]_vars, unheard' \subseteq Proc
             PROVE  Goal
  BY NextType DEF TypeOK, MessageOfWaiting, WindowsPerLaunch
<1> USE DEF TypeOK, MessageOfWaiting, WindowsPerLaunch, Goto, Serve
<1>1. ASSUME NEW p \in Proc, Launch(p) PROVE Goal
  BY <1>1 DEF Launch
<1>2. ASSUME NEW p \in Proc, Find(p) PROVE Goal
  BY <1>2 DEF Find, Found, Listening
<1>3. ASSUME NEW p \in Proc, NoAnswer(p) PROVE Goal
  BY <1>3 DEF NoAnswer
<1>4. ASSUME NEW p \in Proc, CreateWindow(p) PROVE Goal
  BY <1>4 DEF CreateWindow
<1>5. ASSUME NEW p \in Proc, GiveUp(p) PROVE Goal
  BY <1>5 DEF GiveUp
<1>6. ASSUME NEW p \in Proc, Listen(p) PROVE Goal
  BY <1>6 DEF Listen
<1>7. ASSUME NEW p \in Proc, NEW q \in Proc, Handle(q, p) PROVE Goal
  BY <1>7 DEF Handle, Answer
<1>8. ASSUME NEW p \in Proc, Stall(p) \/ GoOn(p) PROVE Goal
  BY <1>8 DEF Stall, GoOn
<1>9. ASSUME NEW p \in Proc, Exit(p) PROVE Goal
  BY <1>9 DEF Exit
<1>10. CASE UNCHANGED vars
  BY <1>10 DEF vars
<1> QED
  BY <1>1, <1>2, <1>3, <1>4, <1>5, <1>6, <1>7, <1>8, <1>9, <1>10 DEF Next, Start

\* Every step keeps the inductive invariant.
LEMMA NextIndInv == IndInv /\ [Next]_vars => IndInv'
BY NextType, NextOneProcess, NextWindows DEF IndInv

\* Every state satisfies the inductive invariant.
THEOREM Invariant == Spec => []IndInv
BY InitIndInv, NextIndInv, PTL DEF Spec

\* The variables keep their types.
THEOREM TypeCorrect == Spec => []TypeOK
<1>1. IndInv => TypeOK
  BY DEF IndInv
<1> QED
  BY <1>1, Invariant, PTL

\* Launches that take turns share one process, unless they get no answer in time.
THEOREM OneProcessHolds == Spec => []OneProcess
<1>1. IndInv => OneProcess
  BY DEF IndInv
<1> QED
  BY <1>1, Invariant, PTL

\* A launch shows one window at most, or two if it gave up on a process.
THEOREM WindowsPerLaunchHolds == Spec => []WindowsPerLaunch
<1>1. IndInv => WindowsPerLaunch
  BY DEF IndInv
<1> QED
  BY <1>1, Invariant, PTL

-----------------------------------------------------------------------------
(* The composition with the configuration file.                            *)

\* A step of the composition is a step of SingleInstance or leaves it alone.
LEMMA SharedStep == [SharedNext]_sharedVars => [Next]_vars
<1> SUFFICES ASSUME [SharedNext]_sharedVars PROVE [Next]_vars
  OBVIOUS
<1>1. CASE UNCHANGED sharedVars
  BY <1>1 DEF sharedVars
<1>2. ASSUME NEW p \in Proc, SharedStart(p) PROVE [Next]_vars
  BY <1>2 DEF SharedStart, Load, Create, Fail, Next, Start
<1>3. ASSUME NEW p \in Proc, Launch(p) \/ Stall(p) \/ GoOn(p) PROVE [Next]_vars
  BY <1>3 DEF Next
<1>4. ASSUME NEW p \in Proc, NEW q \in Proc, Answers(q, p) PROVE [Next]_vars
  BY <1>4 DEF Answers, Next
<1>5. ASSUME NEW p \in Proc, TimerSave(p) \/ ExitSave(p) PROVE [Next]_vars
  BY <1>5 DEF TimerSave, ExitSave
<1>6. ASSUME NEW p \in Proc, Leave(p) \/ Die(p) PROVE [Next]_vars
  BY <1>6 DEF Leave, Die, Next
<1> QED
  BY <1>1, <1>2, <1>3, <1>4, <1>5, <1>6 DEF SharedNext

\* What is proved of SingleInstance holds of the composition.
THEOREM SharedImplements == SharedSpec => Spec
<1>1. SharedInit => Init
  BY DEF SharedInit
<1> QED
  BY <1>1, SharedStep, PTL DEF SharedSpec, Spec

\* Nobody has loaded anything at first.
LEMMA InitSharedInv == SharedInit => SharedInv
BY InitIndInv DEF SharedInit, Init, SharedInv, SharedTypeOK, Savers, OneUser, TakingTurns

\* Types and places: who has something to save is on its way, runs, or leaves.
LEMMA NextSavers ==
  IndInv /\ SharedTypeOK /\ Savers /\ [SharedNext]_sharedVars
    => SharedTypeOK' /\ Savers'
<1> SUFFICES ASSUME IndInv, SharedTypeOK, Savers, [SharedNext]_sharedVars
             PROVE  SharedTypeOK' /\ Savers'
  OBVIOUS
<1> USE DEF IndInv, TypeOK, SharedTypeOK, Savers, configVars, Goto
<1>1. ASSUME NEW p \in Proc, Load(p) PROVE SharedTypeOK' /\ Savers'
  BY <1>1 DEF Load, Loading, vars
<1>2. ASSUME NEW p \in Proc, Create(p) PROVE SharedTypeOK' /\ Savers'
  BY <1>2 DEF Create, CreateWindow
<1>3. ASSUME NEW p \in Proc, Fail(p) PROVE SharedTypeOK' /\ Savers'
  BY <1>3 DEF Fail, GiveUp, SaversOf
<1>4. ASSUME NEW p \in Proc, Find(p) \/ NoAnswer(p) \/ Listen(p), UNCHANGED configVars
      PROVE  SharedTypeOK' /\ Savers'
  BY <1>4 DEF Find, NoAnswer, Listen
<1>5. ASSUME NEW p \in Proc, Launch(p) \/ Stall(p) \/ GoOn(p), UNCHANGED configVars
      PROVE  SharedTypeOK' /\ Savers'
  BY <1>5 DEF Launch, Stall, GoOn
<1>6. ASSUME NEW p \in Proc, NEW q \in Proc, Answers(q, p)
      PROVE  SharedTypeOK' /\ Savers'
  BY <1>6 DEF Answers, Handle, Answer
<1>7. ASSUME NEW p \in Proc, TimerSave(p) PROVE SharedTypeOK' /\ Savers'
  BY <1>7 DEF TimerSave, Knowing, vars
<1>8. ASSUME NEW p \in Proc, Leave(p) PROVE SharedTypeOK' /\ Savers'
  BY <1>8 DEF Leave, Exit
<1>9. ASSUME NEW p \in Proc, ExitSave(p) PROVE SharedTypeOK' /\ Savers'
  BY <1>9 DEF ExitSave, Knowing, vars
<1>10. ASSUME NEW p \in Proc, Die(p) PROVE SharedTypeOK' /\ Savers'
  BY <1>10 DEF Die, Exit, vars
<1>11. CASE UNCHANGED sharedVars
  BY <1>11 DEF sharedVars, vars
<1> QED
  BY <1>1, <1>2, <1>3, <1>4, <1>5, <1>6, <1>7, <1>8, <1>9, <1>10, <1>11
  DEF SharedNext, SharedStart

\* One process at a time uses the file: a process loads it only when no other is
\* starting, listening or leaving.
LEMMA NextOneUser ==
  SharedInv /\ [SharedNext]_sharedVars => OneUser'
<1> SUFFICES ASSUME SharedInv, [SharedNext]_sharedVars, TakingTurns'
             PROVE  knows' = loaded' /\ \A a, b \in loaded' : a = b
  BY DEF OneUser
<1> USE DEF SharedInv, SharedTypeOK, Savers, OneUser, TakingTurns, configVars
<1>1. TakingTurns
  <2>1. overlap => overlap'
    BY SharedStep DEF Next, Start, vars, Launch, Find, NoAnswer, CreateWindow, GiveUp,
                      Listen, Handle, Stall, GoOn, Exit
  <2>2. unheard \subseteq unheard'
    BY SharedStep DEF Next, Start, vars, Launch, Find, NoAnswer, CreateWindow, GiveUp,
                      Listen, Handle, Stall, GoOn, Exit
  <2>3. early => early'
    BY DEF SharedNext, SharedStart, Load, Create, Fail, TimerSave, Leave, ExitSave, Die,
           Answers, sharedVars
  <2> QED
    BY <2>1, <2>2, <2>3
<1>2. knows = loaded /\ \A a, b \in loaded : a = b
  BY <1>1
<1>3. ASSUME NEW p \in Proc, Load(p)
      PROVE  knows' = loaded' /\ \A a, b \in loaded' : a = b
  <2>1. leaving = {} /\ pc[p] = "init"
    BY <1>3 DEF Load, Loading
  <2>2. Listening = {} /\ \A a \in Starting : a = p
    BY <1>1, <2>1 DEF IndInv, OneAtATime, Starting
  <2>3. loaded = {}
    BY <1>3, <2>1, <2>2 DEF Load, Loading, Listening, Starting
  <2> QED
    BY <1>3, <1>2, <2>3 DEF Load
<1>4. ASSUME NEW p \in Proc, TimerSave(p)
      PROVE  knows' = loaded' /\ \A a, b \in loaded' : a = b
  <2>1. p \in loaded
    BY <1>4 DEF TimerSave
  <2> QED
    BY <1>4, <1>2, <2>1 DEF TimerSave, Knowing
<1>5. ASSUME NEW p \in Proc, ExitSave(p)
      PROVE  knows' = loaded' /\ \A a, b \in loaded' : a = b
  BY <1>5, <1>2 DEF ExitSave, Knowing
<1>6. ASSUME NEW p \in Proc, Die(p)
      PROVE  knows' = loaded' /\ \A a, b \in loaded' : a = b
  BY <1>6, <1>2 DEF Die
<1>7. CASE UNCHANGED <<loaded, knows>>
  BY <1>7, <1>2
<1> QED
  BY <1>3, <1>4, <1>5, <1>6, <1>7
  DEF SharedNext, SharedStart, Create, Fail, Leave, Answers, sharedVars

\* Every state of the composition satisfies its inductive invariant.
THEOREM SharedInvariant == SharedSpec => []SharedInv
<1>1. SharedInv /\ [SharedNext]_sharedVars => SharedInv'
  BY NextSavers, NextOneUser, NextIndInv, SharedStep DEF SharedInv
<1> QED
  BY <1>1, InitSharedInv, PTL DEF SharedSpec

\* Launches that take turns never save over each other's settings.
THEOREM NoLostUpdateHolds == SharedSpec => NoLostUpdate
<1>1. SharedInv => [\A p \in Proc :
                      TakingTurns /\ (TimerSave(p) \/ ExitSave(p)) => p \in knows]_sharedVars
  BY DEF SharedInv, Savers, OneUser, TimerSave, ExitSave
<1> QED
  BY <1>1, SharedInvariant, PTL DEF NoLostUpdate

-----------------------------------------------------------------------------
(* Liveness, from fairness and from the launches' being able to go on.     *)

\* A message lies with the process that the launch is waiting for, for as long as
\* that one listens; and nowhere else.
Mail ==
  /\ \A p \in Proc : pc[p] = "wait" =>
       pc[to[p]] = "exited" \/ (pc[to[p]] = "loop" /\ p \in inbox[to[p]])
  /\ \A p, q \in Proc : p \in inbox[q] => to[p] = q /\ pc[p] \notin {"off", "find"}

\* It holds in every state.
LEMMA MailHolds == Spec => []Mail
<1>1. Init => Mail
  BY DEF Init, Mail
<1>2. IndInv /\ Mail /\ [Next]_vars => Mail'
  <2> SUFFICES ASSUME IndInv, Mail, [Next]_vars PROVE Mail'
    OBVIOUS
  <2> USE DEF IndInv, TypeOK, Mail, Goto
  <2>1. ASSUME NEW p \in Proc, Launch(p) PROVE Mail'
    BY <2>1 DEF Launch
  <2>2. ASSUME NEW p \in Proc, Find(p) PROVE Mail'
    BY <2>2 DEF Find, Found, Listening
  <2>3. ASSUME NEW p \in Proc, NoAnswer(p) \/ CreateWindow(p) \/ GiveUp(p) \/ Listen(p) PROVE Mail'
    BY <2>3 DEF NoAnswer, CreateWindow, GiveUp, Listen
  <2>4. ASSUME NEW p \in Proc, NEW q \in Proc, Handle(q, p) PROVE Mail'
    BY <2>4 DEF Handle, Answer
  <2>5. ASSUME NEW p \in Proc, Stall(p) \/ GoOn(p) PROVE Mail'
    BY <2>5 DEF Stall, GoOn
  <2>6. ASSUME NEW p \in Proc, Exit(p) PROVE Mail'
    BY <2>6 DEF Exit
  <2>7. CASE UNCHANGED vars
    BY <2>7 DEF vars
  <2> QED
    BY <2>1, <2>2, <2>3, <2>4, <2>5, <2>6, <2>7 DEF Next, Start
<1> QED
  BY <1>1, <1>2, Invariant, PTL DEF Spec

\* Where a waiting launch stands.
Gone(p) == pc[p] = "wait" /\ to[p] \notin Listening
Kept(p) == pc[p] = "wait" /\ to[p] \in Listening /\ busy[to[p]]
Due(p) == pc[p] = "wait" /\ to[p] \in Listening /\ ~busy[to[p]]

\* What may happen to a waiting launch.
LEMMA WaitStep ==
  ASSUME IndInv, Mail, [Next]_vars, NEW p \in Proc, pc[p] = "wait"
  PROVE  /\ pc'[p] \in {"wait", "init", "exited"}
         /\ Gone(p) => Gone(p)' \/ pc'[p] = "init"
         /\ Due(p) /\ stalls' = stalls => Due(p)' \/ Gone(p)' \/ pc'[p] = "exited"
<1> DEFINE Goal == /\ pc'[p] \in {"wait", "init", "exited"}
                   /\ Gone(p) => Gone(p)' \/ pc'[p] = "init"
                   /\ Due(p) /\ stalls' = stalls => Due(p)' \/ Gone(p)' \/ pc'[p] = "exited"
<1> USE DEF IndInv, TypeOK, Mail, Goto, Gone, Due, Listening
<1>1. ASSUME NEW q \in Proc, Launch(q) PROVE Goal
  BY <1>1 DEF Launch
<1>2. ASSUME NEW q \in Proc, Find(q) PROVE Goal
  BY <1>2 DEF Find, Found
<1>3. ASSUME NEW q \in Proc, NoAnswer(q) PROVE Goal
  BY <1>3 DEF NoAnswer, Unanswered
<1>4. ASSUME NEW q \in Proc, CreateWindow(q) \/ GiveUp(q) \/ Listen(q) PROVE Goal
  BY <1>4 DEF CreateWindow, GiveUp, Listen
<1>5. ASSUME NEW q \in Proc, NEW r \in Proc, Handle(r, q) PROVE Goal
  <2>1. to' = to /\ busy' = busy /\ pc[r] = "loop" /\ to[q] = r
    BY <1>5 DEF Handle
  <2>2. CASE pc[q] = "wait"
    <3>1. pc' = [pc EXCEPT ![q] = "exited"]
      BY <1>5, <2>1, <2>2 DEF Handle, Answer
    <3>2. CASE p = q
      BY <2>1, <2>2, <3>1, <3>2
    <3>3. CASE p # q
      BY <2>1, <2>2, <3>1, <3>3
    <3> QED
      BY <3>2, <3>3
  <2>3. CASE pc[q] # "wait"
    BY <1>5, <2>1, <2>3 DEF Handle, Answer
  <2> QED
    BY <2>2, <2>3
<1>6. ASSUME NEW q \in Proc, Stall(q) PROVE Goal
  <2>1. stalls' # stalls /\ pc' = pc /\ to' = to
    BY <1>6, BusyAssumption DEF Stall
  <2> QED
    BY <2>1
<1>7. ASSUME NEW q \in Proc, GoOn(q) \/ Exit(q) PROVE Goal
  BY <1>7 DEF GoOn, Exit
<1>8. ASSUME UNCHANGED vars PROVE Goal
  BY <1>8 DEF vars
<1> QED
  BY <1>1, <1>2, <1>3, <1>4, <1>5, <1>6, <1>7, <1>8 DEF Next, Start

\* What may happen to a launch that is not waiting.
LEMMA PathStep ==
  ASSUME SharedInv, [SharedNext]_sharedVars, NEW p \in Proc
  PROVE  /\ pc[p] = "find" => pc'[p] \in {"find", "wait", "init"}
         /\ pc[p] = "init" => pc'[p] \in {"init", "create", "exited"}
         /\ pc[p] = "init" /\ p \in loaded /\ pc'[p] = "init" => p \in loaded'
         /\ pc[p] = "create" => pc'[p] \in {"create", "loop"}
<1> USE DEF SharedInv, IndInv, TypeOK, Goto, configVars
<1>1. [Next]_vars
  BY SharedStep
<1>2. /\ pc[p] = "find" => pc'[p] \in {"find", "wait", "init"}
      /\ pc[p] = "init" => pc'[p] \in {"init", "create", "exited"}
      /\ pc[p] = "create" => pc'[p] \in {"create", "loop"}
  BY <1>1 DEF Next, Start, vars, Launch, Find, NoAnswer, CreateWindow, GiveUp, Listen,
              Handle, Answer, Stall, GoOn, Exit
<1>3. ASSUME pc[p] = "init", p \in loaded, p \notin loaded' PROVE pc'[p] # "init"
  BY <1>3 DEF SharedNext, SharedStart, Load, Create, Fail, TimerSave, Leave, ExitSave, Die,
              Answers, sharedVars, Savers, Exit
<1> QED
  BY <1>2, <1>3

\* What a fair step of a launch, or of the process it waits for, does.
LEMMA OwnStep ==
  ASSUME SharedInv, Mail, NEW p \in Proc
  PROVE  /\ SharedStart(p) =>
              /\ pc[p] = "find" => pc'[p] \in {"wait", "init"}
              /\ pc[p] = "wait" => pc'[p] = "init"
              /\ pc[p] = "init" => \/ pc'[p] \in {"create", "exited"}
                                   \/ p \notin loaded /\ pc'[p] = "init" /\ p \in loaded'
              /\ pc[p] = "create" => pc'[p] = "loop"
         /\ Heard(p) /\ Due(p) => pc'[p] = "exited"
<1> USE DEF SharedInv, IndInv, TypeOK, Goto
<1>1. ASSUME SharedStart(p)
      PROVE  /\ pc[p] = "find" => pc'[p] \in {"wait", "init"}
             /\ pc[p] = "wait" => pc'[p] = "init"
             /\ pc[p] = "init" => \/ pc'[p] \in {"create", "exited"}
                                  \/ p \notin loaded /\ pc'[p] = "init" /\ p \in loaded'
             /\ pc[p] = "create" => pc'[p] = "loop"
  BY <1>1 DEF SharedStart, Find, NoAnswer, Listen, Load, Loading, Create, CreateWindow, Fail,
              GiveUp, vars
<1>2. ASSUME NEW q \in Proc, Answers(q, p), Due(p) PROVE pc'[p] = "exited"
  BY <1>2 DEF Answers, Handle, Answer, Mail, Due
<1> QED
  BY <1>1, <1>2 DEF Heard

\* A launch goes on in wWinMain, when it is not waiting or will get no answer, and
\* one that will is answered.
OnItsWay(p) == pc[p] \in {"find", "init", "create"} \/ (pc[p] = "wait" /\ Unanswered(p))
Proceeds(p) ==
  /\ []<>~OnItsWay(p) \/ []<><<SharedStart(p)>>_sharedVars
  /\ []<>~Due(p) \/ []<><<Heard(p)>>_sharedVars

\* That is the fairness of the model, wherever the next step is possible.
LEMMA FairProceeds ==
  ASSUME NEW p \in Proc
  PROVE  /\ Fair(p)
         /\ [](OnItsWay(p) => ENABLED <<SharedStart(p)>>_sharedVars)
         /\ [](Due(p) => ENABLED <<Heard(p)>>_sharedVars)
         => Proceeds(p)
BY PTL DEF Fair, Proceeds

\* Once the UI threads do not begin to stall again and again, every launch comes to
\* an end: the process it waits for is gone, or is busy until the launch gives up,
\* or answers.
THEOREM LaunchEndsHolds ==
  SharedSpec /\ (\A p \in Proc : Proceeds(p)) /\ StallsStop => LaunchEnds
<1> DEFINE At(p, place) == pc[p] = place
           Ready(p) == pc[p] = "init" /\ p \in loaded
           Done(p) == pc[p] \in {"loop", "exited"}
<1>1. SUFFICES ASSUME NEW p \in Proc
               PROVE  SharedSpec /\ Proceeds(p) /\ StallsStop => EndsUp(p)
  <2>1. \A p \in Proc : SharedSpec /\ Proceeds(p) /\ StallsStop => EndsUp(p)
    BY <1>1
  <2> QED
    BY <2>1 DEF LaunchEnds
<1>3. SharedSpec => [](SharedInv /\ Mail)
  BY SharedInvariant, SharedImplements, MailHolds, PTL
<1>5. ASSUME SharedInv, Mail, [SharedNext]_sharedVars
      PROVE  /\ At(p, "find") => At(p, "find")' \/ At(p, "wait")' \/ At(p, "init")'
             /\ At(p, "wait") => At(p, "wait")' \/ At(p, "init")' \/ Done(p)'
             /\ Gone(p) => Gone(p)' \/ At(p, "init")'
             /\ Due(p) /\ [stalls' = stalls]_sharedVars => Due(p)' \/ Gone(p)' \/ Done(p)'
             /\ At(p, "init") => At(p, "init")' \/ At(p, "create")' \/ Done(p)'
             /\ Ready(p) => Ready(p)' \/ At(p, "create")' \/ Done(p)'
             /\ At(p, "create") => At(p, "create")' \/ Done(p)'
  <2>1. [Next]_vars /\ ([stalls' = stalls]_sharedVars => stalls' = stalls)
    BY <1>5, SharedStep DEF sharedVars, vars
  <2> QED
    BY <1>5, <2>1, WaitStep, PathStep DEF SharedInv, Due, Gone
<1>6. ASSUME SharedInv, Mail, <<SharedStart(p)>>_sharedVars
      PROVE  /\ At(p, "find") => At(p, "wait")' \/ At(p, "init")'
             /\ At(p, "wait") => At(p, "init")'
             /\ At(p, "init") => Ready(p)' \/ At(p, "create")' \/ Done(p)'
             /\ Ready(p) => At(p, "create")' \/ Done(p)'
             /\ At(p, "create") => Done(p)'
  BY <1>6, OwnStep
<1>7. ASSUME SharedInv, Mail, <<Heard(p)>>_sharedVars, Due(p)
      PROVE  Done(p)'
  BY <1>7, OwnStep
<1>8. At(p, "wait") <=> Gone(p) \/ Kept(p) \/ Due(p)
  BY DEF Gone, Kept, Due
<1>9. At(p, "find") \/ Gone(p) \/ Kept(p) \/ At(p, "init") \/ At(p, "create") => OnItsWay(p)
  BY DEF OnItsWay, Gone, Kept, Unanswered
<1>10. EndsUp(p) <=> (At(p, "find") ~> Done(p))
  BY DEF EndsUp
<1>11. Ready(p) => At(p, "init")
  OBVIOUS
<1> HIDE DEF At, Ready, Done
<1> QED
  BY <1>3, <1>5, <1>6, <1>7, <1>8, <1>9, <1>10, <1>11, PTL
     DEF SharedSpec, Proceeds, StallsStop
=============================================================================
