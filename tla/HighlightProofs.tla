-------------------------- MODULE HighlightProofs --------------------------
(***************************************************************************)
(* Proofs about Highlight for any number of finders, detached threads,     *)
(* rounds and rectangles.                                                  *)
(***************************************************************************)
EXTENDS Highlight, TLAPS

\* The initial state satisfies the inductive invariant.
LEMMA InitIndInv == Init => IndInv
<1> SUFFICES ASSUME Init PROVE IndInv
  OBVIOUS
<1>1. TypeOK
  BY DEF Init, TypeOK, Places, Frames
<1>2. CallsOfCallers
  BY DEF Init, CallsOfCallers
<1>3. Alone
  BY DEF Init, Alone, Busy, Consistent
<1> QED
  BY <1>1, <1>2, <1>3 DEF IndInv

\* The rounds left to a caller, and its places, are the only thing a step of
\* HighlightWindow changes of a thread, and only of its own.
LEMMA StepIsOwn ==
  ASSUME TypeOK, CallsOfCallers, NEW t \in Threads, Step(t)
  PROVE  /\ Busy(t) /\ pc[t] # "idle"
         /\ overlap' = overlap
         /\ \E p \in Places : pc' = [pc EXCEPT ![t] = p]
         /\ \/ /\ UNCHANGED <<left, erasing, rcCurrent, hasTarget, abandoned>>
               /\ pc[t] \notin {"remember"} /\ pc'[t] # "idle"
            \/ /\ pc'[t] = "idle"
               /\ left' = IF erasing[t] THEN [left EXCEPT ![t] = @ - 1] ELSE left
               /\ erasing' = [erasing EXCEPT ![t] = t \in Flashers /\ ~erasing[t]]
               /\ rcCurrent' = [rcCurrent EXCEPT ![t] = Empty]
               /\ hasTarget' = [hasTarget EXCEPT ![t] = FALSE]
               /\ abandoned' = (abandoned /\ ~erasing[t])
<1> USE DEF TypeOK, Goto, Places
<1>1. pc[t] # "idle"
  BY DEF Step, Compare, Old, EraseOld, Forget, New, DrawNew, Remember
<1>2. Busy(t)
  BY <1>1 DEF CallsOfCallers
<1>3. CASE Compare(t)
  BY <1>1, <1>2, <1>3 DEF Compare, Return
<1>4. CASE Old(t)
  BY <1>1, <1>2, <1>4 DEF Old
<1>5. CASE EraseOld(t)
  BY <1>1, <1>2, <1>5 DEF EraseOld
<1>6. CASE Forget(t)
  BY <1>1, <1>2, <1>6 DEF Forget
<1>7. CASE New(t)
  BY <1>1, <1>2, <1>7 DEF New, Return
<1>8. CASE DrawNew(t)
  BY <1>1, <1>2, <1>8 DEF DrawNew
<1>9. CASE Remember(t)
  BY <1>1, <1>2, <1>9 DEF Remember, Return
<1> QED
  BY <1>3, <1>4, <1>5, <1>6, <1>7, <1>8, <1>9 DEF Step

\* Drawing keeps the screen a set of frames.
LEMMA RectangleType ==
  ASSUME TypeOK, NEW r \in Rects \cup {Empty}, Rectangle(r)
  PROVE  screen' \subseteq Frames
<1>1. CASE r = Empty
  BY <1>1 DEF Rectangle, TypeOK
<1>2. CASE r # Empty
  <2>1. <<r, g_lastPen>> \in Frames
    BY <1>2 DEF TypeOK, Frames
  <2> QED
    BY <1>2, <2>1 DEF Rectangle, TypeOK
<1> QED
  BY <1>1, <1>2

\* A step keeps the types of the globals and of the screen.
LEMMA StepGlobalsType ==
  ASSUME TypeOK, NEW t \in Threads, Step(t)
  PROVE  /\ g_lastRect' \in Rects \cup {Empty} /\ g_lastPen' \in BOOLEAN
         /\ g_lastStyle' \in BOOLEAN /\ screen' \subseteq Frames
<1>1. CASE Compare(t)
  BY <1>1 DEF Compare, globals, TypeOK
<1>2. CASE Old(t)
  BY <1>2 DEF Old, globals, TypeOK
<1>3. CASE EraseOld(t)
  BY <1>3, RectangleType DEF EraseOld, globals, TypeOK
<1>4. CASE Forget(t)
  BY <1>4 DEF Forget, TypeOK
<1>5. CASE New(t)
  BY <1>5 DEF New, TypeOK
<1>6. CASE DrawNew(t)
  <2>1. rcCurrent[t] \in Rects \cup {Empty}
    BY DEF TypeOK
  <2> QED
    BY <1>6, <2>1, RectangleType DEF DrawNew, globals, TypeOK
<1>7. CASE Remember(t)
  BY <1>7 DEF Remember, TypeOK
<1> QED
  BY <1>1, <1>2, <1>3, <1>4, <1>5, <1>6, <1>7 DEF Step

\* A step keeps all types.
LEMMA StepType ==
  ASSUME TypeOK, CallsOfCallers, NEW t \in Threads, Step(t)
  PROVE  TypeOK'
<1>1. /\ g_lastRect' \in Rects \cup {Empty} /\ g_lastPen' \in BOOLEAN
      /\ g_lastStyle' \in BOOLEAN /\ screen' \subseteq Frames
  BY StepGlobalsType
<1>2. /\ pc' \in [Threads -> Places] /\ overlap' \in BOOLEAN
      /\ rcCurrent' \in [Threads -> Rects \cup {Empty}]
      /\ hasTarget' \in [Threads -> BOOLEAN]
  <2>1. pc' \in [Threads -> Places] /\ overlap' \in BOOLEAN
    BY StepIsOwn DEF TypeOK
  <2>2. rcCurrent' \in [Threads -> Rects \cup {Empty}]
    <3>1. rcCurrent' = rcCurrent \/ rcCurrent' = [rcCurrent EXCEPT ![t] = Empty]
      BY StepIsOwn
    <3> QED
      BY <3>1 DEF TypeOK
  <2>3. hasTarget' \in [Threads -> BOOLEAN]
    <3>1. hasTarget' = hasTarget \/ hasTarget' = [hasTarget EXCEPT ![t] = FALSE]
      BY StepIsOwn
    <3> QED
      BY <3>1 DEF TypeOK
  <2> QED
    BY <2>1, <2>2, <2>3
<1>3. left' \in [Threads -> Nat]
  <2>1. left[t] \in Nat /\ left[t] > 0
    BY StepIsOwn DEF TypeOK, Busy
  <2>2. left[t] - 1 \in Nat
    BY <2>1
  <2> QED
    BY <2>2, StepIsOwn DEF TypeOK
<1>4. erasing' \in [Threads -> BOOLEAN]
  <2>1. (t \in Flashers /\ ~erasing[t]) \in BOOLEAN
    OBVIOUS
  <2> QED
    BY <2>1, StepIsOwn DEF TypeOK
<1>5. abandoned' \in BOOLEAN
  BY StepIsOwn DEF TypeOK
<1> QED
  BY <1>1, <1>2, <1>3, <1>4, <1>5 DEF TypeOK

\* A step keeps the relation between a caller and its calls.
LEMMA StepCalls ==
  ASSUME TypeOK, CallsOfCallers, NEW t \in Threads, Step(t)
  PROVE  CallsOfCallers'
<1> SUFFICES ASSUME NEW u \in Threads
             PROVE  /\ pc'[u] # "idle" => Busy(u)' /\ (erasing'[u] => ~hasTarget'[u])
                    /\ pc'[u] = "idle" /\ u \in Finders => ~erasing'[u]
  BY DEF CallsOfCallers
<1>1. CASE u # t
  <2>1. pc'[u] = pc[u] /\ left'[u] = left[u] /\ erasing'[u] = erasing[u]
        /\ hasTarget'[u] = hasTarget[u]
    BY <1>1, StepIsOwn DEF TypeOK
  <2> QED
    BY <2>1 DEF CallsOfCallers, Busy
<1>2. CASE u = t
  <2>1. CASE pc'[t] # "idle"
    BY <1>2, <2>1, StepIsOwn DEF CallsOfCallers, Busy
  <2>2. CASE pc'[t] = "idle"
    BY <1>2, <2>2, StepIsOwn, CallersAssumption DEF TypeOK
  <2> QED
    BY <1>2, <2>1, <2>2
<1> QED
  BY <1>1, <1>2

\* What a step does to the one caller of an undisturbed run.
LEMMA StepAt ==
  ASSUME TypeOK, CallsOfCallers, NEW t \in Threads, Step(t), At(t), TypeOK'
  PROVE  At(t)' /\ (pc'[t] = "idle" /\ ~hasTarget[t] => g_lastRect' = Empty /\ screen' = {})
<1> USE DEF Goto, globals
<1>1. CASE Compare(t)
  <2>1. CASE Same(t)
    <3>1. hasTarget[t] /\ ~erasing[t]
      BY <1>1, <2>1 DEF Same, Compare, CallsOfCallers
    <3>2. pc'[t] = "idle" /\ UNCHANGED <<g_lastRect, g_lastPen, screen>>
      BY <1>1, <2>1 DEF Compare, Return, TypeOK
    <3>3. Consistent'
      <4>1. pc[t] = "compare"
        BY <1>1 DEF Compare
      <4>2. Consistent
        BY <4>1 DEF At
      <4> QED
        BY <3>2, <4>2 DEF Consistent
    <3> QED
      BY <3>1, <3>2, <3>3 DEF At
  <2>2. CASE ~Same(t)
    BY <1>1, <2>2 DEF Compare, At, Consistent, TypeOK
  <2> QED
    BY <2>1, <2>2
<1>2. CASE Old(t)
  BY <1>2 DEF Old, At, Consistent, TypeOK
<1>3. CASE EraseOld(t)
  <2>1. screen = {<<g_lastRect, g_lastPen>>} /\ g_lastRect # Empty
    BY <1>3 DEF EraseOld, At, Consistent, TypeOK
  <2>2. screen' = {}
    BY <1>3, <2>1 DEF EraseOld, Rectangle
  <2>3. pc'[t] = "forget"
    BY <1>3 DEF EraseOld, TypeOK
  <2> QED
    BY <2>2, <2>3 DEF At
<1>4. CASE Forget(t)
  BY <1>4 DEF Forget, At, TypeOK
<1>5. CASE New(t)
  <2>1. CASE hasTarget[t] /\ rcCurrent[t] # Empty
    BY <1>5, <2>1 DEF New, At, TypeOK
  <2>2. CASE ~(hasTarget[t] /\ rcCurrent[t] # Empty)
    BY <1>5, <2>2 DEF New, At, Consistent, Return, TypeOK
  <2> QED
    BY <2>1, <2>2
<1>6. CASE DrawNew(t)
  <2>1. screen = {} /\ rcCurrent[t] # Empty /\ g_lastPen = TRUE /\ hasTarget[t]
    BY <1>6 DEF DrawNew, At, TypeOK
  <2>2. screen' = {<<rcCurrent[t], TRUE>>}
    BY <1>6, <2>1 DEF DrawNew, Rectangle
  <2>3. pc'[t] = "remember" /\ UNCHANGED <<rcCurrent, hasTarget, g_lastPen>>
    BY <1>6 DEF DrawNew, TypeOK
  <2> QED
    BY <2>1, <2>2, <2>3 DEF At
<1>7. CASE Remember(t)
  <2>1. g_lastPen /\ rcCurrent[t] # Empty /\ hasTarget[t] /\ ~erasing[t]
        /\ screen = {<<rcCurrent[t], TRUE>>}
    BY <1>7 DEF Remember, At, CallsOfCallers
  <2>2. pc'[t] = "idle" /\ UNCHANGED <<g_lastPen, screen>> /\ g_lastRect' = rcCurrent[t]
    BY <1>7 DEF Remember, Return, TypeOK
  <2> QED
    BY <2>1, <2>2 DEF At, Consistent
<1> QED
  BY <1>1, <1>2, <1>3, <1>4, <1>5, <1>6, <1>7 DEF Step

\* A step keeps the whole invariant.
LEMMA StepIndInv ==
  ASSUME IndInv, NEW t \in Threads, Step(t)
  PROVE  IndInv'
<1>1. TypeOK' /\ CallsOfCallers'
  BY StepType, StepCalls DEF IndInv
<1>2. ASSUME ~overlap'
      PROVE  /\ \A v, u \in Threads : Busy(v)' /\ Busy(u)' => v = u
             /\ \A u \in Threads : Busy(u)' => At(u)'
             /\ Quiet' => Consistent' /\ (abandoned' \/ g_lastRect' = Empty)
  <2>1. ~overlap /\ Busy(t)
    BY <1>2, StepIsOwn DEF IndInv
  <2>2. At(t) /\ \A u \in Threads : Busy(u) => u = t
    BY <2>1 DEF IndInv, Alone
  <2>3. \A u \in Threads : u # t => left'[u] = left[u]
    BY StepIsOwn DEF IndInv, TypeOK
  <2>4. \A u \in Threads : Busy(u)' => u = t
    BY <2>2, <2>3 DEF Busy
  <2>5. At(t)' /\ (pc'[t] = "idle" /\ ~hasTarget[t] => g_lastRect' = Empty /\ screen' = {})
    BY <1>1, <2>2, StepAt DEF IndInv
  <2>6. Quiet' => pc'[t] = "idle" /\ erasing[t]
    BY <1>1, <2>1, StepIsOwn DEF Quiet, Busy, IndInv, CallsOfCallers
  <2>7. erasing[t] => ~hasTarget[t]
    BY StepIsOwn DEF IndInv, CallsOfCallers
  <2> QED
    BY <2>4, <2>5, <2>6, <2>7 DEF Consistent
<1> QED
  BY <1>1, <1>2 DEF IndInv, Alone

\* A caller that appears keeps the invariant; if others are there already, the
\* run is disturbed from then on.
LEMMA BeginIndInv ==
  ASSUME IndInv, NEW t \in Threads, NEW n \in Nat \ {0}, Begin(t, n)
  PROVE  IndInv'
<1>1. TypeOK'
  BY DEF Begin, IndInv, TypeOK, globals
<1>2. /\ UNCHANGED <<pc, erasing, hasTarget, rcCurrent, screen, g_lastRect, g_lastPen>>
      /\ ~Busy(t)
      /\ \A u \in Threads : left'[u] = IF u = t THEN n ELSE left[u]
  BY DEF Begin, IndInv, TypeOK, globals
<1>3. CallsOfCallers'
  BY <1>2 DEF IndInv, CallsOfCallers, Busy
<1>4. ASSUME ~overlap'
      PROVE  /\ \A v, u \in Threads : Busy(v)' /\ Busy(u)' => v = u
             /\ \A u \in Threads : Busy(u)' => At(u)'
             /\ ~Quiet'
  <2>1. ~overlap /\ Quiet
    BY <1>4 DEF Begin, Quiet
  <2>2. Consistent /\ pc[t] = "idle"
    BY <2>1 DEF IndInv, Alone, Quiet, CallsOfCallers, TypeOK
  <2>3. \A u \in Threads : Busy(u)' <=> u = t
    BY <1>2, <2>1 DEF Quiet, Busy
  <2>4. At(t)'
    BY <1>2, <2>2 DEF At, Consistent
  <2> QED
    BY <2>3, <2>4 DEF Quiet
<1> QED
  BY <1>1, <1>3, <1>4 DEF IndInv, Alone

\* A call keeps the invariant.
LEMMA EnterIndInv ==
  ASSUME IndInv, NEW t \in Threads, NEW b \in BOOLEAN, NEW r \in Rects \cup {Empty},
         Busy(t), Enter(t, b, r), left' = left,
         erasing' = erasing \/ erasing' = [erasing EXCEPT ![t] = TRUE],
         erasing'[t] => ~b
  PROVE  IndInv'
<1>1. TypeOK'
  BY DEF Enter, IndInv, TypeOK, Places, globals
<1>2. /\ UNCHANGED <<screen, g_lastRect, g_lastPen, overlap>>
      /\ pc[t] = "idle" /\ pc'[t] = "compare" /\ hasTarget'[t] = b
      /\ \A u \in Threads : u # t => /\ pc'[u] = pc[u] /\ hasTarget'[u] = hasTarget[u]
                                     /\ erasing'[u] = erasing[u]
  BY DEF Enter, IndInv, TypeOK, globals
<1>3. \A u \in Threads : Busy(u)' <=> Busy(u)
  BY DEF Busy
<1>4. CallsOfCallers'
  BY <1>2, <1>3 DEF IndInv, CallsOfCallers
<1>5. ASSUME ~overlap'
      PROVE  /\ \A v, u \in Threads : Busy(v)' /\ Busy(u)' => v = u
             /\ \A u \in Threads : Busy(u)' => At(u)'
             /\ ~Quiet'
  <2>1. /\ \A v, u \in Threads : Busy(v) /\ Busy(u) => v = u
        /\ At(t)
    BY <1>2, <1>5 DEF IndInv, Alone
  <2>2. At(t)'
    BY <1>2, <2>1 DEF At, Consistent
  <2> QED
    BY <1>3, <2>1, <2>2 DEF Quiet
<1> QED
  BY <1>1, <1>4, <1>5 DEF IndInv, Alone

\* A search that is cut off leaves what it has drawn, and the globals know it.
LEMMA AbandonIndInv == ASSUME IndInv, NEW f \in Finders, Abandon(f) PROVE IndInv'
<1>1. f \in Threads
  BY DEF Threads
<1>2. TypeOK'
  BY <1>1 DEF Abandon, IndInv, TypeOK, globals
<1>3. /\ UNCHANGED <<pc, erasing, hasTarget, rcCurrent, screen, g_lastRect, g_lastPen, overlap>>
      /\ pc[f] = "idle" /\ Busy(f) /\ abandoned'
      /\ \A u \in Threads : left'[u] = IF u = f THEN 0 ELSE left[u]
  BY <1>1 DEF Abandon, Finding, IndInv, TypeOK, globals
<1>4. CallsOfCallers'
  BY <1>3 DEF IndInv, CallsOfCallers, Busy
<1>5. ASSUME ~overlap'
      PROVE  (\A u \in Threads : ~Busy(u)') /\ Consistent'
  <2>1. \A u \in Threads : Busy(u) => u = f
    BY <1>1, <1>3, <1>5 DEF IndInv, Alone
  <2>2. Consistent
    BY <1>1, <1>3, <1>5 DEF IndInv, Alone, At
  <2>3. Consistent'
    BY <1>3, <2>2 DEF Consistent
  <2>4. ASSUME NEW u \in Threads PROVE ~Busy(u)'
    BY <1>3, <2>1 DEF Busy
  <2> QED
    BY <2>3, <2>4
<1> QED
  BY <1>2, <1>3, <1>4, <1>5 DEF IndInv, Alone

\* Every step keeps the invariant.
LEMMA NextIndInv == IndInv /\ [Next]_vars => IndInv'
<1> SUFFICES ASSUME IndInv, [Next]_vars PROVE IndInv'
  OBVIOUS
<1>1. Finders \subseteq Threads /\ Flashers \subseteq Threads
  BY DEF Threads
<1>2. ASSUME NEW f \in Finders, StartFind(f) PROVE IndInv'
  BY <1>1, <1>2, BeginIndInv DEF StartFind
<1>3. ASSUME NEW f \in Finders, MoveFind(f) PROVE IndInv'
  <2>1. f \in Threads /\ Busy(f) /\ left' = left /\ erasing' = erasing /\ ~erasing'[f]
    BY <1>1, <1>3 DEF MoveFind, Finding
  <2>2. CASE \E r \in Rects \cup {Empty} : Enter(f, TRUE, r)
    BY <2>1, <2>2, EnterIndInv
  <2>3. CASE Enter(f, FALSE, Empty)
    BY <2>1, <2>3, EnterIndInv
  <2> QED
    BY <1>3, <2>2, <2>3 DEF MoveFind
<1>4. ASSUME NEW f \in Finders, EndFind(f) PROVE IndInv'
  BY <1>1, <1>4, EnterIndInv DEF EndFind, Finding
<1>5. ASSUME NEW t \in Flashers, StartFlash(t) PROVE IndInv'
  BY <1>1, <1>5, BeginIndInv, CallersAssumption DEF StartFlash
<1>6. ASSUME NEW t \in Flashers, CallFlash(t) PROVE IndInv'
  <2>1. t \in Threads /\ Busy(t) /\ left' = left /\ erasing' = erasing
    BY <1>1, <1>6 DEF CallFlash
  <2>2. CASE ~erasing[t] /\ \E r \in Rects \cup {Empty} : Enter(t, TRUE, r)
    BY <2>1, <2>2, EnterIndInv
  <2>3. CASE erasing[t] /\ Enter(t, FALSE, Empty)
    BY <2>1, <2>3, EnterIndInv
  <2> QED
    BY <1>6, <2>2, <2>3 DEF CallFlash
<1>7. ASSUME NEW t \in Threads, Step(t) PROVE IndInv'
  BY <1>7, StepIndInv
<1>8. ASSUME NEW f \in Finders, Abandon(f) PROVE IndInv'
  BY <1>8, AbandonIndInv
<1>9. CASE UNCHANGED vars
  BY <1>9 DEF vars, IndInv, TypeOK, CallsOfCallers, Alone, At, Consistent, Busy, Quiet
<1> QED
  BY <1>2, <1>3, <1>4, <1>5, <1>6, <1>7, <1>8, <1>9 DEF Next

\* Every state satisfies the inductive invariant.
THEOREM Invariant == Spec => []IndInv
BY InitIndInv, NextIndInv, PTL DEF Spec

\* The variables keep their types.
THEOREM TypeCorrect == Spec => []TypeOK
<1>1. IndInv => TypeOK
  BY DEF IndInv
<1> QED
  BY <1>1, Invariant, PTL

\* Callers that take turns leave a clean screen, or one frame the globals know of.
THEOREM CleanWhenAloneHolds == Spec => []CleanWhenAlone
<1>1. IndInv => CleanWhenAlone
  BY DEF IndInv, Alone, CleanWhenAlone, Consistent
<1> QED
  BY <1>1, Invariant, PTL

\* Undisturbed, a step erases the one frame or draws one on a clean screen.
LEMMA StepFrame ==
  ASSUME IndInv, ~overlap, NEW t \in Threads, Step(t), TypeOK'
  PROVE  [F!Next]_screen
<1>1. TypeOK /\ At(t)
  BY StepIsOwn DEF IndInv, Alone
<1>2. CASE EraseOld(t)
  <2>1. screen = {<<g_lastRect, g_lastPen>>} /\ g_lastRect # Empty
    BY <1>1, <1>2 DEF EraseOld, At, Consistent, TypeOK
  <2>2. screen' = {}
    BY <1>2, <2>1 DEF EraseOld, Rectangle
  <2> QED
    BY <2>2 DEF F!Next, F!Erase
<1>3. CASE DrawNew(t)
  <2>1. screen = {} /\ rcCurrent[t] # Empty
    BY <1>1, <1>3 DEF DrawNew, At
  <2>2. <<rcCurrent[t], g_lastPen>> \in Frames
    BY <1>1, <2>1 DEF TypeOK, Frames
  <2>3. screen' = {<<rcCurrent[t], g_lastPen>>}
    BY <1>3, <2>1 DEF DrawNew, Rectangle
  <2> QED
    BY <2>1, <2>2, <2>3 DEF F!Next, F!Draw
<1>4. CASE Compare(t) \/ Old(t) \/ Forget(t) \/ New(t) \/ Remember(t)
  BY <1>4 DEF Compare, Old, Forget, New, Remember
<1> QED
  BY <1>2, <1>3, <1>4 DEF Step

\* HighlightWindow implements Frame as long as its callers take turns.
THEOREM ImplementsFrameHolds == Spec => ImplementsFrame
<1>1. IndInv /\ IndInv' /\ [Next]_vars => [~overlap' => [F!Next]_screen]_vars
  <2> SUFFICES ASSUME IndInv, IndInv', Next, ~overlap'
               PROVE  [F!Next]_screen
    OBVIOUS
  <2>1. ASSUME NEW t \in Threads, Step(t) PROVE [F!Next]_screen
    <3>1. ~overlap
      BY <2>1, StepIsOwn DEF IndInv
    <3> QED
      BY <2>1, <3>1, StepFrame DEF IndInv
  <2>2. CASE \/ \E f \in Finders : StartFind(f) \/ Abandon(f)
             \/ \E t \in Flashers : StartFlash(t)
    BY <2>2 DEF StartFind, StartFlash, Begin, Abandon
  <2>3. CASE \/ \E f \in Finders : MoveFind(f) \/ EndFind(f)
             \/ \E t \in Flashers : CallFlash(t)
    BY <2>3 DEF MoveFind, EndFind, CallFlash, Enter
  <2> QED
    BY <2>1, <2>2, <2>3 DEF Next
<1> QED
  BY <1>1, Invariant, PTL DEF Spec, ImplementsFrame
=============================================================================
