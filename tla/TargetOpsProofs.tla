-------------------------- MODULE TargetOpsProofs --------------------------
(***************************************************************************)
(* Theorems about TargetOps.  A step of a main window is one of three      *)
(* kinds: it changes windows and dialogs only, it moves a target, or it    *)
(* starts a thread; a step of an overlay leaves the main windows alone,    *)
(* but for its end.  There is one lemma per action, and lemmas about what  *)
(* the operators on overlays (Moved, DoLayout) do to their fields.         *)
(***************************************************************************)
EXTENDS TargetOps, TLAPS

LEMMA InitTypeOK == Init => TypeOK
<1>. SUFFICES ASSUME Init PROVE TypeOK
  OBVIOUS
<1>1. Off \in OverlayState
  BY PlaceAssumption DEF Off, OverlayState
<1>2. ov \in [Overlay -> OverlayState]
  BY <1>1 DEF Init
<1>3. at \in [Target -> Place]
  BY DEF Init, Position
<1>. QED
  BY <1>2, <1>3 DEF Init, TypeOK

LEMMA MovedType ==
  ASSUME TypeOK, NEW t
  PROVE  Moved(ov, t) \in [Overlay -> OverlayState]
<1>. SUFFICES ASSUME NEW o \in Overlay
              PROVE  [ov[o] EXCEPT !.moved = @ \/ ov[o].aim = t] \in OverlayState
  BY DEF Moved
<1>1. ov[o] \in OverlayState
  BY DEF TypeOK
<1>2. (ov[o].moved \/ ov[o].aim = t) \in BOOLEAN
  OBVIOUS
<1>. QED
  BY <1>1, <1>2 DEF OverlayState

LEMMA SetTypeType ==
  ASSUME TypeOK, NEW o \in Overlay, SetType(o)
  PROVE  ov' \in [Overlay -> OverlayState]
<1>1. ov[o] \in OverlayState
  BY DEF TypeOK
<1>2. Rect(ov[o].aim) \in Place
  BY <1>1, PlaceAssumption DEF Rect, TypeOK, OverlayState
<1>3. ov[o].sizes + 1 \in Nat
  BY <1>1 DEF OverlayState
<1>4. \A pl \in Place, n \in Nat :
        [ov[o] EXCEPT !.pc = "typed", !.place = pl, !.sizes = n] \in OverlayState
  BY <1>1 DEF OverlayState
<1>5. ov' = [ov EXCEPT ![o] = [ov[o] EXCEPT !.pc = "typed", !.place = Rect(ov[o].aim), !.sizes = ov[o].sizes + 1]]
  BY <1>1, <1>2, <1>3 DEF SetType, TypeOK, OverlayState
<1>. QED
  BY <1>2, <1>3, <1>4, <1>5 DEF TypeOK

LEMMA SetTargetType ==
  ASSUME TypeOK, NEW o \in Overlay, SetTarget(o)
  PROVE  ov' \in [Overlay -> OverlayState]
<1>1. ov[o] \in OverlayState
  BY DEF TypeOK
<1>2. Rect(ov[o].goal) \in Place
  BY <1>1, PlaceAssumption DEF Rect, TypeOK, OverlayState
<1>3. ov[o].sizes + 1 \in Nat
  BY <1>1 DEF OverlayState
<1>4. \A pl \in Place, n \in Nat :
        [ov[o] EXCEPT !.pc = "run", !.aim = ov[o].goal, !.place = pl, !.sizes = n]
          \in OverlayState
  BY <1>1 DEF OverlayState
<1>5. ov' = [ov EXCEPT ![o] =
               [ov[o] EXCEPT !.pc = "run", !.aim = ov[o].goal,
                             !.place = Rect(ov[o].goal), !.sizes = ov[o].sizes + 1]]
  BY <1>1, <1>2, <1>3 DEF SetTarget, InitSize, TypeOK, OverlayState
<1>. QED
  BY <1>2, <1>3, <1>4, <1>5 DEF TypeOK

LEMMA MovedFields ==
  ASSUME TypeOK, NEW t, NEW o \in Overlay
  PROVE  /\ Moved(ov, t)[o].pc = ov[o].pc
         /\ Moved(ov, t)[o].kind = ov[o].kind
         /\ Moved(ov, t)[o].owner = ov[o].owner
         /\ Moved(ov, t)[o].goal = ov[o].goal
         /\ Moved(ov, t)[o].aim = ov[o].aim
         /\ Moved(ov, t)[o].place = ov[o].place
         /\ Moved(ov, t)[o].sizes = ov[o].sizes
         /\ ~Moved(ov, t)[o].moved <=> ~ov[o].moved /\ ov[o].aim # t
         /\ t # Null /\ ov[o] = Off => Moved(ov, t)[o] = Off
<1>1. ov[o] \in OverlayState
  BY DEF TypeOK
<1>2. Moved(ov, t)[o] = [ov[o] EXCEPT !.moved = ov[o].moved \/ ov[o].aim = t]
  BY DEF Moved
<1>3. ASSUME t # Null, ov[o] = Off
      PROVE  Moved(ov, t)[o] = Off
  <2>1. Off.moved = FALSE /\ Off.aim = Null
    BY DEF Off
  <2>2. (ov[o].moved \/ ov[o].aim = t) = FALSE
    BY <1>3, <2>1
  <2>3. \A r \in OverlayState : r.moved = FALSE => [r EXCEPT !.moved = FALSE] = r
    BY DEF OverlayState
  <2>. QED
    BY <1>1, <1>2, <1>3, <2>1, <2>2, <2>3
<1>. QED
  BY <1>1, <1>2, <1>3 DEF OverlayState

LEMMA DoLayoutState ==
  ASSUME TypeOK, NEW o \in Overlay, NEW p \in Place, NEW s \in Nat, DoLayout(o, p, s)
  PROVE  /\ at' \in [Target -> Place]
         /\ ov' \in [Overlay -> OverlayState]
<1>1. ov[o] \in OverlayState
  BY DEF TypeOK
<1>2. Rect(ov[o].aim) \in Place
  BY <1>1, PlaceAssumption DEF Rect, TypeOK, OverlayState
<1>3. Moved(ov, ov[o].aim) \in [Overlay -> OverlayState]
  BY MovedType
<1>4. \A w \in OverlayState, pl \in Place :
        [w EXCEPT !.place = pl, !.sizes = s, !.moved = FALSE] \in OverlayState
  BY DEF OverlayState
<1>5. CASE ov[o].kind = "locate"
  <2>1. ov' = [ov EXCEPT ![o] = [ov[o] EXCEPT !.place = Rect(ov[o].aim),
                                             !.sizes = s, !.moved = FALSE]]
    BY <1>5, <1>1 DEF DoLayout, TypeOK, OverlayState
  <2>. QED
    BY <1>1, <1>2, <1>4, <1>5, <2>1 DEF DoLayout, TypeOK
<1>6. CASE ov[o].kind # "locate"
  <2>1. ov' = [Moved(ov, ov[o].aim) EXCEPT ![o] =
                 [Moved(ov, ov[o].aim)[o] EXCEPT !.place = p, !.sizes = s, !.moved = FALSE]]
    BY <1>6, <1>3 DEF DoLayout, OverlayState
  <2>. QED
    BY <1>3, <1>4, <1>6, <2>1 DEF DoLayout, TypeOK
<1>. QED
  BY <1>5, <1>6

LEMMA SameResizing ==
  ASSUME \A o \in Overlay : ov'[o].kind = ov[o].kind /\ ov'[o].owner = ov[o].owner,
         NEW m
  PROVE  Resizing(m)' = Resizing(m)
BY DEF Resizing

LEMMA SameDisabled ==
  ASSUME DisabledByOne, UNCHANGED <<open, enabled, waiting, swp>>,
         \A o \in Overlay : ov'[o].kind = ov[o].kind /\ ov'[o].owner = ov[o].owner
  PROVE  DisabledByOne'
<1>1. \A m : Resizing(m)' = Resizing(m)
  BY SameResizing
<1>. QED
  BY <1>1 DEF DisabledByOne, Disabled, Free

\* A target moves, other than by an overlay.
LEMMA MoveKeeps ==
  ASSUME IndInv, NEW t \in Target, NEW p \in Place, Move(t, p), UNCHANGED mains
  PROVE  IndInv'
<1>. USE DEF IndInv
<1>1. TypeOK'
  BY MovedType DEF TypeOK, Move, mains
<1>2. t # Null
  BY NullAssumption
<1>3. DisabledByOne'
  BY MovedFields, SameDisabled DEF Move, mains
<1>4. OverTarget'
  <2>. SUFFICES ASSUME NEW o \in Overlay, ov'[o].pc = "run", ov'[o].kind = "resize",
                       ov'[o].aim \in alive', ~ov'[o].moved
                PROVE  ov'[o].place = at'[ov'[o].aim]
    BY DEF OverTarget
  <2>. ov' = Moved(ov, t)
    BY DEF Move
  <2>1. ov[o].aim # t /\ ~ov[o].moved /\ ov[o].place = ov'[o].place /\ ov[o].aim = ov'[o].aim
    BY MovedFields
  <2>2. ov[o].place = at[ov[o].aim]
    BY <2>1, MovedFields DEF Move, OverTarget
  <2>3. at'[ov[o].aim] = at[ov[o].aim]
    BY <2>1 DEF Move, TypeOK
  <2>. QED
    BY <2>1, <2>2, <2>3
<1>5. DialogOfOpen'
  BY DEF DialogOfOpen, mains
<1>6. Aimed'
  <2>. SUFFICES ASSUME NEW o \in Overlay
                PROVE  LET v == ov'[o] IN
                         /\ v.aim = IF v.pc \in {"off", "created", "typed"} THEN Null ELSE v.goal
                         /\ v.pc # "off" => v.goal # Null
                         /\ v.pc \in {"typed", "closed"} => v.kind = "resize"
                         /\ v.aim = Null => ~v.moved
                         /\ v.pc = "off" => v = Off
    BY DEF Aimed, Off
  <2>1. ov' = Moved(ov, t)
    BY DEF Move
  <2>2. /\ ov[o].aim = IF ov[o].pc \in {"off", "created", "typed"} THEN Null ELSE ov[o].goal
        /\ ov[o].pc # "off" => ov[o].goal # Null
        /\ ov[o].pc \in {"typed", "closed"} => ov[o].kind = "resize"
        /\ ov[o].aim = Null => ~ov[o].moved
        /\ ov[o].pc = "off" => ov[o] = Off
    BY DEF Aimed
  <2>3. ov'[o].aim = Null => ~ov'[o].moved
    BY <1>2, <2>1, <2>2, MovedFields
  <2>4. ov'[o].pc = "off" => ov'[o] = Off
    BY <1>2, <2>1, <2>2, MovedFields
  <2>5. ov'[o].pc = ov[o].pc /\ ov'[o].kind = ov[o].kind /\ ov'[o].aim = ov[o].aim /\ ov'[o].goal = ov[o].goal
    BY <2>1, MovedFields
  <2>. QED
    BY <2>2, <2>3, <2>4, <2>5
<1>. QED
  BY <1>1, <1>3, <1>4, <1>5, <1>6

\* The main windows' part changes, or a target goes away, and the overlays stay.
LEMMA OverlaysStay ==
  ASSUME OverTarget, Aimed, UNCHANGED <<at, ov>>, alive' \subseteq alive
  PROVE  OverTarget' /\ Aimed'
BY DEF OverTarget, Aimed

-----------------------------------------------------------------------------
(* The main windows.                                                       *)

LEMMA CommandFree ==
  ASSUME IndInv, NEW m \in Main, Command(m)
  PROVE  m \in open /\ Free(m) /\ waiting = {}
BY DEF IndInv, TypeOK, DisabledByOne, Command, UI

LEMMA ResizingOv ==
  ASSUME UNCHANGED ov, NEW m
  PROVE  Resizing(m)' = Resizing(m)
BY DEF Resizing

LEMMA SelectTargetKeeps ==
  ASSUME IndInv, NEW m \in Main, NEW t \in Target, SelectTarget(m, t)
  PROVE  IndInv'
<1>1. TypeOK'
  BY DEF IndInv, TypeOK, SelectTarget, targets
<1>2. DisabledByOne'
  BY SameDisabled DEF IndInv, SelectTarget
<1>3. OverTarget' /\ Aimed'
  BY OverlaysStay DEF IndInv, SelectTarget, targets
<1>4. DialogOfOpen'
  BY DEF IndInv, SelectTarget, DialogOfOpen
<1>. QED
  BY <1>1, <1>2, <1>3, <1>4 DEF IndInv

LEMMA DieKeeps ==
  ASSUME IndInv, NEW S, alive' = alive \ S, UNCHANGED <<mains, at, ov>>
  PROVE  IndInv'
<1>1. TypeOK'
  BY DEF IndInv, TypeOK, mains
<1>2. DisabledByOne'
  BY SameDisabled DEF IndInv, mains
<1>3. OverTarget' /\ Aimed'
  BY OverlaysStay DEF IndInv
<1>4. DialogOfOpen'
  BY DEF IndInv, mains, DialogOfOpen
<1>. QED
  BY <1>1, <1>2, <1>3, <1>4 DEF IndInv

LEMMA WaitKeeps ==
  ASSUME IndInv, NEW m \in Main, CloseTarget(m) \/ EndTask(m)
  PROVE  IndInv'
<1>1. Command(m) /\ enabled' = enabled \ {m} /\ waiting' = {m}
      /\ UNCHANGED <<open, target, swp, alive, at, ov>>
  BY DEF CloseTarget, EndTask, Disable, targets
<1>2. m \in open /\ Free(m) /\ waiting = {}
  BY <1>1, CommandFree
<1>3. TypeOK'
  BY <1>1, <1>2 DEF IndInv, TypeOK
<1>4. DisabledByOne'
  <2>1. \A n : Resizing(n)' = Resizing(n)
    BY <1>1, ResizingOv
  <2>. QED
    BY <1>1, <1>2, <2>1 DEF IndInv, DisabledByOne, Disabled, Free
<1>5. OverTarget' /\ Aimed'
  BY <1>1, OverlaysStay DEF IndInv
<1>6. DialogOfOpen'
  BY <1>1 DEF IndInv, DialogOfOpen
<1>. QED
  BY <1>3, <1>4, <1>5, <1>6 DEF IndInv

LEMMA CloseReturnsKeeps ==
  ASSUME IndInv, NEW m \in Main, CloseReturns(m)
  PROVE  IndInv'
<1>1. m \in open /\ waiting = {m} /\ swp[m] = Null /\ Resizing(m) = {}
  BY DEF IndInv, TypeOK, DisabledByOne, Disabled, Free, CloseReturns
<1>2. TypeOK'
  BY <1>1 DEF IndInv, TypeOK, CloseReturns
<1>3. DisabledByOne'
  <2>1. \A n : Resizing(n)' = Resizing(n)
    BY ResizingOv DEF CloseReturns
  <2>. QED
    BY <1>1, <2>1 DEF IndInv, DisabledByOne, Disabled, Free, CloseReturns
<1>4. OverTarget' /\ Aimed'
  BY OverlaysStay DEF IndInv, CloseReturns
<1>5. DialogOfOpen'
  BY DEF IndInv, DialogOfOpen, CloseReturns
<1>. QED
  BY <1>2, <1>3, <1>4, <1>5 DEF IndInv

LEMMA OpenSwpKeeps ==
  ASSUME IndInv, NEW m \in Main, OpenSwp(m)
  PROVE  IndInv'
<1>1. m \in open /\ Free(m) /\ waiting = {}
  BY CommandFree DEF OpenSwp
<1>2. target[m] \in Target /\ target[m] # Null
  BY NullAssumption DEF IndInv, TypeOK, OpenSwp
<1>3. TypeOK'
  BY <1>2 DEF IndInv, TypeOK, OpenSwp, targets
<1>4. DisabledByOne'
  <2>1. \A n : Resizing(n)' = Resizing(n)
    BY ResizingOv DEF OpenSwp
  <2>2. \A n \in Main : swp'[n] = IF n = m THEN target[m] ELSE swp[n]
    BY DEF IndInv, TypeOK, OpenSwp
  <2>. QED
    BY <1>1, <1>2, <2>1, <2>2 DEF IndInv, TypeOK, DisabledByOne, Disabled, Free, OpenSwp
<1>5. OverTarget' /\ Aimed'
  BY OverlaysStay DEF IndInv, OpenSwp, targets
<1>6. DialogOfOpen'
  BY <1>1 DEF IndInv, TypeOK, DialogOfOpen, OpenSwp
<1>. QED
  BY <1>3, <1>4, <1>5, <1>6 DEF IndInv

LEMMA EndSwpKeeps ==
  ASSUME IndInv, NEW m \in Main, EndSwp(m)
  PROVE  IndInv'
<1>1. m \in open /\ m \notin waiting /\ Resizing(m) = {}
  BY DEF IndInv, DialogOfOpen, DisabledByOne, Disabled, Free, EndSwp
<1>2. TypeOK'
  BY <1>1 DEF IndInv, TypeOK, EndSwp, targets
<1>3. DisabledByOne'
  <2>1. \A n : Resizing(n)' = Resizing(n)
    BY ResizingOv DEF EndSwp
  <2>2. \A n \in Main : swp'[n] = IF n = m THEN Null ELSE swp[n]
    BY DEF IndInv, TypeOK, EndSwp
  <2>. QED
    BY <1>1, <2>1, <2>2 DEF IndInv, TypeOK, DisabledByOne, Disabled, Free, EndSwp
<1>4. OverTarget' /\ Aimed'
  BY OverlaysStay DEF IndInv, EndSwp, targets
<1>5. DialogOfOpen'
  BY DEF IndInv, TypeOK, DialogOfOpen, EndSwp
<1>. QED
  BY <1>2, <1>3, <1>4, <1>5 DEF IndInv

LEMMA CloseMainKeeps ==
  ASSUME IndInv, NEW m \in Main, CloseMain(m)
  PROVE  IndInv'
<1>1. TypeOK'
  BY DEF IndInv, TypeOK, CloseMain, targets, UI
<1>2. DisabledByOne'
  <2>1. \A n : Resizing(n)' = Resizing(n)
    BY ResizingOv DEF CloseMain
  <2>2. \A n \in Main : swp'[n] = IF n = m THEN Null ELSE swp[n]
    BY DEF IndInv, TypeOK, CloseMain
  <2>. QED
    BY <2>1, <2>2 DEF IndInv, TypeOK, DisabledByOne, Disabled, Free, CloseMain
<1>3. OverTarget' /\ Aimed'
  BY OverlaysStay DEF IndInv, CloseMain, targets
<1>4. DialogOfOpen'
  BY DEF IndInv, TypeOK, DialogOfOpen, CloseMain
<1>. QED
  BY <1>1, <1>2, <1>3, <1>4 DEF IndInv

LEMMA ProcessEndsKeeps == IndInv /\ ProcessEnds => IndInv'
<1>. SUFFICES ASSUME IndInv, ProcessEnds
              PROVE  IndInv'
  OBVIOUS
<1>1. Off \in OverlayState
  BY PlaceAssumption DEF Off, OverlayState
<1>2. TypeOK'
  BY <1>1 DEF IndInv, TypeOK, ProcessEnds, targets
<1>3. DisabledByOne' /\ DialogOfOpen'
  BY DEF ProcessEnds, DisabledByOne, DialogOfOpen
<1>4. \A o \in Overlay : ov'[o] = Off
  BY DEF ProcessEnds
<1>5. Off.pc = "off" /\ Off.aim = Null /\ Off.kind = "locate" /\ ~Off.moved
  BY DEF Off
<1>6. OverTarget' /\ Aimed'
  BY <1>4, <1>5 DEF OverTarget, Aimed
<1>. QED
  BY <1>2, <1>3, <1>6 DEF IndInv

\* Locate and Resize.
LEMMA StartState ==
  ASSUME IndInv, NEW m \in Main, NEW o \in Overlay, NEW k \in {"locate", "resize"},
         Start(m, o, k)
  PROVE  /\ ov' \in [Overlay -> OverlayState]
         /\ ov'[o].pc = "created" /\ ov'[o].kind = k /\ ov'[o].owner = m
         /\ ov'[o].goal = target[m] /\ ov'[o].aim = Null /\ ~ov'[o].moved
         /\ \A n \in Overlay \ {o} : ov'[n] = ov[n]
         /\ target[m] # Null
         /\ ov[o].kind = "locate"
<1>. DEFINE v == [Off EXCEPT !.pc = "created", !.kind = k, !.owner = m, !.goal = target[m]]
<1>1. target[m] \in Target /\ target[m] # Null
  BY NullAssumption DEF IndInv, TypeOK, Start
<1>2. /\ v \in OverlayState /\ v.pc = "created" /\ v.kind = k /\ v.owner = m
      /\ v.goal = target[m] /\ v.aim = Null /\ ~v.moved
  BY <1>1, PlaceAssumption DEF Off, OverlayState
<1>3. ov' = [ov EXCEPT ![o] = v]
  BY DEF Start
<1>4. ov[o].kind = "locate"
  BY DEF Start, Off
<1>. HIDE DEF v
<1>. QED
  BY <1>1, <1>2, <1>3, <1>4 DEF IndInv, TypeOK

LEMMA StartKeeps ==
  ASSUME IndInv, NEW m \in Main, NEW o \in Overlay, Locate(m, o) \/ Resize(m, o)
  PROVE  IndInv'
<1>. PICK k \in {"locate", "resize"} : /\ Start(m, o, k)
                                       /\ k = "locate" => enabled' = enabled
                                       /\ k = "resize" => enabled' = enabled \ {m}
  BY DEF Locate, Resize, Disable
<1>1. m \in open /\ Free(m) /\ waiting = {} /\ UNCHANGED <<open, target, waiting, swp, alive, at>>
  BY CommandFree DEF Start, targets
<1>2. TypeOK'
  BY <1>1, StartState DEF IndInv, TypeOK
<1>3. \A n \in Main : Resizing(n)' = IF k = "resize" /\ n = m THEN Resizing(n) \cup {o}
                                     ELSE Resizing(n)
  <2>. SUFFICES ASSUME NEW n \in Main, NEW q \in Overlay
                PROVE  (ov'[q].kind = "resize" /\ ov'[q].owner = n)
                         <=> \/ ov[q].kind = "resize" /\ ov[q].owner = n
                             \/ k = "resize" /\ n = m /\ q = o
    BY DEF Resizing
  <2>. QED
    BY StartState
<1>4. DisabledByOne'
  <2>1. CASE k = "locate"
    BY <1>1, <1>3, <2>1 DEF IndInv, TypeOK, DisabledByOne, Disabled, Free
  <2>2. CASE k = "resize"
    <3>1. Resizing(m)' = {o}
      BY <1>1, <1>3, <2>2 DEF Free
    <3>2. \A n \in Main \ {m} : Resizing(n)' = Resizing(n)
      BY <1>3
    <3>. QED
      BY <1>1, <2>2, <3>1, <3>2 DEF IndInv, TypeOK, DisabledByOne, Disabled, Free
  <2>. QED
    BY <2>1, <2>2
<1>5. OverTarget'
  BY <1>1, StartState DEF IndInv, OverTarget
<1>6. Aimed'
  BY StartState DEF IndInv, Aimed
<1>7. DialogOfOpen'
  BY <1>1 DEF IndInv, DialogOfOpen
<1>. QED
  BY <1>2, <1>4, <1>5, <1>6, <1>7 DEF IndInv

-----------------------------------------------------------------------------
(* The overlays' threads.                                                  *)

LEMMA SetTypeKeeps ==
  ASSUME IndInv, NEW o \in Overlay, SetType(o)
  PROVE  IndInv'
<1>1. /\ ov'[o].pc = "typed" /\ ov'[o].kind = ov[o].kind /\ ov'[o].owner = ov[o].owner
      /\ ov'[o].goal = ov[o].goal /\ ov'[o].aim = ov[o].aim /\ ov'[o].moved = ov[o].moved
      /\ \A n \in Overlay \ {o} : ov'[n] = ov[n]
  BY DEF IndInv, TypeOK, SetType, OverlayState
<1>2. TypeOK'
  BY SetTypeType DEF IndInv, TypeOK, SetType, mains, targets
<1>3. DisabledByOne'
  BY <1>1, SameDisabled DEF IndInv, SetType, mains
<1>4. OverTarget'
  <2>. SUFFICES ASSUME NEW n \in Overlay, ov'[n].pc = "run", ov'[n].kind = "resize",
                       ov'[n].aim \in alive, ~ov'[n].moved
                PROVE  ov'[n].place = at[ov'[n].aim]
    BY DEF OverTarget, SetType, targets
  <2>1. CASE n = o
    BY <2>1, <1>1
  <2>2. CASE n # o
    BY <2>2, <1>1 DEF IndInv, OverTarget
  <2>. QED
    BY <2>1, <2>2
<1>5. Aimed'
  <2>. SUFFICES ASSUME NEW n \in Overlay
                PROVE  LET v == ov'[n] IN
                         /\ v.aim = IF v.pc \in {"off", "created", "typed"} THEN Null ELSE v.goal
                         /\ v.pc # "off" => v.goal # Null
                         /\ v.pc \in {"typed", "closed"} => v.kind = "resize"
                         /\ v.aim = Null => ~v.moved
                         /\ v.pc = "off" => v = Off
    BY DEF Aimed, Off
  <2>1. CASE n = o
    BY <2>1, <1>1 DEF IndInv, Aimed, SetType
  <2>2. CASE n # o
    BY <2>2, <1>1 DEF IndInv, Aimed
  <2>. QED
    BY <2>1, <2>2
<1>6. DialogOfOpen'
  BY DEF IndInv, DialogOfOpen, SetType, mains
<1>. QED
  BY <1>2, <1>3, <1>4, <1>5, <1>6 DEF IndInv

LEMMA SetTargetKeeps ==
  ASSUME IndInv, NEW o \in Overlay, SetTarget(o)
  PROVE  IndInv'
<1>1. /\ ov'[o].pc = "run" /\ ov'[o].kind = ov[o].kind /\ ov'[o].owner = ov[o].owner
      /\ ov'[o].goal = ov[o].goal /\ ov'[o].aim = ov[o].goal /\ ov'[o].moved = ov[o].moved
      /\ ov'[o].place = Rect(ov[o].goal)
      /\ \A n \in Overlay \ {o} : ov'[n] = ov[n]
  BY DEF IndInv, TypeOK, SetTarget, InitSize, OverlayState
<1>2. TypeOK'
  BY SetTargetType DEF IndInv, TypeOK, SetTarget, mains, targets
<1>3. DisabledByOne'
  BY <1>1, SameDisabled DEF IndInv, SetTarget, mains
<1>4. OverTarget'
  <2>. SUFFICES ASSUME NEW n \in Overlay, ov'[n].pc = "run", ov'[n].kind = "resize",
                       ov'[n].aim \in alive, ~ov'[n].moved
                PROVE  ov'[n].place = at[ov'[n].aim]
    BY DEF OverTarget, SetTarget, targets
  <2>1. CASE n = o
    BY <2>1, <1>1 DEF Rect
  <2>2. CASE n # o
    BY <2>2, <1>1 DEF IndInv, OverTarget
  <2>. QED
    BY <2>1, <2>2
<1>5. Aimed'
  <2>. SUFFICES ASSUME NEW n \in Overlay
                PROVE  LET v == ov'[n] IN
                         /\ v.aim = IF v.pc \in {"off", "created", "typed"} THEN Null ELSE v.goal
                         /\ v.pc # "off" => v.goal # Null
                         /\ v.pc \in {"typed", "closed"} => v.kind = "resize"
                         /\ v.aim = Null => ~v.moved
                         /\ v.pc = "off" => v = Off
    BY DEF Aimed, Off
  <2>1. CASE n = o
    BY <2>1, <1>1 DEF IndInv, Aimed, SetTarget
  <2>2. CASE n # o
    BY <2>2, <1>1 DEF IndInv, Aimed
  <2>. QED
    BY <2>1, <2>2
<1>6. DialogOfOpen'
  BY DEF IndInv, DialogOfOpen, SetTarget, mains
<1>. QED
  BY <1>2, <1>3, <1>4, <1>5, <1>6 DEF IndInv

\* What doLayout does to the overlay and to the others.
LEMMA DoLayoutFields ==
  ASSUME IndInv, NEW o \in Overlay, NEW p \in Place, NEW s \in Nat, DoLayout(o, p, s)
  PROVE  /\ ov'[o].pc = ov[o].pc /\ ov'[o].kind = ov[o].kind /\ ov'[o].owner = ov[o].owner
         /\ ov'[o].goal = ov[o].goal /\ ov'[o].aim = ov[o].aim /\ ~ov'[o].moved
         /\ ov[o].kind = "resize" => ov'[o].place = p
         /\ \A n \in Overlay \ {o} :
              ov'[n] = IF ov[o].kind = "locate" THEN ov[n] ELSE Moved(ov, ov[o].aim)[n]
<1>1. ov \in [Overlay -> OverlayState]
  BY DEF IndInv, TypeOK
<1>2. Moved(ov, ov[o].aim) \in [Overlay -> OverlayState]
  BY MovedType DEF IndInv
<1>3. CASE ov[o].kind = "locate"
  BY <1>1, <1>3 DEF DoLayout, OverlayState
<1>4. CASE ov[o].kind # "locate"
  <2>1. ov' = [Moved(ov, ov[o].aim) EXCEPT ![o].place = p, ![o].sizes = s, ![o].moved = FALSE]
    BY <1>4 DEF DoLayout
  <2>2. /\ ov'[o].pc = Moved(ov, ov[o].aim)[o].pc
        /\ ov'[o].kind = Moved(ov, ov[o].aim)[o].kind
        /\ ov'[o].owner = Moved(ov, ov[o].aim)[o].owner
        /\ ov'[o].goal = Moved(ov, ov[o].aim)[o].goal
        /\ ov'[o].aim = Moved(ov, ov[o].aim)[o].aim
        /\ ov'[o].place = p
        /\ ~ov'[o].moved
        /\ \A n \in Overlay \ {o} : ov'[n] = Moved(ov, ov[o].aim)[n]
    BY <1>2, <2>1 DEF OverlayState
  <2>. QED
    BY <1>4, <2>2, MovedFields DEF IndInv
<1>. QED
  BY <1>3, <1>4

LEMMA DoLayoutKeeps ==
  ASSUME IndInv, NEW o \in Overlay, NEW p \in Place, NEW s \in Nat,
         ov[o].pc = "run", DoLayout(o, p, s)
  PROVE  IndInv'
<1>1. \A n \in Overlay :
        /\ ov'[n].pc = ov[n].pc /\ ov'[n].kind = ov[n].kind /\ ov'[n].owner = ov[n].owner
        /\ ov'[n].goal = ov[n].goal /\ ov'[n].aim = ov[n].aim
  BY DoLayoutFields, MovedFields DEF IndInv
<1>2. ov[o].aim # Null
  BY DEF IndInv, Aimed
<1>3. TypeOK'
  BY DoLayoutState DEF IndInv, TypeOK, DoLayout, mains
<1>4. DisabledByOne'
  BY <1>1, SameDisabled DEF IndInv, DoLayout, mains
<1>5. OverTarget'
  <2>. SUFFICES ASSUME NEW n \in Overlay, ov'[n].pc = "run", ov'[n].kind = "resize",
                       ov'[n].aim \in alive', ~ov'[n].moved
                PROVE  ov'[n].place = at'[ov'[n].aim]
    BY DEF OverTarget
  <2>. alive' = alive /\ alive \subseteq Target /\ at \in [Target -> Place]
    BY DEF DoLayout, IndInv, TypeOK
  <2>. ov[n].pc = "run" /\ ov[n].kind = "resize" /\ ov[n].aim \in alive
    BY <1>1
  <2>1. CASE n = o
    BY <2>1, <1>1, DoLayoutFields DEF DoLayout
  <2>2. CASE n # o /\ ov[o].kind = "locate"
    BY <2>2, <1>1, DoLayoutFields DEF DoLayout, IndInv, OverTarget
  <2>3. CASE n # o /\ ov[o].kind # "locate"
    <3>1. ov'[n] = Moved(ov, ov[o].aim)[n]
      BY <2>3, DoLayoutFields
    <3>2. ~ov[n].moved /\ ov[n].aim # ov[o].aim /\ ov'[n].place = ov[n].place
      BY <3>1, MovedFields DEF IndInv
    <3>3. at'[ov[n].aim] = at[ov[n].aim]
      BY <2>3, <3>2 DEF DoLayout
    <3>. QED
      BY <1>1, <3>2, <3>3 DEF IndInv, OverTarget
  <2>. QED
    BY <2>1, <2>2, <2>3
<1>6. Aimed'
  <2>. SUFFICES ASSUME NEW n \in Overlay
                PROVE  /\ ov'[n].aim = Null => ~ov'[n].moved
                       /\ ov'[n].pc = "off" => ov'[n] = Off
    BY <1>1 DEF IndInv, Aimed
  <2>1. CASE n = o
    BY <2>1, <1>1, DoLayoutFields
  <2>2. CASE n # o /\ ov[o].kind = "locate"
    BY <2>2, DoLayoutFields DEF IndInv, Aimed
  <2>3. CASE n # o /\ ov[o].kind # "locate"
    <3>1. ov'[n] = Moved(ov, ov[o].aim)[n]
      BY <2>3, DoLayoutFields
    <3>2. /\ ov[n].aim = Null => ~ov[n].moved
          /\ ov[n].pc = "off" => ov[n] = Off
      BY DEF IndInv, Aimed
    <3>. QED
      BY <1>2, <3>1, <3>2, MovedFields DEF IndInv
  <2>. QED
    BY <2>1, <2>2, <2>3
<1>7. DialogOfOpen'
  BY DEF IndInv, DialogOfOpen, DoLayout, mains
<1>. QED
  BY <1>3, <1>4, <1>5, <1>6, <1>7 DEF IndInv

LEMMA UserClosesKeeps ==
  ASSUME IndInv, NEW o \in Overlay, UserCloses(o)
  PROVE  IndInv'
<1>1. /\ ov'[o].pc = "closed" /\ ov'[o].kind = ov[o].kind /\ ov'[o].owner = ov[o].owner
      /\ ov'[o].goal = ov[o].goal /\ ov'[o].aim = ov[o].aim /\ ov'[o].moved = ov[o].moved
      /\ ov' \in [Overlay -> OverlayState]
      /\ \A n \in Overlay \ {o} : ov'[n] = ov[n]
  BY DEF IndInv, TypeOK, UserCloses, OverlayState
<1>2. TypeOK'
  BY <1>1 DEF IndInv, TypeOK, UserCloses, mains, targets
<1>3. DisabledByOne'
  BY <1>1, SameDisabled DEF IndInv, UserCloses, mains
<1>4. OverTarget'
  BY <1>1 DEF IndInv, OverTarget, UserCloses, targets
<1>5. Aimed'
  BY <1>1 DEF IndInv, Aimed, UserCloses
<1>6. DialogOfOpen'
  BY DEF IndInv, DialogOfOpen, UserCloses, mains
<1>. QED
  BY <1>2, <1>3, <1>4, <1>5, <1>6 DEF IndInv

LEMMA OffFields ==
  /\ Off \in OverlayState
  /\ Off.pc = "off" /\ Off.kind = "locate" /\ Off.aim = Null /\ ~Off.moved
BY PlaceAssumption DEF Off, OverlayState

\* A thread ends: its overlay holds none of the promises any more.
LEMMA ThreadEnds ==
  ASSUME IndInv, NEW o \in Overlay, ov' = [ov EXCEPT ![o] = Off], UNCHANGED targets
  PROVE  OverTarget' /\ Aimed' /\ ov' \in [Overlay -> OverlayState]
<1>1. ov'[o] = Off /\ \A n \in Overlay \ {o} : ov'[n] = ov[n]
  BY DEF IndInv, TypeOK
<1>2. OverTarget'
  BY <1>1, OffFields DEF IndInv, OverTarget, targets
<1>3. Aimed'
  BY <1>1, OffFields DEF IndInv, Aimed
<1>. QED
  BY <1>2, <1>3, OffFields DEF IndInv, TypeOK

LEMMA TimerKeeps ==
  ASSUME IndInv, NEW o \in Overlay, Timer(o)
  PROVE  IndInv'
<1>1. OverTarget' /\ Aimed' /\ ov' \in [Overlay -> OverlayState]
  BY ThreadEnds DEF Timer
<1>2. TypeOK'
  BY <1>1 DEF IndInv, TypeOK, Timer, mains, targets
<1>3. \A m : Resizing(m)' = Resizing(m)
  BY OffFields DEF IndInv, TypeOK, Timer, TimerIs2, Resizing
<1>4. DisabledByOne'
  BY <1>3 DEF IndInv, DisabledByOne, Disabled, Free, Timer, mains
<1>5. DialogOfOpen'
  BY DEF IndInv, DialogOfOpen, Timer, mains
<1>. QED
  BY <1>1, <1>2, <1>4, <1>5 DEF IndInv

LEMMA ReleaseKeeps ==
  ASSUME IndInv, NEW o \in Overlay, Release(o)
  PROVE  IndInv'
<1>. PICK m \in Main \cup {Null} : m = ov[o].owner
  BY DEF IndInv, TypeOK, OverlayState
<1>1. OverTarget' /\ Aimed' /\ ov' \in [Overlay -> OverlayState]
  BY ThreadEnds DEF Release
<1>2. TypeOK'
  BY <1>1 DEF IndInv, TypeOK, Release, EnableSelf, targets
<1>3. o \in Resizing(m)
  BY DEF IndInv, Aimed, Release, Resizing
<1>4. \A n : Resizing(n)' = Resizing(n) \ {o}
  BY OffFields DEF IndInv, TypeOK, Release, Resizing
<1>5. \A n : n # m => Resizing(n)' = Resizing(n)
  BY <1>4 DEF Resizing
<1>6. m \in open => m \notin waiting /\ swp[m] = Null /\ Resizing(m) = {o}
  BY <1>3 DEF IndInv, DisabledByOne, Disabled, Free
<1>7. m \in open => Resizing(m)' = {}
  BY <1>4, <1>6
<1>8. DisabledByOne'
  <2>. SUFFICES ASSUME NEW n \in open
                PROVE  IF n \in enabled' THEN Free(n)' ELSE Disabled(n)'
    BY DEF DisabledByOne, Release
  <2>1. UNCHANGED <<waiting, swp>> /\ enabled' = enabled \cup ({m} \cap open)
    BY DEF Release, EnableSelf
  <2>2. CASE n = m
    BY <2>1, <2>2, <1>6, <1>7 DEF Free
  <2>3. CASE n # m
    <3>1. Resizing(n)' = Resizing(n)
      BY <2>3, <1>5
    <3>. QED
      BY <2>1, <2>3, <3>1 DEF IndInv, DisabledByOne, Disabled, Free
  <2>. QED
    BY <2>2, <2>3
<1>9. DialogOfOpen'
  BY DEF IndInv, DialogOfOpen, Release
<1>. QED
  BY <1>1, <1>2, <1>8, <1>9 DEF IndInv

-----------------------------------------------------------------------------
(* The theorems.                                                           *)

LEMMA DragKeeps ==
  ASSUME IndInv, NEW o \in Overlay, NEW p \in Position, Drag(o, p)
  PROVE  IndInv'
<1>1. p \in Place /\ ov[o].sizes \in Nat
  BY DEF Position, IndInv, TypeOK, OverlayState
<1>. QED
  BY <1>1, DoLayoutKeeps DEF Drag

LEMMA HandleSizeKeeps ==
  ASSUME IndInv, NEW o \in Overlay, HandleSize(o)
  PROVE  IndInv'
<1>1. ov[o].place \in Place /\ ov[o].sizes - 1 \in Nat
  BY DEF HandleSize, IndInv, TypeOK, OverlayState
<1>. QED
  BY <1>1, DoLayoutKeeps DEF HandleSize

LEMMA MainKeeps ==
  ASSUME IndInv, NEW m \in Main, MainNext(m)
  PROVE  IndInv'
<1>1. ASSUME NEW t \in Target, SelectTarget(m, t) PROVE IndInv'
  BY <1>1, SelectTargetKeeps
<1>2. ASSUME NEW p \in Position, ShowTarget(m, p) PROVE IndInv'
  <2>1. target[m] \in Target /\ p \in Place
    BY <1>2 DEF ShowTarget, IndInv, TypeOK, Position
  <2>. QED
    BY <1>2, <2>1, MoveKeeps DEF ShowTarget
<1>3. ASSUME NEW p \in Position, ApplySwp(m, p) PROVE IndInv'
  <2>1. swp[m] \in Target /\ p \in Place
    BY <1>3 DEF ApplySwp, IndInv, TypeOK, Position
  <2>. QED
    BY <1>3, <2>1, MoveKeeps DEF ApplySwp
<1>4. CASE DestroyTarget(m)
  BY <1>4, DieKeeps DEF DestroyTarget
<1>5. CASE CloseTarget(m) \/ EndTask(m)
  BY <1>5, WaitKeeps
<1>6. CASE CloseReturns(m)
  BY <1>6, CloseReturnsKeeps
<1>7. CASE OpenSwp(m)
  BY <1>7, OpenSwpKeeps
<1>8. CASE EndSwp(m)
  BY <1>8, EndSwpKeeps
<1>9. CASE CloseMain(m)
  BY <1>9, CloseMainKeeps
<1>10. ASSUME NEW o \in Overlay, Locate(m, o) \/ Resize(m, o) PROVE IndInv'
  BY <1>10, StartKeeps
<1>. QED
  BY <1>1, <1>2, <1>3, <1>4, <1>5, <1>6, <1>7, <1>8, <1>9, <1>10 DEF MainNext

LEMMA OverlayKeeps ==
  ASSUME IndInv, NEW o \in Overlay, Thread(o)
  PROVE  IndInv'
BY SetTypeKeeps, SetTargetKeeps, HandleSizeKeeps, TimerKeeps, ReleaseKeeps DEF Thread

LEMMA StutterKeeps == IndInv /\ UNCHANGED vars => IndInv'
<1>. SUFFICES ASSUME IndInv, UNCHANGED vars
              PROVE  IndInv'
  OBVIOUS
<1>1. TypeOK'
  BY DEF IndInv, TypeOK, vars, mains, targets
<1>2. DisabledByOne'
  BY SameDisabled DEF IndInv, vars, mains
<1>3. OverTarget' /\ Aimed'
  BY OverlaysStay DEF IndInv, vars, targets
<1>4. DialogOfOpen'
  BY DEF IndInv, DialogOfOpen, vars, mains
<1>. QED
  BY <1>1, <1>2, <1>3, <1>4 DEF IndInv

LEMMA NextKeeps == IndInv /\ [Next]_vars => IndInv'
<1>. SUFFICES ASSUME IndInv, [Next]_vars
              PROVE  IndInv'
  OBVIOUS
<1>1. ASSUME NEW t \in Target, TargetDies(t) PROVE IndInv'
  BY <1>1, DieKeeps DEF TargetDies
<1>2. ASSUME NEW t \in Target, NEW p \in Position, TargetMoves(t, p) PROVE IndInv'
  <2>1. p \in Place
    BY DEF Position
  <2>. QED
    BY <1>2, <2>1, MoveKeeps DEF TargetMoves
<1>3. ASSUME NEW m \in Main, MainNext(m) PROVE IndInv'
  BY <1>3, MainKeeps
<1>4. ASSUME NEW o \in Overlay, Thread(o) \/ UserCloses(o) PROVE IndInv'
  BY <1>4, OverlayKeeps, UserClosesKeeps
<1>5. ASSUME NEW o \in Overlay, NEW p \in Position, Drag(o, p) PROVE IndInv'
  BY <1>5, DragKeeps
<1>6. CASE ProcessEnds
  BY <1>6, ProcessEndsKeeps
<1>7. CASE UNCHANGED vars
  BY <1>7, StutterKeeps
<1>. QED
  BY <1>1, <1>2, <1>3, <1>4, <1>5, <1>6, <1>7 DEF Next

LEMMA InitKeeps == Init => IndInv
<1>. SUFFICES ASSUME Init PROVE IndInv
  OBVIOUS
<1>1. \A o \in Overlay : ov[o] = Off
  BY DEF Init
<1>2. \A m : Resizing(m) = {}
  BY <1>1, OffFields DEF Resizing
<1>3. DisabledByOne
  BY <1>2 DEF Init, DisabledByOne, Free
<1>4. OverTarget /\ Aimed
  BY <1>1, OffFields DEF OverTarget, Aimed
<1>5. DialogOfOpen
  BY DEF Init, DialogOfOpen
<1>. QED
  BY <1>3, <1>4, <1>5, InitTypeOK DEF IndInv

\* The invariant of TargetOps, for every number of main windows, targets and
\* overlays and every set of places.
THEOREM Invariant == Spec => []IndInv
BY InitKeeps, NextKeeps, PTL DEF Spec

\* Type correctness.
THEOREM TypeCorrect == Spec => []TypeOK
<1>1. IndInv => TypeOK
  BY DEF IndInv
<1>. QED
  BY <1>1, Invariant, PTL

\* A main window is enabled exactly while nothing of its own is under way
\* (MainWindow_MenuCommands.cpp:214-267), whoever else comes and goes.
THEOREM DisabledByOneHolds == Spec => []DisabledByOne
<1>1. IndInv => DisabledByOne
  BY DEF IndInv
<1>. QED
  BY <1>1, Invariant, PTL

\* The size messages of an overlay's set-up (OverlayWindow.h:66-73) do not move the
\* target.
THEOREM SetUpMovesNothingHolds == Spec => SetUpMovesNothing
<1>. DEFINE Step == \A o \in Overlay : HandleSize(o) => at' = at \/ ov[o].moved
<1>1. ASSUME IndInv PROVE Step
  <2>. SUFFICES ASSUME NEW o \in Overlay, HandleSize(o), ~ov[o].moved
                PROVE  at' = at
    OBVIOUS
  <2>1. CASE ov[o].kind = "locate"
    BY <2>1 DEF HandleSize, DoLayout
  <2>2. CASE ov[o].kind # "locate" /\ ov[o].aim \notin alive
    BY <2>2 DEF HandleSize, DoLayout
  <2>3. CASE ov[o].kind # "locate" /\ ov[o].aim \in alive
    <3>1. ov[o].kind = "resize"
      BY <2>3, <1>1 DEF IndInv, TypeOK, OverlayState
    <3>2. ov[o].place = at[ov[o].aim]
      BY <2>3, <3>1, <1>1 DEF IndInv, OverTarget, HandleSize
    <3>3. at' = [at EXCEPT ![ov[o].aim] = at[ov[o].aim]]
      BY <2>3, <3>2 DEF HandleSize, DoLayout
    <3>. QED
      BY <3>3, <1>1 DEF IndInv, TypeOK
  <2>. QED
    BY <2>1, <2>2, <2>3
<1>. QED
  BY <1>1, Invariant, PTL DEF SetUpMovesNothing

-----------------------------------------------------------------------------
(* Liveness, from fairness and from the threads' being able to go on.      *)

\* What may happen in a step to an overlay that is there.
LEMMA OverlayStep ==
  ASSUME IndInv, Next, NEW o \in Overlay, ov[o].pc # "off"
  PROVE  \/ ProcessEnds
         \/ /\ ov'[o].pc = ov[o].pc /\ ov'[o].kind = ov[o].kind
            /\ ov'[o].owner = ov[o].owner
         \/ SetType(o) \/ SetTarget(o) \/ Timer(o) \/ Release(o) \/ UserCloses(o)
<1> DEFINE Same == /\ ov'[o].pc = ov[o].pc /\ ov'[o].kind = ov[o].kind
                   /\ ov'[o].owner = ov[o].owner
<1>1. TypeOK /\ ov \in [Overlay -> OverlayState] /\ Off.pc = "off"
  BY DEF IndInv, TypeOK, Off
<1>2. ASSUME UNCHANGED ov PROVE Same
  BY <1>2
<1>3. ASSUME NEW t, NEW p, Move(t, p) PROVE Same
  BY <1>1, <1>3, MovedFields DEF Move
<1>4. ASSUME NEW m \in Main, MainNext(m) PROVE Same
  <2>1. ASSUME NEW c \in Overlay, NEW k, Start(m, c, k) PROVE Same
    <3>1. c # o
      BY <1>1, <2>1 DEF Start
    <3> QED
      BY <1>1, <2>1, <3>1 DEF Start
  <2>2. ASSUME NEW c \in Overlay, Locate(m, c) \/ Resize(m, c) PROVE Same
    BY <2>1, <2>2 DEF Locate, Resize
  <2>3. ASSUME NEW p, ShowTarget(m, p) \/ ApplySwp(m, p) PROVE Same
    BY <1>3, <2>3 DEF ShowTarget, ApplySwp
  <2> QED
    BY <1>2, <1>4, <2>2, <2>3
       DEF MainNext, SelectTarget, DestroyTarget, CloseTarget, EndTask, CloseReturns,
           OpenSwp, EndSwp, CloseMain, targets
<1>5. ASSUME NEW c \in Overlay, NEW p \in Place, NEW s \in Nat, DoLayout(c, p, s) PROVE Same
  <2>1. CASE ov[c].kind = "locate"
    <3> DEFINE q == Rect(ov[c].aim)
    <3>1. ov' = [ov EXCEPT ![c].place = q, ![c].sizes = s, ![c].moved = FALSE]
      BY <1>5, <2>1 DEF DoLayout
    <3> HIDE DEF q
    <3> QED
      BY <1>1, <3>1
  <2>2. CASE ov[c].kind # "locate"
    <3> DEFINE all == Moved(ov, ov[c].aim)
    <3>1. /\ all \in [Overlay -> OverlayState]
          /\ all[o].pc = ov[o].pc /\ all[o].kind = ov[o].kind /\ all[o].owner = ov[o].owner
      BY <1>1, MovedType, MovedFields
    <3>2. ov' = [all EXCEPT ![c].place = p, ![c].sizes = s, ![c].moved = FALSE]
      BY <1>5, <2>2 DEF DoLayout
    <3> HIDE DEF all
    <3> QED
      BY <3>1, <3>2
  <2> QED
    BY <2>1, <2>2
<1>6. ASSUME NEW c \in Overlay, NEW p \in Position, Drag(c, p) PROVE Same
  <2>1. p \in Place /\ ov[c].sizes \in Nat
    BY <1>1 DEF Position, OverlayState
  <2> QED
    BY <1>5, <1>6, <2>1 DEF Drag
<1>7. ASSUME NEW c \in Overlay, HandleSize(c) PROVE Same
  <2>1. ov[c].place \in Place /\ ov[c].sizes - 1 \in Nat
    BY <1>1, <1>7 DEF OverlayState, HandleSize
  <2> QED
    BY <1>5, <1>7, <2>1 DEF HandleSize
<1>8. ASSUME NEW c \in Overlay, c # o, Thread(c) \/ UserCloses(c) PROVE Same
  BY <1>1, <1>7, <1>8 DEF Thread, SetType, SetTarget, Timer, Release, UserCloses
<1>9. CASE Thread(o) \/ UserCloses(o)
  BY <1>7, <1>9 DEF Thread
<1>10. ASSUME NEW t, TargetDies(t) \/ \E p \in Position : TargetMoves(t, p) PROVE Same
  BY <1>2, <1>3, <1>10 DEF TargetDies, TargetMoves
<1> QED
  BY <1>4, <1>6, <1>8, <1>9, <1>10 DEF Next

\* What the steps of an overlay do to it and to its main window.
LEMMA ThreadEffect ==
  ASSUME IndInv, NEW o \in Overlay
  PROVE  /\ SetType(o) => /\ ov[o].kind = "resize" /\ ov[o].pc = "created"
                          /\ ov'[o].pc = "typed" /\ ov'[o].kind = "resize"
                          /\ ov'[o].owner = ov[o].owner
         /\ SetTarget(o) => /\ ov[o].pc = IF ov[o].kind = "resize" THEN "typed" ELSE "created"
                            /\ ov'[o].pc = "run" /\ ov'[o].kind = ov[o].kind
         /\ Timer(o) => ov[o].kind = "locate" /\ ov[o].pc = "run" /\ ov'[o] = Off
         /\ Release(o) => /\ ov[o].pc = "closed" /\ open' = open
                          /\ \A m : ov[o].owner = m => m \notin open \/ m \in enabled'
         /\ UserCloses(o) => ov[o].pc = "run" /\ ov[o].kind = "resize"
         /\ ProcessEnds => ov'[o] = Off /\ open' = {}
<1>1. ov \in [Overlay -> OverlayState]
  BY DEF IndInv, TypeOK
<1>2. ov[o] \in OverlayState
  BY <1>1
<1> QED
  BY <1>1, <1>2 DEF SetType, SetTarget, Timer, TimerIs2, Release, EnableSelf, UserCloses, ProcessEnds, OverlayState

\* An overlay's thread runs on, to its message loop and after it, and the timer of
\* "Locate" fires.
RunsOn(o) ==
  /\ []<>(ov[o].pc \in {"off", "run"}) \/ []<><<Thread(o)>>_vars
  /\ []<>~(ov[o].pc = "run" /\ ov[o].kind = "locate") \/ []<><<Timer(o)>>_vars

\* The wait for a target ends.
ComesBack(m) == []<>~(m \in waiting) \/ []<><<CloseReturns(m)>>_vars

Scheduled == (\A o \in Overlay : RunsOn(o)) /\ (\A m \in Main : ComesBack(m))

\* That is the fairness of the model, wherever the next step is possible.
LEMMA FairRunsOn ==
  ASSUME NEW o \in Overlay
  PROVE  /\ Runs(o)
         /\ [](~(ov[o].pc \in {"off", "run"}) => ENABLED <<Thread(o)>>_vars)
         /\ [](ov[o].pc = "run" /\ ov[o].kind = "locate" => ENABLED <<Timer(o)>>_vars)
         => RunsOn(o)
BY PTL DEF Runs, RunsOn

LEMMA FairComesBack ==
  ASSUME NEW m \in Main
  PROVE  Returns(m) /\ [](m \in waiting => ENABLED <<CloseReturns(m)>>_vars) => ComesBack(m)
BY PTL DEF Returns, ComesBack

\* The overlay of "Locate" goes away: its thread gets to the message loop, and there
\* the timer ends it.
THEOREM LocateEndsHolds == Spec /\ Scheduled => LocateEnds
<1> DEFINE At(o, p) == ov[o].pc = p /\ ov[o].kind = "locate"
<1>1. SUFFICES ASSUME NEW o \in Overlay PROVE Spec /\ Scheduled => GoesAway(o)
  <2>1. \A o \in Overlay : Spec /\ Scheduled => GoesAway(o)
    BY <1>1
  <2> QED
    BY <2>1 DEF LocateEnds
<1>2. Scheduled => RunsOn(o)
  BY DEF Scheduled
<1>4. IndInv /\ ov[o].pc # "off" /\ ov[o].kind = "locate" => At(o, "created") \/ At(o, "run")
  <2> SUFFICES ASSUME IndInv, ov[o].pc # "off", ov[o].kind = "locate"
               PROVE  At(o, "created") \/ At(o, "run")
    OBVIOUS
  <2>1. ov[o] \in OverlayState /\ ov[o].pc \notin {"typed", "closed"}
    BY DEF IndInv, TypeOK, Aimed
  <2> QED
    BY <2>1 DEF OverlayState
<1>5. ASSUME IndInv, [Next]_vars, At(o, "created")
      PROVE  At(o, "created")' \/ At(o, "run")' \/ (ov[o] = Off)'
  BY <1>5, OverlayStep, ThreadEffect DEF vars
<1>6. ASSUME IndInv, [Next]_vars, At(o, "run")
      PROVE  At(o, "run")' \/ (ov[o] = Off)'
  BY <1>6, OverlayStep, ThreadEffect DEF vars
<1>7. ASSUME IndInv, At(o, "created"), <<Thread(o)>>_vars
      PROVE  At(o, "run")'
  BY <1>7, ThreadEffect DEF Thread, HandleSize
<1>8. ASSUME IndInv, At(o, "run"), <<Timer(o)>>_vars
      PROVE  (ov[o] = Off)'
  BY <1>8, ThreadEffect
<1>9. /\ At(o, "created") => ~(ov[o].pc \in {"off", "run"})
      /\ At(o, "run") => ov[o].pc = "run" /\ ov[o].kind = "locate"
  OBVIOUS
<1> HIDE DEF At
<1> QED
  BY <1>2, <1>4, <1>5, <1>6, <1>7, <1>8, <1>9, Invariant, PTL DEF Spec, RunsOn, GoesAway

\* Nothing but its end takes the wait for a target from a main window.
LEMMA WaitEndsHolds ==
  ASSUME NEW m \in Main PROVE Spec /\ Scheduled => WaitEnds(m)
<1>1. Scheduled => ComesBack(m)
  BY DEF Scheduled
<1>3. IndInv /\ m \in waiting => waiting = {m}
  BY DEF IndInv, TypeOK, DisabledByOne, Disabled, Free
<1>4. ASSUME IndInv, [Next]_vars, m \in waiting
      PROVE  (m \in waiting)' \/ Back(m)'
  <2>1. waiting = {m}
    BY <1>3, <1>4
  <2>2. ASSUME NEW n \in Main, MainNext(n) PROVE (m \in waiting)' \/ Back(m)'
    BY <2>1, <2>2
       DEF MainNext, SelectTarget, DestroyTarget, CloseTarget, EndTask, CloseReturns,
           OpenSwp, EndSwp, CloseMain, Locate, Resize, Start, ShowTarget, ApplySwp,
           Command, UI, Back
  <2>3. CASE ProcessEnds
    BY <2>3 DEF ProcessEnds, Back
  <2> QED
    BY <1>4, <2>1, <2>2, <2>3
       DEF Next, vars, mains, TargetDies, TargetMoves, Move, Thread, SetType, SetTarget,
           HandleSize, Drag, DoLayout, UserCloses, Timer, Release
<1>5. ASSUME <<CloseReturns(m)>>_vars PROVE Back(m)'
  BY <1>5 DEF CloseReturns, Back
<1> QED
  BY <1>1, <1>4, <1>5, Invariant, PTL DEF Spec, ComesBack, WaitEnds

\* An overlay of "Resize" gets to its message loop, and from there to the end of its
\* thread, which enables the main window.
LEMMA LetsGoHolds ==
  ASSUME NEW m \in Main, NEW o \in Overlay PROVE Spec /\ Scheduled => LetsGo(m, o)
<1> DEFINE At(p) == ov[o].pc = p /\ o \in Resizing(m)
           Goal == Back(m) \/ ov[o].pc = "run"
<1>1. Scheduled => RunsOn(o)
  BY DEF Scheduled
<1>3. IndInv /\ o \in Resizing(m) => At("created") \/ At("typed") \/ At("closed") \/ Goal
  <2> SUFFICES ASSUME IndInv, o \in Resizing(m)
               PROVE  ov[o].pc \in {"created", "typed", "run", "closed"}
    OBVIOUS
  <2>1. ov[o] \in OverlayState /\ (ov[o].pc = "off" => ov[o] = Off)
    BY DEF IndInv, TypeOK, Aimed
  <2> QED
    BY <2>1 DEF OverlayState, Resizing, Off
<1>4. ASSUME IndInv, [Next]_vars, At("created")
      PROVE  At("created")' \/ At("typed")' \/ Goal'
  BY <1>4, OverlayStep, ThreadEffect DEF vars, Resizing, Back
<1>5. ASSUME IndInv, [Next]_vars, At("typed")
      PROVE  At("typed")' \/ Goal'
  BY <1>5, OverlayStep, ThreadEffect DEF vars, Resizing, Back
<1>6. ASSUME IndInv, [Next]_vars, At("closed")
      PROVE  At("closed")' \/ Goal'
  BY <1>6, OverlayStep, ThreadEffect DEF vars, Resizing, Back
<1>7. ASSUME IndInv, At("created"), <<Thread(o)>>_vars
      PROVE  At("typed")' \/ Goal'
  BY <1>7, ThreadEffect DEF Thread, HandleSize, Resizing
<1>8. ASSUME IndInv, At("typed"), <<Thread(o)>>_vars
      PROVE  Goal'
  BY <1>8, ThreadEffect DEF Thread, HandleSize, Resizing
<1>9. ASSUME IndInv, At("closed"), <<Thread(o)>>_vars
      PROVE  Goal'
  BY <1>9, ThreadEffect DEF Thread, HandleSize, Resizing, Back
<1>10. At("created") \/ At("typed") \/ At("closed") => ~(ov[o].pc \in {"off", "run"})
  OBVIOUS
<1>11. LetsGo(m, o) <=> (o \in Resizing(m) ~> Goal)
  BY DEF LetsGo
<1> HIDE DEF At, Goal
<1> QED
  BY <1>1, <1>3, <1>4, <1>5, <1>6, <1>7, <1>8, <1>9, <1>10, <1>11, Invariant, PTL
     DEF Spec, RunsOn

\* A main window is not disabled for good by a wait, nor by an overlay that the user
\* closes.
THEOREM EnabledAgainHolds == Spec /\ Scheduled => EnabledAgain
<1>1. \A m \in Main : Spec /\ Scheduled => WaitEnds(m)
  BY WaitEndsHolds
<1>2. \A m \in Main : \A o \in Overlay : Spec /\ Scheduled => LetsGo(m, o)
  BY LetsGoHolds
<1> QED
  BY <1>1, <1>2 DEF EnabledAgain
=============================================================================
