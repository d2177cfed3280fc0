------------------------- MODULE StyleWordsProofs -------------------------
(* Proofs about StyleWords, for any windows, flags, menus and editors.     *)
EXTENDS StyleWords, TLAPS

USE StyleAssumption DEF Windows, Users, Holding

\* What a word turns into when a copy is written back differs from the copy by
\* the flags of an entry.
LEMMA EntryChanges ==
  ASSUME NEW s \in SUBSET Flags, NEW f \in SUBSET Flags
  PROVE  /\ Toggle(s, f) \in SUBSET Flags /\ SymDiff(s, Toggle(s, f)) \subseteq f
         /\ f \subseteq Basic => /\ SetBasic(s, f) \in SUBSET Flags
                                 /\ SymDiff(s, SetBasic(s, f)) \subseteq Basic
         /\ s \cup f \in SUBSET Flags /\ SymDiff(s, s \cup f) \subseteq f
         /\ s \ f \in SUBSET Flags /\ SymDiff(s, s \ f) \subseteq f
BY DEF Toggle, SetBasic, SymDiff

\* Differences add up.
LEMMA DiffTriangle ==
  ASSUME NEW s, NEW t, NEW r
  PROVE  SymDiff(s, r) \subseteq SymDiff(s, t) \cup SymDiff(t, r)
BY DEF SymDiff

LEMMA DiffSame == \A s : SymDiff(s, s) = {}
BY DEF SymDiff

LEMMA DiffSwap == \A s, t : SymDiff(s, t) = SymDiff(t, s)
BY DEF SymDiff

\* The new word a menu or an editor writes differs from its copy by one entry.
Written(u, new) ==
  new \in SUBSET Flags /\ \E f \in Entries : SymDiff(style[u], new) \subseteq f

LEMMA InitStyleInv == Init => StyleInv
<1> SUFFICES ASSUME Init PROVE StyleInv
  OBVIOUS
<1>1. TypeOK
  BY DEF Init, TypeOK
<1>2. OnWindow /\ CopyIsCurrent /\ ShowsChosen /\ SavesLeft
  BY DEF Init, OnWindow, CopyIsCurrent, ShowsChosen, SavesLeft, Inherited
<1> QED
  BY <1>1, <1>2 DEF StyleInv

-----------------------------------------------------------------------------
(* A word changes.                                                         *)

\* The flags of a window change: every copy differs from the new word only by
\* what others have changed, that of the writer, who is done with it, excepted.
LEMMA SeenChange ==
  ASSUME StyleInv, NEW w \in Windows, NEW new \in SUBSET Flags, NEW by,
         OthersSee(w, SymDiff(word[w], new), by),
         word' = [word EXCEPT ![w] = new]
  PROVE  /\ others' \in [Users -> SUBSET Flags]
         /\ \A u \in Users \ {by} : at[u] \in Holding =>
              SymDiff(style[u], word'[on[u]]) \subseteq others'[u]
<1> USE DEF StyleInv, TypeOK, OthersSee
<1>1. SymDiff(word[w], new) \subseteq Flags
  BY DEF SymDiff
<1>2. others' \in [Users -> SUBSET Flags]
  BY <1>1
<1>3. ASSUME NEW u \in Users \ {by}, at[u] \in Holding
      PROVE  SymDiff(style[u], word'[on[u]]) \subseteq others'[u]
  <2>1. on[u] \in Windows
    BY <1>3 DEF OnWindow
  <2>2. SymDiff(style[u], word[on[u]]) \subseteq others[u]
    BY <1>3 DEF CopyIsCurrent
  <2>3. CASE on[u] = w
    <3>1. others'[u] = others[u] \cup SymDiff(word[w], new) /\ word'[on[u]] = new
      BY <1>3, <2>1, <2>3
    <3> QED
      BY <2>2, <2>3, <3>1, DiffTriangle
  <2>4. CASE on[u] # w
    BY <1>3, <2>1, <2>2, <2>4
  <2> QED
    BY <2>3, <2>4
<1> QED
  BY <1>2, <1>3

\* A window gets another word.
LEMMA SetWordKeeps ==
  ASSUME StyleInv, NEW w \in open, NEW new \in SUBSET Flags, NEW by, SetWord(w, new, by)
  PROVE  /\ open' \subseteq Windows
         /\ word' \in [Windows -> SUBSET Flags]
         /\ alpha' \in [Windows -> Alphas \cup {Nothing}]
         /\ cfgAlpha' \in Alphas /\ chosen' \in [Mains -> Alphas] /\ kept' \subseteq Mains
         /\ left' \in [way : {"closed", "bare", "destroyed"}, alpha : Alphas]
         /\ ShowsChosen' /\ SavesLeft'
<1> USE DEF StyleInv, TypeOK, SetWord, saved
<1>1. w \in Windows
  OBVIOUS
<1>2. /\ open' \subseteq Windows
      /\ word' \in [Windows -> SUBSET Flags]
      /\ alpha' \in [Windows -> Alphas \cup {Nothing}]
      /\ cfgAlpha' \in Alphas /\ chosen' \in [Mains -> Alphas] /\ kept' \subseteq Mains
      /\ left' \in [way : {"closed", "bare", "destroyed"}, alpha : Alphas] /\ SavesLeft'
  BY <1>1 DEF SavesLeft, Inherited
<1>3. ASSUME NEW x \in kept'
      PROVE  x \in open' /\ Layered \in word'[x] /\ alpha'[x] = chosen'[x]
  BY <1>1, <1>3 DEF ShowsChosen
<1>4. \A x \in Mains \ open' : word'[x] = {}
  BY <1>1 DEF ShowsChosen
<1>5. \A x \in Mains \ kept' : alpha'[x] = Nothing
  BY <1>1 DEF ShowsChosen
<1> QED
  BY <1>2, <1>3, <1>4, <1>5 DEF ShowsChosen

\* A menu or an editor writes its copy back.
LEMMA WriteBackKeeps ==
  ASSUME StyleInv, NEW u \in Users, at[u] \in Holding, NEW new, Written(u, new),
         WriteBack(u, new)
  PROVE  /\ open' \subseteq Windows
         /\ word' \in [Windows -> SUBSET Flags]
         /\ alpha' \in [Windows -> Alphas \cup {Nothing}]
         /\ cfgAlpha' \in Alphas /\ chosen' \in [Mains -> Alphas] /\ kept' \subseteq Mains
         /\ left' \in [way : {"closed", "bare", "destroyed"}, alpha : Alphas]
         /\ ShowsChosen' /\ SavesLeft'
         /\ others' \in [Users -> SUBSET Flags]
         /\ \A v \in Users \ {u} : at[v] \in Holding =>
              SymDiff(style[v], word'[on[v]]) \subseteq others'[v]
         /\ \A w \in Windows \ {on[u]} : word'[w] = word[w]
         /\ \E f \in Entries : SymDiff(word[on[u]], word'[on[u]]) \subseteq f \cup others[u]
         /\ open' = open
<1> USE DEF StyleInv, TypeOK
<1>1. on[u] \in Windows
  BY DEF OnWindow
<1>2. new \in SUBSET Flags
  BY DEF Written
<1>3. SymDiff(style[u], word[on[u]]) \subseteq others[u]
  BY DEF CopyIsCurrent
<1>4. CASE on[u] \in open
  <2>1. SetWord(on[u], new, u)
    BY <1>4 DEF WriteBack
  <2>2. OthersSee(on[u], SymDiff(word[on[u]], new), u) /\ word' = [word EXCEPT ![on[u]] = new]
        /\ open' = open
    BY <2>1 DEF SetWord
  <2>3. PICK f \in Entries : SymDiff(style[u], new) \subseteq f
    BY DEF Written
  <2>4. SymDiff(word[on[u]], word'[on[u]]) \subseteq f \cup others[u]
    <3>1. word'[on[u]] = new
      BY <1>1, <2>2
    <3> QED
      BY <1>3, <2>3, <3>1, DiffTriangle, DiffSwap
  <2>5. \A w \in Windows \ {on[u]} : word'[w] = word[w]
    BY <1>1, <2>2
  <2>6. /\ others' \in [Users -> SUBSET Flags]
        /\ \A v \in Users \ {u} : at[v] \in Holding =>
             SymDiff(style[v], word'[on[v]]) \subseteq others'[v]
    BY <1>1, <1>2, <2>2, SeenChange
  <2> QED
    BY <1>2, <1>4, <2>1, <2>2, <2>4, <2>5, <2>6, SetWordKeeps
<1>5. CASE on[u] \notin open
  <2>1. /\ others' = [others EXCEPT ![u] = {}]
        /\ UNCHANGED <<open, word, alpha, kept, saved>>
    BY <1>5 DEF WriteBack
  <2>2. PICK f \in Entries : SymDiff(style[u], new) \subseteq f
    BY DEF Written
  <2>3. SymDiff(word[on[u]], word'[on[u]]) \subseteq f \cup others[u]
    BY <2>1, DiffSame
  <2>4. ShowsChosen' /\ SavesLeft'
    BY <2>1 DEF ShowsChosen, SavesLeft, Inherited, saved
  <2>5. /\ others' \in [Users -> SUBSET Flags]
        /\ \A v \in Users \ {u} : at[v] \in Holding =>
             SymDiff(style[v], word'[on[v]]) \subseteq others'[v]
    BY <2>1 DEF CopyIsCurrent
  <2> QED
    BY <2>1, <2>3, <2>4, <2>5 DEF saved
<1> QED
  BY <1>4, <1>5

-----------------------------------------------------------------------------
(* The menus.                                                              *)

\* A step that changes no word.
LEMMA WordsStay ==
  ASSUME StyleInv, UNCHANGED <<open, word, alpha, kept, saved>>
  PROVE  /\ open' \subseteq Windows
         /\ word' \in [Windows -> SUBSET Flags]
         /\ alpha' \in [Windows -> Alphas \cup {Nothing}]
         /\ cfgAlpha' \in Alphas /\ chosen' \in [Mains -> Alphas] /\ kept' \subseteq Mains
         /\ left' \in [way : {"closed", "bare", "destroyed"}, alpha : Alphas]
         /\ ShowsChosen' /\ SavesLeft'
BY DEF StyleInv, TypeOK, ShowsChosen, SavesLeft, Inherited, saved

LEMMA OpenMenuStep ==
  ASSUME StyleInv, NEW m \in Menus, NEW w \in Windows, OpenMenu(m, w)
  PROVE  StyleInv'
<1> USE DEF StyleInv, OpenMenu, Goto
<1>1. TypeOK'
  BY WordsStay DEF TypeOK
<1>2. OnWindow' /\ CopyIsCurrent'
  BY DEF TypeOK, OnWindow, CopyIsCurrent
<1> QED
  BY <1>1, <1>2, WordsStay

\* Somebody reads the word of the window it works on.
LEMMA LookStep ==
  ASSUME StyleInv, NEW u \in Users, NEW place \in Holding, at[u] # "off",
         Goto(u, place), Look(u, on[u]), UNCHANGED <<open, word, alpha, kept, saved, on>>
  PROVE  StyleInv'
<1> USE DEF StyleInv, Look, Goto
<1>1. on[u] \in Windows
  BY DEF OnWindow
<1>2. TypeOK'
  BY <1>1, WordsStay DEF TypeOK
<1>3. OnWindow'
  BY DEF TypeOK, OnWindow
<1>4. CopyIsCurrent'
  BY DiffSame DEF TypeOK, CopyIsCurrent
<1> QED
  BY <1>2, <1>3, <1>4, WordsStay

LEMMA AgainStep == ASSUME StyleInv, NEW m \in Menus, Again(m) PROVE StyleInv'
BY LookStep DEF Again

LEMMA ChooseBorderStep == ASSUME StyleInv, NEW m \in Menus, ChooseBorder(m) PROVE StyleInv'
BY LookStep DEF ChooseBorder

LEMMA FinishStep == ASSUME StyleInv, NEW m \in Menus, Finish(m) PROVE StyleInv'
<1> USE DEF StyleInv, Finish, Forget, Goto
<1>1. TypeOK'
  BY WordsStay DEF TypeOK
<1>2. OnWindow' /\ CopyIsCurrent'
  BY DEF TypeOK, OnWindow, CopyIsCurrent
<1> QED
  BY <1>1, <1>2, WordsStay

\* What an entry of the style menu makes of the copy.
LEMMA ChooseWrites ==
  ASSUME StyleInv, NEW m \in Menus, Choose(m)
  PROVE  \E new : /\ Written(m, new) /\ WriteBack(m, new)
                  /\ style' = [style EXCEPT ![m] = new]
<1>1. style[m] \in SUBSET Flags
  BY DEF StyleInv, TypeOK
<1>2. PICK new \in {Toggle(style[m], f) : f \in Toggles}
                   \cup {SetBasic(style[m], f) : f \in {{}} \cup {{b} : b \in Basic}} :
        WriteBack(m, new) /\ style' = [style EXCEPT ![m] = new]
  BY DEF Choose
<1>3. CASE new \in {Toggle(style[m], f) : f \in Toggles}
  <2>1. PICK f \in Toggles : new = Toggle(style[m], f)
    BY <1>3
  <2>2. SymDiff(style[m], new) \subseteq f /\ new \in SUBSET Flags
    BY <1>1, <2>1, EntryChanges
  <2> QED
    BY <1>2, <2>2 DEF Written, Entries
<1>4. CASE new \in {SetBasic(style[m], f) : f \in {{}} \cup {{b} : b \in Basic}}
  <2>1. PICK f \in SUBSET Basic : new = SetBasic(style[m], f)
    BY <1>4
  <2>2. SymDiff(style[m], new) \subseteq Basic /\ new \in SUBSET Flags
    BY <1>1, <2>1, EntryChanges
  <2> QED
    BY <1>2, <2>2 DEF Written, Entries
<1> QED
  BY <1>2, <1>3, <1>4

LEMMA ChooseStep == ASSUME StyleInv, NEW m \in Menus, Choose(m) PROVE StyleInv'
<1>1. PICK new : /\ Written(m, new) /\ WriteBack(m, new)
                 /\ style' = [style EXCEPT ![m] = new]
  BY ChooseWrites
<1>2. at[m] \in Holding /\ at' = [at EXCEPT ![m] = "again"] /\ on' = on
  BY DEF Choose, Goto
<1>3. new \in SUBSET Flags
  BY <1>1 DEF Written
<1>4. TypeOK'
  BY <1>1, <1>2, <1>3, WriteBackKeeps DEF StyleInv, TypeOK
<1>5. OnWindow'
  BY <1>2 DEF StyleInv, TypeOK, OnWindow
<1>6. CopyIsCurrent'
  BY <1>1, <1>2, WriteBackKeeps DEF StyleInv, TypeOK, CopyIsCurrent
<1> QED
  BY <1>1, <1>2, <1>4, <1>5, <1>6, WriteBackKeeps DEF StyleInv

\* What the border menu makes of it.
LEMMA SetBorderWrites ==
  ASSUME StyleInv, NEW m \in Menus, SetBorder(m)
  PROVE  \E new : Written(m, new) /\ WriteBack(m, new)
<1>1. style[m] \in SUBSET Flags /\ Frame \in SUBSET Flags
  BY DEF StyleInv, TypeOK
<1>2. Written(m, style[m] \cup Frame) /\ Written(m, style[m] \ Frame)
  BY <1>1, EntryChanges DEF Written, Entries
<1> QED
  BY <1>2 DEF SetBorder

LEMMA SetBorderStep == ASSUME StyleInv, NEW m \in Menus, SetBorder(m) PROVE StyleInv'
<1>1. PICK new : Written(m, new) /\ WriteBack(m, new)
  BY SetBorderWrites
<1>2. /\ at[m] \in Holding /\ at' = [at EXCEPT ![m] = "off"]
      /\ on' = [on EXCEPT ![m] = Nothing] /\ style' = [style EXCEPT ![m] = {}]
  BY DEF SetBorder, Forget, Goto
<1>3. TypeOK'
  BY <1>1, <1>2, WriteBackKeeps DEF StyleInv, TypeOK
<1>4. OnWindow'
  BY <1>2 DEF StyleInv, TypeOK, OnWindow
<1>5. CopyIsCurrent'
  BY <1>1, <1>2, WriteBackKeeps DEF StyleInv, TypeOK, CopyIsCurrent
<1> QED
  BY <1>1, <1>2, <1>3, <1>4, <1>5, WriteBackKeeps DEF StyleInv

-----------------------------------------------------------------------------
(* The transparency editors.                                               *)

LEMMA ThumbStep ==
  ASSUME StyleInv, NEW e \in Editors, NEW w \in Windows, Thumb(e, w)
  PROVE  StyleInv'
<1> USE DEF StyleInv, Thumb, Goto
<1>1. TypeOK'
  BY WordsStay DEF TypeOK
<1>2. OnWindow' /\ CopyIsCurrent'
  BY DEF TypeOK, OnWindow, CopyIsCurrent
<1> QED
  BY <1>1, <1>2, WordsStay

LEMMA ReadWordStep == ASSUME StyleInv, NEW e \in Editors, ReadWord(e) PROVE StyleInv'
BY LookStep DEF ReadWord

LEMMA AddLayeredWrites ==
  ASSUME StyleInv, NEW e \in Editors, AddLayered(e)
  PROVE  /\ Written(e, style[e] \cup {Layered})
         /\ WriteBack(e, style[e] \cup {Layered})
<1>1. style[e] \in SUBSET Flags /\ {Layered} \in SUBSET Flags
  BY DEF StyleInv, TypeOK
<1>2. /\ style[e] \cup {Layered} \in SUBSET Flags
      /\ SymDiff(style[e], style[e] \cup {Layered}) \subseteq {Layered}
  BY <1>1, EntryChanges
<1>3. Written(e, style[e] \cup {Layered})
  BY <1>2 DEF Written, Entries
<1> QED
  BY <1>3 DEF AddLayered

LEMMA AddLayeredStep == ASSUME StyleInv, NEW e \in Editors, AddLayered(e) PROVE StyleInv'
<1>1. /\ Written(e, style[e] \cup {Layered})
      /\ WriteBack(e, style[e] \cup {Layered})
  BY AddLayeredWrites
<1>2. /\ at[e] \in Holding /\ at' = [at EXCEPT ![e] = "attribute"] /\ on' = on
      /\ style' = [style EXCEPT ![e] = {}]
  BY DEF AddLayered, Goto
<1>3. TypeOK'
  BY <1>1, <1>2, WriteBackKeeps DEF StyleInv, TypeOK
<1>4. OnWindow'
  BY <1>2 DEF StyleInv, TypeOK, OnWindow
<1>5. CopyIsCurrent'
  BY <1>1, <1>2, WriteBackKeeps DEF StyleInv, TypeOK, CopyIsCurrent
<1> QED
  BY <1>1, <1>2, <1>3, <1>4, <1>5, WriteBackKeeps DEF StyleInv

LEMMA SetAlphaStep == ASSUME StyleInv, NEW e \in Editors, SetAlpha(e) PROVE StyleInv'
<1> USE DEF StyleInv, SetAlpha, Forget, Goto
<1>1. on[e] \in Windows
  BY DEF OnWindow
<1>2. TypeOK'
  BY <1>1 DEF TypeOK
<1>3. OnWindow' /\ CopyIsCurrent'
  BY DEF TypeOK, OnWindow, CopyIsCurrent
<1>4. ASSUME NEW w \in kept'
      PROVE  w \in open' /\ Layered \in word'[w] /\ alpha'[w] = chosen'[w]
  <2>1. CASE w = on[e] /\ Layered \in word[w]
    <3>1. w \in Mains
      BY <1>4, <2>1 DEF TypeOK
    <3>2. alpha'[w] = chosen'[w]
      BY <1>1, <2>1, <3>1 DEF TypeOK
    <3> QED
      BY <2>1, <3>1, <3>2 DEF ShowsChosen
  <2>2. CASE w # on[e]
    BY <1>1, <1>4, <2>2 DEF TypeOK, ShowsChosen
  <2>3. CASE w = on[e] /\ Layered \notin word[w]
    BY <1>4, <2>3 DEF ShowsChosen
  <2> QED
    BY <2>1, <2>2, <2>3
<1>5. \A w \in Mains \ kept' : alpha'[w] = Nothing
  BY <1>1 DEF TypeOK, ShowsChosen
<1>6. ShowsChosen' /\ SavesLeft'
  BY <1>4, <1>5 DEF ShowsChosen, SavesLeft, Inherited
<1> QED
  BY <1>2, <1>3, <1>6

-----------------------------------------------------------------------------
(* The windows.                                                            *)

LEMMA OpenStep == ASSUME StyleInv, NEW w \in Windows, Open(w) PROVE StyleInv'
<1> USE DEF StyleInv, Open
<1>1. word[w] = {} /\ SymDiff(word[w], {Layered}) = {Layered}
  BY DEF ShowsChosen, SymDiff
<1>2. /\ OthersSee(w, SymDiff(word[w], {Layered}), Nothing)
      /\ word' = [word EXCEPT ![w] = {Layered}]
      /\ {Layered} \in SUBSET Flags
  BY <1>1
<1>3. /\ others' \in [Users -> SUBSET Flags]
      /\ \A u \in Users \ {Nothing} : at[u] \in Holding =>
           SymDiff(style[u], word'[on[u]]) \subseteq others'[u]
  BY <1>2, SeenChange
<1>4. TypeOK'
  BY <1>3 DEF TypeOK
<1>5. OnWindow' /\ CopyIsCurrent'
  BY <1>3 DEF TypeOK, OnWindow, CopyIsCurrent
<1>6. ShowsChosen' /\ SavesLeft'
  BY DEF TypeOK, ShowsChosen, SavesLeft, Inherited
<1> QED
  BY <1>4, <1>5, <1>6

LEMMA GoneStep ==
  ASSUME StyleInv, NEW w \in Windows, Gone(w), cfgAlpha' \in Alphas, SavesLeft',
         left' \in [way : {"closed", "bare", "destroyed"}, alpha : Alphas]
  PROVE  StyleInv'
<1> USE DEF StyleInv, Gone
<1>1. SymDiff(word[w], {}) = word[w]
  BY DEF SymDiff
<1>2. OthersSee(w, SymDiff(word[w], {}), Nothing)
  BY <1>1
<1>3. /\ others' \in [Users -> SUBSET Flags]
      /\ \A u \in Users \ {Nothing} : at[u] \in Holding =>
           SymDiff(style[u], word'[on[u]]) \subseteq others'[u]
  BY <1>2, SeenChange
<1>4. TypeOK'
  BY <1>3 DEF TypeOK
<1>5. OnWindow' /\ CopyIsCurrent'
  BY <1>3 DEF TypeOK, OnWindow, CopyIsCurrent
<1>6. ShowsChosen'
  BY DEF TypeOK, ShowsChosen
<1> QED
  BY <1>4, <1>5, <1>6

\* How a main window ended, of those that end in a step.
LEMMA EndedKeeps ==
  ASSUME StyleInv, NEW w \in Mains, NEW way \in {"closed", "bare", "destroyed"}, Ended(w, way),
         cfgAlpha' = Inherited(left')
  PROVE  /\ left' \in [way : {"closed", "bare", "destroyed"}, alpha : Alphas]
         /\ cfgAlpha' \in Alphas /\ SavesLeft'
<1>1. chosen[w] \in Alphas
  BY DEF StyleInv, TypeOK
<1> QED
  BY <1>1 DEF Ended, SavesLeft, Inherited

LEMMA CloseStep == ASSUME StyleInv, NEW w \in Windows, Close(w) PROVE StyleInv'
<1> DEFINE way == IF w \in kept THEN "closed" ELSE "bare"
<1>1. w \in Mains /\ Ended(w, way) /\ way \in {"closed", "bare", "destroyed"}
  BY DEF Close
<1>2. cfgAlpha' = Inherited(left')
  <2>1. CASE w \in kept
    <3>1. alpha[w] = chosen[w] /\ chosen[w] \in Alphas
      BY <1>1, <2>1 DEF StyleInv, TypeOK, ShowsChosen
    <3> QED
      BY <2>1, <3>1 DEF Close, LastAlpha, Ended, Inherited
  <2>2. CASE w \notin kept
    <3>1. alpha[w] = Nothing
      BY <1>1, <2>2 DEF StyleInv, ShowsChosen
    <3> QED
      BY <2>2, <3>1 DEF Close, LastAlpha, Ended, Inherited
  <2> QED
    BY <2>1, <2>2
<1> QED
  BY <1>1, <1>2, EndedKeeps, GoneStep DEF Close

LEMMA DestroyedStep == ASSUME StyleInv, NEW w \in Windows, Destroyed(w) PROVE StyleInv'
<1>1. CASE w \in Mains
  <2>1. cfgAlpha' = Inherited(left') /\ Ended(w, "destroyed")
    BY <1>1 DEF Destroyed, Ended, Inherited
  <2> QED
    BY <1>1, <2>1, EndedKeeps, GoneStep DEF Destroyed
<1>2. CASE w \notin Mains
  <2>1. /\ cfgAlpha' \in Alphas /\ SavesLeft'
        /\ left' \in [way : {"closed", "bare", "destroyed"}, alpha : Alphas]
    BY <1>2 DEF StyleInv, TypeOK, Destroyed, SavesLeft, Inherited
  <2> QED
    BY <2>1, GoneStep DEF Destroyed
<1> QED
  BY <1>1, <1>2

LEMMA ChangeStep ==
  ASSUME StyleInv, NEW w \in Windows, NEW f \in Flags, Change(w, f)
  PROVE  StyleInv'
<1> DEFINE new == SymDiff(word[w], {f})
<1>1. new \in SUBSET Flags /\ w \in open
  BY DEF StyleInv, TypeOK, SymDiff, Change
<1>2. SetWord(w, new, Nothing) /\ UNCHANGED <<at, on, style>>
  BY DEF Change
<1>3. OthersSee(w, SymDiff(word[w], new), Nothing) /\ word' = [word EXCEPT ![w] = new]
  BY <1>2 DEF SetWord
<1> HIDE DEF new
<1>4. /\ others' \in [Users -> SUBSET Flags]
      /\ \A u \in Users \ {Nothing} : at[u] \in Holding =>
           SymDiff(style[u], word'[on[u]]) \subseteq others'[u]
  BY <1>1, <1>3, SeenChange
<1>5. TypeOK' /\ ShowsChosen' /\ SavesLeft'
  BY <1>1, <1>2, <1>4, SetWordKeeps DEF StyleInv, TypeOK
<1>6. OnWindow' /\ CopyIsCurrent'
  BY <1>2, <1>4 DEF StyleInv, TypeOK, OnWindow, CopyIsCurrent
<1> QED
  BY <1>5, <1>6 DEF StyleInv

-----------------------------------------------------------------------------
(* The theorems.                                                           *)

LEMMA NextStyleInv == ASSUME StyleInv, [Next]_vars PROVE StyleInv'
<1>1. ASSUME NEW m \in Menus, MenuStep(m) PROVE StyleInv'
  BY <1>1, OpenMenuStep, AgainStep, ChooseStep, FinishStep, ChooseBorderStep, SetBorderStep
     DEF MenuStep
<1>2. ASSUME NEW e \in Editors, EditorStep(e) PROVE StyleInv'
  BY <1>2, ThumbStep, ReadWordStep, AddLayeredStep, SetAlphaStep DEF EditorStep
<1>3. ASSUME NEW w \in Windows, Open(w) \/ Close(w) \/ Destroyed(w) PROVE StyleInv'
  BY <1>3, OpenStep, CloseStep, DestroyedStep
<1>4. ASSUME NEW w \in Windows, NEW f \in Flags, Change(w, f) PROVE StyleInv'
  BY <1>4, ChangeStep
<1>5. CASE UNCHANGED vars
  BY <1>5 DEF StyleInv, TypeOK, OnWindow, CopyIsCurrent, ShowsChosen, SavesLeft, Inherited,
              vars, saved
<1> QED
  BY <1>1, <1>2, <1>3, <1>4, <1>5 DEF Next

\* For any number of windows, menus and editors: a copy of a word differs from the
\* word only by what others have changed meanwhile, and a layered main window has
\* the transparency chosen last.
THEOREM StyleInvariant == Spec => []StyleInv
BY InitStyleInv, NextStyleInv, PTL DEF Spec

\* Variables keep their types.
THEOREM TypeCorrect == Spec => []TypeOK
<1>1. StyleInv => TypeOK
  BY DEF StyleInv
<1> QED
  BY StyleInvariant, <1>1, PTL

\* The part of SparesOthers about one menu or editor.
Spared(u) ==
  /\ \A w \in Windows \ {on[u]} : word'[w] = word[w]
  /\ \E f \in Entries : SymDiff(word[on[u]], word'[on[u]]) \subseteq f \cup others[u]

\* A step in which user u leaves the place where it holds a copy is its own.
LEMMA LeavesHolding ==
  ASSUME StyleInv, [Next]_vars, NEW u \in Users, at[u] \in Holding, at'[u] # at[u]
  PROVE  \/ u \in Menus /\ (Choose(u) \/ Finish(u) \/ SetBorder(u))
         \/ u \in Editors /\ AddLayered(u)
<1> USE DEF StyleInv, TypeOK, Goto, Forget
<1>1. ASSUME NEW m \in Menus, MenuStep(m)
      PROVE  u = m /\ (Choose(u) \/ Finish(u) \/ SetBorder(u))
  <2>1. CASE \E w \in Windows : OpenMenu(m, w)
    BY <2>1 DEF OpenMenu
  <2>2. CASE Again(m)
    BY <2>2 DEF Again
  <2>3. CASE ChooseBorder(m)
    BY <2>3 DEF ChooseBorder
  <2>4. CASE Choose(m)
    <3>1. u = m
      BY <2>4 DEF Choose
    <3> QED
      BY <2>4, <3>1
  <2>5. CASE Finish(m)
    <3>1. u = m
      BY <2>5 DEF Finish
    <3> QED
      BY <2>5, <3>1
  <2>6. CASE SetBorder(m)
    <3>1. u = m
      BY <2>6 DEF SetBorder
    <3> QED
      BY <2>6, <3>1
  <2> QED
    BY <1>1, <2>1, <2>2, <2>3, <2>4, <2>5, <2>6 DEF MenuStep
<1>2. ASSUME NEW e \in Editors, EditorStep(e) PROVE u = e /\ AddLayered(u)
  <2>1. CASE \E w \in Windows : Thumb(e, w)
    BY <2>1 DEF Thumb
  <2>2. CASE ReadWord(e)
    BY <2>2 DEF ReadWord
  <2>3. CASE AddLayered(e)
    <3>1. u = e
      BY <2>3 DEF AddLayered
    <3> QED
      BY <2>3, <3>1
  <2>4. CASE SetAlpha(e)
    BY <2>4 DEF SetAlpha
  <2> QED
    BY <1>2, <2>1, <2>2, <2>3, <2>4 DEF EditorStep
<1>3. ASSUME NEW w \in Windows,
             Open(w) \/ Close(w) \/ Destroyed(w) \/ \E f \in Flags : Change(w, f)
      PROVE  at' = at
  BY <1>3 DEF Open, Close, Destroyed, Gone, Change
<1>4. CASE UNCHANGED vars
  BY <1>4 DEF vars
<1> QED
  BY <1>1, <1>2, <1>3, <1>4 DEF Next

LEMMA StepSparesOthers ==
  ASSUME StyleInv, [Next]_vars, NEW u \in Users, at[u] \in Holding, at'[u] # at[u]
  PROVE  Spared(u)
<1>1. CASE u \in Menus /\ Choose(u)
  <2>1. \E new : Written(u, new) /\ WriteBack(u, new)
    BY <1>1, ChooseWrites
  <2> QED
    BY <2>1, WriteBackKeeps DEF Spared
<1>2. CASE u \in Menus /\ SetBorder(u)
  <2>1. \E new : Written(u, new) /\ WriteBack(u, new)
    BY <1>2, SetBorderWrites
  <2> QED
    BY <2>1, WriteBackKeeps DEF Spared
<1>3. CASE u \in Editors /\ AddLayered(u)
  <2>1. \E new : Written(u, new) /\ WriteBack(u, new)
    BY <1>3, AddLayeredWrites
  <2> QED
    BY <2>1, WriteBackKeeps DEF Spared
<1>4. CASE u \in Menus /\ Finish(u)
  BY <1>4, DiffSame DEF Finish, Spared, Entries
<1> QED
  BY <1>1, <1>2, <1>3, <1>4, LeavesHolding

\* Writing a word back undoes nothing but what others changed while the copy was
\* held: for any interleaving of any number of menus, editors and programs.
THEOREM SparesOthersHolds == Spec => SparesOthers
<1>1. StyleInv /\ [Next]_vars =>
        [\A u \in Users : at[u] \in Holding /\ at'[u] # at[u] => Spared(u)]_vars
  BY StepSparesOthers
<1>2. [\A u \in Users : at[u] \in Holding /\ at'[u] # at[u] => Spared(u)]_vars =>
        [\A u \in Users : at[u] \in Holding /\ at'[u] # at[u] =>
           /\ \A w \in Windows \ {on[u]} : word'[w] = word[w]
           /\ \E f \in Entries :
                SymDiff(word[on[u]], word'[on[u]]) \subseteq f \cup others[u]]_vars
  BY DEF Spared
<1> QED
  BY StyleInvariant, <1>1, <1>2, PTL DEF Spec, SparesOthers

\* Only Open makes a window, and gives it what the configuration has.
LEMMA StepOpensAsLeft ==
  ASSUME StyleInv, [Next]_vars, NEW w \in Mains \cap (open' \ open)
  PROVE  alpha'[w] = Inherited(left)
<1> USE DEF StyleInv, TypeOK
<1>1. ASSUME NEW m \in Menus, MenuStep(m) PROVE open' = open
  <2>1. ASSUME NEW u \in Users, NEW new, WriteBack(u, new) PROVE open' = open
    BY <2>1 DEF WriteBack, SetWord
  <2>2. CASE Choose(m) \/ SetBorder(m)
    BY <2>1, <2>2 DEF Choose, SetBorder
  <2> QED
    BY <1>1, <2>2 DEF MenuStep, OpenMenu, Again, Finish, ChooseBorder
<1>2. ASSUME NEW e \in Editors, EditorStep(e) PROVE open' = open
  BY <1>2 DEF EditorStep, Thumb, ReadWord, AddLayered, WriteBack, SetWord, SetAlpha
<1>3. ASSUME NEW x \in Windows, Open(x) PROVE alpha'[w] = Inherited(left)
  <2>1. x = w
    BY <1>3 DEF Open
  <2>2. alpha'[w] = cfgAlpha
    BY <1>3, <2>1 DEF Open
  <2> QED
    BY <2>2 DEF SavesLeft
<1>4. ASSUME NEW x \in Windows, Close(x) \/ Destroyed(x) \/ \E f \in Flags : Change(x, f)
      PROVE  open' \subseteq open
  BY <1>4 DEF Close, Destroyed, Gone, Change, SetWord
<1>5. CASE UNCHANGED vars
  BY <1>5 DEF vars
<1> QED
  BY <1>1, <1>2, <1>3, <1>4, <1>5 DEF Next

\* For any number of windows, menus and editors: a main window opens with the
\* transparency that the one before it was given last, if that one was closed with
\* its flag on; invisible, if its flag was gone; opaque, if others destroyed it.
THEOREM OpensAsLeftHolds == Spec => OpensAsLeft
<1>1. StyleInv /\ [Next]_vars =>
        [\A w \in Mains \cap (open' \ open) : alpha'[w] = Inherited(left)]_vars
  BY StepOpensAsLeft
<1> QED
  BY StyleInvariant, <1>1, PTL DEF Spec, OpensAsLeft
=============================================================================
