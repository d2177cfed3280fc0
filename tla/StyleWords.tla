---------------------------- MODULE StyleWords ----------------------------
(***************************************************************************)
(* The words of flags that say what a window looks like, and those who     *)
(* change them: the style and border menus of a main window, the           *)
(* transparency editors (each a thread of its own), and the programs the   *)
(* windows belong to.  The tool reads a word, changes it and writes it     *)
(* back whole; a menu stays on the screen in between.  GWL_STYLE and       *)
(* GWL_EXSTYLE are handled alike; here a window has one word.              *)
(*                                                                         *)
(* A main window can be a target like any other.  Its transparency is      *)
(* saved when it closes, and the next one opens with it.                   *)
(***************************************************************************)
EXTENDS Naturals

CONSTANTS
  Mains,     \* main windows
  Others,    \* windows of other programs
  Menus,     \* the menus that can be open at a time, one in each process
  Editors,   \* transparency editors
  Flags,     \* the flags of a word
  Layered,   \* the flag of a window that can be transparent
  Basic,     \* the flags of which a window has at most one, WS_POPUP and WS_CHILD
  Toggles,   \* the sets of flags the entries of the menu turn over
  Frame,     \* the flags of the border
  Alphas,    \* degrees of transparency, 0 to 255
  Opaque,    \* 255
  Nothing    \* the transparency of a window that has none; nobody

ASSUME StyleAssumption ==
  /\ Layered \in Flags
  /\ Basic \subseteq Flags /\ Frame \subseteq Flags /\ Toggles \subseteq SUBSET Flags
  /\ {0, Opaque} \subseteq Alphas
  /\ Nothing \notin Alphas \cup Menus \cup Editors \cup Mains \cup Others
  /\ Mains \cap Others = {} /\ Menus \cap Editors = {}

Windows == Mains \cup Others
Users == Menus \cup Editors

VARIABLES
  open,     \* the windows that are there
  word,     \* the word of each window
  alpha,    \* what SetLayeredWindowAttributes set
  cfgAlpha, \* app.main_window.visual.alpha
  at,       \* where each menu and editor is: "off", "again", "shown",
            \* "entry", "border"; "absent", "hold", "attribute"
  on,       \* the window it works on
  style,    \* its copy of the word
  others,   \* history: flags that others changed since it made the copy
  chosen,   \* history: the transparency last chosen for each main window
  kept,     \* history: the main windows that have been layered since then
  left      \* history: how the last main window ended, and what was chosen for it

saved == <<cfgAlpha, chosen, left>>
vars == <<open, word, alpha, kept, saved, at, on, style, others>>

SymDiff(s, t) == (s \ t) \cup (t \ s)

Init ==
  /\ open = Others
  /\ word \in {f \in [Windows -> SUBSET Flags] : \A w \in Mains : f[w] = {}}
  /\ alpha = [w \in Windows |-> Nothing]
  /\ cfgAlpha \in Alphas
  /\ at = [u \in Users |-> "off"]
  /\ on = [u \in Users |-> Nothing]
  /\ style = [u \in Users |-> {}]
  /\ others = [u \in Users |-> {}]
  /\ chosen = [w \in Mains |-> cfgAlpha]
  /\ kept = {}
  /\ left = [way |-> "closed", alpha |-> cfgAlpha]

-----------------------------------------------------------------------------
(* Reading and writing a word.                                             *)

Goto(u, place) == at' = [at EXCEPT ![u] = place]

\* The places of those that have a copy and will write it.
Holding == {"shown", "border", "hold"}

\* GetWindowLongPtr; the word of a window that is gone is 0.
Look(u, w) ==
  /\ style' = [style EXCEPT ![u] = word[w]]
  /\ others' = [others EXCEPT ![u] = {}]

\* The word of window w changes; those that hold a copy, by excepted, do not know.
OthersSee(w, changed, by) ==
  others' = [u \in Users |->
               IF u = by THEN {}
               ELSE IF on[u] = w /\ at[u] \in Holding THEN others[u] \cup changed
               ELSE others[u]]

\* The word of window w becomes new; without its flag a window loses its
\* transparency.
SetWord(w, new, by) ==
  /\ word' = [word EXCEPT ![w] = new]
  /\ alpha' = [alpha EXCEPT ![w] = IF Layered \in new THEN @ ELSE Nothing]
  /\ kept' = IF Layered \in new THEN kept ELSE kept \ {w}
  /\ OthersSee(w, SymDiff(word[w], new), by)
  /\ UNCHANGED <<open, saved>>

\* SetWindowLongPtr, which fails for a window that is gone.
WriteBack(u, new) ==
  IF on[u] \in open
  THEN SetWord(on[u], new, u)
  ELSE /\ others' = [others EXCEPT ![u] = {}]
       /\ UNCHANGED <<open, word, alpha, kept, saved>>

\* The copy goes out of scope.
Forget(u) ==
  /\ Goto(u, "off")
  /\ on' = [on EXCEPT ![u] = Nothing]
  /\ style' = [style EXCEPT ![u] = {}]

-----------------------------------------------------------------------------
(* The menus of context_anyorder_internal.                                 *)

\* "Style..." or "Border...", for a target that is there.
OpenMenu(m, w) ==
  /\ at[m] = "off" /\ w \in open
  /\ on' = [on EXCEPT ![m] = w]
  /\ \E place \in {"again", "entry"} : Goto(m, place)
  /\ UNCHANGED <<open, word, alpha, kept, saved, style, others>>

\* A mutant: the copy of the last pass, if there is one, is used again.
Again_Once(m) ==
  /\ at[m] = "again"
  /\ Goto(m, "shown")
  /\ style' = [style EXCEPT ![m] = IF @ = {} THEN word[on[m]] ELSE @]
  /\ others' = [others EXCEPT ![m] = {}]
  /\ UNCHANGED <<open, word, alpha, kept, saved, on>>

\* The loop reads the word and shows it with its check marks.
Again(m) ==
  /\ at[m] = "again"
  /\ Goto(m, "shown")
  /\ Look(m, on[m])
  /\ UNCHANGED <<open, word, alpha, kept, saved, on>>

\* styletoggle: all the flags of the entry, or none of them.
Toggle(s, f) == IF f \subseteq s THEN s \ f ELSE s \cup f

\* basic_style_set, with one of the flags or with WS_OVERLAPPED, which is none.
SetBasic(s, f) == (s \ Basic) \cup f

\* An entry of the style menu is chosen.
Choose(m) ==
  /\ at[m] = "shown"
  /\ \E new \in {Toggle(style[m], f) : f \in Toggles}
           \cup {SetBasic(style[m], f) : f \in {{}} \cup {{b} : b \in Basic}} :
       /\ WriteBack(m, new)
       /\ style' = [style EXCEPT ![m] = new]
  /\ Goto(m, "again")
  /\ UNCHANGED on

\* An entry of the border menu is chosen: bset reads the word only now.
ChooseBorder(m) ==
  /\ at[m] = "entry"
  /\ Goto(m, "border")
  /\ Look(m, on[m])
  /\ UNCHANGED <<open, word, alpha, kept, saved, on>>

\* It writes it back with the border or without.
SetBorder(m) ==
  /\ at[m] = "border"
  /\ \E new \in {style[m] \cup Frame, style[m] \ Frame} : WriteBack(m, new)
  /\ Forget(m)

\* "Done", or a click elsewhere.
Finish(m) ==
  /\ at[m] \in {"shown", "entry"}
  /\ Forget(m)
  /\ others' = [others EXCEPT ![m] = {}]
  /\ UNCHANGED <<open, word, alpha, kept, saved>>

-----------------------------------------------------------------------------
(* The transparency editor, on its own thread.                             *)

\* The thumb is moved: is the window layered?
Thumb(e, w) ==
  /\ at[e] = "off"
  /\ on' = [on EXCEPT ![e] = w]
  /\ Goto(e, IF Layered \in word[w] THEN "attribute" ELSE "absent")
  /\ UNCHANGED <<open, word, alpha, kept, saved, style, others>>

\* If not, the word is read again ...
ReadWord(e) ==
  /\ at[e] = "absent"
  /\ Goto(e, "hold")
  /\ Look(e, on[e])
  /\ UNCHANGED <<open, word, alpha, kept, saved, on>>

\* A mutant: the flag alone is written.
AddLayered_Only(e) ==
  /\ at[e] = "hold"
  /\ WriteBack(e, {Layered})
  /\ Goto(e, "attribute")
  /\ style' = [style EXCEPT ![e] = {}]
  /\ UNCHANGED on

\* ... and written with the flag.
AddLayered(e) ==
  /\ at[e] = "hold"
  /\ WriteBack(e, style[e] \cup {Layered})
  /\ Goto(e, "attribute")
  /\ style' = [style EXCEPT ![e] = {}]
  /\ UNCHANGED on

\* SetLayeredWindowAttributes, which fails for a window that is not layered.
SetAlpha(e) ==
  /\ at[e] = "attribute"
  /\ \E a \in Alphas :
       /\ chosen' = [w \in Mains |-> IF w = on[e] THEN a ELSE chosen[w]]
       /\ alpha' = [alpha EXCEPT ![on[e]] = IF Layered \in word[on[e]] THEN a ELSE @]
  /\ kept' = IF Layered \in word[on[e]] THEN kept \cup ({on[e]} \cap Mains) ELSE kept
  /\ Forget(e)
  /\ UNCHANGED <<open, word, cfgAlpha, left, others>>

-----------------------------------------------------------------------------
(* The windows.                                                            *)

\* onCreated of a main window: layered, with the transparency that was saved.
Open(w) ==
  /\ w \in Mains \ open
  /\ open' = open \cup {w}
  /\ word' = [word EXCEPT ![w] = {Layered}]
  /\ alpha' = [alpha EXCEPT ![w] = cfgAlpha]
  /\ chosen' = [chosen EXCEPT ![w] = cfgAlpha]
  /\ kept' = kept \cup {w}
  /\ OthersSee(w, {Layered}, Nothing)
  /\ UNCHANGED <<cfgAlpha, left, at, on, style>>

\* A window is gone, and its word with it.
Gone(w) ==
  /\ w \in open
  /\ open' = open \ {w}
  /\ word' = [word EXCEPT ![w] = {}]
  /\ alpha' = [alpha EXCEPT ![w] = Nothing]
  /\ kept' = kept \ {w}
  /\ OthersSee(w, word[w], Nothing)
  /\ UNCHANGED <<chosen, at, on, style>>

\* The history of how a main window ended.
Ended(w, way) == left' = [way |-> way, alpha |-> chosen[w]]

\* A mutant: the answer is not stored in last_alpha.
LastAlpha_Unread(w) == Opaque

\* WM_APP+WM_CLOSE asks before it removes the flag; the byte for the answer stays
\* 0 when there is none.
LastAlpha(w) == IF alpha[w] = Nothing THEN 0 ELSE alpha[w]

\* A main window closes: onDestroy saves last_alpha.
Close(w) ==
  /\ w \in Mains
  /\ Gone(w)
  /\ cfgAlpha' = LastAlpha(w)
  /\ Ended(w, IF w \in kept THEN "closed" ELSE "bare")

\* A window is destroyed by others: a main window then saves the last_alpha it
\* was made with.
Destroyed(w) ==
  /\ Gone(w)
  /\ IF w \in Mains
     THEN cfgAlpha' = Opaque /\ Ended(w, "destroyed")
     ELSE UNCHANGED <<cfgAlpha, left>>

\* The program of a window, or another tool, changes a flag.
Change(w, f) ==
  /\ w \in open
  /\ SetWord(w, SymDiff(word[w], {f}), Nothing)
  /\ UNCHANGED <<at, on, style>>

MenuStep(m) ==
  \/ \E w \in Windows : OpenMenu(m, w)
  \/ Again(m) \/ Choose(m) \/ Finish(m) \/ ChooseBorder(m) \/ SetBorder(m)

EditorStep(e) ==
  \/ \E w \in Windows : Thumb(e, w)
  \/ ReadWord(e) \/ AddLayered(e) \/ SetAlpha(e)

Next ==
  \/ \E m \in Menus : MenuStep(m)
  \/ \E e \in Editors : EditorStep(e)
  \/ \E w \in Windows :
       \/ Open(w) \/ Close(w) \/ Destroyed(w)
       \/ \E f \in Flags : Change(w, f)

Spec == Init /\ [][Next]_vars

-----------------------------------------------------------------------------
(* Properties.                                                             *)

TypeOK ==
  /\ open \subseteq Windows
  /\ word \in [Windows -> SUBSET Flags]
  /\ alpha \in [Windows -> Alphas \cup {Nothing}]
  /\ cfgAlpha \in Alphas
  /\ at \in [Users -> {"off", "again", "shown", "entry", "border",
                       "absent", "hold", "attribute"}]
  /\ on \in [Users -> Windows \cup {Nothing}]
  /\ style \in [Users -> SUBSET Flags]
  /\ others \in [Users -> SUBSET Flags]
  /\ chosen \in [Mains -> Alphas]
  /\ kept \subseteq Mains
  /\ left \in [way : {"closed", "bare", "destroyed"}, alpha : Alphas]

\* Whoever is not done works on a window.
OnWindow == \A u \in Users : at[u] # "off" => on[u] \in Windows

\* A copy differs from the word only by what others have changed since it was made,
\* however long the menu has been on the screen, and over all passes of its loop.
CopyIsCurrent ==
  \A u \in Users : at[u] \in Holding => SymDiff(style[u], word[on[u]]) \subseteq others[u]

\* A main window has the transparency its user has chosen last for as long as it is
\* layered, and none once its flag was gone; one that is not there has no word.
ShowsChosen ==
  /\ \A w \in kept : w \in open /\ Layered \in word[w] /\ alpha[w] = chosen[w]
  /\ \A w \in Mains \ kept : alpha[w] = Nothing
  /\ \A w \in Mains \ open : word[w] = {}

\* What a main window that ended so leaves for the next one.  It is what the user
\* chose only if the window was closed with its flag on: without the flag there is
\* nothing to read and 0, which cannot be seen, is saved; and last_alpha is not read
\* at all, and still is 255, when somebody else destroys the window.
Inherited(l) ==
  IF l.way = "closed" THEN l.alpha ELSE IF l.way = "bare" THEN 0 ELSE Opaque

\* That is what is in the configuration.
SavesLeft == cfgAlpha = Inherited(left)

\* The inductive invariant.
StyleInv == TypeOK /\ OnWindow /\ CopyIsCurrent /\ ShowsChosen /\ SavesLeft

\* The flags one entry of a menu, or an editor, is about.
Entries == Toggles \cup {Basic, Frame, {Layered}}

\* Whoever writes back a copy changes the flags of one entry in the window it works
\* on, and undoes nothing but what others have changed while it held the copy.
SparesOthers ==
  [][\A u \in Users : at[u] \in Holding /\ at'[u] # at[u] =>
       /\ \A w \in Windows \ {on[u]} : word'[w] = word[w]
       /\ \E f \in Entries : SymDiff(word[on[u]], word'[on[u]]) \subseteq f \cup others[u]]_vars

\* "Save the transparency" (MainWindow.cpp:110): a main window opens with exactly the
\* transparency that the one which ended last had been given last, whoever turned its
\* flag off and on in between, if that one was closed with the flag on; it opens
\* invisible if that one was closed after the flag was taken away (MainWindow.h:113),
\* and opaque if that one was destroyed from outside (MainWindow.h:82).
OpensAsLeft ==
  [][\A w \in Mains \cap (open' \ open) : alpha'[w] = Inherited(left)]_vars
=============================================================================
