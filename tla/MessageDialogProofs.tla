------------------------ MODULE MessageDialogProofs ------------------------
(***************************************************************************)
(* Proofs about MessageDialog for any number of dialogs and names, and     *)
(* about MessageNumber for texts of any length and types of any width.     *)
(***************************************************************************)
EXTENDS MessageDialog, WellFoundedInduction, TLAPS

\* A sequence without its last element, as left when TaskDialog returns.
LEMMA FrontOf ==
  ASSUME NEW S, NEW s \in Seq(S), s # <<>>
  PROVE  /\ Len(s) \in 1..Len(s) /\ s[Len(s)] \in S
         /\ SubSeq(s, 1, Len(s) - 1) \in Seq(S)
         /\ Len(SubSeq(s, 1, Len(s) - 1)) = Len(s) - 1
         /\ \A i \in 1..(Len(s) - 1) : i \in 1..Len(s) /\ SubSeq(s, 1, Len(s) - 1)[i] = s[i]
<1>1. Len(s) \in Nat /\ Len(s) > 0 /\ Len(s) - 1 \in Nat /\ Len(s) - 1 + 1 <= Len(s) + 1
  OBVIOUS
<1>2. Len(s) \in 1..Len(s) /\ s[Len(s)] \in S
  BY <1>1
<1>3. \A i \in 1..(Len(s) - 1) : i \in 1..Len(s) /\ s[i] \in S
  BY <1>1
<1>4. SubSeq(s, 1, Len(s) - 1) = [i \in 1..(Len(s) - 1) |-> s[i]]
  BY <1>1
<1>5. SubSeq(s, 1, Len(s) - 1) \in Seq(S)
  BY <1>1, <1>3, <1>4
<1>6. Len(SubSeq(s, 1, Len(s) - 1)) = Len(s) - 1
  BY <1>1, <1>4
<1> QED
  BY <1>2, <1>3, <1>4, <1>5, <1>6

\* The initial state satisfies the inductive invariant.
LEMMA InitIndInv == Init => IndInv
<1> SUFFICES ASSUME Init PROVE IndInv
  OBVIOUS
<1>0. Asked = {} /\ Writing = {}
  BY DEF Init, Asked, Writing
<1>1. TypeOK
  BY <1>0 DEF Init, TypeOK, Places
<1>2. OneWay
  BY <1>0 DEF Init, OneWay, AskedOnce, AskedIdle, NothingYet
<1>3. CleanFile
  <2>0. posted = [d \in Dialog |-> 0] /\ thread = [d \in Dialog |-> "off"]
    BY DEF Init
  <2>1. ASSUME NEW d \in Dialog, posted[d] > 0 \/ thread[d] = "box" PROVE FALSE
    <3>1. posted[d] = 0 /\ thread[d] = "off"
      BY <2>0
    <3> QED
      BY <2>1, <3>1
  <2>2. clean => file # "bad"
    BY DEF Init
  <2>3. msg_map = {} /\ exists = {}
    BY DEF Init
  <2> QED
    BY <1>0, <2>1, <2>2, <2>3 DEF CleanFile
<1> QED
  BY <1>1, <1>2, <1>3 DEF Init, IndInv, DisabledByDownload, FilledOnce, ListedNamesKnown, ListComplete

\* A cancelled dialog and one whose owner closes are gone in the same way.
LEMMA BothGone ==
  ASSUME NEW d \in Dialog, Cancel(d) \/ OwnerCloses(d), TypeOK
  PROVE  d \in exists /\ Gone(d)
BY DEF Cancel, OwnerCloses, TypeOK

\* Types: one step per action.
LEMMA NextType == TypeOK /\ [Next]_vars => TypeOK'
<1> SUFFICES ASSUME TypeOK, [Next]_vars PROVE TypeOK'
  OBVIOUS
<1> USE DEF TypeOK, Places
<1>1. ASSUME NEW d \in Dialog, InitDialog(d) PROVE TypeOK'
  <2>1. asking' \in Seq(Dialog)
    BY <1>1 DEF InitDialog
  <2>2. posted' \in [Dialog -> Nat] /\ fills' \in [Dialog -> Nat] /\ list' \in [Dialog -> SUBSET Name]
    BY <1>1 DEF InitDialog, AtOnce
  <2>3. clean' \in BOOLEAN
    BY <1>1 DEF InitDialog
  <2>4. exists' \subseteq Dialog /\ enabled' \subseteq exists'
    BY <1>1 DEF InitDialog
  <2> QED
    BY <1>1, <2>1, <2>2, <2>3, <2>4 DEF InitDialog
<1>2. ASSUME NEW d \in Dialog, IndexFails(d) PROVE TypeOK'
  BY <1>2 DEF IndexFails, Leave, Enable
<1>3. ASSUME NEW d \in Dialog, OpenFile(d) PROVE TypeOK'
  <2>1. clean' \in BOOLEAN
    BY <1>3 DEF OpenFile
  <2>2. thread' \in [Dialog -> Places] /\ whole' \subseteq Dialog
    BY <1>3 DEF OpenFile
  <2> QED
    BY <1>3, <2>1, <2>2 DEF OpenFile
<1>4. ASSUME NEW d \in Dialog, BodyFails(d) PROVE TypeOK'
  BY <1>4 DEF BodyFails, Leave, Enable
<1>5. ASSUME NEW d \in Dialog, BodyDone(d) PROVE TypeOK'
  BY <1>5 DEF BodyDone
<1>6. ASSUME NEW d \in Dialog, Dismiss(d) PROVE TypeOK'
  <2>1. posted[d] + 1 \in Nat
    OBVIOUS
  <2>2. posted' \in [Dialog -> Nat]
    BY <1>6, <2>1 DEF Dismiss
  <2> QED
    BY <1>6, <2>2 DEF Dismiss
<1>7. ASSUME NEW d \in Dialog, Release(d) PROVE TypeOK'
  BY <1>7 DEF Release, Leave, Enable
<1>8. ASSUME NEW d \in Dialog, Load(d) PROVE TypeOK'
  <2>1. posted[d] - 1 \in Nat /\ fills[d] + 1 \in Nat
    BY <1>8 DEF Load
  <2>2. posted' \in [Dialog -> Nat] /\ fills' \in [Dialog -> Nat]
    BY <1>8, <2>1 DEF Load
  <2>3. msg_map' \subseteq Name
    BY <1>8 DEF Load, Reads
  <2>4. list' \in [Dialog -> SUBSET Name]
    BY <1>8, <2>3 DEF Load
  <2> QED
    BY <1>8, <2>2, <2>3, <2>4 DEF Load
<1>9. ASSUME NEW d \in Dialog, Cancel(d) \/ OwnerCloses(d) PROVE TypeOK'
  <2>1. Gone(d)
    BY <1>9, BothGone
  <2> QED
    BY <2>1 DEF Gone
<1>10. ASSUME NEW a \in {"yes", "no", "cancel"}, Answer(a) PROVE TypeOK'
  <2> DEFINE d == asking[Len(asking)]
  <2>1. d \in Dialog /\ asking' \in Seq(Dialog)
    BY <1>10, FrontOf DEF Answer
  <2>2. pref' \in BOOLEAN
    BY <1>10 DEF Answer
  <2>3. enabled' \subseteq exists' /\ thread' \in [Dialog -> Places]
    BY <1>10, <2>1 DEF Answer
  <2> QED
    BY <1>10, <2>1, <2>2, <2>3 DEF Answer
<1>11. ASSUME Restart PROVE TypeOK'
  <2>1. clean' \in BOOLEAN
    BY <1>11 DEF Restart
  <2>2. pref' \in BOOLEAN
    BY <1>11 DEF Restart
  <2>3. posted' \in [Dialog -> Nat] /\ fills' \in [Dialog -> Nat] /\ list' \in [Dialog -> SUBSET Name]
    BY <1>11 DEF Restart
  <2> QED
    BY <1>11, <2>1, <2>2, <2>3 DEF Restart
<1>12. ASSUME UNCHANGED vars PROVE TypeOK'
  BY <1>12 DEF vars
<1> QED
  BY <1>1, <1>2, <1>3, <1>4, <1>5, <1>6, <1>7, <1>8, <1>9, <1>10, <1>11, <1>12 DEF Next, Download

\* Opening a dialog adds it, at most, to those that ask.
LEMMA AskedGrows ==
  ASSUME NEW d \in Dialog, InitDialog(d), TypeOK, AskedOnce
  PROVE  /\ Asked' \subseteq Asked \cup {d}
         /\ AskedOnce'
<1>1. d \notin Asked
  BY DEF InitDialog
<1>2. CASE asking' = asking
  BY <1>2 DEF Asked, AskedOnce
<1>3. CASE asking' = Append(asking, d)
  <2>1. Len(asking) \in Nat /\ Len(asking') = Len(asking) + 1
    BY <1>3 DEF TypeOK
  <2>2. \A i \in 1..Len(asking') : asking'[i] = IF i <= Len(asking) THEN asking[i] ELSE d
    BY <1>3, <2>1 DEF TypeOK
  <2>3. \A i \in 1..Len(asking') : i <= Len(asking) => asking'[i] \in Asked
    BY <2>1, <2>2 DEF Asked
  <2>4. Asked' \subseteq Asked \cup {d}
    BY <2>1, <2>2, <2>3 DEF Asked
  <2>5. ASSUME NEW i \in 1..Len(asking'), NEW j \in 1..Len(asking'), asking'[i] = asking'[j]
        PROVE  i = j
    <3>1. CASE i <= Len(asking) /\ j <= Len(asking)
      BY <3>1, <2>1, <2>2, <2>5 DEF AskedOnce
    <3>2. CASE ~(i <= Len(asking)) /\ ~(j <= Len(asking))
      BY <3>2, <2>1
    <3>3. CASE i <= Len(asking) /\ ~(j <= Len(asking))
      BY <3>3, <2>2, <2>3, <2>5, <1>1
    <3>4. CASE ~(i <= Len(asking)) /\ j <= Len(asking)
      BY <3>4, <2>2, <2>3, <2>5, <1>1
    <3> QED
      BY <3>1, <3>2, <3>3, <3>4
  <2> QED
    BY <2>4, <2>5 DEF AskedOnce
<1> QED
  BY <1>2, <1>3 DEF InitDialog

\* An answer takes the dialog it is for away from those that ask.
LEMMA AskedShrinks ==
  ASSUME NEW a, Answer(a), TypeOK, AskedOnce
  PROVE  /\ asking[Len(asking)] \in Asked
         /\ Asked' \subseteq Asked \ {asking[Len(asking)]}
         /\ AskedOnce'
<1> DEFINE n == Len(asking)
<1>1. /\ n \in 1..n /\ n \in Nat
      /\ Len(asking') = n - 1
      /\ \A i \in 1..(n - 1) : i \in 1..n /\ asking'[i] = asking[i]
  BY FrontOf DEF Answer, TypeOK
<1>2. asking[n] \in Asked
  BY <1>1 DEF Asked
<1>3. ASSUME NEW i \in 1..(n - 1) PROVE asking'[i] \in Asked \ {asking[n]}
  <2>1. i # n /\ i \in 1..n
    BY <1>1
  <2> QED
    BY <1>1, <2>1 DEF Asked, AskedOnce
<1>4. Asked' \subseteq Asked \ {asking[n]}
  BY <1>1, <1>3 DEF Asked
<1>5. AskedOnce'
  BY <1>1 DEF AskedOnce
<1> QED
  BY <1>2, <1>4, <1>5

\* No action disturbs the ways of a dialog: ask, download, post, fill.
LEMMA NextOneWay == TypeOK /\ OneWay /\ [Next]_vars => OneWay'
<1> SUFFICES ASSUME TypeOK, OneWay, [Next]_vars PROVE OneWay'
  OBVIOUS
<1> USE DEF OneWay
<1>1. ASSUME NEW d \in Dialog, InitDialog(d) PROVE OneWay'
  <2>1. Asked' \subseteq Asked \cup {d} /\ AskedOnce'
    BY <1>1, AskedGrows
  <2>2. whole' \subseteq Writing'
    BY <1>1 DEF InitDialog, Writing
  <2>3. thread[d] = "off" /\ UNCHANGED thread
    BY <1>1 DEF InitDialog
  <2>4. ASSUME NEW e \in exists', e # d PROVE e \in exists /\ fills'[e] + posted'[e] = fills[e] + posted[e]
    BY <1>1, <2>4 DEF InitDialog, TypeOK
  <2>5. d \in Asked' => d \in enabled' /\ fills'[d] + posted'[d] = 0
    <3>1. d \notin Asked
      BY <1>1 DEF InitDialog
    <3>2. CASE file = "absent"
      BY <1>1, <3>2 DEF InitDialog, AtOnce, TypeOK
    <3>3. CASE file # "absent"
      BY <1>1, <3>1, <3>3 DEF InitDialog, Asked
    <3> QED
      BY <3>2, <3>3
  <2>6. AskedIdle'
    <3> SUFFICES ASSUME NEW e \in Asked'
                 PROVE  thread'[e] = "off" /\ (e \in exists' => e \in enabled' /\ fills'[e] + posted'[e] = 0)
      BY DEF AskedIdle
    <3>1. CASE e = d
      BY <3>1, <2>3, <2>5
    <3>2. CASE e # d
      BY <3>2, <2>1, <2>3, <2>4, <1>1 DEF AskedIdle, InitDialog
    <3> QED
      BY <3>1, <3>2
  <2>7. NothingYet'
    BY <2>3, <2>4 DEF NothingYet
  <2> QED
    BY <2>1, <2>2, <2>6, <2>7
<1>2. ASSUME NEW d \in Dialog, Download(d), ~Dismiss(d) PROVE OneWay'
  <2>0. /\ UNCHANGED <<exists, asking, posted, fills>>
        /\ thread[d] # "off" /\ thread' \in [Dialog -> Places]
        /\ \A e \in Dialog : e # d => thread'[e] = thread[e]
        /\ enabled \subseteq enabled'
    BY <1>2 DEF Download, IndexFails, OpenFile, BodyFails, BodyDone, Release, Leave, Enable, TypeOK, Places
  <2>1. whole' \subseteq Writing'
    BY <1>2 DEF Download, IndexFails, OpenFile, BodyFails, BodyDone, Release, Leave, TypeOK, Writing
  <2>2. AskedOnce' /\ AskedIdle'
    BY <2>0 DEF AskedOnce, AskedIdle, Asked, TypeOK
  <2>3. thread[d] = "release" => thread'[d] = "off"
    BY <1>2 DEF Download, IndexFails, OpenFile, BodyFails, BodyDone, Release, Leave, TypeOK
  <2>4. NothingYet'
    BY <2>0, <2>3 DEF NothingYet, TypeOK
  <2> QED
    BY <2>1, <2>2, <2>4
<1>3. ASSUME NEW d \in Dialog, Dismiss(d) PROVE OneWay'
  <2>0. /\ UNCHANGED <<exists, enabled, asking, fills, whole>>
        /\ thread[d] = "box" /\ thread'[d] = "release"
        /\ \A e \in Dialog : e # d => thread'[e] = thread[e] /\ posted'[e] = posted[e]
    BY <1>3 DEF Dismiss, TypeOK
  <2>1. whole' \subseteq Writing'
    BY <2>0 DEF Writing
  <2>2. AskedOnce' /\ AskedIdle'
    BY <2>0 DEF AskedOnce, AskedIdle, Asked, TypeOK
  <2>3. NothingYet'
    BY <2>0 DEF NothingYet, TypeOK
  <2> QED
    BY <2>1, <2>2, <2>3
<1>4. ASSUME NEW d \in Dialog, Load(d) PROVE OneWay'
  <2>0. /\ UNCHANGED <<exists, enabled, asking, thread, whole>>
        /\ d \in exists /\ posted[d] > 0 /\ posted[d] \in Nat /\ fills[d] \in Nat
        /\ \A e \in Dialog : e # d => posted'[e] = posted[e] /\ fills'[e] = fills[e]
    BY <1>4 DEF Load, TypeOK
  <2>1. d \notin Asked /\ thread[d] \in {"off", "release"}
    BY <2>0 DEF AskedIdle, NothingYet
  <2>2. AskedOnce' /\ AskedIdle'
    BY <2>0, <2>1 DEF AskedOnce, AskedIdle, Asked, TypeOK
  <2>3. NothingYet'
    BY <2>0, <2>1 DEF NothingYet, TypeOK
  <2> QED
    BY <2>0, <2>2, <2>3 DEF Writing
<1>5. ASSUME NEW d \in Dialog, Cancel(d) \/ OwnerCloses(d) PROVE OneWay'
  <2>1. Gone(d)
    BY <1>5, BothGone
  <2>2. whole' \subseteq Writing' /\ AskedOnce'
    BY <2>1 DEF Gone, Writing, AskedOnce
  <2>3. \A e \in exists' : e \in exists /\ e # d /\ posted'[e] = posted[e] /\ (e \in enabled => e \in enabled')
    BY <2>1 DEF Gone, TypeOK
  <2>4. AskedIdle'
    BY <2>1, <2>3 DEF Gone, AskedIdle, Asked
  <2>5. NothingYet'
    BY <2>1, <2>3 DEF Gone, NothingYet
  <2> QED
    BY <2>2, <2>4, <2>5
<1>6. ASSUME NEW a \in {"yes", "no", "cancel"}, Answer(a) PROVE OneWay'
  <2> DEFINE d == asking[Len(asking)]
  <2>1. d \in Asked /\ Asked' \subseteq Asked \ {d} /\ AskedOnce'
    BY <1>6, AskedShrinks
  <2>2. UNCHANGED <<exists, posted, fills, whole>>
    BY <1>6 DEF Answer
  <2>3. thread[d] = "off" /\ (d \in exists => fills[d] + posted[d] = 0)
    BY <2>1 DEF AskedIdle
  <2>4. \A e \in Dialog : e # d => thread'[e] = thread[e] /\ (e \in enabled => e \in enabled')
    BY <1>6 DEF Answer, TypeOK
  <2>5. whole' \subseteq Writing'
    BY <2>2, <2>3, <2>4 DEF Writing
  <2>6. AskedIdle'
    <3>1. Asked \subseteq Dialog
      BY DEF Asked, TypeOK
    <3> QED
      BY <3>1, <2>1, <2>2, <2>4 DEF AskedIdle
  <2>7. NothingYet'
    BY <2>2, <2>3, <2>4 DEF NothingYet, TypeOK
  <2> QED
    BY <2>1, <2>5, <2>6, <2>7
<1>7. ASSUME Restart PROVE OneWay'
  <2>1. asking' = <<>> /\ exists' = {} /\ whole' = {}
    BY <1>7 DEF Restart
  <2>2. Asked' = {}
    BY <2>1 DEF Asked
  <2> QED
    BY <2>1, <2>2 DEF AskedOnce, AskedIdle, NothingYet
<1>8. ASSUME UNCHANGED vars PROVE OneWay'
  BY <1>8 DEF vars, Writing, AskedOnce, AskedIdle, Asked, NothingYet
<1> QED
  BY <1>1, <1>2, <1>3, <1>4, <1>5, <1>6, <1>7, <1>8 DEF Next

\* A dialog is disabled only while its download runs.
LEMMA NextDisabled == TypeOK /\ OneWay /\ DisabledByDownload /\ [Next]_vars => DisabledByDownload'
<1> SUFFICES ASSUME TypeOK, OneWay, DisabledByDownload, [Next]_vars,
                    NEW e \in exists', e \notin enabled'
             PROVE  thread'[e] # "off"
  BY DEF DisabledByDownload
<1> USE DEF TypeOK, DisabledByDownload
<1>1. ASSUME NEW d \in Dialog, InitDialog(d) PROVE thread'[e] # "off"
  BY <1>1 DEF InitDialog
<1>2. ASSUME NEW d \in Dialog, Download(d) PROVE thread'[e] # "off"
  BY <1>2 DEF Download, IndexFails, OpenFile, BodyFails, BodyDone, Dismiss, Release, Leave, Enable
<1>3. ASSUME NEW d \in Dialog, Load(d) PROVE thread'[e] # "off"
  BY <1>3 DEF Load
<1>4. ASSUME NEW d \in Dialog, Cancel(d) \/ OwnerCloses(d) PROVE thread'[e] # "off"
  <2>1. Gone(d)
    BY <1>4, BothGone
  <2> QED
    BY <2>1 DEF Gone
<1>5. ASSUME NEW a \in {"yes", "no", "cancel"}, Answer(a) PROVE thread'[e] # "off"
  BY <1>5 DEF Answer
<1>6. ASSUME Restart PROVE thread'[e] # "off"
  BY <1>6 DEF Restart
<1>7. ASSUME UNCHANGED vars PROVE thread'[e] # "off"
  BY <1>7 DEF vars
<1> QED
  BY <1>1, <1>2, <1>3, <1>4, <1>5, <1>6, <1>7 DEF Next

\* The combo box of a dialog is filled once.
LEMMA NextFilled == TypeOK /\ OneWay /\ FilledOnce /\ [Next]_vars => FilledOnce'
<1> SUFFICES ASSUME TypeOK, OneWay, FilledOnce, [Next]_vars, NEW e \in exists'
             PROVE  fills'[e] + posted'[e] <= 1
  BY DEF FilledOnce
<1> USE DEF TypeOK, FilledOnce
<1>1. ASSUME NEW d \in Dialog, InitDialog(d) PROVE fills'[e] + posted'[e] <= 1
  BY <1>1 DEF InitDialog, AtOnce
<1>2. ASSUME NEW d \in Dialog, Download(d), ~Dismiss(d) PROVE fills'[e] + posted'[e] <= 1
  BY <1>2 DEF Download, IndexFails, OpenFile, BodyFails, BodyDone, Release, Leave
<1>3. ASSUME NEW d \in Dialog, Dismiss(d) PROVE fills'[e] + posted'[e] <= 1
  <2>1. e \in exists /\ fills'[e] = fills[e] /\ fills[e] \in Nat /\ posted[e] \in Nat
    BY <1>3 DEF Dismiss
  <2>2. CASE e = d
    <3>1. fills[e] + posted[e] = 0
      BY <1>3, <2>1, <2>2 DEF Dismiss, OneWay, NothingYet
    <3>2. posted'[e] = posted[e] + 1
      BY <1>3, <2>1, <2>2 DEF Dismiss
    <3> QED
      BY <2>1, <3>1, <3>2
  <2>3. CASE e # d
    BY <1>3, <2>1, <2>3 DEF Dismiss
  <2> QED
    BY <2>2, <2>3
<1>4. ASSUME NEW d \in Dialog, Load(d) PROVE fills'[e] + posted'[e] <= 1
  BY <1>4 DEF Load
<1>5. ASSUME NEW d \in Dialog, Cancel(d) \/ OwnerCloses(d) PROVE fills'[e] + posted'[e] <= 1
  <2>1. Gone(d)
    BY <1>5, BothGone
  <2> QED
    BY <2>1 DEF Gone
<1>6. ASSUME NEW a \in {"yes", "no", "cancel"}, Answer(a) PROVE fills'[e] + posted'[e] <= 1
  BY <1>6 DEF Answer
<1>7. ASSUME Restart PROVE fills'[e] + posted'[e] <= 1
  BY <1>7 DEF Restart
<1>8. ASSUME UNCHANGED vars PROVE fills'[e] + posted'[e] <= 1
  BY <1>8 DEF vars
<1> QED
  BY <1>1, <1>2, <1>3, <1>4, <1>5, <1>6, <1>7, <1>8 DEF Next

\* What a dialog lists stays the table: only an empty table is read again.
LEMMA NextListed == TypeOK /\ ListedNamesKnown /\ [Next]_vars => ListedNamesKnown'
<1> DEFINE Lists(e) == list'[e] \in {{}, msg_map'}
<1> SUFFICES ASSUME TypeOK, ListedNamesKnown, [Next]_vars, NEW e \in exists' PROVE Lists(e)
  BY DEF ListedNamesKnown
<1> USE DEF TypeOK, ListedNamesKnown
<1>1. ASSUME NEW d \in Dialog, InitDialog(d) PROVE Lists(e)
  BY <1>1 DEF InitDialog
<1>2. ASSUME NEW d \in Dialog, Download(d) PROVE Lists(e)
  BY <1>2 DEF Download, IndexFails, OpenFile, BodyFails, BodyDone, Dismiss, Release, Leave
<1>3. ASSUME NEW d \in Dialog, Load(d) PROVE Lists(e)
  <2>1. msg_map = {} \/ msg_map' = msg_map
    BY <1>3 DEF Load, Reads
  <2>2. /\ e \in exists /\ e \in Dialog /\ list[e] \in {{}, msg_map}
        /\ list' = [list EXCEPT ![d] = @ \cup msg_map']
    BY <1>3 DEF Load
  <2>3. CASE e = d
    <3>1. list'[e] = list[e] \cup msg_map'
      BY <2>2, <2>3
    <3> QED
      BY <2>1, <2>2, <3>1
  <2>4. CASE e # d
    BY <2>1, <2>2, <2>4
  <2> QED
    BY <2>3, <2>4
<1>4. ASSUME NEW d \in Dialog, Cancel(d) \/ OwnerCloses(d) PROVE Lists(e)
  <2>1. Gone(d)
    BY <1>4, BothGone
  <2> QED
    BY <2>1 DEF Gone
<1>5. ASSUME NEW a \in {"yes", "no", "cancel"}, Answer(a) PROVE Lists(e)
  BY <1>5 DEF Answer
<1>6. ASSUME Restart PROVE Lists(e)
  BY <1>6 DEF Restart
<1>7. ASSUME UNCHANGED vars PROVE Lists(e)
  BY <1>7 DEF vars
<1> QED
  BY <1>1, <1>2, <1>3, <1>4, <1>5, <1>6, <1>7 DEF Next

\* In a clean process the file is good whenever somebody will read it, and the
\* table is empty or complete.
LEMMA NextCleanFile == TypeOK /\ OneWay /\ CleanFile /\ [Next]_vars => CleanFile'
<1> SUFFICES ASSUME TypeOK, OneWay, CleanFile, [Next]_vars, clean' PROVE CleanFile'
  BY DEF CleanFile
<1> USE DEF TypeOK
<1>1. ASSUME NEW d \in Dialog, InitDialog(d) PROVE CleanFile'
  <2>1. clean /\ file # "bad" /\ UNCHANGED <<file, msg_map, thread, whole>>
    BY <1>1 DEF InitDialog
  <2>2. Writing' = Writing
    BY <2>1 DEF Writing
  <2>3. \A e \in exists' : fills'[e] > 0 => msg_map' = Name
    BY <1>1, <2>1 DEF InitDialog, CleanFile
  <2>4. ASSUME NEW e \in Dialog, posted'[e] > 0 \/ thread'[e] = "box" PROVE file' = "good"
    BY <1>1, <2>1, <2>4 DEF InitDialog, AtOnce, CleanFile
  <2> QED
    BY <2>1, <2>2, <2>3, <2>4 DEF CleanFile
<1>2. ASSUME NEW d \in Dialog, IndexFails(d) \/ Release(d) PROVE CleanFile'
  <2>1. clean /\ UNCHANGED <<file, msg_map, exists, posted, fills, whole>>
    BY <1>2 DEF IndexFails, Release, Leave
  <2>2. Writing' = Writing
    BY <1>2 DEF IndexFails, Release, Leave, Writing
  <2>3. \A e \in Dialog : thread'[e] = "box" => thread[e] = "box"
    BY <1>2 DEF IndexFails, Release, Leave
  <2> QED
    BY <2>1, <2>2, <2>3 DEF CleanFile
<1>3. ASSUME NEW d \in Dialog, OpenFile(d) PROVE CleanFile'
  <2>1. clean /\ file = "absent" /\ file' = "bad" /\ UNCHANGED <<msg_map, exists, posted, fills>>
    BY <1>3 DEF OpenFile
  <2>2. Writing = {}
    BY <2>1 DEF CleanFile
  <2>3. Writing' = {d} /\ whole' = {d}
    BY <1>3, <2>2 DEF OpenFile, Writing
  <2>4. \A e \in Dialog : ~(posted'[e] > 0) /\ thread'[e] # "box"
    BY <1>3, <2>1 DEF OpenFile, CleanFile
  <2> QED
    BY <2>1, <2>3, <2>4 DEF CleanFile
<1>4. ASSUME NEW d \in Dialog, BodyFails(d) PROVE CleanFile'
  BY <1>4 DEF BodyFails
<1>5. ASSUME NEW d \in Dialog, BodyDone(d) PROVE CleanFile'
  <2>1. clean /\ d \in Writing /\ UNCHANGED <<msg_map, exists, posted, fills>>
    BY <1>5 DEF BodyDone, Writing
  <2>2. file = "bad" /\ Writing = whole /\ \A e \in Writing : e = d
    BY <2>1 DEF CleanFile
  <2>3. file' = "good"
    BY <1>5, <2>1, <2>2 DEF BodyDone
  <2>4. Writing' = {}
    BY <1>5, <2>2 DEF BodyDone, Writing
  <2> QED
    BY <2>1, <2>3, <2>4 DEF CleanFile
<1>6. ASSUME NEW d \in Dialog, Dismiss(d) PROVE CleanFile'
  <2>1. clean /\ UNCHANGED <<file, msg_map, exists, fills, whole>>
    BY <1>6 DEF Dismiss
  <2>2. Writing' = Writing
    BY <1>6 DEF Dismiss, Writing
  <2>3. file = "good" /\ file' = "good"
    BY <1>6, <2>1 DEF Dismiss, CleanFile
  <2> QED
    BY <2>1, <2>2, <2>3 DEF CleanFile
<1>7. ASSUME NEW d \in Dialog, Load(d) PROVE CleanFile'
  <2>1. clean /\ posted[d] > 0 /\ UNCHANGED <<file, exists, thread, whole>>
    BY <1>7 DEF Load
  <2>2. Writing' = Writing /\ file = "good"
    BY <2>1 DEF Writing, CleanFile
  <2>3. Writing = {}
    BY <2>1, <2>2 DEF CleanFile
  <2>4. msg_map' = Name
    BY <1>7, <2>1, <2>2, <2>3 DEF Load, Reads, CleanFile
  <2> QED
    BY <2>1, <2>2, <2>3, <2>4 DEF CleanFile
<1>8. ASSUME NEW d \in Dialog, Cancel(d) \/ OwnerCloses(d) PROVE CleanFile'
  <2>1. Gone(d)
    BY <1>8, BothGone
  <2>2. Writing' = Writing
    BY <2>1 DEF Gone, Writing
  <2> QED
    BY <2>1, <2>2 DEF Gone, CleanFile
<1>9. ASSUME NEW a \in {"yes", "no", "cancel"}, Answer(a) PROVE CleanFile'
  <2>1. clean /\ UNCHANGED <<file, msg_map, exists, posted, fills, whole>>
    BY <1>9 DEF Answer
  <2>2. asking[Len(asking)] \in Asked
    BY <1>9, AskedShrinks DEF OneWay
  <2>3. thread[asking[Len(asking)]] = "off"
    BY <2>2 DEF OneWay, AskedIdle
  <2>4. Writing' = Writing
    BY <1>9, <2>3 DEF Answer, Writing
  <2>5. \A e \in Dialog : thread'[e] = "box" => thread[e] = "box"
    BY <1>9, <2>3 DEF Answer
  <2> QED
    BY <2>1, <2>4, <2>5 DEF CleanFile
<1>10. ASSUME Restart PROVE CleanFile'
  <2>1. clean /\ file # "bad" /\ UNCHANGED file /\ msg_map' = {} /\ exists' = {}
    BY <1>10 DEF Restart
  <2>2. Writing' = {}
    BY <1>10 DEF Restart, Writing
  <2>3. \A e \in Dialog : posted'[e] = 0 /\ thread'[e] = "off"
    BY <1>10 DEF Restart
  <2>4. \A e \in Dialog : ~(posted'[e] > 0) /\ thread'[e] # "box"
    BY <2>3
  <2> QED
    BY <2>1, <2>2, <2>4 DEF CleanFile
<1>11. ASSUME UNCHANGED vars PROVE CleanFile'
  BY <1>11 DEF vars, CleanFile, Writing
<1> QED
  BY <1>1, <1>2, <1>3, <1>4, <1>5, <1>6, <1>7, <1>8, <1>9, <1>10, <1>11 DEF Next, Download

\* In a clean process a filled list is complete.
LEMMA NextComplete ==
  TypeOK /\ OneWay /\ CleanFile /\ ListComplete /\ [Next]_vars => ListComplete'
<1> SUFFICES ASSUME TypeOK, OneWay, CleanFile, ListComplete, [Next]_vars, clean',
                    NEW e \in exists', fills'[e] > 0
             PROVE  list'[e] = Name
  BY DEF ListComplete
<1> USE DEF TypeOK, ListComplete
<1>1. ASSUME NEW d \in Dialog, InitDialog(d) PROVE list'[e] = Name
  BY <1>1 DEF InitDialog
<1>2. ASSUME NEW d \in Dialog, Download(d) PROVE list'[e] = Name
  BY <1>2 DEF Download, IndexFails, OpenFile, BodyFails, BodyDone, Dismiss, Release, Leave
<1>3. ASSUME NEW d \in Dialog, Load(d) PROVE list'[e] = Name
  <2>1. CASE e = d
    <3>1. CleanFile'
      BY <1>3, NextCleanFile DEF Next
    <3>2. msg_map' = Name
      BY <3>1 DEF CleanFile
    <3>3. list'[e] = list[e] \cup Name /\ list[e] \subseteq Name
      BY <1>3, <2>1, <3>2 DEF Load
    <3> QED
      BY <3>3
  <2>2. CASE e # d
    BY <1>3, <2>2 DEF Load
  <2> QED
    BY <2>1, <2>2
<1>4. ASSUME NEW d \in Dialog, Cancel(d) \/ OwnerCloses(d) PROVE list'[e] = Name
  <2>1. Gone(d)
    BY <1>4, BothGone
  <2> QED
    BY <2>1 DEF Gone
<1>5. ASSUME NEW a \in {"yes", "no", "cancel"}, Answer(a) PROVE list'[e] = Name
  BY <1>5 DEF Answer
<1>6. ASSUME Restart PROVE list'[e] = Name
  BY <1>6 DEF Restart
<1>7. ASSUME UNCHANGED vars PROVE list'[e] = Name
  BY <1>7 DEF vars
<1> QED
  BY <1>1, <1>2, <1>3, <1>4, <1>5, <1>6, <1>7 DEF Next

-----------------------------------------------------------------------------

\* The inductive invariant of the dialogs, for any number of them: types, the
\* way of each dialog, and the file and the table of a clean process.
THEOREM Invariant == Spec => []IndInv
<1>1. IndInv /\ [Next]_vars => IndInv'
  BY NextType, NextOneWay, NextDisabled, NextFilled, NextListed, NextCleanFile, NextComplete
     DEF IndInv
<1> QED
  BY InitIndInv, <1>1, PTL DEF Spec

\* Variables keep their types.
THEOREM TypeCorrect == Spec => []TypeOK
<1>1. IndInv => TypeOK
  BY DEF IndInv
<1> QED
  BY Invariant, <1>1, PTL

\* A dialog is disabled only while its own download runs.
THEOREM DisabledByDownloadHolds == Spec => []DisabledByDownload
<1>1. IndInv => DisabledByDownload
  BY DEF IndInv
<1> QED
  BY Invariant, <1>1, PTL

\* No combo box shows the names twice.
THEOREM FilledOnceHolds == Spec => []FilledOnce
<1>1. IndInv => FilledOnce
  BY DEF IndInv
<1> QED
  BY Invariant, <1>1, PTL

\* A listed name is found when the message is sent.
THEOREM ListedNamesKnownHolds == Spec => []ListedNamesKnown
<1>1. IndInv => ListedNamesKnown
  BY DEF IndInv
<1> QED
  BY Invariant, <1>1, PTL

\* In a clean process every filled list is complete.
THEOREM ListCompleteHolds == Spec => []ListComplete
<1>1. IndInv => ListComplete
  BY DEF IndInv
<1> QED
  BY Invariant, <1>1, PTL

-----------------------------------------------------------------------------
(* The numbers in a text.                                                  *)

\* Induction over Nat, stated with a set: what holds of 0 and passes on from k to
\* k + 1 is all of Nat, for a least exception would have a predecessor.
LEMMA SetInduction ==
  ASSUME NEW T \in SUBSET Nat, 0 \in T, \A k \in T : k + 1 \in T
  PROVE  T = Nat
<1>1. SUFFICES ASSUME Nat \ T # {} PROVE FALSE
  OBVIOUS
<1>2. PICK m \in Nat \ T : \A k \in Nat \ T : <<k, m>> \notin OpToRel(<, Nat)
  BY <1>1, NatLessThanWellFounded, WFMin, Zenon
<1>3. \A k \in Nat \ T : ~ (k < m)
  BY <1>2 DEF OpToRel
<1>4. m # 0 /\ m - 1 \in Nat /\ m - 1 < m /\ m - 1 + 1 = m
  OBVIOUS
<1>5. m - 1 \in T
  BY <1>3, <1>4
<1> QED
  BY <1>4, <1>5

\* There is a function on 0..n with the given start and step.
Unrolls(n, S, a, g) ==
  \E f \in [0..n -> S] : f[0] = a /\ \A k \in 1..n : f[k] = g[<<k, f[k-1]>>]

\* A function defined by recursion along 0..n exists: longer and longer parts of
\* it do.
LEMMA RecursionExists ==
  ASSUME NEW n \in Nat, NEW S, NEW a \in S, NEW g \in [(1..n) \X S -> S]
  PROVE  Unrolls(n, S, a, g)
<1> DEFINE Upto(k) == \E f \in [0..k -> S] : f[0] = a /\ \A i \in 1..k : f[i] = g[<<i, f[i-1]>>]
           T == {k \in Nat : k <= n => Upto(k)}
<1>1. 0 \in T
  <2>1. [i \in 0..0 |-> a] \in [0..0 -> S]
    OBVIOUS
  <2>2. [i \in 0..0 |-> a][0] = a /\ 1..0 = {}
    OBVIOUS
  <2> QED
    BY <2>1, <2>2
<1>2. ASSUME NEW k \in T PROVE k + 1 \in T
  <2>0. k \in Nat OBVIOUS
  <2>1. SUFFICES ASSUME k + 1 <= n PROVE Upto(k + 1)
    BY <2>0
  <2>2. PICK f \in [0..k -> S] : f[0] = a /\ \A i \in 1..k : f[i] = g[<<i, f[i-1]>>]
    BY <2>0, <2>1
  <2> DEFINE h == [i \in 0..(k+1) |-> IF i = k + 1 THEN g[<<k + 1, f[k]>>] ELSE f[i]]
  <2>3. g[<<k + 1, f[k]>>] \in S
    <3>1. <<k + 1, f[k]>> \in (1..n) \X S
      BY <2>0, <2>1
    <3> QED
      BY <3>1
  <2>4. h \in [0..(k+1) -> S]
    BY <2>0, <2>3
  <2>5. h[0] = a
    BY <2>0, <2>2
  <2>6. ASSUME NEW i \in 1..(k+1) PROVE h[i] = g[<<i, h[i-1]>>]
    <3>1. CASE i = k + 1
      <4>1. i \in 0..(k+1) /\ i - 1 = k /\ i - 1 \in 0..(k+1) /\ k # k + 1
        BY <3>1, <2>0
      <4>2. h[i] = g[<<k + 1, f[k]>>] /\ h[i - 1] = f[k]
        BY <3>1, <4>1
      <4> QED
        BY <3>1, <4>2
    <3>2. CASE i # k + 1
      <4>1. i \in 1..k /\ i \in 0..(k+1) /\ i - 1 \in 0..(k+1) /\ i - 1 # k + 1
        BY <3>2, <2>0
      <4> QED
        BY <4>1, <2>2, <3>2
    <3> QED
      BY <3>1, <3>2
  <2> QED
    BY <2>4, <2>5, <2>6
<1>3. T = Nat
  <2> HIDE DEF T
  <2>1. T \in SUBSET Nat
    BY DEF T
  <2> QED
    BY <1>1, <1>2, <2>1, SetInduction
<1> QED
  BY <1>3 DEF Unrolls


\* Induction along 0..n, for the positions in a text.
LEMMA InductionUpTo ==
  ASSUME NEW n \in Nat, NEW T, 0 \in T, \A k \in 1..n : k - 1 \in T => k \in T
  PROVE  \A k \in 0..n : k \in T
<1> DEFINE U == {k \in Nat : k <= n => k \in T}
<1>1. 0 \in U
  OBVIOUS
<1>2. ASSUME NEW k \in U PROVE k + 1 \in U
  <2>1. k \in Nat /\ k + 1 - 1 = k
    OBVIOUS
  <2> QED
    BY <2>1
<1>3. U = Nat
  <2>1. U \in SUBSET Nat
    OBVIOUS
  <2> HIDE DEF U
  <2> QED
    BY <1>1, <1>2, <2>1, SetInduction
<1> QED
  BY <1>3

\* The values after each digit, the weights of the places, and the sums of the
\* digits by their weights, as equations.
IsValue(v, n, c, base, max) ==
  /\ v \in [0..n -> Nat] /\ v[0] = 0
  /\ \A k \in 1..n : v[k] = Least(v[k - 1] * base + c[k], max)

IsWeight(w, n, base) ==
  w \in [0..n -> Nat] /\ w[0] = 1 /\ \A k \in 1..n : w[k] = w[k - 1] * base

IsSum(s, n, c, w) ==
  s \in [0..n -> Nat] /\ s[0] = 0 /\ \A k \in 1..n : s[k] = s[k - 1] + c[k] * w[n - k]

\* The recursive function inside Wcsto satisfies its own equations.
LEMMA ValueOf ==
  ASSUME NEW n \in Nat, NEW c \in [1..n -> Nat], NEW base \in Nat, NEW max \in Nat,
         Len(c) = n
  PROVE  \E v : IsValue(v, n, c, base, max) /\ Wcsto(c, base, max) = v[Digits(c, base)]
<1> DEFINE value[k \in 0..Len(c)] ==
             IF k = 0 THEN 0 ELSE Least(value[k - 1] * base + c[k], max)
           Eq(f) == f = [k \in 0..Len(c) |->
                          IF k = 0 THEN 0 ELSE Least(f[k - 1] * base + c[k], max)]
           g == [x \in (1..n) \X Nat |-> Least(x[2] * base + c[x[1]], max)]
<1>0. \A x \in Nat, k \in 1..n : Least(x * base + c[k], max) \in Nat
  <2> TAKE x \in Nat, k \in 1..n
  <2>1. x * base \in Nat /\ c[k] \in Nat
    OBVIOUS
  <2> QED
    BY <2>1 DEF Least
<1>1. g \in [(1..n) \X Nat -> Nat]
  BY <1>0
<1>2. PICK v \in [0..n -> Nat] : v[0] = 0 /\ \A k \in 1..n : v[k] = g[<<k, v[k-1]>>]
  <2> HIDE DEF g
  <2>1. Unrolls(n, Nat, 0, g)
    BY <1>1, RecursionExists
  <2> QED
    BY <2>1 DEF Unrolls
<1>3. \A k \in 1..n : v[k] = Least(v[k - 1] * base + c[k], max)
  <2> TAKE k \in 1..n
  <2>1. k - 1 \in 0..n
    OBVIOUS
  <2>2. <<k, v[k - 1]>> \in (1..n) \X Nat
    BY <2>1
  <2> QED
    BY <1>2, <2>2
<1>4. Eq(v)
  BY <1>2, <1>3
<1>5. value = CHOOSE f : Eq(f)
  OBVIOUS
<1>6. Eq(value)
  BY <1>4, <1>5
<1> HIDE DEF value
<1>7. value[0] = 0 /\ \A k \in 1..n : value[k] = Least(value[k - 1] * base + c[k], max)
  BY <1>6
<1>8. \A k \in 0..n : value[k] \in Nat
  <2> DEFINE T == {k \in 0..n : value[k] \in Nat}
  <2>1. 0 \in T
    BY <1>7
  <2>2. \A k \in 1..n : k - 1 \in T => k \in T
    <3> SUFFICES ASSUME NEW k \in 1..n, k - 1 \in T PROVE k \in T
      OBVIOUS
    <3>1. value[k - 1] \in Nat
      OBVIOUS
    <3>2. Least(value[k - 1] * base + c[k], max) \in Nat
      BY <3>1, <1>0, Zenon
    <3> QED
      BY <1>7, <3>2
  <2> HIDE DEF T
  <2>3. \A k \in 0..n : k \in T
    BY <2>1, <2>2, InductionUpTo
  <2> QED
    BY <2>3 DEF T
<1>9. value \in [0..n -> Nat]
  BY <1>6, <1>8
<1>10. Wcsto(c, base, max) = value[Digits(c, base)]
  BY DEF Wcsto, value
<1>11. IsValue(value, n, c, base, max)
  BY <1>7, <1>9 DEF IsValue
<1> QED
  BY <1>10, <1>11

\* So do the weights of the places.
LEMMA WeightsOf ==
  ASSUME NEW n \in Nat, NEW base \in Nat
  PROVE  IsWeight(Weights(base, n), n, base)
<1> DEFINE weight[k \in 0..n] == IF k = 0 THEN 1 ELSE weight[k - 1] * base
           Eq(f) == f = [k \in 0..n |-> IF k = 0 THEN 1 ELSE f[k - 1] * base]
           g == [x \in (1..n) \X Nat |-> x[2] * base]
<1>1. g \in [(1..n) \X Nat -> Nat]
  <2>1. ASSUME NEW x \in (1..n) \X Nat PROVE x[2] * base \in Nat
    <3>1. x[2] \in Nat
      OBVIOUS
    <3> QED
      BY <3>1
  <2> QED
    BY <2>1
<1>2. PICK v \in [0..n -> Nat] : v[0] = 1 /\ \A k \in 1..n : v[k] = g[<<k, v[k-1]>>]
  <2> HIDE DEF g
  <2>1. Unrolls(n, Nat, 1, g)
    BY <1>1, RecursionExists
  <2> QED
    BY <2>1 DEF Unrolls
<1>3. \A k \in 1..n : v[k] = v[k - 1] * base
  <2> TAKE k \in 1..n
  <2>1. k - 1 \in 0..n
    OBVIOUS
  <2>2. <<k, v[k - 1]>> \in (1..n) \X Nat
    BY <2>1
  <2> QED
    BY <1>2, <2>2
<1>4. Eq(v)
  BY <1>2, <1>3
<1>5. weight = CHOOSE f : Eq(f)
  OBVIOUS
<1>6. Eq(weight)
  BY <1>4, <1>5
<1> HIDE DEF weight
<1>7. weight[0] = 1 /\ \A k \in 1..n : weight[k] = weight[k - 1] * base
  BY <1>6
<1>8. \A k \in 0..n : weight[k] \in Nat
  <2> DEFINE T == {k \in 0..n : weight[k] \in Nat}
  <2>1. 0 \in T
    BY <1>7
  <2>2. \A k \in 1..n : k - 1 \in T => k \in T
    BY <1>7
  <2> HIDE DEF T
  <2>3. \A k \in 0..n : k \in T
    BY <2>1, <2>2, InductionUpTo
  <2> QED
    BY <2>3 DEF T
<1>9. weight \in [0..n -> Nat]
  BY <1>6, <1>8
<1>10. Weights(base, n) = weight
  BY DEF Weights, weight
<1> QED
  BY <1>7, <1>9, <1>10 DEF IsWeight

\* And the sums inside Written.
LEMMA WrittenOf ==
  ASSUME NEW t \in Text, NEW n \in Nat, n = Len(t.characters), t.characters \in [1..n -> Nat],
         NEW w \in [0..n -> Nat], w = Weights(Base(t), n)
  PROVE  \E s : IsSum(s, n, t.characters, w) /\ Written(t) = s[n]
<1> DEFINE c == t.characters
           sum[k \in 0..Len(c)] ==
             IF k = 0 THEN 0 ELSE sum[k - 1] + c[k] * Weights(Base(t), Len(c))[Len(c) - k]
           Eq(f) == f = [k \in 0..Len(c) |->
                          IF k = 0 THEN 0 ELSE f[k - 1] + c[k] * Weights(Base(t), Len(c))[Len(c) - k]]
           g == [x \in (1..n) \X Nat |-> x[2] + c[x[1]] * w[n - x[1]]]
<1>0. \A x \in Nat, k \in 1..n : x + c[k] * w[n - k] \in Nat
  <2> TAKE x \in Nat, k \in 1..n
  <2>1. w[n - k] \in Nat /\ c[k] \in Nat
    OBVIOUS
  <2>2. c[k] * w[n - k] \in Nat
    BY <2>1
  <2> QED
    BY <2>2
<1>1. g \in [(1..n) \X Nat -> Nat]
  BY <1>0
<1>2. PICK v \in [0..n -> Nat] : v[0] = 0 /\ \A k \in 1..n : v[k] = g[<<k, v[k-1]>>]
  <2> HIDE DEF g
  <2>1. Unrolls(n, Nat, 0, g)
    BY <1>1, RecursionExists
  <2> QED
    BY <2>1 DEF Unrolls
<1>3. \A k \in 1..n : v[k] = v[k - 1] + c[k] * w[n - k]
  <2> TAKE k \in 1..n
  <2>1. k - 1 \in 0..n
    OBVIOUS
  <2>2. <<k, v[k - 1]>> \in (1..n) \X Nat
    BY <2>1
  <2> QED
    BY <1>2, <2>2
<1>4. Eq(v)
  BY <1>2, <1>3
<1>5. sum = CHOOSE f : Eq(f)
  OBVIOUS
<1>6. Eq(sum)
  BY <1>4, <1>5
<1> HIDE DEF sum
<1>7. sum[0] = 0 /\ \A k \in 1..n : sum[k] = sum[k - 1] + c[k] * w[n - k]
  BY <1>6
<1>8. \A k \in 0..n : sum[k] \in Nat
  <2> DEFINE T == {k \in 0..n : sum[k] \in Nat}
  <2>1. 0 \in T
    BY <1>7
  <2>2. \A k \in 1..n : k - 1 \in T => k \in T
    <3> SUFFICES ASSUME NEW k \in 1..n, k - 1 \in T PROVE k \in T
      OBVIOUS
    <3>1. sum[k - 1] \in Nat
      OBVIOUS
    <3>2. sum[k - 1] + c[k] * w[n - k] \in Nat
      BY <3>1, <1>0, Zenon
    <3>3. sum[k] = sum[k - 1] + c[k] * w[n - k]
      BY <1>7
    <3>4. sum[k] \in Nat
      BY <3>2, <3>3, Zenon
    <3> QED
      BY <3>4
  <2> HIDE DEF T
  <2>3. \A k \in 0..n : k \in T
    BY <2>1, <2>2, InductionUpTo
  <2> QED
    BY <2>3 DEF T
<1>9. sum \in [0..n -> Nat]
  BY <1>6, <1>8
<1>10. Written(t) = sum[n]
  BY DEF Written, sum
<1>11. IsSum(sum, n, c, w)
  BY <1>7, <1>9 DEF IsSum
<1> QED
  BY <1>10, <1>11

\* The characters of a text are a sequence of its length.
LEMMA CharactersOf ==
  ASSUME NEW t \in Text
  PROVE  \E n \in Nat : /\ Len(t.characters) = n
                        /\ t.characters \in [1..n -> Nat]
                        /\ t.characters = <<>> <=> n = 0
<1>1. PICK n \in Nat : t.characters \in [1..n -> Character]
  <2>1. t.characters \in Seq(Character)
    BY DEF Text
  <2>2. Len(t.characters) \in Nat /\ t.characters \in [1..Len(t.characters) -> Character]
    BY <2>1
  <2> QED
    BY <2>2
<1>2. n \in Nat /\ Character \subseteq Nat
  BY <1>1 DEF Character, Other
<1>4. t.characters \in [1..n -> Nat]
  BY <1>1, <1>2
<1>5. t.characters \in Seq(Nat)
  BY <1>2, <1>4
<1>6. DOMAIN t.characters = 1..Len(t.characters) /\ DOMAIN t.characters = 1..n
  BY <1>4, <1>5
<1>7. Len(t.characters) = n
  BY <1>2, <1>5, <1>6
<1> QED
  BY <1>2, <1>4, <1>5, <1>7

\* When every character is a digit of the base, none is left over.
LEMMA AllDigits ==
  ASSUME NEW n \in Nat, NEW c \in [1..n -> Nat], Len(c) = n, NEW base \in Nat,
         \A i \in 1..n : c[i] < base
  PROVE  Digits(c, base) = n
<1> DEFINE Is(k) == /\ \A i \in 1..k : c[i] < base
                    /\ k < Len(c) => c[k + 1] >= base
<1>1. n \in 0..Len(c) /\ Is(n)
  OBVIOUS
<1>2. ASSUME NEW k \in 0..Len(c), Is(k) PROVE k = n
  <2>1. SUFFICES ASSUME k # n PROVE FALSE
    OBVIOUS
  <2>2. k + 1 \in 1..n /\ c[k + 1] >= base /\ c[k + 1] \in Nat
    BY <1>2, <2>1
  <2> QED
    BY <2>2
<1>3. Digits(c, base) = CHOOSE k \in 0..Len(c) : Is(k)
  BY DEF Digits
<1> HIDE DEF Is
<1> QED
  BY <1>1, <1>2, <1>3

\* A digit more: it makes no difference that what was read is already limited.
LEMMA ClampStep ==
  ASSUME NEW e \in Nat, NEW d \in Nat, NEW max \in Nat, NEW base \in Nat,
         base = 10 \/ base = 16
  PROVE  Least(Least(e, max) * base + d, max) = Least(e * base + d, max)
<1>1. CASE e <= max
  BY <1>1 DEF Least
<1>2. CASE ~(e <= max) /\ base = 10
  BY <1>2 DEF Least
<1>3. CASE ~(e <= max) /\ base = 16
  BY <1>3 DEF Least
<1> QED
  BY <1>1, <1>2, <1>3

\* A digit more, and what was read counts for base times as much.
LEMMA WeightStep ==
  ASSUME NEW e \in Nat, NEW d \in Nat, NEW w \in Nat, NEW base \in Nat,
         base = 10 \/ base = 16
  PROVE  e * (w * base) + d * w = (e * base + d) * w
<1>1. CASE base = 10
  BY <1>1
<1>2. CASE base = 16
  BY <1>2
<1> QED
  BY <1>1, <1>2

\* Reading from the left with a limit gives the sum of the digits by their
\* weights, or the limit: both follow the same number e, read without a limit.
LEMMA Horner ==
  ASSUME NEW n \in Nat, NEW c \in [1..n -> Nat], NEW base \in Nat, base = 10 \/ base = 16,
         NEW max \in Nat, NEW v, IsValue(v, n, c, base, max), NEW w, IsWeight(w, n, base),
         NEW s, IsSum(s, n, c, w)
  PROVE  s[n] \in Nat /\ v[n] = Least(s[n], max)
<1> DEFINE g == [x \in (1..n) \X Nat |-> x[2] * base + c[x[1]]]
<1>0. \A x \in Nat, k \in 1..n : x * base + c[k] \in Nat
  <2> TAKE x \in Nat, k \in 1..n
  <2>1. x * base \in Nat /\ c[k] \in Nat
    OBVIOUS
  <2> QED
    BY <2>1
<1>1. g \in [(1..n) \X Nat -> Nat]
  BY <1>0
<1>2. PICK e \in [0..n -> Nat] : e[0] = 0 /\ \A k \in 1..n : e[k] = g[<<k, e[k - 1]>>]
  <2> HIDE DEF g
  <2>1. Unrolls(n, Nat, 0, g)
    BY <1>1, RecursionExists
  <2> QED
    BY <2>1 DEF Unrolls
<1>3. \A k \in 1..n : e[k] = e[k - 1] * base + c[k]
  <2> TAKE k \in 1..n
  <2>1. k - 1 \in 0..n
    OBVIOUS
  <2>2. <<k, e[k - 1]>> \in (1..n) \X Nat
    BY <2>1
  <2> QED
    BY <1>2, <2>2
<1> HIDE DEF g
<1>4. \A x, y \in Nat : Least(Least(x, max) * base + y, max) = Least(x * base + y, max)
  BY ClampStep
<1>5. \A x, y, z \in Nat : x * (z * base) + y * z = (x * base + y) * z
  BY WeightStep
<1> DEFINE T == {k \in 0..n : v[k] = Least(e[k], max) /\ s[k] = e[k] * w[n - k]}
<1>6. 0 \in T
  <2>1. v[0] = 0 /\ s[0] = 0 /\ e[0] = 0 /\ w[n - 0] \in Nat
    BY <1>2 DEF IsValue, IsSum, IsWeight
  <2> QED
    BY <2>1 DEF Least
<1>7. ASSUME NEW k \in 1..n, k - 1 \in T PROVE k \in T
  <2>1. /\ k - 1 \in 0..n /\ k \in 0..n /\ n - k \in 0..n
        /\ n - (k - 1) \in 1..n /\ n - (k - 1) - 1 = n - k
    OBVIOUS
  <2>2. /\ e[k - 1] \in Nat /\ e[k] \in Nat /\ w[n - k] \in Nat /\ c[k] \in Nat
        /\ base \in Nat
    BY <2>1 DEF IsWeight
  <2>3. v[k - 1] = Least(e[k - 1], max) /\ s[k - 1] = e[k - 1] * w[n - (k - 1)]
    BY <1>7
  <2>4. e[k] = e[k - 1] * base + c[k]
    BY <1>3
  <2>5. v[k] = Least(e[k], max)
    <3>1. v[k] = Least(Least(e[k - 1], max) * base + c[k], max)
      BY <2>3 DEF IsValue
    <3>2. Least(Least(e[k - 1], max) * base + c[k], max) = Least(e[k - 1] * base + c[k], max)
      BY <2>2, <1>4, Zenon
    <3> QED
      BY <3>1, <3>2, <2>4, Zenon
  <2>6. s[k] = e[k] * w[n - k]
    <3>1. w[n - (k - 1)] = w[n - k] * base
      BY <2>1 DEF IsWeight
    <3>2. s[k] = s[k - 1] + c[k] * w[n - k]
      BY DEF IsSum
    <3>3. s[k] = e[k - 1] * (w[n - k] * base) + c[k] * w[n - k]
      BY <3>1, <3>2, <2>3, Zenon
    <3>4. e[k - 1] * (w[n - k] * base) + c[k] * w[n - k] = (e[k - 1] * base + c[k]) * w[n - k]
      <4> DEFINE x == e[k - 1]
                 y == c[k]
                 z == w[n - k]
      <4>1. x \in Nat /\ y \in Nat /\ z \in Nat
        BY <2>2
      <4> HIDE DEF x, y, z
      <4>2. x * (z * base) + y * z = (x * base + y) * z
        BY <4>1, <1>5, Zenon
      <4> QED
        BY <4>2 DEF x, y, z
    <3> QED
      BY <3>3, <3>4, <2>4, Zenon
  <2> QED
    BY <2>1, <2>5, <2>6
<1>8. n \in T
  <2> HIDE DEF T
  <2>1. \A k \in 0..n : k \in T
    BY <1>6, <1>7, InductionUpTo
  <2> QED
    BY <2>1
<1>9. e[n] \in Nat /\ n - n = 0 /\ w[0] = 1
  BY DEF IsWeight
<1>10. s[n] = e[n]
  BY <1>8, <1>9
<1> QED
  BY <1>8, <1>9, <1>10

\* wcstoul and wcstoull give the number that a text of digits denotes, or the
\* greatest value of the type (ProcDialogs.cpp:163-200), whatever its length.
LEMMA ReadsWritten ==
  ASSUME NEW t \in Text, WellFormed(t), NEW max \in Nat
  PROVE  Written(t) \in Nat /\ Wcsto(t.characters, Base(t), max) = Least(Written(t), max)
<1> DEFINE c == t.characters
           base == Base(t)
<1>1. PICK n \in Nat : Len(c) = n /\ c \in [1..n -> Nat]
  BY CharactersOf
<1>2. base \in Nat /\ (base = 10 \/ base = 16)
  BY DEF Base
<1>3. \A i \in 1..n : c[i] < base
  BY <1>1 DEF WellFormed
<1> HIDE DEF c, base
<1>4. Digits(c, base) = n
  BY <1>1, <1>2, <1>3, AllDigits
<1>5. PICK v : IsValue(v, n, c, base, max) /\ Wcsto(c, base, max) = v[n]
  <2>1. \E v : IsValue(v, n, c, base, max) /\ Wcsto(c, base, max) = v[Digits(c, base)]
    BY <1>1, <1>2, ValueOf
  <2> QED
    BY <2>1, <1>4
<1>6. IsWeight(Weights(base, n), n, base)
  BY <1>1, <1>2, WeightsOf
<1>7. PICK s : IsSum(s, n, c, Weights(base, n)) /\ Written(t) = s[n]
  <2>1. Weights(base, n) \in [0..n -> Nat]
    BY <1>6 DEF IsWeight
  <2>2. n = Len(t.characters) /\ t.characters \in [1..n -> Nat]
    BY <1>1 DEF c
  <2>3. \E s : IsSum(s, n, t.characters, Weights(base, n)) /\ Written(t) = s[n]
    BY <2>1, <2>2, WrittenOf DEF base
  <2> QED
    BY <2>3 DEF c
<1>8. s[n] \in Nat /\ v[n] = Least(s[n], max)
  BY <1>1, <1>2, <1>5, <1>6, <1>7, Horner
<1> QED
  BY <1>5, <1>7, <1>8 DEF c, base

\* What IDOK converts, for every text of any length and types of any width: the
\* numbers read are the numbers written, cut down to the greatest value of the
\* type, and only spellings of zero are refused.
THEOREM NumbersAsWrittenHold == NumbersAsWritten
<1> SUFFICES ASSUME NEW t \in Text, WellFormed(t)
             PROVE  /\ IsNumber(t)
                    /\ Refused(t) => Written(t) = 0
                    /\ ~Refused(t) => Message(t) = Least(Written(t), ULongMax)
                    /\ WParam(t) = Least(Written(t), ULongMax)
                    /\ LParam(t) = Least(Written(t), ULongLongMax)
  BY DEF NumbersAsWritten
<1>1. IsNumber(t)
  BY DEF IsNumber, WellFormed, Base
<1>2. /\ Message(t) = Least(Written(t), ULongMax) /\ WParam(t) = Message(t)
      /\ LParam(t) = Least(Written(t), ULongLongMax) /\ Written(t) \in Nat
  BY ReadsWritten, WidthAssumption DEF Message, WParam, LParam
<1>3. Refused(t) => Written(t) = 0
  BY <1>2, WidthAssumption DEF Refused, Least
<1> QED
  BY <1>1, <1>2, <1>3

\* The number written is sent if and only if the type that is read holds it.
THEOREM SentExactlyHolds == SentExactly
<1> SUFFICES ASSUME NEW t \in Text, WellFormed(t)
             PROVE  /\ Message(t) = Written(t) <=> Written(t) <= ULongMax
                    /\ WParam(t) = Written(t) <=> Written(t) <= ULongMax
                    /\ LParam(t) = Written(t) <=> Written(t) <= ULongLongMax
  BY DEF SentExactly
<1>1. /\ Message(t) = Least(Written(t), ULongMax) /\ WParam(t) = Least(Written(t), ULongMax)
      /\ LParam(t) = Least(Written(t), ULongLongMax) /\ Written(t) \in Nat
  BY ReadsWritten, WidthAssumption DEF Message, WParam, LParam
<1> QED
  BY <1>1, WidthAssumption DEF Least

\* A hexadecimal 0 is refused as a message number unless it is the one digit.
THEOREM ZeroRefusedHolds == ZeroRefused
<1> SUFFICES ASSUME NEW t \in Text, WellFormed(t)
             PROVE  Refused(t) <=> t.hex /\ Written(t) = 0 /\ t.characters # <<0>>
  BY DEF ZeroRefused
<1>1. Message(t) = Least(Written(t), ULongMax) /\ Written(t) \in Nat
  BY ReadsWritten, WidthAssumption DEF Message
<1> QED
  BY <1>1, WidthAssumption DEF Refused, Least

\* The hexadecimal text 0x100000000, one more than 32 bits hold.
PastULong == [hex |-> TRUE, characters |-> <<1, 0, 0, 0, 0, 0, 0, 0, 0>>]

LEMMA PastULongWritten ==
  /\ PastULong \in Text /\ WellFormed(PastULong)
  /\ Written(PastULong) = 4294967296
<1> DEFINE c == PastULong.characters
           w == Weights(16, 9)
<1>1. /\ c = <<1, 0, 0, 0, 0, 0, 0, 0, 0>> /\ PastULong.hex = TRUE
      /\ Base(PastULong) = 16
  BY DEF PastULong, Base
<1>2. c \in Seq(Character) /\ PastULong \in Text
  BY DEF PastULong, Text, Character, Other
<1>3. /\ Len(c) = 9 /\ c \in [1..9 -> Nat]
      /\ c[1] = 1 /\ \A i \in 2..9 : c[i] = 0
  BY <1>1
<1>4. WellFormed(PastULong)
  BY <1>1, <1>3 DEF WellFormed
<1>5. IsWeight(w, 9, 16)
  BY WeightsOf
<1> HIDE DEF c, w
<1>6. w[8] = 4294967296
  <2>1. w[0] = 1 /\ \A i \in 1..9 : w[i] = w[i - 1] * 16
    BY <1>5 DEF IsWeight
  <2>2. w[1] = 16 /\ w[2] = 256
    BY <2>1
  <2>3. w[3] = 4096 /\ w[4] = 65536
    BY <2>1, <2>2
  <2>4. w[5] = 1048576 /\ w[6] = 16777216
    BY <2>1, <2>3
  <2>5. w[7] = 268435456
    BY <2>1, <2>4
  <2> QED
    BY <2>1, <2>5
<1>7. PICK s : IsSum(s, 9, c, w) /\ Written(PastULong) = s[9]
  <2>1. w \in [0..9 -> Nat]
    BY <1>5 DEF IsWeight
  <2>2. Weights(Base(PastULong), 9) \in [0..9 -> Nat]
    BY <1>1, <2>1 DEF w
  <2>3. 9 = Len(PastULong.characters) /\ PastULong.characters \in [1..9 -> Nat]
    BY <1>3 DEF c
  <2>4. \E s : /\ IsSum(s, 9, PastULong.characters, Weights(Base(PastULong), 9))
               /\ Written(PastULong) = s[9]
    <3>1. 9 \in Nat
      OBVIOUS
    <3> QED
      BY <1>2, <2>2, <2>3, <3>1, WrittenOf, Zenon
  <2> QED
    BY <1>1, <2>4 DEF c, w
<1>8. s[9] = s[1]
  <2>1. \A k \in 2..9 : s[k] = s[k - 1]
    <3> TAKE k \in 2..9
    <3>1. k \in 1..9 /\ k - 1 \in 0..9 /\ 9 - k \in 0..9
      OBVIOUS
    <3>2. w[9 - k] \in Nat /\ s[k - 1] \in Nat /\ c[k] = 0
      BY <1>3, <1>5, <1>7, <3>1 DEF IsSum, IsWeight
    <3>3. s[k] = s[k - 1] + c[k] * w[9 - k]
      BY <1>7, <3>1, Zenon DEF IsSum
    <3>4. c[k] * w[9 - k] = 0
      BY <3>2
    <3> QED
      BY <3>2, <3>3, <3>4
  <2> QED
    BY <2>1
<1>9. s[1] = 4294967296
  <2>1. s[0] = 0 /\ s[1] = s[0] + c[1] * w[8]
    BY <1>7 DEF IsSum
  <2> QED
    BY <1>3, <1>6, <2>1
<1> QED
  BY <1>2, <1>4, <1>7, <1>8, <1>9

\* On Windows, where unsigned long has 32 bits and WPARAM has 64, the number
\* 0x100000000 typed as WPARAM is sent as 0xFFFFFFFF, and typed as LPARAM is sent
\* as it is (ProcDialogs.cpp:191 and 199).
THEOREM WParamCut ==
  ASSUME ULongMax = 4294967295
  PROVE  /\ PastULong \in Text /\ WellFormed(PastULong)
         /\ WParam(PastULong) = 4294967295 /\ Written(PastULong) = 4294967296
         /\ ULongLongMax >= 4294967296 => LParam(PastULong) = Written(PastULong)
<1>1. /\ PastULong \in Text /\ WellFormed(PastULong)
      /\ Written(PastULong) = 4294967296
  BY PastULongWritten
<1>2. /\ WParam(PastULong) = Least(Written(PastULong), ULongMax)
      /\ LParam(PastULong) = Least(Written(PastULong), ULongLongMax)
  BY <1>1, ReadsWritten, WidthAssumption DEF WParam, LParam
<1> QED
  BY <1>1, <1>2, WidthAssumption DEF Least

-----------------------------------------------------------------------------
(* Liveness, from fairness and from the downloads' being able to go on.    *)

\* A step of a download takes it to another place; out of the last ones, and on
\* every error, it enables its dialog.
LEMMA DownloadMoves ==
  ASSUME TypeOK, NEW d \in Dialog, Download(d)
  PROVE  /\ thread'[d] # thread[d] /\ exists' = exists
         /\ \/ <<thread[d], thread'[d]>> \in
                 {<<"index", "body">>, <<"body", "box">>, <<"box", "release">>}
            \/ d \in exists => d \in enabled'
<1>1. thread \in [Dialog -> Places]
  BY DEF TypeOK
<1>2. CASE Leave(d) /\ thread[d] # "off"
  BY <1>1, <1>2 DEF Leave, Enable
<1>3. CASE OpenFile(d)
  BY <1>1, <1>3 DEF OpenFile
<1>4. CASE BodyDone(d)
  BY <1>1, <1>4 DEF BodyDone
<1>5. CASE Dismiss(d)
  BY <1>1, <1>5 DEF Dismiss
<1> QED
  BY <1>2, <1>3, <1>4, <1>5 DEF Download, IndexFails, BodyFails, Release

\* What may happen in a step to a dialog that its download disabled.
LEMMA DownloadStep ==
  ASSUME IndInv, Next, NEW d \in Dialog, d \in exists \ enabled
  PROVE  \/ d \notin exists' \/ d \in enabled'
         \/ thread'[d] = thread[d] /\ d \in exists' \ enabled' /\ ~Download(d)
         \/ /\ d \in exists' \ enabled'
            /\ <<thread[d], thread'[d]>> \in
                 {<<"index", "body">>, <<"body", "box">>, <<"box", "release">>}
<1> DEFINE Done == d \notin exists' \/ d \in enabled'
<1>1. TypeOK /\ thread \in [Dialog -> Places] /\ thread[d] # "off" /\ d \notin Asked
  BY DEF IndInv, TypeOK, DisabledByDownload, OneWay, AskedIdle
<1>2. CASE Download(d)
  BY <1>1, <1>2, DownloadMoves
<1>3. thread'[d] = thread[d] => ~Download(d)
  BY <1>1, DownloadMoves
<1>4. SUFFICES ASSUME ~Download(d), ~Done
               PROVE  thread'[d] = thread[d]
  BY <1>2, <1>3
<1>5. ASSUME NEW c \in Dialog, c # d, Download(c) PROVE thread'[d] = thread[d]
  BY <1>1, <1>5 DEF Download, IndexFails, OpenFile, BodyFails, BodyDone, Dismiss, Release, Leave
<1>6. ASSUME NEW c \in Dialog, InitDialog(c) \/ Load(c) \/ Cancel(c) \/ OwnerCloses(c)
      PROVE  thread'[d] = thread[d]
  BY <1>6 DEF InitDialog, Load, Cancel, OwnerCloses, Gone
<1>7. ASSUME NEW a \in {"yes", "no", "cancel"}, Answer(a) PROVE thread'[d] = thread[d]
  <2>1. asking \in Seq(Dialog) /\ asking # <<>>
    BY <1>1, <1>7 DEF TypeOK, Answer
  <2>2. Len(asking) \in 1..Len(asking)
    BY <2>1, FrontOf
  <2>3. asking[Len(asking)] \in Asked
    BY <2>2 DEF Asked
  <2> QED
    BY <1>1, <1>7, <2>3 DEF Answer
<1>8. CASE Restart
  BY <1>4, <1>8 DEF Restart
<1> QED
  BY <1>4, <1>5, <1>6, <1>7, <1>8 DEF Next

\* A download that was begun goes on: it takes a step again and again, as long as
\* it is not at its end.
Proceeds(d) == []<>(thread[d] = "off") \/ []<><<Download(d)>>_vars

\* That is the fairness of the model, wherever the next step is possible.
LEMMA FairProceeds ==
  ASSUME NEW d \in Dialog
  PROVE  Fair(d) /\ [](~(thread[d] = "off") => ENABLED <<Download(d)>>_vars) => Proceeds(d)
BY PTL DEF Fair, Proceeds

\* A dialog that its download disabled takes input again, or is closed: the
\* download goes from place to place, and enables the dialog on every way out.
THEOREM DisabledForAWhileHolds ==
  Spec /\ (\A d \in Dialog : Proceeds(d)) => DisabledForAWhile
<1> DEFINE At(d, p) == thread[d] = p /\ d \in exists \ enabled
           Done(d) == d \notin exists \/ d \in enabled
<1>1. SUFFICES ASSUME NEW d \in Dialog
               PROVE  Spec /\ Proceeds(d) => ShortlyDisabled(d)
  <2>1. \A d \in Dialog : Spec /\ Proceeds(d) => ShortlyDisabled(d)
    BY <1>1
  <2> QED
    BY <2>1 DEF DisabledForAWhile
<1>3. Spec => []IndInv
  BY Invariant
<1>5. IndInv /\ d \in exists \ enabled
        => At(d, "index") \/ At(d, "body") \/ At(d, "box") \/ At(d, "release")
  BY DEF IndInv, TypeOK, DisabledByDownload, Places
<1>6. ASSUME IndInv, [Next]_vars, At(d, "index")
      PROVE  At(d, "index")' \/ At(d, "body")' \/ Done(d)'
  BY <1>6, DownloadStep DEF vars
<1>7. ASSUME IndInv, [Next]_vars, At(d, "body")
      PROVE  At(d, "body")' \/ At(d, "box")' \/ Done(d)'
  BY <1>7, DownloadStep DEF vars
<1>8. ASSUME IndInv, [Next]_vars, At(d, "box")
      PROVE  At(d, "box")' \/ At(d, "release")' \/ Done(d)'
  BY <1>8, DownloadStep DEF vars
<1>9. ASSUME IndInv, [Next]_vars, At(d, "release")
      PROVE  At(d, "release")' \/ Done(d)'
  BY <1>9, DownloadStep DEF vars
<1>10. ASSUME IndInv, [Next]_vars, <<Download(d)>>_vars
       PROVE  /\ At(d, "index") => At(d, "body")' \/ Done(d)'
              /\ At(d, "body") => At(d, "box")' \/ Done(d)'
              /\ At(d, "box") => At(d, "release")' \/ Done(d)'
              /\ At(d, "release") => Done(d)'
  BY <1>10, DownloadStep DEF vars
<1>11. d \in exists \ enabled \/ Done(d)
  OBVIOUS
<1>12. At(d, "index") \/ At(d, "body") \/ At(d, "box") \/ At(d, "release")
         => ~(thread[d] = "off")
  OBVIOUS
<1> HIDE DEF At
<1> QED
  BY <1>3, <1>5, <1>6, <1>7, <1>8, <1>9, <1>10, <1>11, <1>12, PTL
     DEF Spec, Proceeds, ShortlyDisabled
=============================================================================
