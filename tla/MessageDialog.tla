--------------------------- MODULE MessageDialog ---------------------------
(***************************************************************************)
(* The SendMessage dialogs of one process (ProcDialogs.cpp,                *)
(* SendMsgDlgHandler): the file window-message-data.ini, the table of      *)
(* message names that is read from it once per process, the question       *)
(* whether to download the file, and the download on a thread of its own.  *)
(*                                                                         *)
(* The dialogs belong to the UI thread, whose message loop also runs       *)
(* inside TaskDialog: a second dialog can be opened, and any message       *)
(* handled, while the WM_INITDIALOG of the first one waits for its answer. *)
(* The downloads run beside it; each action of theirs is one call.  The    *)
(* numbers the dialogs send are in MessageNumber.                          *)
(***************************************************************************)
EXTENDS Naturals, Sequences, MessageNumber

CONSTANTS
  Dialog,  \* the dialogs that can be open at a time (a bound on their number)
  Name     \* the message names in a complete file

ASSUME NameAssumption == Name # {}

VARIABLES
  file,     \* "absent", "good", or "bad": cut short, or not the data at all
  msg_map,  \* the static table, by its names; empty until it is read
  pref,     \* app.send_message_dialog.wm_data.pref is 1: never ask again
  exists,   \* the dialogs for which IsWindow() holds
  enabled,  \* those of them that this code has not disabled
  asking,   \* the calls of TaskDialog in WM_INITDIALOG, innermost last
  posted,   \* per dialog, messages WM_USER+3 not yet handled
  list,     \* per dialog, the names in its combo box
  fills,    \* per dialog, how often the combo box was filled
  thread,   \* per dialog, where its download thread is
  whole,    \* the downloads whose output nobody has truncated since
  clean     \* no file or a good one, and no download failed or was overtaken

vars == <<file, msg_map, pref, exists, enabled, asking, posted, list, fills,
          thread, whole, clean>>

Places == {"off", "index", "body", "box", "release"}

Asked == {asking[i] : i \in 1..Len(asking)}
Writing == {d \in Dialog : thread[d] = "body"}

-----------------------------------------------------------------------------

Init ==
  /\ file \in {"absent", "bad", "good"}
  /\ msg_map = {}
  /\ pref \in BOOLEAN
  /\ exists = {}
  /\ enabled = {}
  /\ asking = <<>>
  /\ posted = [d \in Dialog |-> 0]
  /\ list = [d \in Dialog |-> {}]
  /\ fills = [d \in Dialog |-> 0]
  /\ thread = [d \in Dialog |-> "off"]
  /\ whole = {}
  /\ clean = (file # "bad")

\* A mutant: the message is posted also when there is nothing to read yet.
AtOnce_Always == 1

\* A file that is there, whatever is in it, will be read.
AtOnce == IF file # "absent" THEN 1 ELSE 0

\* WM_INITDIALOG: without a file the user is asked, unless he declined for good.
InitDialog(d) ==
  /\ d \notin exists \cup Asked /\ thread[d] = "off"
  /\ exists' = exists \cup {d}
  /\ enabled' = enabled \cup {d}
  /\ posted' = [posted EXCEPT ![d] = AtOnce]
  /\ asking' = IF file = "absent" /\ ~pref THEN Append(asking, d) ELSE asking
  /\ list' = [list EXCEPT ![d] = {}]
  /\ fills' = [fills EXCEPT ![d] = 0]
  /\ clean' = (clean /\ file # "bad")
  /\ UNCHANGED <<file, msg_map, pref, thread, whole>>

\* TaskDialog returns, the innermost call first.  The dialog may be gone by
\* now: then it cannot be disabled, but the download starts all the same.
Answer(a) ==
  /\ asking # <<>>
  /\ LET d == asking[Len(asking)]
     IN  /\ asking' = SubSeq(asking, 1, Len(asking) - 1)
         /\ pref' = (pref \/ a = "cancel")
         /\ IF a = "yes"
            THEN enabled' = enabled \ {d} /\ thread' = [thread EXCEPT ![d] = "index"]
            ELSE UNCHANGED <<enabled, thread>>
  /\ UNCHANGED <<file, msg_map, exists, posted, list, fills, whole, clean>>

-----------------------------------------------------------------------------
(* The download thread of a dialog.                                        *)

\* A mutant: an exception leaves the dialog disabled.
Enable_OnSuccess(d) == IF thread[d] = "release" THEN exists \cap {d} ELSE {}

\* The RAIIHelper enables the dialog, on every way out, if it is still there.
Enable(d) == exists \cap {d}

Leave(d) ==
  /\ thread' = [thread EXCEPT ![d] = "off"]
  /\ enabled' = enabled \cup Enable(d)
  /\ UNCHANGED <<msg_map, pref, exists, asking, posted, list, fills>>

\* The index cannot be fetched, or the file not be requested or opened.
IndexFails(d) ==
  /\ thread[d] = "index"
  /\ Leave(d)
  /\ UNCHANGED <<file, whole, clean>>

\* The response begins and is written to the file itself, from its start.
OpenFile(d) ==
  /\ thread[d] = "index"
  /\ thread' = [thread EXCEPT ![d] = "body"]
  /\ file' = "bad"
  /\ whole' = {d}
  /\ clean' = (clean /\ file = "absent")
  /\ UNCHANGED <<msg_map, pref, exists, enabled, asking, posted, list, fills>>

\* The connection breaks, or the response was an error page: the exception
\* leaves what was written in place.
BodyFails(d) ==
  /\ thread[d] = "body"
  /\ Leave(d)
  /\ whole' = whole \ {d}
  /\ clean' = FALSE
  /\ UNCHANGED file

\* The response is complete; so is the file, if no other download has truncated
\* it meanwhile.  The message box "download complete" comes up.
BodyDone(d) ==
  /\ thread[d] = "body"
  /\ thread' = [thread EXCEPT ![d] = "box"]
  /\ file' = IF d \in whole THEN "good" ELSE file
  /\ whole' = whole \ {d}
  /\ UNCHANGED <<msg_map, pref, exists, enabled, asking, posted, list, fills, clean>>

\* The user closes the message box; the dialog, if there, is told to read.
Dismiss(d) ==
  /\ thread[d] = "box"
  /\ thread' = [thread EXCEPT ![d] = "release"]
  /\ posted' = IF d \in exists THEN [posted EXCEPT ![d] = @ + 1] ELSE posted
  /\ UNCHANGED <<file, msg_map, pref, exists, enabled, asking, list, fills, whole, clean>>

Release(d) ==
  /\ thread[d] = "release"
  /\ Leave(d)
  /\ UNCHANGED <<file, whole, clean>>

Download(d) ==
  \/ IndexFails(d) \/ OpenFile(d) \/ BodyFails(d) \/ BodyDone(d)
  \/ Dismiss(d) \/ Release(d)

-----------------------------------------------------------------------------
(* The messages of a dialog.                                               *)

\* Mutants: the table is emptied and read again for each dialog; the rest of a
\* file that the first lines came from is never read.
Reads_Anew == IF file = "good" THEN {Name} ELSE SUBSET Name
Reads_Short == IF msg_map # {} THEN {msg_map} ELSE SUBSET Name

\* What reading the file can put into the table: the first lines of it, as many
\* as getline and split make something of.  A file that a download has open may
\* also not open for reading.
Reads ==
  IF msg_map # {} THEN {msg_map}
  ELSE CASE file = "good" -> IF Writing = {} THEN {Name} ELSE {Name, {}}
         [] file = "bad" -> SUBSET Name
         [] file = "absent" -> {{}}

\* WM_USER+3: the table is read if it is empty, and goes to the combo box.  The
\* line that says the file could not be opened (ProcDialogs.cpp:141) goes there too
\* and is left out: it is no name, and IDOK answers it as an invalid message.
Load(d) ==
  /\ d \in exists /\ posted[d] > 0
  /\ posted' = [posted EXCEPT ![d] = @ - 1]
  /\ msg_map' \in Reads
  /\ list' = [list EXCEPT ![d] = @ \cup msg_map']
  /\ fills' = [fills EXCEPT ![d] = @ + 1]
  /\ UNCHANGED <<file, pref, exists, enabled, asking, thread, whole, clean>>

Gone(d) ==
  /\ exists' = exists \ {d}
  /\ enabled' = enabled \ {d}
  /\ posted' = [posted EXCEPT ![d] = 0]
  /\ UNCHANGED <<file, msg_map, pref, asking, list, fills, thread, whole, clean>>

\* IDCANCEL: the dialog is on the screen, and takes input.
Cancel(d) == d \in enabled /\ d \notin Asked /\ Gone(d)

\* The main window that owns the dialog is destroyed, and the dialog with it,
\* whatever it is doing.
OwnerCloses(d) == d \in exists /\ Gone(d)

-----------------------------------------------------------------------------

\* The process ends (also by a line of the file without a tab, which is read
\* beyond its end), its threads end with it, and another one is started.  Whether
\* it finds pref as it was is a matter of ConfigStore.
Restart ==
  /\ msg_map' = {}
  /\ pref' \in {pref, FALSE}
  /\ exists' = {}
  /\ enabled' = {}
  /\ asking' = <<>>
  /\ posted' = [d \in Dialog |-> 0]
  /\ list' = [d \in Dialog |-> {}]
  /\ fills' = [d \in Dialog |-> 0]
  /\ thread' = [d \in Dialog |-> "off"]
  /\ whole' = {}
  /\ clean' = (clean /\ file # "bad")
  /\ UNCHANGED file

Next ==
  \/ \E d \in Dialog :
       InitDialog(d) \/ Download(d) \/ Load(d) \/ Cancel(d) \/ OwnerCloses(d)
  \/ \E a \in {"yes", "no", "cancel"} : Answer(a)
  \/ Restart

Spec == Init /\ [][Next]_vars

\* A fetch comes to an end, well or not, and the user closes the message box;
\* the UI thread handles what is posted.
Fair(d) == WF_vars(Download(d)) /\ WF_vars(Load(d))
FairSpec == Spec /\ \A d \in Dialog : Fair(d)

-----------------------------------------------------------------------------
(* Properties.                                                             *)

TypeOK ==
  /\ file \in {"absent", "bad", "good"}
  /\ msg_map \subseteq Name
  /\ pref \in BOOLEAN
  /\ exists \subseteq Dialog
  /\ enabled \subseteq exists
  /\ asking \in Seq(Dialog)
  /\ posted \in [Dialog -> Nat]
  /\ list \in [Dialog -> SUBSET Name]
  /\ fills \in [Dialog -> Nat]
  /\ thread \in [Dialog -> Places]
  /\ whole \subseteq Dialog
  /\ clean \in BOOLEAN

\* Nobody but its own running download keeps a dialog disabled, however the
\* download ends and whatever other dialogs do meanwhile.
DisabledByDownload == \A d \in exists \ enabled : thread[d] # "off"

\* The names are added to a combo box at most once: by the dialog's own start
\* or by its download, never by both.
FilledOnce == \A d \in exists : fills[d] + posted[d] <= 1

\* A combo box offers the names of the table or none at all: a name the user can
\* pick is found when the message is sent, also after other dialogs were opened
\* and closed, and none of the table is missing, however incomplete the table is.
ListedNamesKnown == \A d \in exists : list[d] \in {{}, msg_map}

\* In a process that found no file or a good one, and as long as no download
\* failed or was overtaken by another reader or writer, every combo box that was
\* filled holds the complete list.
ListComplete == clean => \A d \in exists : fills[d] > 0 => list[d] = Name

\* What makes these inductive: who asks has no thread and no list yet, a thread
\* has written all it will write before it posts, at its very end, and in a clean
\* process the file is bad only while its one download writes it.
AskedOnce == \A i, j \in 1..Len(asking) : asking[i] = asking[j] => i = j

AskedIdle ==
  \A d \in Asked :
    thread[d] = "off" /\ (d \in exists => d \in enabled /\ fills[d] + posted[d] = 0)

NothingYet ==
  \A d \in exists : thread[d] \notin {"off", "release"} => fills[d] + posted[d] = 0

OneWay == whole \subseteq Writing /\ AskedOnce /\ AskedIdle /\ NothingYet

CleanFile ==
  clean =>
    /\ file = "bad" => Writing # {} /\ Writing = whole
    /\ file # "bad" => Writing = {}
    /\ \A d, e \in Writing : d = e
    /\ msg_map \in {{}, Name}
    /\ \A d \in exists : fills[d] > 0 => msg_map = Name
    /\ \A d \in Dialog : posted[d] > 0 \/ thread[d] = "box" => file = "good"

IndInv ==
  /\ TypeOK
  /\ DisabledByDownload
  /\ FilledOnce
  /\ ListedNamesKnown
  /\ ListComplete
  /\ OneWay
  /\ CleanFile

\* A dialog that its download disabled takes input again, or is closed.
ShortlyDisabled(d) == d \in exists \ enabled ~> d \notin exists \/ d \in enabled
DisabledForAWhile == \A d \in Dialog : ShortlyDisabled(d)
=============================================================================
