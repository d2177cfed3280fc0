# WindowCustomizeToolV2 in TLA+

A verification project for the Window Customize Tool, a Win32 program that shows
and changes the windows of other programs. The sources are in
`src/Project/WindowCustomizeTool` (called *the program* below, paths are relative
to it), with the vendored libraries in `src/Project/lib`.

To check a module with TLC: `tlc -config X.cfg MCY.tla` (the table of runs below
says which configuration belongs to which module). To check the proofs: `tlapm
XProofs.tla`.

## 1. The system

| part | state | operations |
|---|---|---|
| process life cycle, `main.cpp` | `app::win` (all main windows ever made, dead ones included), `no_main_window`, the thread's WM_QUIT flag | `create_win`, `quit(soft)`, the tray menu, `wWinMain` |
| main window, `MainWindow*.cpp` | its own copy of each option, `target`, `target_old`, listeners on WM_SIZE | create, close, close for good, hide, minimize, options, operations on the target |
| IPC window, `IPCWindow.cpp` | the save timer | answers a launch or a tray click (`showOrCreateWindow`), saves |
| configuration, `main.cpp`, `lib/configuru.hpp` | `app::config`, the file `config.json` | `load_config`, `init_config`, `save_config`, the dialog of `handle_error` |
| launch, `main.cpp` | the set of running processes and their IPC windows | `FindWindow`, `SendMessageTimeout`, a process of its own |
| highlight frame, `winlib.cpp` | `g_lastRect`, `g_lastPen`, `g_lastColor`, `g_lastWidth`, and the inverted pixels on the screen | `HighlightWindow`, `RestoreScreenContent` |
| finder, `WindowLocator.cpp` | `isFinding`, mouse capture, two icon handles, `m_target` | `startFind`, `duringFind`, `endFind` |
| target operations, `MainWindow_MenuCommands.cpp`, `OverlayWindow.cpp` | whether the main window is disabled, the overlay | show, close, resize, destroy, end task ... |
| view, `MainWindow.cpp` | what is shown of the target, the options of the window, its place in the Z order | `update_target`, timer 4, the always-on-top box, the callbacks of the finder |
| style menus, `MainWindow_WinAdjust.cpp` | the style word between reading and writing it | toggle a style, set or clear the border |
| dialogs, `ProcDialogs.cpp` | `msg_map` and the file it is read from | SetWindowPos, SendMessage, download |
| editors, `WindowAlphaEditor`, `WindowChangeParent` | a window on a thread of its own | set transparency, set parent |

How the parts interact:

- All main windows, the tray and the IPC window of one process live on **one UI
  thread**; they call each other directly, send (at once) and post (later)
  messages, and share `app::win` and `app::config`.
- **Processes** of the tool meet in two places: the IPC window, which a launch
  looks for and sends WM_APP+WM_CREATE to, and the configuration file.
- **Detached threads** (Highlight, the overlays, the editors, the download) call
  `HighlightWindow` or own windows of their own; nothing joins or locks.
- The **user** and **other programs** act at any time: they close, move and
  destroy windows, take the mouse capture, edit the file, kill the process.

What is hard about it: messages that are sent overtake those that are posted, and
WM_QUIT comes after both; handlers that wait for a later message; dialogs with
loops of their own inside handlers; unlocked globals; a save that truncates the
file first; the five seconds of `SendMessageTimeout`; the gap between the first
window of a process and its IPC window.

What makes each part correct:

- *life cycle*: a process lives as long as it has a window (or stays in the tray
  when started so), the last window to close ends it, an ordered end comes;
- *hiding*: hidden means invisible, and restorable from the tray;
- *configuration*: no content is lost but by the user's decision, a reset
  recovers, a setting reaches the file;
- *launch*: one process serves all launches, each launch shows one window (two if it
  gave up waiting for an answer), and no launch hangs;
- *placement*: the next window opens where the last one closed, on the screen;
- *shared file*: no process saves its old copy over what another one saved;
- *frame*: at most one frame, none left when everyone is done;
- *finder*: the frame is on the target, a cancelled search keeps the old target,
  the icon says whether a search is on;
- *view*: what is shown is what the next click acts on, a box tells the truth after a
  click, a search leaves the main window at its place in the Z order;
- *style words*: a choice changes the flags it is about and undoes nobody else's, the
  transparency a user chose is that of the next window if the one that had it was
  closed and still layered;
- *target operations*: a main window is disabled by one thing at a time and enabled
  after it, an overlay moves its target only when the user moves the overlay;
- *message dialog*: no dialog stays disabled, a list is filled once, completely and
  with names the table knows, a number is sent as it was written if its type is read
  wide enough.

## 2. Modules

| module | models | EXTENDS / implements |
|---|---|---|
| `AppLifetime` | what a process promises about its life (abstract) | |
| `AppWindows` | one process: registry, windows, tray, queue, quit | implements `AppLifetime` |
| `Placement` | where the windows of a process are, and what is kept of it | EXTENDS and implements `AppWindows` |
| `ConfigStore` | configuration in memory and on disk, over runs and crashes | |
| `SingleInstance` | several launches and the processes they become | |
| `SharedConfig` | the same launches with the file they share | EXTENDS and implements `SingleInstance` |
| `Frame` | what `HighlightWindow` promises (abstract) | |
| `Highlight` | `HighlightWindow` step by step, with its callers | implements `Frame` when callers take turns |
| `Finder` | one search for a window and its result | uses the promise of `Frame` |
| `MainView` | a main window around its finder: what it shows, its order | EXTENDS and implements `Finder` |
| `StyleWords` | the style and border menus, the transparency editor, `last_alpha` | |
| `TargetOps` | the operations on a target, the disabling of main windows, the overlays and their threads | |
| `MessageDialog` | the SendMessage dialogs, the table of names, the file and its downloads | |
| `MessageNumber` | how the SendMessage dialog reads numbers (no state) | |
| `NaturalDescent` | nothing of the program: a law of temporal logic that proofs about liveness use | |
| `MC*` | TLC instances | EXTEND the module they instantiate |
| `*Proofs` | theorems and their proofs | EXTEND the module they are about |

### AppWindows

An action is one message handler, run to its end, since there is one UI thread.
`win` is `app::win`; it only grows, as in the code, and `alive` says for which
windows `IsWindow` holds. `show` and `hideListeners` are what `hideMainWindow`
works with: its WM_SIZE listener waits for SIZE_MINIMIZED, which Windows sends
only when a window goes from not minimized to minimized. `queue` is what is
posted and not dispatched, `quitPosted` the WM_QUIT flag.

`Post` stands for whatever posts: the tray, its menu, Ctrl+Shift+W, "close for
good", the system menu. `Dispatch` runs the handler of the first message.
`Launch` is a message *sent* by another process and therefore overtakes the
queue, also after WM_QUIT was posted. The `User...` actions are input, which the
loop does not look at once it has to quit. `Stop` is WM_QUIT and the rest of
`wWinMain`. `CreateWin` may fail, with the dialog of `handle_error` ending in "no
window"; `ConfigStore` has that dialog.

A choice in the tray menu is a message of its own: the menu's loop is not
modelled, except that the window list is a list of the time the menu was opened
(`CloseAllMessages(n)`).

### Placement

Each step of `AppWindows` with what it does to rectangles: the windows a step opens
(`Opened`) run the end of `onCreated`, those it closes through `onDestroy` (`Closed`)
save, in the order of the registry if there are several; what is open at the end of
the process is deleted without `onDestroy`. A place is one of four values, which is
what the conditions of the code tell apart: a coordinate of -1 counts as none
(`MainWindow.cpp:77`), and a minimized window has the rectangle of Windows' far
outside. `left` and `lost` are history.

### ConfigStore

The file is absent, garbled (does not parse: empty and half-written included) or
holds settings; settings are usable, or mistyped, that is, `create_win` throws on
them. `pc` is where the UI thread is; `load_config`, `init_config` and
`handle_error` call each other, and `resets` and `caller` are all that is left of
the call stack: a reset in the dialog of `load_config` calls `init_config` and
then retries, a reset in the dialog of `create_win` does the same for
`create_win`. A save is two steps (`BeginSave` truncates, `EndSave` writes), with
a crash or a failure in between. `TimerSave` also runs under the dialog of
`create_win` in the loop, since a modal dialog dispatches timers. `HideSave` is
the save in the listener of `hideMainWindow`. Two history variables, `known` and
`fixed`, record what the properties speak of.

### SingleInstance

`Find` is `FindWindow`; the message stays in the `inbox` of the process it was
sent to, also when the sender gives up (`NoAnswer`), and is handled later. A
process is in the place "loop" exactly while it has an IPC window. `busy` is a UI
thread that does not fetch messages: it waits for a foreign window
(`MainWindow_MenuCommands.cpp:238`) or for Notepad (`main.cpp:77`). Five seconds
are not counted: a launch gives up on a process that is busy or gone, and only
then. `overlap` (a launch began while another was on its way) and `unheard` (the launches that
gave up) are history: what makes more processes than one, and what makes a launch show
a second window.

### SharedConfig

`loaded` are the processes with a copy of the file in `app::config`, `knows` those
whose copy is the file's present content: a save by one empties it for the others
(`Knowing`), unless it changes nothing. What makes it interesting is the order of
destructors at the end of `wWinMain`: the IPC window goes first, the configuration is
saved by `configSaver` after that, and in between (`leaving`) a launch finds nobody
and loads a file that is about to be written (`early`). A save is one step here; that
it is two, with a crash between them, is in `ConfigStore`.

### Highlight and Frame

`pc[t]` is where thread `t` is in `HighlightWindow`; a step is one test of the
globals, one `Rectangle`, or one group of adjacent assignments. The screen is the
set of frames that were inverted an odd number of times; a frame is a rectangle
and whether it was drawn with the program's pen, since `g_lastPen` may be null
under a race. A rectangle torn between two threads, and a pen deleted under
another thread, only add to the outcomes shown. The width and colour are always
the same for drawing, which is why one Boolean, `g_lastStyle`, stands for both.
`Finders` are the threads with a finder: the UI thread, and that of each open parent
editor (`WindowChangeParent`). `Abandon` is a finder that is destroyed during a search
(Ctrl+W on the main window, Esc in the editor): nobody erases its frame, which
`abandoned` remembers until a next call does.

### Finder

The handlers of `WindowLocatorControl` with the callbacks `MainWindow` gives them.
Windows are those of others, the main window and a control of it; the latter two
matter because a search that ends on the main window (not on its control) is a
cancelled one. The icons are modelled as the code has them: handles that are
exchanged, not constants: `IconShown` says what comes of it, the loss of the filled icon
by a second press (`spoilt`, history) included. `HighlightWindow` is taken at its word (`Frame`), which
`Highlight` justifies for a caller that is alone.

### MainView

Each handler of `Finder` with the rest of the callback it runs: `onselectstart` puts
the main window to the bottom if the option says so, `onselectend` puts it back,
`update_target` fills the handle and the always-on-top box. The other callers of
`update_target` are `Refresh` (the button, F5, the menu) and `TimerRefresh`, which
leaves out a user who types. A click on the box turns it over before the handler
runs, hence `AfterClick(~cb_topmost)`; what the target does with the order is free.
The other fields and boxes are filled in the same handler in the same way, so one
stands for them. `touched` is history: somebody else changed the main window's
order.

### TargetOps

The UI thread is one action per command, except that "Close" and "EndTask" are
two: the call (`CloseTarget`, `EndTask`) and its return (`CloseReturns`), with the
UI thread standing still in between (`waiting`). The SetWindowPos dialog is modal
but has a loop of its own, so that other windows, overlays and the tray go on under
it. An overlay thread is followed call by call: `SetType` and `SetTarget` each set
the size and post a WM_SIZE (`sizes`) that is handled only later, in `HandleSize`.
`DoLayout` is `doLayout` for both types: a passive overlay goes back to its target,
a proactive one takes its target along. `postMenuEvent` dispatches at once
(`MainWindow.h:119-121`), so commands from the buttons are those of the menu. Where
a window is, its size included, is one value; `Zero` is the rectangle that
`GetWindowRect` leaves untouched when the target is gone. `moved` is history.

### StyleWords

The tool changes a flag by reading the whole word and writing it back. Who does so is
in one of the places of `at`, with a copy in `style`: the style menu reads before it
is shown and writes after the choice, in a loop (`Again`, `Choose`); the border menu
reads after the choice (`ChooseBorder`, `SetBorder`); the transparency editor tests
the word, reads it again and writes it with the flag, then sets the transparency
(`Thumb`, `ReadWord`, `AddLayered`, `SetAlpha`). In between the window's program, or
another user of the tool, changes what it likes (`Change`), which `others` remembers
for each copy. Main windows are among the targets: they are layered when they are
made, and `Close` saves their transparency for the next (`last_alpha`, read in the
handler of WM_APP+WM_CLOSE; `MainWindow.h:114`). How the last main window ended and what
its user had chosen last is history (`left`, `chosen`); `Inherited` says what the next
one gets for it. A thread for each editor, and a menu
for each process: within one, a menu's loop keeps the UI thread.

### MessageDialog and MessageNumber

`InitDialog` is WM_INITDIALOG up to the call of `TaskDialog`, `Answer` the rest of
it: `asking` is the stack of the calls, since the loop in `TaskDialog` may open a
second dialog inside the first one's question. A download is one action per call of
the detached thread; the response is written to the file itself (`OpenFile`
truncates it), so `file` is "bad" until `BodyDone`, and for good after `BodyFails`.
`Load` is WM_USER+3; what reading a bad file yields is any part of the names. The line
"(资源文件加载失败。)" that a file which does not open leaves in the combo box
(`ProcDialogs.cpp:141`) is left out: it is no name, and whoever picks it is told that
the message is invalid.
`clean` and `whole` are history: whether a download failed or was overtaken, and
whose output nobody has truncated.

In `MessageNumber` a text is its prefix and its characters: the digits 0 to 15, or
`Other`, one value for every character that is none. `Wcsto` is the C library's
conversion with its saturation, digit by digit, as the recursive function `Digits`;
`Written` is what it is compared with, the sum of the digits with their weights. Texts
have any length, the widths of the types are constants, and nothing changes: what is
known of it is proved (section 5), no run is about it.

## 3. Runs

| run | checks | bounds |
|---|---|---|
| `AppWindows` (`MCPlacement`) | the inductive invariant, the end of the process, the resident process, closing for good, both forms of `AppLifetime`, windows open where the last one closed | 2 windows, 2 posted messages, 1 listener by closing; launches unbounded |
| `AppWindows_hide` (`MCPlacement`) | *violated*: the tray's hide entry hides | same, 1 message |
| `AppWindows_place` (`MCPlacement`) | *violated*: windows open on the screen | same, 1 message |
| `ConfigStore` | the inductive invariant, `ResetRecovers`, no blind overwriting, settings reach the file | 3 usable settings, 1 mistyped, 2 failures, 3 runs |
| `ConfigStore_repair` | *violated*: no blind overwriting, without exception | 1 run, 1 failure |
| `Highlight` | the inductive invariant, `CleanWhenAlone`, `ImplementsFrame` | 2 finders, 1 flashing thread of 2 rounds, 2 rectangles (symmetric) |
| `Highlight_overlap` | *violated*: `CleanWhenQuiet` | 1 finder, 1 round |
| `SingleInstance` (`MCSharedConfig`) | the inductive invariant, one process but for those that gave up, one or two windows per launch, no lost update, launches end | 3 launches, 1 stall |
| `Finder` (`MCMainView`) | the inductive invariant, frame on target, the icon shown, target kept, order kept, the box truthful after a click, the view catches up | 2 other windows |
| `MessageDialog` | the inductive invariant, `FilledOnce`, `ListedNamesKnown`, `ListComplete`, no dialog disabled for ever | 3 dialogs, 2 names |
| `TargetOps` | the inductive invariant, `DisabledByOne`, setting up moves nothing, windows enabled again, "Locate" ends | 2 main windows, 2 overlays, 1 target, 2 positions |
| `StyleWords` | the inductive invariant, `SparesOthers`, `OpensAsLeft` | 1 main window, 1 other, 1 menu, 1 editor, 2 flags, 3 degrees of transparency |

A run of an extended module (`MCPlacement`, `MCSharedConfig`, `MCMainView`) also checks
the properties of the module it extends; that it implements that module is a theorem.

Why the bounds are enough. Every property of a passing run is also a theorem for
all bounds (section 5; those about liveness from fairness in a form of its own), so
TLC's instance only has to be large enough for each step to happen: two windows are needed for "the last" to differ from "a"
window, and two messages for one to wait behind the other; a second failure can
hit the save that follows a failed load, and a third run can find what a crash
left of the repair of another; 2 flashes have a first and a last, and two finders can
both be in a search that is cut off; three
launches are one that serves, one that is served and one that comes in between;
one stall is enough for a message to outlive its sender's patience; of three
dialogs one can read what a second's download is writing while a third one asks, and
two names make a list that is neither empty nor complete; two overlays on one target
push each other's target, two main windows are disabled at once, and a third of
either adds nobody new to disturb; a menu and an editor write the same word from two
copies, and the program of the window, which may do anything, is everybody else; one
of the two flags makes a window transparent and the other does not; the degrees are
none, some and full, so that what is kept, what is lost and what is put in its place are
three different things. Whether
a step that fairness is assumed of is possible depends on one dialog, overlay or launch
and the process it talks to, so that these instances have all cases of it.

Deadlock is checked for `Highlight`, `Finder`, `MessageDialog`, `TargetOps` and
`StyleWords`, which never stop. The other systems end: the process exits, the runs are used up, all
launches are done.

Fairness, and why the code justifies it:

- `AppWindows`: weak fairness of `Start`, `Dispatch` and `Stop`: `wWinMain` runs
  to the loop, and `GetMessage` keeps returning what is posted, then WM_QUIT. No
  fairness for the user or for launches: nobody has to click. `Placement` has the same.
- `ConfigStore`: the UI thread goes on inside `load_config`, `create_win` and a
  save, and the timer (`SetTimer` in `IPCWindow::onCreated`) fires. No fairness
  for dialogs, for the user, or for the end of the process.
- `SingleInstance`: a launch goes on in `wWinMain`, and what it sent is handled by a
  loop that is not stalled. Fairness is stated per launch, since a launch sends to one
  process and is answered by that one or not at all. That a launch goes on includes that
  the user answers the dialogs of `init_config` and `create_win` when the file or the
  window cannot be had (`CreateWindow`, `GiveUp`). That a stall ends is *not* assumed.
  `SharedConfig` adds the loading of the file to what a launch goes on with, the same
  dialogs included; nothing says when a process saves.
- `MainView`: timer 4, which `onCreated` sets, fires again and again and updates the
  view while `onTimer` lets it. Nothing is assumed of the user, the target or others.
- `MessageDialog`: a fetch ends, well or not, the user closes the message box that
  follows it, and the UI thread handles what is posted. Nobody has to answer the
  question or to close a dialog.
- `TargetOps`: an overlay's thread runs on, its timer fires (`SetTimer` in
  `closeAfter`), and the wait for a target returns: after five seconds in "Close",
  by the system's own limit in "EndTask". That the user ever closes the dialog or
  the overlay of "Resize" is *not* assumed, which is why `EnabledAgain` excepts them.
- `Highlight` and `StyleWords` have no fairness and no liveness property: when a user
  lets go of the mouse, chooses an entry or closes an editor is the user's affair.

## 4. What the violated runs show

- `AppWindows_hide` (`MainWindow.cpp:160-174`): hiding a window that is already
  minimized only adds a listener. The window stays visible, and the listener hides
  it the next time the user minimizes it, whatever the option says.
- `AppWindows_place` (`MainWindow.cpp:103-109`): the rectangle of a minimized window,
  a hidden one included, is at (-32000,-32000), and is saved; the next first window,
  most often that of the next process, opens there, out of sight. `OpensWhereLeft`
  holds when no window was closed so.
- `ConfigStore_repair` (`main.cpp:104-118`): the dialog of `create_win` offers to
  repair the file but retries with the settings in memory and saves those over the
  repair. Without that one path the property holds, and is proved
  (`NoBlindOverwriteUnlessFixed`).
- `Highlight_overlap` (`winlib.cpp:30-86`): the finder and a "Highlight" thread
  use the same globals without a lock and leave a frame on the screen.

More disagreements showed when the code was read. The models have them; no run is there
to be violated by them, but most are stated by a property or a theorem that says exactly
what the code does instead:

- `main.cpp:335`, `344`: the IPC window is created after the first main window, so a
  launch in between becomes a process of its own, though the comment at `main.cpp:242`
  wants a single one. `OneProcess` and `NoLostUpdate` except overlapping launches for
  this reason.
- `main.cpp:244`: a launch that gives up after five seconds leaves its message behind,
  and shows a second window when the busy process gets to it. `WindowsPerLaunch` says
  two for such a launch, and one for every other.
- `WindowLocator.cpp:89`, `111`: `startFind` and `endFind` exchange the two icons.
  Pressing the second mouse button during a search exchanges them once too often, and
  the filled icon is lost for good (`IconShown`).
- `MainWindow.cpp:110` means to "save the transparency" (保存透明度), but the handler of
  WM_APP+WM_CLOSE (`MainWindow.h:111-117`) reads it from the window: if another program,
  or the tool's own style menu, took the layered flag away, 0 is saved and the next main
  window cannot be seen; and a main window that is destroyed from outside saves the 255
  it was made with. `OpensAsLeft` says which of the three it is.
- `ProcDialogs.cpp:191`: WPARAM is read with `wcstoul`, so that a number above 32 bits is
  sent as 0xFFFFFFFF, while LPARAM beside it is read with `wcstoull`
  (`SentExactlyHolds`, `WParamCut`).
- `ProcDialogs.cpp:167`: 0x00 is refused as no hexadecimal number, though the comment
  below speaks of input that is not 0 (`ZeroRefusedHolds`).

## 5. Proofs

All theorems hold for every value of the constants that satisfies the modules'
ASSUMEs (bounds are naturals, the named windows, threads or contents differ).

- `AppWindowsProofs`. The inductive invariant adds two facts to the promise
  `NoProcessWithoutWindow`: every living window is registered (`AliveRegistered`),
  since otherwise `onDestroy`, which looks only at `app::win`, could stop the
  process under a window; and nothing has happened before the loop
  (`NothingBeforeLoop`). The proof classifies what a handler can do to the life of
  the process (`Stays`, `Opens`, `Closes`, `Leaves`), one lemma per handler; the
  theorems `NoProcessWithoutWindowHolds`, `QuitOnlyWithoutWindowsHolds`,
  `ResidentStaysHolds` and `Refinement` (the safety part of `AppLifetime`; for its
  liveness see below) follow from the classification alone. `PlaceImplements` shows that a step of
  `Placement` is one of `AppWindows` or a stutter, so all this holds there too;
  `PlaceInv` adds that, unless a window was closed while minimized, what the
  configuration has is where the last window was (`OnScreen`), from which
  `OpensWhereLeftHolds` follows.
- `ConfigStoreProofs`. The invariant ties the call stack to the file: a load that
  follows a reset finds no file (`ResetLoads`), hence cannot fail
  (`ResetRecovers`); a save under way has truncated the file and returns to one of
  four places (`SaveTruncates`); after a load the file is what the process last
  read or wrote (`FileKnown`). `NoBlindOverwriteUnlessFixedHolds` then needs only
  where saves begin.
- `HighlightProofs`. `Alone` says, for each place in the function, what the
  globals know of the screen as long as no two callers ever overlapped;
  `CleanWhenAloneHolds` and `ImplementsFrameHolds` follow. A search that is cut off
  (`AbandonIndInv`) leaves a frame that the globals know, hence the next call erases.
- `SingleInstanceProofs`. One launch at a time is on its way, beyond the search
  only when nobody listens or when it gave up (`OneAtATime`); a waiting message is that of
  a launch that waits or gave up, and a launch that can still show a window, by itself
  or through its message, has shown one less than it may (`MessageOfWaiting`): that is
  `WindowsPerLaunchHolds`, without any condition on how launches overlap. `SharedImplements` carries this
  over to `SharedConfig`; `SharedInv` adds who can have a copy to save (`Savers`) and
  that, as long as launches take turns (`TakingTurns`), there is one user of the file,
  and it knows it (`OneUser`). That is `NoLostUpdateHolds`.
- `FinderProofs`. What `startFind` saved is the target before the search
  (`SavedTarget`), and the two icon handles hold what they are named for until the filled
  icon is lost (`IconsKept`), which gives `IconShownHolds`. `ViewImplements` carries the theorems over to `MainView`; `ViewInv`
  adds that the handle shown is the target's (`TargetNamed`), which needs every handler
  that changes the target to update, and the window's own order (`OwnOrderKept`).
  `BoxTruthfulHolds` goes through the three outcomes of a click.
- `StyleWordsProofs`. A copy differs from the word by no more than what others changed
  since (`CopyIsCurrent`): every writer sees to the histories of the others
  (`OthersSee`), and a write whose window is gone changes nothing. Then each kind of
  write is an entry's flags and no more, which is `SparesOthersHolds`. A main window
  whose flag was left alone shows what was chosen last, and one whose flag was gone has
  no transparency (`ShowsChosen`); so what is saved is what the way it ended makes of
  that (`SavesLeft`), and the next window opens with it (`OpensAsLeftHolds`).
- `MessageDialogProofs`. A dialog is enabled or its thread runs: who still has to
  answer has no thread and nothing posted (`AskedIdle`, for which the stack holds
  each dialog once, `AskedOnce`), and a thread posts as its last act before the end
  (`NothingYet`), so that the list is filled by the start or by the download.
  `CleanFile` says, for processes in which no download went wrong, that the file is
  bad exactly while its only writer writes it; `ListCompleteHolds` follows.
- `TargetOpsProofs`. `DisabledByOne` is inductive together with two facts: open
  dialogs are those of open windows (`DialogOfOpen`), and only overlays of "Resize"
  can be closed (`Aimed`), so that `Release` enables the window that its own overlay
  disabled and no other. `OverTarget` (the overlay is where its target is unless
  somebody else moved that) gives `SetUpMovesNothingHolds`.

Numbers. `NumbersAsWrittenHold` (in `MessageDialogProofs`) says what IDOK makes of a text
of any length, in both bases and for every width of the types: the number written, cut
down to the greatest value of the type that is read. Hence a number is sent as it was
written exactly when that type holds it (`SentExactlyHolds`); with the 32 bits of
`unsigned long` on Windows the WPARAM 0x100000000 is not (`WParamCut`), and the zeros
refused are all but the single digit (`ZeroRefusedHolds`). Induction over the positions of a text is done
with the least element of a set (`SetInduction`, from the theorems on well-founded
relations); `RecursionExists` shows that a recursive function on an interval is one,
from which `ValueOf`, `WeightsOf` and `WrittenOf` follow; `Horner` says that the
conversion digit by digit yields the weighted sum as long as it stays below the limit,
and stays at the limit from then on, since a digit never makes a number smaller
(`ClampStep`).

Liveness. All eight liveness properties are theorems as well:

| theorem | fairness of | further hypothesis |
|---|---|---|
| `ViewCatchesUpHolds` | the timer (`TimerFires`) | |
| `DisabledForAWhileHolds` | each dialog's download (`Proceeds`) | |
| `EnabledAgainHolds`, `LocateEndsHolds` | each overlay's thread and timer, each wait (`Scheduled`) | |
| `SettingsReachFileHolds` | the UI thread and the timer of the configuration (`TimerFires`, `SaveGoesOn`) | `FailuresStop` |
| `LaunchEndsHolds` | each launch and the answer to it (`Proceeds`) | `StallsStop` |
| `ClosedForGoodHolds` | the message loop (`RunsOn`) | a descent |
| `ImplementsFairLifetimeHolds` | the message loop (`RunsOn`) | `PostsStop`, two descents |

*Fairness.* Weak fairness speaks of ENABLED, for which the prover has no rule. The
theorems therefore assume it with the guard of the step written out: again and again
the guard is false, or the step is taken. A lemma in each module (`FairProceeds`,
`FairRunsOn`, `FairComesBack`, `FairSaves`, `FairTimerFires`) says that weak fairness
implies this where the guard implies ENABLED, which is what is left to TLC: the runs
assume weak fairness and nothing else, so that in a state in which a step that the
argument needs were not possible, the system could stay, and TLC would report the
property violated.

*Argument.* A chain of places: in each the inductive invariant says which steps are
possible, every step of somebody else stays in the place or leads on, and the step that
is fair leads on; the last place is the goal.

*Descent.* Where the way has no fixed length, a rank takes the place of the chain. The
place of "close for good" in the queue becomes smaller with each `Dispatch`
(`AheadDescends`; what is posted joins behind it, and what is launched overtakes it but
leaves it where it is). On the way out, once nothing is posted from outside any more,
first the last "close all" comes nearer to the head (`MayGrowDescends`), since only it
makes the queue longer, then the queue becomes shorter (`ShortDescends`); an empty
queue lets WM_QUIT through (`QuitComes`). That a rank which becomes smaller comes to 0
is a law of temporal logic, `Descent` in the module `NaturalDescent`, true of every rank
and every goal, but its proof is an induction over temporal formulas, which the prover
cannot do: the theorems name the instance they use as a hypothesis. It excludes no
behaviour. `NothingAfterLoopHolds` adds to the invariant what the argument needs of a
process that has ended.

*What has to stop.* `FailuresStop`, `StallsStop` and `PostsStop` say that a save fails,
a UI thread stalls, or a click posts a message only so often. They are needed: if every
save of the configuration failed, no setting would reach the file; in the model, which
does not count the five seconds, a UI thread that stalls again and again would keep
both the answer and the end of the wait away; and whoever keeps choosing "close all" keeps
WM_QUIT waiting. They are assumptions about the file system, the windows of others and
the user. The bounds that keep the instances finite grant them in the runs; the program
contains nothing that does, so they stay hypotheses of the theorems.

*The abstract side.* `AppLifetime` states its liveness as two leads-to formulas
(`Begins`, `Ends`) and not as fairness of its actions: it promises that the process
begins and that a decided end comes, whatever opens and closes in between.

Only model-checked: that the fair steps are ENABLED where the argument needs them, and
with this the step from weak fairness to the fairness that the theorems assume.

## 6. Assumptions about the outside

w32oop is a submodule that is not in the repository; it and Windows are modelled
from how the program uses them:

- a sent message is handled whenever the loop looks for a message, before posted
  ones; WM_QUIT is a flag that is looked at after the posted messages, and input
  after that;
- `ShowWindow(SW_MINIMIZE)` on a window that is minimized sends no WM_SIZE with
  SIZE_MINIMIZED, and makes a hidden one visible (minimized);
- `preventDefault` does not keep later listeners of the same message from running
  (the program relies on it for WM_SIZE), and `removeEventListener` removes;
- `GetWindowRect` says (-32000,-32000) of a minimized window, hidden or not;
- of a window that is gone the style word reads as 0 and cannot be written, and it is
  never topmost; of one that is not layered the transparency can be neither read nor
  set, and a window whose flag is removed loses it;
- a message whose sender's `SendMessageTimeout` ran out is still delivered;
- `EnableWindow` and `PostMessage` on a window that is gone do nothing, and the
  windows a destroyed window owns are destroyed with it;
- the file of a download is truncated when its response begins, is written in order,
  and is left as it is when the download fails;
- a target is not smaller than the least size Windows lets a window with a sizing
  border have: over a smaller one the overlay of "Resize" would not fit, and enlarge
  the target;
- `fopen` with "wb" truncates at once, and nobody but the program and its Notepad
  writes the file.

## 7. Not modelled, and the plan

The order was: what loses a process, a window or the configuration first
(`AppWindows`, `ConfigStore`, `SingleInstance`), then what the user works with
(`Highlight`, `Finder`, `TargetOps`, `MessageDialog`), then what ties them together
(`Placement`, `SharedConfig`, `MainView`, `StyleWords`). What could still follow:

1. The parent editor beyond its finder: `SetParent` with the window that was found
   (`WindowChangeParent.cpp:30-36`). The editor has no counterpart to
   `MainWindow.cpp:206`, so its own window may be the new parent; it then closes and
   takes the target, now its child, along.
2. A click on the tray icon while the first window is being made (`main.cpp:258`,
   `333`, `344`), which uses the IPC window before it is there: a matter of memory on
   one path. `AppWindows` has the tray work from the start of the loop on.
3. An overlay that cannot be made (`MainWindow_MenuCommands.cpp:219`): the exception
   leaves a detached thread and ends the process. `TargetOps` lets the process end at
   any time, and nothing in the code promises otherwise.
4. `SingleInstance` with the two halves of a save of `ConfigStore`; the finder and its
   callers with the steps of `Highlight`, instead of the promise of `Frame`.

Nearly all lines of the repository are headers of phnt, phlib and configuru, vendored
and not part of the program's own logic; phnt alone is declarations without code. The
map therefore covers a small share of the repository, but nearly half of the program's
own lines; most of the others make controls and lay them out.

Left out for good: layout, formatting and painting (`doLayout`, `hwnd_strify`,
menus' check marks), the order and corner menus (a system call each), the view's other
fields, the "Why?" window of an overlay, the coordinates of a target's
parent, the "about" dialog, `DestroyRemoteWindow` (a straight sequence of system
calls from System Informer), the settings dialog (an empty window), phlib and phnt
(headers). A line of the downloaded file without a tab, which `ProcDialogs.cpp:137`
reads beyond its end, is a matter of memory and not of order; `MessageDialog` only
lets the process end there, as anywhere.
