# xine-ui in TLA+

Specifications of the control logic of xine-ui, the X11 front end of the xine
media player: what plays next, who may change it at the same time, how seeking
and tooltips share state with other threads.  TLC checks small instances of
each specification; TLAPS proves theorems that hold for every instance.  Besides
playback: how the program ends while six threads work, how several instances
find and command each other, which widget has the keyboard, which windows are
on the screen, which plugins are between the stream and the output.

Paths below are relative to `src/xitk/` unless they start with `src/`.

- [The system](#the-system): components, state, interaction
- [The modules](#the-modules): what models what, and what is abstracted
- [The runs](#the-runs): what TLC checks, within which bounds
- [The theorems](#the-theorems): what is proved, and how
- [Where code and words part](#where-code-and-words-part): findings
- [Not modelled](#not-modelled)
- [The plan](#the-plan)

## The system

### Threads and locks

| thread | started by | what it does |
|---|---|---|
| GUI | `main()`, `xitk_run()` | handles X events and calls the actions, with the (recursive) xitk lock held |
| listener | xine-lib, `event_listener()` in `main.c` | handles the engine's events: end of stream, mrl references, progress |
| slider | `panel_init()`, `slider_loop()` in `panel.c` | twice a second: sliders, end of a timed entry |
| seek | `gui_set_current_position()`, `gui_seek_relative()` | detached; calls `xine_play()` until no request is left |
| tips | `xitk_tips_init()` | shows and hides the tooltip window |
| network, stdctl, lirc, session | options | remote controls; call the same actions as the GUI, without the xitk lock |
| video window | `video_window_init()` | events of a separate video display |

Locks: the xitk lock; `gui->mmk_mutex` (recursive, the playlist);
`gui->logo_mutex` (recursive, `gui_display_logo()`); `gui->seek_mutex`;
`gui->event_mutex` (recursive, the event gate); `tips->mutex` with two
conditions; `vwin->mutex`; the oxine instance's own.  `ignore_next`, `logo_mode`, `playlist.cur`
and `playlist.loop` are also read and written with none of these held.

### Components

**Playlist data** (`mediamark.c`).  State: `gui->playlist` (`mmk[]`, `max`,
`num`, `cur`, `ref_append`, `loop`) and `gui->mmk`, a copy of the current entry.
Operations: init, append, insert, move, remove, free, load a playlist file,
select the current entry, mark as played, draw a random entry.  Called by
every thread above; `mmk_mutex` makes a call atomic.  Hard: several functions
correct `cur` each in its own way; indices come from windows and remote
clients and may be out of date; slots beyond `num` may be uninitialised.
Correct when: `cur` is NONE or names an entry that is set; a move loses and
reorders nothing and keeps the current entry current; what is replaced is freed.

**Playback control** (`actions.c`, `event.c`, `main.c`, `panel.c`).  State: the
engine's stream, `logo_mode`, `ignore_next`, the stop control, the "Start
playback anyway ?" question.  Operations: play, stop, close, step, play an
entry, show the logo, start the next entry when one ends.  Hard: three threads
take part, the engine reports the end of a stream with an event that is
handled later, `ignore_next` is raised and cleared in a dozen places, locks are
taken in different orders, every entry may fail to open or to play.  Correct
when: a round plays no entry twice and keeps its order, something is always on the
screen, the end of the logo is not taken for the end of an entry,
`ignore_next` is released, threads do not wait for each other, calls return.

**Deferred seeking** (`actions.c`).  State: `seek_running`, `seek_pos`,
`seek_timestep`; shares `ignore_next`, `logo_mode` and the stream with playback.
Operations: seek to a position, seek by an offset, the seek thread.  Hard:
requests arrive while the thread works or is about to leave, the thread can
not be made or the stream turns out not to be seekable.  Correct when: one
thread owns `seek_running`, requests are served and none outlives its thread,
every seek ends, `ignore_next` is released.

**Tips** (`xine-toolkit/tips.c`).  State: the widget shown, the widget asked
for, the phase of the tips thread, the callers that wait.  Operations: show,
hide, delete; callers are pointer motion, widget updates and widget deletion.
Hard: the GUI thread waits for the tips thread with the xitk lock held, and
the tips thread needs that lock to map its window; a widget is freed as soon
as the call is back.  Correct when: a call returns, a caller that waited finds
no window, one window at a time, the thread can be ended, no freed widget is
read.

**Action dispatch and event gate** (`event.c`).  State: `event_reject`,
`event_pending`, `numeric`.  Actions from all threads are counted in and out;
`gui_deinit()` closes the gate and waits.  Correct when: no action is let in
after the gate is closed, and none is left inside.

**Start and shutdown** (`main.c`, `gui_run()`, `gui_exit()`, `gui_exit_2()`).
State: `gui->running`, `xitk->running`, `on_quit`, the threads and what they use.
Any thread may call `gui_exit()`; the GUI thread then takes everything down in a
fixed order.  Correct when: threads are joined before what they use is freed,
the menu is destroyed once and with nobody in it, the program ends.

**Oxine menus** (`oxine/`).  State: one instance, counted by its users.  Drawn on
the OSD; an action asks it first whether it takes the event.
**Oxine scheduler** (`oxine/utils.c`): a job list with a thread of its own, which
in this configuration of the sources nobody uses.

**Session sockets** (`session.c`, `session_common.c`).  One unix socket per
instance at `~/.xine/session.<n>`; a starting instance pings the numbers from 0,
takes the first nobody answers at and removes what a dead one left there; `-S`
sends commands to a session.  Hard: instances start, leave and crash at any
time, a ping has a timeout and a command has none, the acknowledge may find
nobody.  Correct when: two instances do not share a number, a live socket
stays, a command is carried out at most once and acknowledged only then.

**Widgets of a window** (`xine-toolkit/widget.c`, `xitk.c`).  State: the list's
pointers to the focused widget, the one under the mouse, the one that is held;
bits in each widget that say the same.  Hard: callbacks delete, disable and add
widgets in the middle of an event; the clipboard answers later.  Correct when:
pointers lead to widgets that are there, a disabled widget is not pressed, lit or
called back, no deleted widget is touched.

**Windows** (`xine-toolkit/xitk.c`, `backend_x11.c`, `panel.c`, `videowin.c`).
State: what the program believes of each window, twice, what the server and the
window manager made of it, what is under way.  Hard: requests are granted
later, events come back later and lead to new requests, two locks are taken in
both orders.  Correct when: the user always has a window left, and the echo of a
change dies out.

**Post plugins** (`post.c`, `actions.c`, `event.c`).  State: two chains and their
editors, the deinterlacer, the visualization ("off", a plugin, a stream of its
own), and what is wired in xine-lib.  Hard: a dozen handlers of two threads
rewire, each knowing its part; the visualization comes and goes with the video.
Correct when: what is wired is what is set, no plugin leaks or is used after it
was disposed.

**Remote controls** (`network.c`, `stdctl.c`, `lirc.c`): parsers in front of the
actions.  **OSD**, **key bindings**, **dialogs and browsers**, **snapshots**,
**downloads and skins**, **languages**: windows and tables over the parts above.
**aaui, dfb, fb** (`src/aaui`, `src/dfb`, `src/fb`): small separate front ends.
**xine-lib**, the X server and the window manager are external.

`PROJECT.json` lists each with what is modelled, and under `hazards` where in
the code each of the hard behaviours is found and which property looks at it.

### How they interact

```
 X events --> GUI thread --(actions)--> Playback --> Playlist data
 remote controls --(event gate)-------/    |  ^          ^
                                           v  |          | mrl references
                       Seek -----> xine-lib stream --> listener
                         \--- ignore_next, logo_mode ---/
 GUI thread, slider --(motion, update, delete)--> Tips --> xitk lock
 X events --> Widgets of a window --(callbacks)--> actions
 actions, an entry that starts --> Windows --> X server, window manager --(events)--> GUI thread
 actions, settings, an entry that starts --> Post --> xine-lib wires
 other instances --> Session sockets --(session thread)--> actions, past the gate
 gui_exit, gui_exit_2 --> all threads, in a fixed order
```

## The modules

| module | extends | models |
|---|---|---|
| `Mediamark` | | the pure part of `mediamark.c`: what each operation computes |
| `Playlist` | `Mediamark` | the playlist API; one step per call |
| `Playback` | `Mediamark` | playback control of three threads over the same data |
| `Seek` | | deferred seeking |
| `Tips` | | the tips thread and its callers |
| `Shutdown` | | start and end of the program, the event gate, the threads of the remote controls |
| `Session` | | several instances and their sockets, with crashes |
| `Requests` | | what a client of a session can rely on; `Session` implements it |
| `Widgets` | | input and changes of the widget list of one window |
| `Windows` | | main, vice and helper windows, the server and the window manager |
| `Post` | | post plugin chains, deinterlacer, visualization, wiring |
| `PlaylistProofs`, `PlaybackProofs`, `SeekProofs`, `TipsProofs`, `ShutdownProofs`, `SessionProofs`, `PostProofs` | the module named | theorems |
| `ToolkitProofs` | `Widgets`, `Windows` | theorems about both |
| `MCPlaylist`, `MCPlayback`, ... | the module named | values for TLC |

Definitions keep the names of the code in TLA+ spelling; `PROJECT.json` maps
each one to its lines.  An operator or action whose comment begins "Mutant of"
is a plausible bug in the definition after it; it is used by no specification
and serves to show that a property can fail.

### Mediamark and Playlist

An index is the C index, the array a sequence.  A mediamark is its mrl, its
alternates and its played flag; text, times and offsets steer nothing here.
`mediamark_copy()` is `CopyOver` and includes that the target keeps its own
alternates when the source has none.  `ShuffleNext` is the set of results of
the random draw, empty when the loop of the code would not end.

Each function of the API holds `mmk_mutex` from its first read to its last
write, so a call is one step and all threads together are one choice of the
next call.  `spare` is what the slots from `num` to `max` hold: NULL, never
written, or an entry that was dropped.  `live` counts allocated mediamarks.
The bounds `MaxEntries`, `MaxAlts` and `MaxLive` are guards.  The specification
stops at the first undefined behaviour (`fault`): freeing a slot that was never
written, or indexing past the end.

The indices a call can get go one beyond the array on either side.  `EjectEntry`,
`EjectDisc` and `EjectNone` are what `gui_eject()` does to the list when the drive
opens; which entries behind the current one stay is open, as the code compares
them with a string it has freed.  `Disc` is the one scheme an entry may have.

Left out: out of memory, file formats, directory scan, the mediamark editor.

### Playback

`th[t].pc` says what thread `t` does next; a step ends where another thread can
come in: at a call of the engine or a lock.  A function called at several
places is a group of actions with a return point in `th[t]`: `call` for who
called `gui_xine_open_and_play()`, `to` for `Halt` and `Window`, `base` for the
user's command.

| code | actions |
|---|---|
| `gui_xine_open_and_play`, `gui_xine_play`, `_gui_xine_play` | `Open` `OpenFailed` `Check` `Ask` `Play` `Flag` `Title` `PlayFailed` `Succeeded` |
| `gui_open_and_play_alternates` | `Rejected` |
| `gui_display_logo` | `LogoBegin` `LogoOpen` `LogoEnd` |
| `ignore_next = 1; xine_stop (); ignore_next = 0` | `StopBegin`, `LogoBegin` or `GuiPlay`, then `Halt` |
| `ignore_next = 1; xine_close (); ignore_next = 0` | `StopEnd`, then `Halt` on the way to `finish` |
| `gui_playlist_start_next`, `gui_playlist_play` | `NextEntry` `Advance` `Wrap` `Shuffle` `Draw` `List` `ListPlay` `NotPlayed` |
| `gui_play` | `PlayButton` `GuiPlay` `GuiPlay2` |
| `gui_stop`, `gui_close` | `StopButton` `CloseButton` `StopBegin` `StopEnd` |
| `gui_step_mrl` | `StepButton` `StepPlay` |
| playlist window | `DblClick` `Click`, `Delete` `RemoveEntry` `Removed`, `DeleteAll` `Cleared` |
| `event_listener`, `slider_loop` | `FinishedEvent`, `EndReached` |
| `_start_anyway_done` | `Answer` |
| `gui_msg` and the dialogs | `Window` |

The engine is external: an mrl opens or not (`Bad`), plays or not (`Dead`), needs
a codec that is missing (`Odd`) or is a configuration pseudo mrl (`Cfg`).
`StreamEnds` is the end of whatever plays.  `cur + 1` in `start_next` is a step
of its own because the code does it with no lock held.  `stopAfter` is the set of
the two bits of `playlist.control`; `StopAfterwards` is the action with and
without a number.  `DisplayLogo` is FALSE with `--no-logo`: then
`gui_display_logo()` opens nothing, the screen stays dark at the end of the list,
and `SomethingShows` claims nothing.

Left out: subtitle streams, chapters, `dload:/` and playlist mrls, pause, speed;
`--auto-play=q`, with which the end of the list, or an entry that does not play
when all have been played, calls `gui_exit()` instead of `gui_display_logo()`
(`event.c:1268`, `event.c:1295`, `event.c:1310`, `actions.c:769`).
The visual animation, which the same functions start and stop, is in `Post`;
eject in `Playlist`.

### Seek

`Ask` is the first critical section of both seek functions, `CreateThread` and
`CreateFails` what follows.  A pass of the thread's loop begins with one of
`Done`, `TakePosition`, `TakeOffset` (the critical section), then goes on with
`Go` or `Measure` and `Move`, each ending where the engine is called or a lock
is waited for.  `Leave` is separate from `Done`: the code clears `ignore_next`
after it has released `seek_mutex`.  The stop key (`Stop` to `LogoEnd`) is the
other user of `ignore_next` and of the stream, in the steps of `Playback`.  Left
out: the subtitle stream, displays, the error window.

### Tips

`Round` is one round of the thread's loop with the mutex held: the test for
calls, the phase, the wake-up of waiters.  The mutex is released while the
thread sleeps (`loop = "sleep"`) and while it maps its window (`"map"`), which
needs the xitk lock.  Sleeping on `in` always has a timeout, so a sleeping
thread may go on at any time; signals to it need no state.  Callers that sleep
on `out` are in `asleep`.  The GUI thread holds the xitk lock from `BeginEvent` to
`EndEvent`; `DeleteWidget` frees a widget when the call to hide is back.  Left
out: sizes and positions, an invisible parent window.

### Shutdown

A step ends where another thread can come in.  An object is `alive` until it is
freed and `set` while its pointer is not NULL; what a thread fetched (`holds`)
before the pointer is cleared may be used after the free (`bad`).

| code | actions |
|---|---|
| `gui_execute_action_id` | `Peek` `Enter`, `Body` `Work` for an action, `Quit` for ACTID_QUIT, `Leave` |
| `oxine_action_event` | `Get` `Menu` `MenuWindow` `Unget` |
| `gui_exit` | `Exit` `ExitWait` `ExitStop` |
| `event_listener`, session commands, `slider_loop` | `Serve`, `SliderLoop` |
| `stdctl.c`, `lirc.c` | `Test` `Select` `Paint` `Painting` `Poll` `Polling` |
| `gui_run`, `xitk_run` | `OxineInit` `Run` `GuiEvent` `EventEnd` `Signal` |
| `gui_exit_2`, end of `gui_run` | `Stopped` to `FreeGui`, one after the other |

`extra` counts how often ACTID_QUIT left the gate early, `asked` how often the
program was told to end, `crashed` is a menu destroyed without being there.
Left out: the actions themselves, `panel` and `vwin` as more than a pointer, the
other windows that end between the gate and the streams.

### Session and Requests

A process is launched and pings session 0, whatever session its option names
(`main.c:1610`): answered, it is a client of the option's session, else it becomes
one itself:
`Ping` / `Pong` / `TimeOut` / `Unreached` until no one answers at a number, then
`Unlink`, `Bind`, `Listen`.  A request is a connection: it is appended to the
backlog, `Accept`ed, `Execute`d, acknowledged (`Ack`).  A client that pings hangs
up after a second; one that sends a command waits.  `Leave`, `Close`,
`RemoveSocket` are an orderly end; `Crash` may come at any step and leaves the
path behind; `Ack` to a client that is gone may end the server (SIGPIPE).
`Script` is the order in which the `-S` options are sent, whatever order they
were written in.  `clash` remembers that two processes started or left at the
same time, or that a busy session was taken for a dead one.

`Requests` has four steps: `Ask`, `CarryOut`, `Answer`, `Break`.  `Session` maps
to it with the requests in backlogs and not yet executed as `open`, the executed
ones not acknowledged as `carried`.

Left out: user and directory of the path, protocol versions, the answers'
values, what a command does to the player; more than one `-S`; the ping
with which a client ends, and the mrls of its command line that it then sends, as
commands like the others (`main.c:1755`); `--enqueue` (`main.c:1582`).

### Widgets

An event is one step, as it is handled under the xitk lock; only a release is
split, in `ButtonUp` and `Ungrab`, because the list is used after the callback.
Callbacks are the `Application` steps (`Add` `Able` `SetPos` `SetFocus` `Delete`):
any number of them, between events and inside a release.  A `place` is an area no
two widgets share.  `shown` is the state as last painted, which
`_xitk_widget_able()` compares with.  `Hover` may be refused by the tips.

Left out: combo boxes, tabs, browsers and menus, focus redirection, hidden
widgets, the keys that edit text.

### Windows

`props` and `flags` are the two copies the program keeps of a window's state,
`mapped` is the server's truth, `managed` the window manager's, `asked` what it
has not done yet, `events` what the program has not read yet, `event` the one that
the GUI thread is handling.  `Request` is
`_xitk_x11_window_flags()`, `UpdateTree` is `xitk_window_update_tree()`.  A
thread's work is a list of steps in `todo`, one per stretch between two locks:

| code | steps |
|---|---|
| `_panel_toggle_visibility` | `toggle` `look`, then `hide`, `iconify` or `raise`, and `focus` `focused` |
| `gui_toggle_visibility`, `video_window_set_visibility` | `toggleVideo`, `showVideo` or `hideVideo`, `apply` |
| `_gui_xine_play` with the auto visibility options | `wantVideo` `wantNoVideo` `wantPanel` `wantNoPanel` `wantPanelToo` |
| `toggle_window` | `toggleHelper` |
| the event loop | `ReadEvent`, `HandleEvent`, `EventEnds` |

`WindowManager` and `TaskBar` are external: the manager does what it is asked in
order, maps first or sets WM_STATE first, and the user may click at a window in
the task bar.

With `Patient` a call or a click comes only when nothing is under way.  This is
an assumption about the user and the speed of the desktop, and the code needs
it: see [Where code and words part](#where-code-and-words-part).

### Post

| code | actions |
|---|---|
| `pplugin_panel`, `_pplugin_exit`, scrolling | `Show` `Close` `Scroll` |
| `_pplugin_select_filter`, `_pplugin_move_up`, `_down` | `SelectNone` `SelectFilter` `MoveUp` `MoveDown` |
| `_pplugin_enability`, `gui_vpp_enable`, `gui_app_enable` | `Enable` |
| `gui_toggle_interlaced`, `post_deinterlace_plugin_cb` | `ToggleInterlaced` `DeinterlacePlugin` |
| `post_audio_plugin_cb`, `visual_anim_cb` | `AudioPlugin` `VisualAnim` |
| `gui_xine_open_and_play`, `_gui_xine_play`, `gui_stop`, `gui_display_logo` | `Open` `Play` `Stop` |
| finished event of the animation | `AnimEnds` `AnimNext` |
| `gui_toggle_visibility` | `ToggleVideo` |
| `gui_exit`, `gui_exit_2` | `GuiExit` `EndWindows` `DisposeVisual` `PostDeinit` |

`wired` is what xine-lib was told: the posts between the stream and each output
port.  A post is a number of a pool; `live` are those xine-lib keeps.  A handler
is one step.  In the program callbacks of the GUI thread and the play functions
of the listener share these data without a lock, so that this is an assumption,
not a consequence: what a rewire inside another handler does is not modelled.
Left out: parameters, help, drawing; the options that hide windows when an entry
starts (they are in `Windows`); a plugin that cannot be made in an editor.

## The runs

`CHECK_DEADLOCK` is off in nearly all of them: the user may do nothing, and the
bounds on calls end a behaviour.  Where a thread could wait for ever, an invariant
(`NoDeadlock`) or a liveness property (`CallsEnd`, `SeekEnds`, `EveryWaitEnds`,
`ShutdownEnds`, `StartsEnd`, `ComesToRest`) says so instead.

| run | properties | bounds |
|---|---|---|
| `playlist` | `TypeOK` `CurInRange` `MoveContract` | 2 mrls, one with a scheme, 3 entries, chunk 2, 1 alternate, files of 2 entries |
| `playback_listener` | `SomethingShows` `InTurn` `CallsEnd` | listener only; lists of 1 to 4 entries, all loop modes |
| `playback_threads` | `NoDeadlock` `LogoOnItsWay` | 3 threads, one command, late events |
| `playback_commands` | `TypeOK` `IgnoreIsReleased` `StartsCurrent` | GUI thread, 3 commands of 8 kinds, 4 lists, all loop modes |
| `seek` | `TypeOK` `OneOwner` `NothingLeftOver` `IgnoreIsReleased` `SeekEnds` | 2 callers, 2 seek threads, 4 calls |
| `tips` | `TypeOK` `OneWindow` `WaitsUntilHidden` `EveryWaitEnds` | 3 widgets, GUI and slider thread, 4 calls |
| `shutdown` | `TypeOK` `NobodyLeftInside` `JoinedBeforeFreed` `OneExitIsSafe` `ShutdownEnds` | 6 threads, 2 calls, 3 kinds of actions, menu closed |
| `session` | `TypeOK` `Owned` `LowestFree` `StartsEnd` `ServesRequests` | 3 processes, one with `-S mrl=` to session 0 or 1, it and another may crash (`Crashing`) |
| `widgets` | `TypeOK` `PointersLive` `FreedUntouched` `DisabledInert` | 2 widgets, 3 pairs of kinds, 2 places, left button, wheel in one pair (`Wheeled`) |
| `windows` | `WinTypeOK` `Reachable` `ComesToRest` | main, vice, 1 helper, 2 threads, 4 calls, 1 click, root window or not, `Patient` |
| `windows_unreachable` | `Reachable` violated | the same windows, 2 panel toggles, not `Patient` |
| `post` | `TypeOK` `Owned` `Wired` | 3 slots, 2 displayed, 3 edits, up to 1 filter of each kind at start |

### What they show, and why the bounds are enough

*Playlist.*  Three entries are the fewest with an entry before, at and behind
the current one, and the fewest for which the shuffle draw is not a special
case; a chunk of 2 (32 in the code) makes the array grow within the bound and
leaves uninitialised slots.  `MoveContract` looks at every block and every
distance in every reachable array, not only at the single steps the window
makes.

*The listener alone.*  Each list begins with an entry that plays and goes on with
up to three that play, do not open, do not play or need a codec: every failure
is followed by every other, also at the end of the list.  `SomethingShows` and
`CallsEnd` rest on events being handled in time (`MayBeLate = FALSE`): the code
discards one older than three seconds, after which nothing starts the next
entry.  In this run nothing is removed, so that the shuffle draw always ends.
`InTurn` is about "no loop", "shuffle" and "shuffle+"; "loop" and "repeat" have no
rounds.

*Three threads.*  One command against the listener and the slider, with a failing
entry in the list, covers every pair of lock orders; errors are printed
(`StdCtl`), as error windows do deadlock.

*Commands.*  Three commands are enough for stop, step, double click in any order
with an answer in between; `StartsCurrent` needs a removal or a stop control set
before the step.

*Seek.*  Two seek threads at a time are what the hand-over in `Done`/`Leave` can
make; a third needs another call in between.  Two callers compete for the
creation of the thread while the other presses stop.

*Tips.*  Two widgets with tips are needed for "the next widget's tip", one without
for the call that only hides.

*Shutdown.*  Two calls are the least at which an action of one thread is under
way when another one ends the program; the calls of all six threads, signals
and window closes are drawn from the same two, against every step of
`gui_exit_2()`.  `GateHolds` counts: no more threads are inside than ACTID_QUIT
was executed, which is what the early count allows.  The end of the program
itself is not bounded by the calls.

*Session.*  Three processes are two sessions and a client, or a client that
becomes a session, or three starts with a crash among them; a fourth adds a
number, no new order.  `Crashing` is the one that talks to a session and one of the
other two, which are alike: a path is left behind while others start, a client goes
in the middle of a request, a session while it serves.  The log is a history, every
request is distinct.  The one command is enough to be lost, delayed or not
acknowledged; that several are carried out in
their order, each once, is the theorems' (`AtMostOnce`, `ToldTheTruth`).

*Widgets.*  Two widgets suffice for "the one that is held and the other"; the three
pairs put together what behaves differently under a drag: a button and a slider
that keeps the focus; an input field and a link (a label with a callback, which can
take the focus); a label and the position slider, which gives the focus up.  A
plain label is as the empty place.  `Wheeled` bounds the wheel to the last pair,
where it turns over either widget and while the slider is held; in all pairs it
takes three times the states.  The theorems have the wheel in any window.
There is no bound on the number of steps.

*Windows.*  One helper is enough as all are set to the same; a second thread is
what a starting entry needs; four calls bring back any of the states from which
a call may begin.

*Post.*  Three slots with two displayed are the least at which the window scrolls;
with a filter there at the start, three edits fill the chain and undo one step,
with entries, stops, the video
window's key and the end of the program in any number between.

### Fairness

- `Playback`: a thread in a call goes on when it can, the listener handles its
  events.  No fairness for the user, the end of a stream, or the slider.
- `Seek`: a caller that has to create the thread does, a caller in `gui_stop()`
  goes on, a seek thread goes on.  Nobody has to call, no stream has to end.
- `Tips`: the tips thread goes on (it never sleeps without a timeout), a call
  that can return does, the GUI thread ends an event it handles, and joins.
  No fairness for motions, events or widget updates.
- `Shutdown`: a thread in a call goes on, `select()` of the remote controls times
  out, the slider's timed wait ends, the end of the program goes on.  Nobody has
  to press a key or to end the program.
- `Session`: a process that starts or sends goes on, and the second of a ping
  passes.  Nothing is assumed of the sessions: they may hang for ever.
- `Windows`: no thread in a call, no request at the window manager and no event
  waits for ever.  Nothing is assumed of the user or of entries that start.

These are scheduling of runnable threads, engine calls that return, and
mutexes whose waiters get their turn; no assumption is made on the order.

### The refinement

`ServesRequests` is `Requests!Spec`, with what it promises, under the mapping in `Session`: every step of
pings, timeouts, hang-ups, crashes and sockets that are taken over is a step of
`Requests` or leaves its variables alone.  So at most once (`CarriedOutOnce`), and done
before acknowledged (`DoneWhenTold`), hold whatever the sessions do to each other's
paths; what does not hold, and `Requests` does not promise, is that a command arrives.

## The theorems

All hold for every value of the constants that satisfies the module's named
assumption.  Most are of the form `Spec => []P`; six are about steps: five action
properties and a refinement.  Some have a hypothesis, stated with the theorem, outside
of which TLC shows them false:

- `Alone` (the listener is the only thread): `SomethingIsShown`, `PlaysInTurn`;
- `Prompt` (no event is late): `SomethingIsShown`;
- `Ordinary` (no entry has the mrl of an alternate, no `cfg:/` entry is in a list that
  is shuffled): `PlaysInTurn`.  An alternate that has the mrl of its entry is opened as
  the entry a second time, and a `cfg:/` entry is never marked, so that of two entries
  the other one is drawn again;
- `GuiAlone` (the GUI thread is the only one): `StepsStartCurrent`;
- `Printed` (errors go to the terminal, no entry asks a question): `NoDeadlockPrinted`;
- `Patient` (a call begins when the last one is through): the two of `Windows`.

| theorem | says |
|---|---|
| `PlaylistProofs!TypeCorrect` | `TypeOK` |
| `PlaylistProofs!PlaylistSafe` | `CurInRange`: `cur` is NONE or names an entry that is set |
| `PlaylistProofs!MoveCorrect` | `MoveContract` in every reachable state: blocks stay whole, the rest keeps its order, the current entry stays current |
| `PlaybackProofs!TypeCorrect` | `TypeOK`, with an owner and a count for each mutex that is not free |
| `PlaybackProofs!LogoIsOnItsWay` | `LogoOnItsWay`: `logo_mode` is 2 exactly while a thread is in `gui_display_logo()` |
| `PlaybackProofs!IgnoreReleased` | `IgnoreIsReleased`: `ignore_next` does not outlive the calls that raise it |
| `PlaybackProofs!SomethingIsShown` | `SomethingShows`, for the listener alone (`Alone`) with events handled in time (`Prompt`) |
| `PlaybackProofs!OnlyWindowsWait` | `NoDeadlock`, or a thread waits for the xitk lock to open a window |
| `PlaybackProofs!NoDeadlockPrinted` | `NoDeadlock`, when errors are printed (`Printed`) |
| `PlaybackProofs!PlaysInTurn` | `InTurn`, an action property, for the listener alone and an ordinary list (`Ordinary`) |
| `PlaybackProofs!StepsStartCurrent` | `StartsCurrent`, an action property, for the GUI thread alone (`GuiAlone`) |
| `SeekProofs!TypeCorrect` | `TypeOK` |
| `SeekProofs!SeekIsOwned` | `OneOwner`: `seek_running` is set exactly while one thread owns it |
| `SeekProofs!NothingIsLeftOver` | `NothingLeftOver` |
| `SeekProofs!IgnoreReleased` | `IgnoreIsReleased`, for the seeks and the stops |
| `TipsProofs!TypeCorrect` | `TypeOK`, with `num_waiters` = number of callers that wait |
| `TipsProofs!OneWindowAtATime` | `OneWindow` |
| `TipsProofs!CallersSeeNoWindow` | `WaitsUntilHidden`, an action property |
| `ShutdownProofs!TypeCorrect` | `TypeOK`, with `event_pending` = threads in an action less those that executed ACTID_QUIT |
| `ShutdownProofs!NobodyIsLeftInside` | `NobodyLeftInside` |
| `ShutdownProofs!JoinedFirst` | `JoinedBeforeFreed` |
| `ShutdownProofs!OneExitSafe` | `OneExitIsSafe` |
| `SessionProofs!TypeCorrect` | `TypeOK`; among others, a number is left for each process that looks for one |
| `SessionProofs!SocketsOwned` | `Owned` |
| `SessionProofs!LowestIsTaken` | `LowestFree`, an action property |
| `SessionProofs!ServesThem` | `ServesRequests`: `Session` implements `Requests` and keeps its promises |
| `SessionProofs!AtMostOnce` | `CarriedOutOnce`: no command is carried out twice |
| `SessionProofs!ToldTheTruth` | `DoneWhenTold`: who reads an acknowledgement is told the truth |
| `ToolkitProofs!TypeCorrect` | `TypeOK` |
| `ToolkitProofs!PointersStayLive` | `PointersLive`: the pointers of the list and of the clipboard name widgets of the list |
| `ToolkitProofs!DisabledStayInert` | `DisabledInert`, an action property: a disabled widget gets no bit and no callback, and the keyboard only from the application or as a slider that is held |
| `ToolkitProofs!FreedStayUntouched` | `FreedUntouched`, an action property |
| `ToolkitProofs!WinTypeCorrect` | `WinTypeOK`, for patient users |
| `ToolkitProofs!AlwaysReachable` | `Reachable`: panel and video window are never both gone, for patient users |
| `PostProofs!TypeCorrect` | `TypeOK` |
| `PostProofs!PostsOwned` | `Owned`: no post leaks, none is used after it was disposed |
| `PostProofs!WiredAsAsked` | `Wired` |

Each proof module states its inductive invariant at the top, in named parts, and
has one lemma per action, or per part and action.

*Playlist.*  `TypeOK` and `CurInRange` are inductive together (`IInv`): what a
shuffle or a move makes of `cur` is an index only if `cur` was one.  The lemmas
say that inserting, removing, exchanging and ejecting give sequences of the right
length;
the rest is arithmetic on indices.  `MoveCorrect` needs no further invariant: the
clamped count and distance fit the array, and `MoveUp` and `MoveDown` compute the
exchange entry by entry.

*Playback.*  The types are not inductive: a removal keeps the list a list only if
its index is still one, an unlock keeps the count a number only if the thread has
the lock, a call goes on only where its caller expects it.  `Indexed` says that
the index of a click or a removal stays one (only the GUI thread, which handles
one event at a time, makes the list shorter); `ListHeld` and `LogoHeld` that who
gives a mutex back has it; `Doings` what a thread at each place knows of its
call.  `LogoHeld` ties the owner of `logo_mutex` to `logo_mode`: `Flag`, the one
write of `logo_mode` outside of `gui_display_logo()`, keeps the 2.  `IgnoreHeld`: while
`ignore_next` is raised some thread is between raising and clearing it, or in a
step; `FinishedEvent` raises nothing, and `EndReached` clears it for all of them.
A nested call (a `cfg:/` entry) keeps the mutexes of the outer one until `Finish`,
which is why a count other than 1 is possible for `mmk_mutex` and not for
`logo_mutex`.

`SomethingIsShown` adds `Showing` to `IInv`: when the listener is done, an entry plays
or its end is queued and `logo_mode` is 0, or the logo is open and `logo_mode` is not
0, or the user is asked.  At the other places of a call it says no more than the
end needs: at `flag` that the entry has started, at `title` and `succeeded` in a
list that `logo_mode` has been cleared too, at `logoEnd` that the logo is open.
`Alone` and `Prompt` are what the claim needs and the code does not give in general:
another thread can stop what the listener started, and a finished event older than three
seconds is dropped ([Where code and words part](#where-code-and-words-part)).

`OnlyWindowsWait` is the order of the locks.  Who owns a mutex is in a call (`Awake`),
and each place of a call waits for one mutex at most (`Places`).  The owner of
`logo_mutex` is in `gui_display_logo()`, where `logo_mode` is 2 (`LogoHeld`), so it does
not get to the branch that sets the title under `mmk_mutex`: `mmk_mutex` is asked for
before `logo_mutex` and never after it.  Then the owner of `logo_mutex`, if there is
one, or else that of `mmk_mutex`, can go on, unless it waits for the xitk lock; and
with errors printed and nothing to ask nobody on the way of an entry does.

`PlaysInTurn` needs what the played flags say at every place of `start_next`
(`Orderly`).  The list is `Sorted`: every entry has the alternates it was given, none of
them the mrl of an entry.  The place of the thread tells which of three things holds of
the current entry: it is `Upcoming` (not played, in "no loop" all before it are, none
from it on), `InHand` (those before it are played, none after it; itself once it has been
tried), or `Over`.  In a call the entry itself is tried first, and its mark is set before
the first alternate is; so what is opened under the entry's own mrl is not marked yet.

`StepsStartCurrent` follows what a call opens (`Chosen`): the mrl of `gui->mmk`, which is
that of the current entry (`Matching`), or an alternate, and the stream has that one or
none open.  All entries have the same alternates, and `gui->mmk` the same or, in an empty
list, none (`Alike`), because `mediamark_copy()` keeps old ones.  Three more things are
needed at the end of a call: a `cfg:/` step is the only one that gets to `start_next` with
`ignore_next` set (`Ignoring`), the index is not past the list between two calls (`Near`;
a step back from past it would end without playing anything), and the calls of the
play button and the dialog are no steps (`NoStart`).  A step out of the list leaves no
current entry; then no mrl is opened, which fails, and marking it is the fault of
[Where code and words part](#where-code-and-words-part).

*Seek.*  `NothingLeftOver` is inductive by itself: what clears `seek_running` clears
the request in the same critical section, and `Done` is only taken with no offset
left.  `OneOwner` is inductive given `TypeOK`: an owner appears only when
`seek_running` is 0, that is when there is none; `CreateThread` hands the
ownership over; `Done`, `GiveUp` and `CreateFails` end it and clear the flag at
once, and since the owner is alone nobody else is left owning a cleared flag.
`IgnoreReleased` needs `Watched`: a raised `ignore_next` has somebody in
`Releasers`, who is on the way to clear it.  Whoever clears it, clears it for all.

*Tips.*  `TypeOK` contains the counting: each step moves one caller into or out of
`Waiting` and the count by one, by the library's theorems on finite sets (the
set of other threads is assumed finite).  The window needs a strengthening,
`WindowInPhase`: the state the callers see is the thread's own phase, a window
exists only while it is being mapped or in the phases `wait` and `hide`, and no
caller waits in `show` or `hide`.  So a caller, which leaves `wait` only when the
state is another one, leaves it in a phase that has no window; and because a
waiting caller turns `wait` into `hide` and then into the next wish within one
round, it cannot see the next widget's window either.

*Shutdown.*  `GateWorks`: `event_pending` is the number of threads in an action less
the early exits, `event_reject` is set while the GUI thread is behind the gate,
and it sleeps there as long as the count is positive.  `MenuCounts`: the menu's
locks cover the threads in it and the instance, so the last one out is the one
that destroys it.  `InOrder` is the order in which `gui_exit_2()` joins and frees.
`Told` counts why the program ends; `OneExitIsSafe` is its last part, and the
others are what makes it inductive: the menu is gone, or the loop is left, only
because the program was told to end, and both only when it was told twice or one
is the consequence of the other.

*Session.*  `Life` is what a process at each place has: a session, a listening
socket, a connection.  `Bound`: a socket's path leads to the session of that number
or to a process that ended.  `Tried`: the numbers a process found taken are mapped
one to one to other processes, so that, with fewer processes than numbers, one is left
(`TypeCorrect`).  `Clean`: unless two processes started or left at a time, at most one
does, the number it is about to take is nobody's and those below are taken; this gives
`Owned` and `LowestFree`.  `Once` and `History` are for the refinement: a request is in
one backlog or served by one session, and each request a process has made is in
its past (an earlier step, an earlier number, an earlier command), so the next
one is new.  `ServesThem` then goes through the actions: each maps to one of
`Requests` or leaves what `Requests` sees alone (`Implements`).  `AtMostOnce` and `ToldTheTruth` are
invariants of `Requests` (the log holds only requests that were asked and not taken
back by `Break`, and an answer only follows `CarryOut`), and the refinement carries
them over to `Session`.

*Widgets.*  `TypeOK`, `PointersLive` and `FocusEnabled` (a widget with the focus bit is
enabled) are inductive together.  `Sound` and
`Kept` say what a handler may leave behind; setting the focus, a drag, a hover, an
able and the rest are each shown to do that, and the actions are compositions of
them.  For `DisabledInert` each handler is gone through once more: which widget it
makes the focused one (`Chosen`), which one it calls back (`Called`), and that a
disabled one it leaves has the bits it had or fewer (`Bare`).  Tab finds a first
widget because positions are natural numbers, whose order is well founded.

*Windows.*  `Reachable` is about what the server shows, and the code decides by its own
copies, so `IWin` says how far a copy may be from the truth.  `MainInv` and `ViceInv`
go through what may be under way of a window, a request the manager has not done
(`asked`) or an event not read (`events`, `event`), and tie the server's state and the
two copies to it.  A window is safe when it is mapped or in the task bar and no
request that takes it away is to come; one of the two always is (`WindowsInv`).
A step of a call acts on what an earlier step saw, so `CallInv` speaks of the steps
that are left in `todo`: the main window is changed only when nothing of it is under
way (`Stage`), the panel may be asked to be shown twice but then is not hidden again
(`ShownTwice`), and after the user iconified the main window the call is over
(`HiddenByUser`).  `OneCall` is what `Patient` gives: at most one thread is in a call.
Without it a call would act on a copy that another one is changing, which is how
`windows_unreachable` comes about.  The proof goes through what each function of the
backend adds to the queues, then through the steps of a call, and then through the
manager and the event loop.

*Post.*  `Settled` and `Chained` are the types, with the posts of a chain from the
chain's own pool, so that chains cannot share one; `Windows`: what a window shows
is its chain, with or without a "No filter" below; `Living`: the posts that live are
those of the chains, the deinterlacer and the visualization; `Wiring`: what is
wired is what a rewiring would wire.  `Wired` is not inductive, since whether
the visualization belongs to the stream depends on the stream, which changes
before it is rewired: `Fitting` says which settings go together at every step.

The one use of induction are least elements, by the well-foundedness of the
natural numbers.

### Only model-checked

- Liveness under fairness (`CallsEnd`, `SeekEnds`, `EveryWaitEnds`, `ShutdownEnds`,
  `StartsEnd`, `ComesToRest`) is out of the prover's reach.

## Where code and words part

**The panel is withdrawn instead of shown** (run `windows_unreachable`).
`_xitk_x11_window_flags()` asks the server whether a window is mapped and its own
copy whether it is iconified.  While `XIconifyWindow()` is under way both bits are
set; a request to show the window then differs in ICONIFIED only and falls
through to `XUnmapWindow()` (`xine-toolkit/backend_x11.c:1540`).  Two quick toggles
of the panel with the video window hidden leave nothing on the screen or in the
task bar, against `xine-toolkit/xitk.c:793` ("do not hide them both, it would make
us nearly unreachable for the user") and `videowin.c:1226`.

### Stated in a module, and not kept

Each module keeps the statement; `NoDeadlock` and `ComesToRest` hold within the
bounds of their runs and fail beyond, the others are under "Not kept by the code".
TLC shows the violation from the module's `.cfg` with the property in the place of the others and
these changes.

| property | what happens | to see it |
|---|---|---|
| `Playlist!NoneLost` | the loop that frees the old entries when a playlist file replaces the list uses the wrong index (`mediamark.c:3161`) | `playlist.cfg`, `MaxLive = 4` |
| `Playback!NoDeadlock` | the listener holds `mmk_mutex` while it plays an entry and needs the xitk lock for an error window; a double click holds the xitk lock and waits for `mmk_mutex` (`actions.c:597`) | `playback_threads.cfg`, `StdCtl = FALSE`, `Odd = {odd}` |
| `Playback!LogoIsFlagged` | `_gui_xine_play()` clears `logo_mode` after `xine_play()` is back; another thread may have started the logo meanwhile, whose end then starts the next entry (`actions.c:271`) | `playback_threads.cfg`, `Threads = {Gui, Listener}`, `MaxCommands = 3` |
| `Playback!NoFault` | a step back in loop mode on a list emptied by delete all sets the played flag of entry -1 (`actions.c:1426`) | `playback_commands.cfg` |
| `Seek!NotDropped` | `ignore_next` is cleared after `seek_running` was given back; a new seek thread sees it and gives up (`actions.c:1220`) | `seek.cfg`, `Caller = {gui}`, `Offsets = {}`, `MaxCalls = 3` |
| `Tips!NoFreedUse` | a call to hide is skipped when no tip is shown, also when one was asked for that the thread has not taken (`xine-toolkit/tips.c:322`) | `tips.cfg`, `Others = {}` |
| `Shutdown!ExitWaitsForNoXitkUser` | `oxine_exit()` waits with the xitk lock held for a menu user who waits for that lock (`oxine/oxine.c:933`) | `shutdown.cfg`, `MenuOpen = TRUE` |
| `Widgets!SliderUngrabbed` | a slider that loses the focus while it is held (Tab, a callback) stays marked as held after the release and ignores the position it is set to (`xine-toolkit/widget.c:604`) | `widgets.cfg` |
| `Windows!ComesToRest` | with `Patient = FALSE`: the listener holds `vwin->mutex` in `hide_video` and asks for the xitk lock, the GUI thread the other way round (`videowin.c:1224`); or a late MapNotify undoes what was asked since, and its echo the next, without end | `windows.cfg`, `Patient = FALSE` |

### Behaviour of the models that the reader may not expect

- Removing an entry before the current one leaves `cur` as it is: the next
  entry becomes current (`mediamark.c:3078`).
- `gui->mmk` keeps the alternates of an earlier entry when the new one has none
  (`mediamark.c:676`).
- The shuffle draw never ends when only the current entry is unplayed
  (`mediamark.c:3048`); a shuffled replacement indexes past the new list (`fault`,
  `mediamark.c:3167`).
- Eject compares the entries with the current mrl while it frees them, also the
  current one (`actions.c:908`), and searches NULL when none is current
  (`actions.c:900`).
- The listener may be past its test of `ignore_next` when the user presses stop
  (`event.c:1237`); the slider's end test and the finished event of the same
  entry may both advance (`panel.c:517`); `start_next` changes `cur` without the lock
  (`event.c:1261`).
- So with the GUI thread and the listener together neither `StartsCurrent` nor `InTurn`
  holds: TLC shows it from `playback_commands.cfg` with `Threads = {Gui, Listener}`.
- The answer to "Start playback anyway ?" plays what is open by then
  (`actions.c:357`).
- A new position equal to the last one the seek thread took is not sought again
  when an offset was served in between (`actions.c:1176`).
- A signal sent while the tips window is being mapped is lost; the tip stays until
  its timeout (`xine-toolkit/tips.c:191`).
- ACTID_QUIT is counted out of the gate twice (`event.c:660` and at its end), so the
  gate may open with a thread inside.  A quit before `xitk_run()` sets `running = 1`
  is forgotten (`xine-toolkit/xitk.c:1751`); a second `gui_exit()` destroys a menu
  that is not there any more (`oxine/oxine.c:936`).
- The stdctl thread still asks the stream for its position when it is disposed
  (`stdctl.c:150`); the session thread is never joined and its commands do not pass
  the gate (`session.c:469`).
- Sessions that start or leave at the same time remove each other's socket
  (`session.c:495`, `session.c:475`); one that is busy for a second is taken for dead
  (`session_common.c:196`), one that closed without an answer for alive
  (`session_common.c:201`); a command waits without timeout (`session_common.c:179`);
  a client that hung up ends the session by SIGPIPE (`session.c:58`).
- Tab during a drag leaves the focus bit on two widgets
  (`xine-toolkit/widget.c:396`).  A label that is pressed gets the bit without being
  the focused widget (`xine-toolkit/widget.c:397`), and a disabled input field or link
  that the application gives the keyboard is the focused widget without the bit, and
  acts on keys (`xine-toolkit/widget.c:765`): pointer and bits do not agree in general.
- With the root window as video window the panel's request to be iconified becomes
  an unmap (`panel.c:680`); helpers the user hid come back with the panel.
- A visualization that is set to a stream of its own while another kind runs is
  never wired again (`actions.c:330`, `actions.c:962`); its plugin is disposed
  wired at the end of the program, ahead of "unwire post plugins before closing
  streams" (`actions.c:697`); a late finished event restarts the animation
  (`main.c:878`).

### Met while reading, outside the models

- `gui_playlist_insert()` returns with the lock held when `realloc()` fails
  (`mediamark.c:2803`); the mediamark editor keeps the address of a slot of the array
  (`playlist.c:162`); a `cfg:/` entry recurses through `gui_playlist_start_next()`
  (`actions.c:468`).
- `on_start` waits until `logo_mode` is 1, for ever if the logo does not open
  (`event.c:1674`); the playlist is to be saved after it was freed (`event.c:1847`);
  `seek_mutex` is destroyed while a seek thread may run (`main.c:2125`).  The comment
  at `actions.c:691` relies on `gui->running` for a thread that was joined before.
- The bits sent for `-S` commands stop before CMD_EJECT (`session.c:729`); CMD_LOOP
  takes the number of modes for a mode (`session.c:383`).
- `widget_pressed` survives a move of the window (`xine-toolkit/xitk.c:1536`).
- `xine_post_init()` may fail and leave a NULL post in use (`post.c:1386`); a chain
  of more filters than the window has slots loses its tail (`post.c:1444`); an old
  deinterlacer keeps its parameter (`post.c:1997`); an animation that did not open
  is marked as running (`actions.c:2033`).  The listener rewires the chains that the
  GUI thread disposes, without a lock (`post.c:1342`, `post.c:250`).

## Not modelled

Each component that has no module is in `PROJECT.json` with its reason.

- *Windows and drawing*: dialogs, browsers, menus, skins, fonts, images, the
  drawing half of each widget and of the X11 backend, the OSD.  More than half of
  the code; it computes pixels in one thread, and its correctness is how they look.
- *Parsers and tables*: playlist and skin formats, configuration, the network
  server's command language, key bindings, languages, TV frequencies, downloads.
  They map text to calls of the actions; the calls are modelled where they arrive.
- *The scheduler of oxine*: no job is ever scheduled (`ENABLE_UPDATE_JOB` is not
  defined, the one other caller is under `#if 0`).
- *The separate front ends* `aaui`, `dfb`, `fb`, and xine-lib.

The specifications therefore cover few of the repository's lines and most of its
threads, locks, protocols and state that more than one handler changes.  Of the
components that are modelled, what is left out is listed with each module above.

## The plan

Done, the most important behaviour first: `Mediamark` and `Playlist`, the data all
else works on; `Playback`, what plays next; `Seek` and `Tips`, the two components
with threads of their own; `Shutdown` with the event gate, which all threads meet
at the end; `Session` with `Requests`, across processes; `Widgets`, `Windows` and
`Post`, where the callbacks of one window, the echoes of the window manager and a
dozen handlers have to agree.

If the models grow: `Playback` against an abstract player (an entry plays, the logo shows,
or the question is open), and the order of `EndReached` and `FinishedEvent` in two threads.
