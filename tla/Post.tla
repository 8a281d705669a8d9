-------------------------------- MODULE Post --------------------------------
(***************************************************************************)
(* post.c and its callers: the chains of post plugins in front of the      *)
(* video and the audio output, the two windows that edit them, the         *)
(* deinterlacer, and the visualization that stands in for a missing video  *)
(* ("visual_anim": off, a post plugin, or a stream of its own).            *)
(*                                                                         *)
(* A post is a pair <<pool, n>>; xine-lib makes and disposes it.  Callbacks*)
(* of the GUI thread and the play functions of the listener are one step   *)
(* each: they share these data without a lock, which the README discusses. *)
(***************************************************************************)
EXTENDS Integers, Sequences, FiniteSets, SequencesExt

CONSTANTS
  MaxSlots,     \* MAX_USED_FILTERS - 1
  MaxDisplay,   \* MAX_DISPLAY_FILTERS
  MaxEdits,     \* bound: changes of the chains and plugins by the user
  MaxFilters    \* bound: filters given on the command line

ASSUME PostAssumption ==
  /\ MaxSlots \in Nat \ {0} /\ MaxDisplay \in Nat \ {0}
  /\ MaxEdits \in Nat /\ MaxFilters \in 0 .. MaxSlots

Kind == {"audio", "video"}
\* visual_anim.enabled
Off == 0
PostPlugin == 1
StreamAnim == 2
\* visual_anim.running
No == 0
Yes == 1
Hidden == 2
NoPost == <<"none", 0>>                         \* also "No filter"

VARIABLES
  phase,        \* "run"; the program's end: "closing", "closed", "forgotten", "done"
  open,         \* info->win, per kind
  slots,        \* win->post_objects
  first,        \* win->first_displayed
  elements,     \* info->elements
  enable,       \* post_video_enable, post_audio_enable
  deint,        \* deinterlace_elements
  deinterlace,  \* deinterlace_enable
  oldMethod,    \* XINE_PARAM_VO_DEINTERLACE
  visual,       \* visual_anim.post_output_element.post
  ignore,       \* ignore_visual_anim
  enabled, running,  \* of visual_anim
  anim,         \* visual_anim.stream plays
  ended,        \* its finished event is on the way
  wired,        \* the posts between the stream and each output port
  live,         \* posts that xine-lib keeps
  hasVideo, playing, \* of gui->stream
  shown,        \* the video window is visible
  edits

window == <<open, slots, first>>
chains == <<elements, enable>>
deints == <<deint, deinterlace, oldMethod>>
visuals == <<visual, ignore, enabled, running>>
animation == <<anim, ended>>
stream == <<hasVideo, playing>>
vars == <<phase, window, chains, deints, visuals, animation, wired, live, stream, shown,
          edits>>

-----------------------------------------------------------------------------
\* A post that xine-lib makes: the next of its pool.
Fresh(pool) ==
  <<pool, CHOOSE i \in 1 .. Cardinality(live) + 1 :
            <<pool, i>> \notin live /\ \A j \in 1 .. i - 1 : <<pool, j>> \in live>>

\* _pplugin_join_deinterlace_and_post_elements
JoinVideo(els, on, des, deOn) ==
  (IF deOn THEN des ELSE <<>>) \o (IF on THEN els ELSE <<>>)

\* _pplugin_join_visualization_and_post_elements
JoinAudio(els, on, ign, vis) ==
  (IF on THEN els ELSE <<>>) \o (IF ign THEN <<>> ELSE <<vis>>)

\* The stream's source goes straight to the port.
Unwired == <<>>

\* _vpplugin_rewire, _applugin_rewire: an empty chain leaves the wires alone.
Rewire(wires, chain) == IF chain = <<>> THEN wires ELSE chain

\* _pplugin_save_chain: all filters but a last "No filter".
SaveChain(k) ==
  IF ~open[k] THEN elements[k]
  ELSE IF Last(slots[k]) = NoPost THEN Front(slots[k]) ELSE slots[k]

\* _pplugin_unwire, _pplugin_rewire of a chain as saved, enabled or not
WireVideo(saved, on, des, deOn) ==
  wired' = [wired EXCEPT !["video"] = Rewire(Unwired, JoinVideo(saved, on, des, deOn))]
WireAudio(saved, on, ign, vis) ==
  wired' = [wired EXCEPT !["audio"] = Rewire(Unwired, JoinAudio(saved, on, ign, vis))]
Wire(k, saved, on) ==
  \/ k = "video" /\ WireVideo(saved, on, deint, deinterlace)
  \/ k = "audio" /\ WireAudio(saved, on, ignore, visual)

Running == phase = "run"
Edit == Running /\ edits < MaxEdits /\ edits' = edits + 1

Init ==
  /\ phase = "run"
  /\ open = [k \in Kind |-> FALSE] /\ slots = [k \in Kind |-> <<>>]
  /\ first = [k \in Kind |-> 0]
  /\ \E n \in [Kind -> 0 .. MaxFilters] :
       elements = [k \in Kind |-> [i \in 1 .. n[k] |-> <<k, i>>]]
  /\ \E on \in BOOLEAN : enable = [k \in Kind |-> on]      \* --disable-post
  /\ \E n \in 0 .. 1 : deint = [i \in 1 .. n |-> <<"deint", i>>]
  /\ deinterlace = FALSE /\ oldMethod = FALSE
  /\ visual \in {NoPost, <<"visual", 1>>}
  /\ ignore = TRUE /\ enabled \in Off .. StreamAnim /\ running = No
  /\ anim = FALSE /\ ended = FALSE
  /\ wired = [k \in Kind |-> IF enable[k] THEN elements[k] ELSE Unwired]
  /\ live = Range(elements["audio"]) \cup Range(elements["video"]) \cup Range(deint)
              \cup ({visual} \ {NoPost})
  /\ hasVideo = FALSE /\ playing = FALSE /\ shown \in BOOLEAN
  /\ edits = 0

-----------------------------------------------------------------------------
(* The window of a chain *)

\* pplugin_panel, _pplugin_rebuild_filters
Show(k) ==
  /\ Edit /\ ~open[k]
  /\ open' = [open EXCEPT ![k] = TRUE] /\ first' = [first EXCEPT ![k] = 0]
  /\ slots' = [slots EXCEPT ![k] = IF Len(elements[k]) < MaxSlots
                                    THEN Append(elements[k], NoPost)
                                    ELSE SubSeq(elements[k], 1, MaxSlots)]
  /\ UNCHANGED <<phase, chains, deints, visuals, animation, wired, live, stream, shown>>

\* _pplugin_exit: the chain is saved, the wires stay.
Exit(k) ==
  /\ elements' = [elements EXCEPT ![k] = SaveChain(k)]
  /\ open' = [open EXCEPT ![k] = FALSE] /\ slots' = [slots EXCEPT ![k] = <<>>]

Close(k) ==
  /\ Edit /\ open[k] /\ Exit(k)
  /\ UNCHANGED <<phase, first, enable, deints, visuals, animation, wired, live, stream,
                 shown>>

\* _pplugin_paint_widgets: the slots with widgets the user can reach.
Displayed(k) == {i \in DOMAIN slots[k] : i \in first[k] + 1 .. first[k] + MaxDisplay}

LastFirst(n) == IF n > MaxDisplay THEN n - MaxDisplay ELSE 0

\* _pplugin_list_step, _pplugin_nextprev
Scroll(k, f) ==
  /\ Running /\ open[k] /\ f # first[k] /\ f \in 0 .. LastFirst(Len(slots[k]))
  /\ first' = [first EXCEPT ![k] = f]
  /\ UNCHANGED <<phase, open, slots, chains, deints, visuals, animation, wired, live,
                 stream, shown, edits>>

\* An edit's end: save, rewire and repaint.
Edited(k, new) ==
  /\ slots' = [slots EXCEPT ![k] = new]
  /\ LET saved == IF Last(new) = NoPost THEN Front(new) ELSE new
     IN elements' = [elements EXCEPT ![k] = saved] /\ Wire(k, saved, enable[k])
  /\ UNCHANGED <<phase, open, enable, deints, visuals, animation, stream, shown>>

\* Mutant of SelectNone: the window stays where it was scrolled to.
SelectNoneStays(k, i) ==
  /\ Edit /\ open[k] /\ i \in Displayed(k)
  /\ live' = live \ Range(SubSeq(slots[k], i, Len(slots[k])))
  /\ Edited(k, Append(SubSeq(slots[k], 1, i - 1), NoPost))
  /\ UNCHANGED first

\* _pplugin_select_filter, "No filter": this one and all thereafter go.
SelectNone(k, i) ==
  /\ Edit /\ open[k] /\ i \in Displayed(k)
  /\ live' = live \ Range(SubSeq(slots[k], i, Len(slots[k])))
  /\ first' = [first EXCEPT ![k] =
                 IF i <= MaxDisplay THEN 0
                 ELSE IF i - @ < MaxDisplay THEN i - MaxDisplay ELSE @]
  /\ Edited(k, Append(SubSeq(slots[k], 1, i - 1), NoPost))

\* Mutant of SelectFilter: the plugin selected before is not disposed.
SelectFilterLeaks(k, i) ==
  /\ Edit /\ open[k] /\ i \in Displayed(k)
  /\ LET p == Fresh(k)
         set == [slots[k] EXCEPT ![i] = p]
     IN /\ live' = live \cup {p}
        /\ Edited(k, IF i = Len(set) /\ i < MaxSlots THEN Append(set, NoPost) ELSE set)
  /\ UNCHANGED first

\* _pplugin_select_filter, a plugin: a "No filter" is kept at the end.
SelectFilter(k, i) ==
  /\ Edit /\ open[k] /\ i \in Displayed(k)
  /\ LET p == Fresh(k)
         set == [slots[k] EXCEPT ![i] = p]
     IN /\ live' = (live \ {slots[k][i]}) \cup {p}
        /\ Edited(k, IF i = Len(set) /\ i < MaxSlots THEN Append(set, NoPost) ELSE set)
  /\ UNCHANGED first

Swap(s, i, j) == [s EXCEPT ![i] = s[j], ![j] = s[i]]

\* _pplugin_show_obj enables the buttons of a filter that has one above, one below.
MoveUp(k, i) ==
  /\ Edit /\ open[k] /\ i \in Displayed(k)
  /\ i > 1 /\ slots[k][i] # NoPost
  /\ Edited(k, Swap(slots[k], i, i - 1))
  /\ UNCHANGED <<first, live>>

MoveDown(k, i) ==
  /\ Edit /\ open[k] /\ i \in Displayed(k)
  /\ i < Len(slots[k]) /\ slots[k][i] # NoPost /\ slots[k][i + 1] # NoPost
  /\ Edited(k, Swap(slots[k], i, i + 1))
  /\ UNCHANGED <<first, live>>

(***************************************************************************)
(* The window's button (_pplugin_enability), or the key (gui_vpp_enable,   *)
(* gui_app_enable), which needs a filter.                                  *)
(***************************************************************************)
Enable(k) ==
  /\ Edit /\ (open[k] \/ elements[k] # <<>>)
  /\ enable' = [enable EXCEPT ![k] = ~@]
  /\ elements' = [elements EXCEPT ![k] = SaveChain(k)]
  /\ Wire(k, SaveChain(k), ~enable[k])
  /\ UNCHANGED <<phase, window, deints, visuals, animation, live, stream, shown>>

-----------------------------------------------------------------------------
(* The deinterlacer *)

\* gui_toggle_interlaced, post_deinterlace
ToggleInterlaced ==
  /\ Edit /\ deinterlace' = ~deinterlace
  /\ UNCHANGED <<phase, window, enable, deint, visuals, animation, live, stream, shown>>
  /\ \/ deint = <<>> /\ oldMethod' = deinterlace' /\ UNCHANGED <<elements, wired>>
     \/ /\ deint # <<>> /\ UNCHANGED oldMethod
        /\ elements' = [elements EXCEPT !["video"] = SaveChain("video")]
        /\ WireVideo(SaveChain("video"), enable["video"], deint, deinterlace')

\* post_deinterlace_plugin_cb: the setting names a plugin that exists, or none.
DeinterlacePlugin(exists) ==
  /\ Edit /\ deint' = IF exists THEN <<Fresh("deint")>> ELSE <<>>
  /\ live' = (live \ Range(deint)) \cup Range(deint')
  /\ UNCHANGED <<phase, window, enable, deinterlace, oldMethod, visuals, animation,
                 stream, shown>>
  /\ IF deinterlace
     THEN /\ elements' = [elements EXCEPT !["video"] = SaveChain("video")]
          /\ WireVideo(SaveChain("video"), enable["video"], deint', TRUE)
     ELSE UNCHANGED <<elements, wired>>

-----------------------------------------------------------------------------
(* The visualization *)

\* post_rewire_audio_port_to_stream (ign), post_rewire_audio_post_to_stream (~ign)
WireVisual(ign) ==
  /\ ignore' = ign /\ UNCHANGED enable
  /\ elements' = [elements EXCEPT !["audio"] = SaveChain("audio")]
  /\ WireAudio(SaveChain("audio"), enable["audio"], ign, visual)

KeepWires == UNCHANGED <<ignore, chains, wired>>

\* visual_anim_play, visual_anim_stop: do something for a stream only.
StreamPlays == anim' \in BOOLEAN /\ running' = Yes
StreamStops == anim' = FALSE /\ running' = No
AnimPlay == IF enabled = StreamAnim THEN StreamPlays ELSE UNCHANGED <<anim, running>>
AnimStop == IF enabled = StreamAnim THEN StreamStops ELSE UNCHANGED <<anim, running>>

Visualizes == enabled = PostPlugin /\ running = Yes

(***************************************************************************)
(* post_audio_plugin_cb, post_rewire_visual_anim: another plugin, which    *)
(* xine-lib may not be able to make.                                       *)
(***************************************************************************)
AudioPlugin(made) ==
  LET old == visual
      new == IF made THEN Fresh("visual") ELSE NoPost
      ign == IF made /\ Visualizes THEN FALSE ELSE IF old = NoPost THEN ignore ELSE TRUE
      saved == SaveChain("audio")
  IN /\ Edit
     /\ visual' = new /\ ignore' = ign
     /\ live' = (live \ {old}) \cup ({new} \ {NoPost})
     /\ IF old = NoPost /\ ign = ignore THEN UNCHANGED <<elements, wired>>
        ELSE /\ elements' = [elements EXCEPT !["audio"] = saved]
             /\ WireAudio(saved, enable["audio"], ign, new)
     /\ UNCHANGED <<phase, window, enable, deints, enabled, running, animation, stream,
                    shown>>

(***************************************************************************)
(* visual_anim_cb: what ran for the old setting ends, and what the new one *)
(* asks for starts unless the stream has video or "running" is set.        *)
(***************************************************************************)
VisualAnim(new) ==
  LET ends == running # No /\ (enabled = PostPlugin \/ enabled = StreamAnim)
      left == IF ends THEN No ELSE running
      free == ~hasVideo /\ left = No
  IN /\ Edit /\ new # enabled /\ enabled' = new /\ UNCHANGED visual
     /\ \/ /\ new = PostPlugin /\ free /\ visual # NoPost
           /\ WireVisual(FALSE) /\ running' = Yes /\ anim' = (anim /\ ~ends)
        \/ /\ new = StreamAnim /\ free
           /\ (IF ends THEN WireVisual(TRUE) ELSE KeepWires)
           /\ StreamPlays
        \/ /\ ~(free /\ (new = StreamAnim \/ (new = PostPlugin /\ visual # NoPost)))
           /\ (IF ends /\ enabled = PostPlugin THEN WireVisual(TRUE) ELSE KeepWires)
           /\ running' = left /\ anim' = (anim /\ ~ends)
     /\ UNCHANGED <<phase, window, deints, ended, live, stream, shown>>

-----------------------------------------------------------------------------
(* The stream, in the listener or any other thread until its queue is gone *)

Serving == phase \in {"run", "closing"}

\* gui_xine_open_and_play opens; playing may fail or wait for an answer.
Open(video) ==
  /\ Serving /\ hasVideo' = video /\ playing' = FALSE
  /\ UNCHANGED <<phase, window, chains, deints, visuals, animation, wired, live, shown,
                 edits>>

\* _gui_xine_play, before xine_play: the visualization steps back for a video.
StepBackIfShown == hasVideo /\ enabled = PostPlugin /\ running = Yes   \* mutant
StepBack == hasVideo /\ enabled = PostPlugin /\ running # No
StepIn == ~hasVideo /\ enabled = PostPlugin /\ running = No /\ visual # NoPost

Wires ==
  \/ StepBack /\ WireVisual(TRUE)
  \/ StepIn /\ WireVisual(FALSE)
  \/ ~StepBack /\ ~StepIn /\ KeepWires

StillRunning == IF StepBack THEN No ELSE IF StepIn THEN Yes ELSE running

\* _gui_xine_play, after xine_play: the animation, for an entry that is no logo.
Animate ==
  \/ hasVideo /\ running # No /\ enabled = StreamAnim /\ StreamStops
  \/ ~hasVideo /\ shown /\ StillRunning = No /\ enabled = StreamAnim /\ StreamPlays
  \/ ~hasVideo /\ ~shown /\ running' = Hidden /\ UNCHANGED anim
  \/ /\ IF hasVideo THEN ~(running # No /\ enabled = StreamAnim)
        ELSE shown /\ ~(StillRunning = No /\ enabled = StreamAnim)
     /\ running' = StillRunning /\ UNCHANGED anim

Play(how) ==
  /\ Serving /\ (how = "logo" => hasVideo)
  /\ Wires
  /\ \/ how = "entry" /\ Animate
     \/ how \in {"logo", "fails"} /\ running' = StillRunning /\ UNCHANGED anim
  /\ playing' = (how # "fails")
  /\ UNCHANGED <<phase, window, deints, visual, enabled, ended, live, hasVideo, shown,
                 edits>>

\* gui_stop, gui_close; gui_display_logo, which opens the logo next.
Stop ==
  /\ Serving /\ playing' = FALSE
  /\ IF running # No THEN AnimStop ELSE UNCHANGED <<anim, running>>
  /\ KeepWires
  /\ UNCHANGED <<phase, window, deints, visual, enabled, ended, live, hasVideo, shown,
                 edits>>

\* The animation's stream comes to its end: an event for the listener.
AnimEnds ==
  /\ anim /\ anim' = FALSE /\ ended' = TRUE
  /\ UNCHANGED <<phase, window, chains, deints, visuals, wired, live, stream, shown,
                 edits>>

\* event_listener, visual_anim_play_next
AnimNext ==
  /\ Serving /\ ended /\ ended' = FALSE
  /\ AnimPlay /\ KeepWires
  /\ UNCHANGED <<phase, window, deints, visual, enabled, live, stream, shown, edits>>

\* gui_toggle_visibility
ToggleVideo ==
  /\ Running /\ shown' = ~shown
  /\ \/ shown' /\ enabled # Off /\ running = Hidden /\ AnimPlay
     \/ shown' /\ ~(enabled # Off /\ running = Hidden) /\ UNCHANGED <<anim, running>>
     \/ /\ ~shown'
        /\ running' = IF running # No THEN Hidden ELSE No
        /\ anim' = (anim /\ ~(running # No /\ enabled = StreamAnim))
  /\ KeepWires
  /\ UNCHANGED <<phase, window, deints, visual, enabled, ended, live, stream, edits>>

-----------------------------------------------------------------------------
(* The program's end *)

\* gui_exit: the visualization is taken out of a stream that plays.
GuiExit ==
  /\ Running /\ phase' = "closing" /\ playing' = FALSE
  /\ IF playing /\ running # No
     THEN anim' = FALSE /\ wired' = [wired EXCEPT !["audio"] = Unwired]
     ELSE UNCHANGED <<anim, wired>>
  /\ UNCHANGED <<window, chains, deints, visuals, ended, live, hasVideo, shown, edits>>

\* gui_exit_2: the listener is gone, pplugin_end for both windows.
EndWindows ==
  /\ phase = "closing" /\ phase' = "closed"
  /\ open' = [k \in Kind |-> FALSE] /\ slots' = [k \in Kind |-> <<>>]
  /\ elements' = [k \in Kind |-> SaveChain(k)]
  /\ UNCHANGED <<first, enable, deints, visuals, animation, wired, live, stream, shown,
                 edits>>

DisposeVisual ==
  /\ phase = "closed" /\ phase' = "forgotten"
  /\ visual' = NoPost /\ live' = live \ {visual}
  /\ UNCHANGED <<window, chains, deints, ignore, enabled, running, animation, wired,
                 stream, shown, edits>>

\* post_deinit: "unwire post plugins before closing streams"
PostDeinit ==
  /\ phase = "forgotten" /\ phase' = "done"
  /\ wired' = [wired EXCEPT
                 !["video"] = IF enable["video"] \/ deinterlace THEN Unwired ELSE @,
                 !["audio"] = IF enable["audio"] THEN Unwired ELSE @]
  /\ live' = live \ ((UNION {Range(elements[k]) : k \in Kind}) \cup Range(deint))
  /\ elements' = [k \in Kind |-> <<>>] /\ deint' = <<>>
  /\ UNCHANGED <<window, enable, deinterlace, oldMethod, visuals, animation, stream,
                 shown, edits>>

-----------------------------------------------------------------------------
Filters(k) ==
  \/ Show(k) \/ Close(k) \/ Enable(k)
  \/ \E f \in 0 .. MaxSlots : Scroll(k, f)
  \/ \E i \in 1 .. MaxSlots :
       SelectNone(k, i) \/ SelectFilter(k, i) \/ MoveUp(k, i) \/ MoveDown(k, i)

Settings ==
  \/ ToggleInterlaced
  \/ \E b \in BOOLEAN : DeinterlacePlugin(b) \/ AudioPlugin(b)
  \/ \E e \in Off .. StreamAnim : VisualAnim(e)

Entries ==
  \/ \E video \in BOOLEAN : Open(video)
  \/ \E how \in {"entry", "logo", "fails"} : Play(how)
  \/ Stop \/ AnimEnds \/ AnimNext \/ ToggleVideo

Ending == GuiExit \/ EndWindows \/ DisposeVisual \/ PostDeinit

Next == (\E k \in Kind : Filters(k)) \/ Settings \/ Entries \/ Ending

Spec == Init /\ [][Next]_vars

-----------------------------------------------------------------------------
Pool == Kind \cup {"deint", "visual"}
Posts == Pool \X (Nat \ {0})

\* Filters with at most one "No filter", the last, and a slot of each in view.
SlotsOK(k) ==
  /\ \A i \in DOMAIN slots[k] : slots[k][i] = NoPost => i = Len(slots[k])
  /\ Len(slots[k]) \in (IF open[k] THEN 1 .. MaxSlots ELSE {0})
  /\ open[k] => first[k] \in 0 .. LastFirst(Len(slots[k]))

TypeOK ==
  /\ phase \in {"run", "closing", "closed", "forgotten", "done"}
  /\ open \in [Kind -> BOOLEAN] /\ first \in [Kind -> Nat]
  /\ \A k \in Kind : SlotsOK(k) /\ Range(slots[k]) \subseteq Posts \cup {NoPost}
  /\ enable \in [Kind -> BOOLEAN] /\ deinterlace \in BOOLEAN /\ oldMethod \in BOOLEAN
  /\ visual \in Posts \cup {NoPost} /\ ignore \in BOOLEAN
  /\ enabled \in Off .. StreamAnim /\ running \in No .. Hidden
  /\ anim \in BOOLEAN /\ ended \in BOOLEAN /\ live \subseteq Posts
  /\ hasVideo \in BOOLEAN /\ playing \in BOOLEAN /\ shown \in BOOLEAN
  /\ edits \in 0 .. MaxEdits

(***************************************************************************)
(* Every post xine-lib made is in exactly one place of the program, and    *)
(* every place holds a post that was not disposed: nothing leaks, nothing  *)
(* is used after it.  At the end all of them are gone.                     *)
(***************************************************************************)
Held == SaveChain("audio") \o SaveChain("video") \o deint
          \o (IF visual = NoPost THEN <<>> ELSE <<visual>>)

Owned ==
  /\ Range(Held) = live /\ IsInjective(Held)
  /\ \A k \in Kind : elements[k] = SaveChain(k)
  /\ phase = "done" => live = {}

(***************************************************************************)
(* The visualization is between the stream and the audio port only while   *)
(* it is asked for, and for a stream that shows no video; when it is said  *)
(* to run it is there; and the animation plays only when it is said to.    *)
(***************************************************************************)
VisualFits ==
  /\ ~ignore => /\ enabled = PostPlugin /\ running # No /\ visual \in live
                /\ playing => ~hasVideo
  /\ Visualizes /\ visual # NoPost => ~ignore
  /\ anim => enabled = StreamAnim /\ running # No

(***************************************************************************)
(* The posts between the stream and each output are those the user asked   *)
(* for, in the order of the window, whatever thread or setting wired them  *)
(* last; and none that was disposed, except a visualization at exit.       *)
(***************************************************************************)
Wired ==
  /\ phase = "run" =>
       /\ wired["video"] = JoinVideo(elements["video"], enable["video"], deint, deinterlace)
       /\ wired["audio"] = JoinAudio(elements["audio"], enable["audio"], ignore, visual)
       /\ VisualFits
  /\ \A k \in Kind : \A p \in Range(wired[k]) : p \in live \/ (p[1] = "visual" /\ visual = NoPost)
=============================================================================
