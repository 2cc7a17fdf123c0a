---------------------------- MODULE GraphDisplay ----------------------------
(***************************************************************************)
(* The asynchronous preview of the darkroom: the main loop (gui/main.c)    *)
(* starts graph dispatches that write display images on the GPU while      *)
(* frames of one or two windows still read older ones.  gui/graph-display.c*)
(* keeps three image slots per display and stamps each with the value of   *)
(* the timeline semaphore the dispatch writing it will signal.             *)
(*                                                                         *)
(* There is one CPU thread; `pc` is its position in an iteration of the    *)
(* main loop.  The GPU finishes dispatches (in the order of their values,  *)
(* all go through one timeline semaphore) and frames (of one window in     *)
(* order) between any two steps.                                           *)
(* Slots are those of the "main" display: the code runs its logic on       *)
(* display_image[0] and the other displays follow.                         *)
(***************************************************************************)
EXTENDS Naturals, FiniteSets

CONSTANTS NSlots,   \* length of display_image[k]
          Frames,   \* DT_GUI_MAX_FRAMES_IN_FLIGHT
          MaxRuns,  \* bound of the graph dispatches
          Acts,     \* what the user and the window system do besides editing
          None      \* no slot

Slots == 0 .. NSlots - 1
Ring  == 0 .. Frames - 1
Wins  == {"win", "win1"}

ASSUME GraphDisplayAssumption ==
  /\ NSlots \in Nat \ {0}
  /\ Frames \in Nat \ {0}
  /\ MaxRuns \in Nat
  /\ Acts \subseteq {"download", "win1", "close", "resize", "lost", "leave"}
  /\ None \notin Slots

VARIABLES val,                \* per slot: timeline value stamped on the image
          timeline_display,   \* value of the image frames show
          timeline_process,   \* value of the last dispatch
          blank,              \* history: dispatches without an image, from the
                              \* one on display on
          timeline_value,     \* the same, on the graph
          semaphore_process,  \* value of the last dispatch that finished
          double_buffer,      \* command buffer the graph records into
          submitted,          \* history: per command buffer, its last dispatch
          runflags,           \* what the next run has to do
          broken,             \* no nodes yet, or an input is not connected
          shows,              \* the nodes have a display:main with an extent
          pc,                 \* main thread
          win1,               \* the second window is open
          frame_index,        \* per window
          display_in_use,     \* per window and frame: value it shows
          fence,              \* per window and frame
          shown               \* history: the slot a pending frame reads

slotVars  == <<val, timeline_display, timeline_process, blank>>
graphVars == <<timeline_value, double_buffer, submitted, runflags, broken, shows>>
winVars   == <<win1, frame_index, display_in_use, fence, shown>>
vars == <<slotVars, graphVars, semaphore_process, pc, winVars>>

\* s_graph_run_all; the other flags make no difference here, except that
\* s_graph_run_upload_source, like "download", makes the run synchronous
All == {"nodes", "record", "download"}

TypeOK ==
  /\ val \in [Slots -> Nat]
  /\ timeline_display \in Nat
  /\ timeline_process \in Nat
  /\ blank \subseteq Nat
  /\ timeline_value \in Nat
  /\ semaphore_process \in Nat
  /\ double_buffer \in {0, 1}
  /\ submitted \in [{0, 1} -> Nat]
  /\ runflags \subseteq All
  /\ broken \in BOOLEAN
  /\ shows \in BOOLEAN
  /\ pc \in {"events", "run", "acquire", "wait", "leaving", "display", "gui", "win",
             "asleep"}
  /\ win1 \in BOOLEAN
  /\ frame_index \in [Wins -> Ring]
  /\ display_in_use \in [Wins -> [Ring -> Nat]]
  /\ fence \in [Wins -> [Ring -> {"signaled", "pending", "reset"}]]
  /\ shown \in [Wins -> [Ring -> Slots \cup {None}]]

Init ==
  /\ val = [s \in Slots |-> 0]
  /\ timeline_display = 0
  /\ timeline_process = 0
  /\ blank = {}
  /\ timeline_value = 0
  /\ semaphore_process = 0
  /\ double_buffer = 0
  /\ submitted = [b \in {0, 1} |-> 0]
  /\ runflags = All
  /\ broken = TRUE
  /\ shows = FALSE
  /\ pc = "events"
  /\ win1 = FALSE
  /\ frame_index = [w \in Wins |-> 0]
  /\ display_in_use = [w \in Wins |-> [i \in Ring |-> 0]]
  /\ fence = [w \in Wins |-> [i \in Ring |-> "signaled"]]
  /\ shown = [w \in Wins |-> [i \in Ring |-> None]]
-----------------------------------------------------------------------------
(***************************************************************************)
(* The slots                                                               *)
(***************************************************************************)

InUse_Older(v) == \E w \in Wins, i \in Ring : display_in_use[w][i] >= v
\* mutant: an image older than any shown counts as shown

\* dt_gui_display_in_use: entries are overwritten by later frames only
InUse(v) == \E w \in Wins, i \in Ring : display_in_use[w][i] = v

Free_Shown(s) ==
  /\ val[s] <= semaphore_process
  /\ ~ (timeline_display > 0 /\ val[s] >= timeline_display)
\* mutant: nobody asks the windows which images their frames still read

\* A slot a new dispatch may write: it is not being written, nobody will
\* want to show it, and no frame shows it.
Free(s) ==
  /\ val[s] <= semaphore_process
  /\ ~ (timeline_display > 0 /\ val[s] >= timeline_display)
  /\ ~ (val[s] > 0 /\ InUse(val[s]))

FreeSlots == {s \in Slots : Free(s)}

HaveFree_Always == timeline_process < semaphore_process + 2
\* mutant: the slots are not looked at

\* dt_graph_display_have_free_process
HaveFree ==
  /\ FreeSlots # {}
  /\ timeline_process < semaphore_process + 2

\* dt_graph_display_get_dset: the image with the value on display
Current ==
  IF \E s \in Slots : val[s] > 0 /\ val[s] = timeline_display
  THEN CHOOSE s \in Slots : val[s] > 0 /\ val[s] = timeline_display
  ELSE None
-----------------------------------------------------------------------------
(***************************************************************************)
(* Events: what input handlers do before dt_view_process                   *)
(***************************************************************************)

\* Sliders and keyframes ask for a new command buffer, some assigning the
\* flags and some adding to them; an animation that waits for its next frame
\* clears them; changes of the graph ask for everything; a button asks for
\* the outputs to be downloaded.
Request ==
  /\ pc = "events"
  /\ timeline_process < MaxRuns
  /\ \/ runflags' = All
     \/ runflags' = {"record"}
     \/ runflags' = {}
     \/ runflags' = runflags \cup {"record"}
     \/ /\ "download" \in Acts
        /\ runflags' = runflags \cup {"download"}
  /\ UNCHANGED <<slotVars, timeline_value, double_buffer, submitted, broken, shows,
                 semaphore_process, pc, winVars>>

Idle == \A w \in Wins, i \in Ring : fence[w][i] # "pending"

\* A window's objects are made anew once the graphics queue is idle.
FreshFrames(w) ==
  /\ Idle
  /\ frame_index' = [frame_index EXCEPT ![w] = 0]
  /\ fence' = [fence EXCEPT ![w] = [i \in Ring |-> "signaled"]]

\* framebuffer_size_callback and, after a failed present, dt_gui_win_render
Resize(w) ==
  /\ "resize" \in Acts
  /\ pc = "events"
  /\ w = "win" \/ win1
  /\ FreshFrames(w)
  /\ UNCHANGED <<slotVars, graphVars, semaphore_process, pc, win1,
                 display_in_use, shown>>

\* darkroom_leave: dt_graph_display_write_thumbnail reads the current image
\* with the graph's command buffer and waits for it.
Leave ==
  /\ "leave" \in Acts
  /\ pc = "events"
  /\ timeline_process < MaxRuns
  /\ pc' = "leaving"
  /\ UNCHANGED <<slotVars, graphVars, semaphore_process, winVars>>

\* dt_graph_repurpose removes all nodes, then darkroom_enter for the next
\* image; the images on display stay.
Reenter ==
  /\ pc = "leaving"
  /\ semaphore_process >= timeline_value
  /\ double_buffer' = 0
  /\ broken' = TRUE
  /\ runflags' = All
  /\ pc' = "events"
  /\ UNCHANGED <<slotVars, timeline_value, submitted, shows, semaphore_process,
                 winVars>>
-----------------------------------------------------------------------------
(***************************************************************************)
(* darkroom_process and dt_graph_run                                       *)
(***************************************************************************)
Flip_Never(b) == b
\* mutant: the double buffer is never switched

Flip(b) == 1 - b

\* Run if there is something to do and the previous runs left room for it.
Process ==
  /\ pc = "events"
  /\ \/ /\ runflags # {} /\ HaveFree
        /\ double_buffer' = Flip(double_buffer)
        /\ pc' = "run"
     \/ /\ ~ (runflags # {} /\ HaveFree)
        /\ pc' = "display"
        /\ UNCHANGED double_buffer
  /\ UNCHANGED <<slotVars, timeline_value, submitted, runflags, broken, shows,
                 semaphore_process, winVars>>

\* Replacing the nodes waits for every dispatch, any other run for all but
\* the last one.
Waited ==
  /\ semaphore_process + 1 >= timeline_value
  /\ "nodes" \in runflags => semaphore_process >= timeline_value

\* The graph is found unusable (no nodes, no size, a kernel that is not
\* connected), or no commands were asked for: nothing is submitted.
\* clear_runflags follows in either case.  (Replacing the nodes usually
\* waits before that is found, which is left out.)
RunNothing ==
  /\ pc = "run"
  /\ semaphore_process + 1 >= timeline_value
  /\ \/ /\ "nodes" \in runflags
        /\ broken' = TRUE
     \/ /\ "nodes" \notin runflags
        /\ broken \/ "record" \notin runflags
        /\ UNCHANGED broken
  /\ runflags' = {}
  /\ pc' = "display"
  /\ UNCHANGED <<slotVars, timeline_value, double_buffer, submitted, shows,
                 semaphore_process, winVars>>

\* vkBeginCommandBuffer and the recording of the nodes.  New nodes need not
\* have a display:main (the user is told, clear_runflags), or it has no
\* extent.
Record ==
  /\ pc = "run"
  /\ Waited
  /\ "record" \in runflags
  /\ \/ "nodes" \in runflags /\ broken' = FALSE /\ shows' \in BOOLEAN
     \/ "nodes" \notin runflags /\ ~ broken /\ UNCHANGED <<broken, shows>>
  /\ pc' = "acquire"
  /\ UNCHANGED <<slotVars, timeline_value, double_buffer, submitted, runflags,
                 semaphore_process, winVars>>

Stamp_CleanShown(slot) ==
  [s \in Slots |->
     IF s = slot THEN IF shows THEN timeline_process + 1 ELSE val[s]
     ELSE IF val[s] <= semaphore_process THEN 0 ELSE val[s]]
\* mutant: finished images are destroyed although a frame shows them

\* Every free slot but the chosen one is destroyed.  The chosen one gets the
\* new value where the display:main node is copied to it, if there is one
\* with an extent; without, it stays as it is.
Stamp(slot) ==
  [s \in Slots |->
     IF s = slot THEN IF shows THEN timeline_process + 1 ELSE val[s]
     ELSE IF Free(s) THEN 0 ELSE val[s]]

Synchronous_Never == FALSE
\* mutant: a run that uploads its source does not wait for it

\* "if synchronous upload/download is required, we can't interleave frames"
Synchronous == runflags # {"record"}

\* dt_graph_display_acquire_for_processing picks the first free slot and
\* counts timeline_process up, with or without an image; then the commands
\* are submitted.
Acquire ==
  /\ pc = "acquire"
  /\ \E slot \in FreeSlots :
       /\ \A s \in FreeSlots : slot <= s
       /\ val' = Stamp(slot)
  /\ timeline_process' = timeline_process + 1
  /\ blank' = IF shows THEN blank ELSE blank \cup {timeline_process + 1}
  /\ timeline_value' = timeline_process + 1
  /\ submitted' = [submitted EXCEPT ![double_buffer] = timeline_process + 1]
  /\ runflags' = {}
  /\ \/ pc' = "wait"
     \/ ~ Synchronous /\ pc' = "display"
  /\ UNCHANGED <<timeline_display, double_buffer, broken, shows,
                 semaphore_process, winVars>>

\* s_graph_run_wait_done: for uploads and downloads, whether the run or a
\* module asks for them
WaitDone ==
  /\ pc = "wait"
  /\ semaphore_process >= timeline_value
  /\ pc' = "display"
  /\ UNCHANGED <<slotVars, graphVars, semaphore_process, winVars>>
-----------------------------------------------------------------------------
(***************************************************************************)
(* dt_gui_render                                                           *)
(***************************************************************************)
Newer_Old(v) == v > timeline_display + 1
\* mutant: the latest result is not picked up

Newer(v) == v > timeline_display

\* dt_graph_display_acquire_for_display: never waits
AcquireForDisplay ==
  /\ pc = "display"
  /\ timeline_display' = IF Newer(semaphore_process)
                         THEN semaphore_process ELSE timeline_display
  /\ blank' = {v \in blank : v >= timeline_display'}
  /\ pc' = "gui"
  /\ UNCHANGED <<val, timeline_process, graphVars, semaphore_process, winVars>>

\* A button drawn by dt_gui_render_frame_nk; neither touches display_in_use.
OpenWin1 ==
  /\ "win1" \in Acts
  /\ pc = "gui" /\ ~ win1
  /\ FreshFrames("win1")
  /\ win1' = TRUE
  /\ UNCHANGED <<slotVars, graphVars, semaphore_process, pc, display_in_use,
                 shown>>

CloseWin1 ==
  /\ "close" \in Acts
  /\ pc = "gui" /\ win1
  /\ FreshFrames("win1")
  /\ win1' = FALSE
  /\ UNCHANGED <<slotVars, graphVars, semaphore_process, pc, display_in_use,
                 shown>>

After(i) == (i + 1) % Frames

\* dt_gui_win_render: note the value shown, wait for the frame that used
\* the same objects, submit.  If the swap chain image cannot be acquired,
\* it returns with the fence reset.
RenderFrame(w) ==
  LET i == frame_index[w] IN
  /\ fence[w][i] = "signaled"
  /\ display_in_use' = [display_in_use EXCEPT ![w][i] = timeline_display]
  /\ \/ /\ fence' = [fence EXCEPT ![w][i] = "pending"]
        /\ shown' = [shown EXCEPT ![w][i] = Current]
        /\ frame_index' = [frame_index EXCEPT ![w] = After(i)]
     \/ /\ "lost" \in Acts
        /\ fence' = [fence EXCEPT ![w][i] = "reset"]
        /\ UNCHANGED <<shown, frame_index>>
  /\ UNCHANGED <<slotVars, graphVars, semaphore_process, win1>>

RenderWin1 ==
  /\ pc = "gui" /\ win1
  /\ RenderFrame("win1")
  /\ pc' = "win"

SkipWin1 ==
  /\ pc = "gui" /\ ~ win1
  /\ pc' = "win"
  /\ UNCHANGED <<slotVars, graphVars, semaphore_process, winVars>>

\* The end of a round.  The next one follows while `busy` is counted down or
\* an animation plays; then the loop sleeps in glfwWaitEvents.  How many
\* rounds that makes is left open: the frame limiter counts `busy` down
\* without a round.
RenderWin ==
  /\ pc = "win"
  /\ RenderFrame("win")
  /\ pc' \in {"events", "asleep"}
-----------------------------------------------------------------------------
\* glfwWaitEvents returns: the user did something, or a worker finished a
\* list of thumbnails (glfwPostEmptyEvent).  The GPU wakes nobody.
Wake ==
  /\ pc = "asleep"
  /\ pc' = "events"
  /\ UNCHANGED <<slotVars, graphVars, semaphore_process, winVars>>
-----------------------------------------------------------------------------
(***************************************************************************)
(* The GPU                                                                 *)
(***************************************************************************)
GraphDone ==
  /\ semaphore_process < timeline_value
  /\ semaphore_process' = semaphore_process + 1
  /\ UNCHANGED <<slotVars, graphVars, pc, winVars>>

\* The frames of a window finish in order; frame_index is the oldest.
Age(w, i) == (i + Frames - frame_index[w]) % Frames

FrameDone(w, i) ==
  /\ fence[w][i] = "pending"
  /\ \A j \in Ring : fence[w][j] = "pending" => Age(w, j) >= Age(w, i)
  /\ fence' = [fence EXCEPT ![w][i] = "signaled"]
  /\ shown' = [shown EXCEPT ![w][i] = None]
  /\ UNCHANGED <<slotVars, graphVars, semaphore_process, pc, win1,
                 frame_index, display_in_use>>
-----------------------------------------------------------------------------
\* The main thread, apart from what the user decides
Main == Process \/ RunNothing \/ Record \/ Acquire \/ WaitDone
        \/ AcquireForDisplay \/ RenderWin1 \/ SkipWin1 \/ RenderWin \/ Reenter

User == Wake \/ Request \/ (\E w \in Wins : Resize(w)) \/ Leave
        \/ OpenWin1 \/ CloseWin1

GPU == GraphDone \/ (\E w \in Wins, i \in Ring : FrameDone(w, i))

Next == Main \/ User \/ GPU

Spec == Init /\ [][Next]_vars

(***************************************************************************)
(* A round that has begun goes on, and the GPU finishes what it was given. *)
(* Nothing is assumed of the user: once asleep the loop may stay asleep.   *)
(***************************************************************************)
FairSpec ==
  /\ Spec
  /\ WF_vars(Main)
  /\ WF_vars(GraphDone)
  /\ \A w \in Wins, i \in Ring : WF_vars(FrameDone(w, i))
-----------------------------------------------------------------------------
(***************************************************************************)
(* Properties                                                              *)
(***************************************************************************)

\* A slot changes only when no dispatch on the GPU writes it and no frame on
\* the GPU reads it: three slots are enough, and the check of the values is
\* enough to know.  (acquire_for_processing destroys and recreates images.)
SlotIdle ==
  [][\A s \in Slots : val'[s] # val[s] =>
       /\ val[s] <= semaphore_process
       /\ \A w \in Wins, i \in Ring : shown[w][i] # s]_vars

\* What a frame on the GPU reads is the finished image whose value it noted
\* in display_in_use, for as long as it reads it, across later dispatches
\* and the display moving on.
FrameIntact ==
  \A w \in Wins, i \in Ring : shown[w][i] # None =>
    /\ fence[w][i] = "pending"
    /\ val[shown[w][i]] = display_in_use[w][i]
    /\ val[shown[w][i]] <= semaphore_process

\* The asserts of acquire_for_processing: the slot have_free_process saw is
\* still there after dt_graph_run waited for the GPU and recorded, and the
\* three timelines are ordered.
AlwaysASlot ==
  /\ pc = "acquire" => FreeSlots # {}
  /\ semaphore_process <= timeline_process
  /\ timeline_display <= timeline_process

\* What acquire_for_display returns is stamped on an image, or is the value of
\* a dispatch that had no display:main to copy: a finished image is never
\* given away before it, or a later one, was displayed.  It holds because
\* the very first run is synchronous: before anything is on display, an
\* image that finished between two frames could be overwritten unseen.
DisplayHasImage ==
  timeline_display > 0 /\ timeline_display \notin blank => Current # None

\* The comment in acquire_for_display, "there is always a buffer with the
\* given value", without the exception (does not hold,
\* GraphDisplayBlank.cfg)
AlwaysABuffer == timeline_display > 0 => Current # None

\* Commands are never recorded into a buffer the GPU still executes: this is
\* what the wait at the top of dt_graph_run and the double buffer are for.
RecordsIdle ==
  [][\/ pc' = "acquire" /\ pc # "acquire"
     \/ pc' = "leaving" /\ pc # "leaving" /\ Current # None
     => submitted[double_buffer] <= semaphore_process]_vars

\* The loop does not sleep for good: input keeps coming, or an animation
\* plays.
KeepsWaking == []<>(pc # "asleep")

\* A requested run is not put off forever, if the loop is woken again and
\* again: frames give their images back, and dispatches end.
Served == KeepsWaking => (runflags # {} ~> runflags = {})

\* If the loop is woken again and again, every finished dispatch, or a later
\* one, reaches the display.
ReachesDisplay ==
  KeepsWaking => \A v \in 1 .. MaxRuns : timeline_process = v ~> timeline_display >= v

\* A requested run is served with no further input (does not hold,
\* GraphDisplayAsleep.cfg: nothing tells the loop that a dispatch finished)
ServedUnprompted == runflags # {} ~> runflags = {}
=============================================================================
