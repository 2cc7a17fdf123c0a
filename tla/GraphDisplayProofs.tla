------------------------- MODULE GraphDisplayProofs -------------------------
(***************************************************************************)
(* Theorems about GraphDisplay, for any number of slots, frames in flight  *)
(* and dispatches.                                                         *)
(***************************************************************************)
EXTENDS GraphDisplay, TLAPS

LEMMA RingFacts ==
  /\ 0 \in Ring
  /\ Frames \in Nat
  /\ \A i \in Ring : After(i) \in Ring
  /\ \A s \in Slots : s \in Nat
  /\ 0 \in Slots
  /\ None \notin Slots
<1>1. 0 \in Ring /\ Frames \in Nat /\ 0 \in Slots /\ None \notin Slots
  BY GraphDisplayAssumption DEF Ring, Slots
<1>2. \A s \in Slots : s \in Nat
  BY GraphDisplayAssumption DEF Slots
<1>3. ASSUME NEW i \in Ring PROVE After(i) \in Ring
  BY GraphDisplayAssumption DEF Ring, After
<1> QED
  BY <1>1, <1>2, <1>3

\* What the code's linear search through the slots finds, if anything
LEMMA CurrentFound ==
  ASSUME Current # None
  PROVE  Current \in Slots /\ val[Current] > 0 /\ val[Current] = timeline_display
<1> DEFINE P(s) == val[s] > 0 /\ val[s] = timeline_display
<1>1. \E s \in Slots : P(s)
  BY DEF Current
<1>2. Current = CHOOSE s \in Slots : P(s)
  BY <1>1 DEF Current
<1> HIDE DEF P
<1>3. Current \in Slots /\ P(Current)
  BY <1>1, <1>2
<1> QED
  BY <1>3 DEF P

LEMMA CurrentType == Current \in Slots \cup {None}
  BY CurrentFound
-----------------------------------------------------------------------------
(***************************************************************************)
(* Types                                                                   *)
(***************************************************************************)
LEMMA TypeInit == Init => TypeOK
<1> SUFFICES ASSUME Init PROVE TypeOK
  OBVIOUS
<1>1. /\ val \in [Slots -> Nat] /\ submitted \in [{0, 1} -> Nat]
      /\ runflags \subseteq All /\ double_buffer \in {0, 1}
  BY DEF Init
<1>2. frame_index \in [Wins -> Ring] /\ display_in_use \in [Wins -> [Ring -> Nat]]
  BY RingFacts DEF Init
<1>3. fence \in [Wins -> [Ring -> {"signaled", "pending", "reset"}]]
  BY DEF Init
<1>4. shown \in [Wins -> [Ring -> Slots \cup {None}]]
  BY DEF Init
<1> QED
  BY <1>1, <1>2, <1>3, <1>4 DEF Init, TypeOK

LEMMA FreshFramesType ==
  ASSUME TypeOK, NEW w \in Wins, FreshFrames(w)
  PROVE  /\ frame_index' \in [Wins -> Ring]
         /\ fence' \in [Wins -> [Ring -> {"signaled", "pending", "reset"}]]
  BY RingFacts DEF TypeOK, FreshFrames

LEMMA RenderFrameType ==
  ASSUME TypeOK, NEW w \in Wins, RenderFrame(w)
  PROVE  /\ frame_index' \in [Wins -> Ring]
         /\ display_in_use' \in [Wins -> [Ring -> Nat]]
         /\ fence' \in [Wins -> [Ring -> {"signaled", "pending", "reset"}]]
         /\ shown' \in [Wins -> [Ring -> Slots \cup {None}]]
         /\ UNCHANGED <<slotVars, graphVars, semaphore_process, win1>>
<1> DEFINE i == frame_index[w]
<1>1. i \in Ring /\ After(i) \in Ring
  BY RingFacts DEF TypeOK
<1>2. display_in_use' \in [Wins -> [Ring -> Nat]]
  BY <1>1 DEF TypeOK, RenderFrame
<1>3. shown' \in [Wins -> [Ring -> Slots \cup {None}]]
  <2>1. shown \in [Wins -> [Ring -> Slots \cup {None}]]
    BY DEF TypeOK
  <2>2. \/ shown' = [shown EXCEPT ![w][i] = Current]
        \/ shown' = shown
    BY DEF RenderFrame
  <2> QED
    BY <1>1, <2>1, <2>2, CurrentType
<1>4. frame_index' \in [Wins -> Ring]
  <2>1. frame_index \in [Wins -> Ring]
    BY DEF TypeOK
  <2>2. \/ frame_index' = [frame_index EXCEPT ![w] = After(i)]
        \/ frame_index' = frame_index
    BY DEF RenderFrame
  <2> QED
    BY <1>1, <2>1, <2>2
<1>5. fence' \in [Wins -> [Ring -> {"signaled", "pending", "reset"}]]
  <2>1. fence \in [Wins -> [Ring -> {"signaled", "pending", "reset"}]]
    BY DEF TypeOK
  <2>2. \/ fence' = [fence EXCEPT ![w][i] = "pending"]
        \/ fence' = [fence EXCEPT ![w][i] = "reset"]
    BY DEF RenderFrame
  <2> QED
    BY <1>1, <2>1, <2>2
<1> QED
  BY <1>2, <1>3, <1>4, <1>5 DEF RenderFrame

LEMMA StampType ==
  ASSUME TypeOK, NEW slot \in Slots
  PROVE  Stamp(slot) \in [Slots -> Nat]
  BY DEF TypeOK, Stamp

LEMMA TypeNext == TypeOK /\ [Next]_vars => TypeOK'
<1> SUFFICES ASSUME TypeOK, [Next]_vars PROVE TypeOK'
  OBVIOUS
<1> USE DEF slotVars, graphVars, winVars
<1>1. CASE Request
  BY <1>1 DEF Request, TypeOK, All
<1>2. ASSUME NEW w \in Wins, Resize(w) PROVE TypeOK'
  BY <1>2, FreshFramesType DEF Resize, TypeOK
<1>3. CASE Leave
  BY <1>3 DEF Leave, TypeOK
<1>4. CASE Reenter
  BY <1>4 DEF Reenter, TypeOK
<1>5. CASE Process
  BY <1>5 DEF Process, Flip, TypeOK
<1>6. CASE RunNothing
  BY <1>6 DEF RunNothing, TypeOK, All
<1>7. CASE Record
  BY <1>7 DEF Record, TypeOK
<1>8. CASE Acquire
  BY <1>8, StampType DEF Acquire, TypeOK, FreeSlots, All
<1>9. CASE WaitDone
  BY <1>9 DEF WaitDone, TypeOK
<1>10. CASE AcquireForDisplay
  BY <1>10 DEF AcquireForDisplay, TypeOK
<1>11. CASE OpenWin1
  BY <1>11, FreshFramesType DEF OpenWin1, TypeOK, Wins
<1>12. CASE CloseWin1
  BY <1>12, FreshFramesType DEF CloseWin1, TypeOK, Wins
<1>13. CASE RenderWin1
  <2>1. "win1" \in Wins
    BY DEF Wins
  <2> QED
    BY <1>13, <2>1, RenderFrameType DEF RenderWin1, TypeOK
<1>14. CASE SkipWin1
  BY <1>14 DEF SkipWin1, TypeOK
<1>15. CASE RenderWin
  <2>1. "win" \in Wins
    BY DEF Wins
  <2> QED
    BY <1>15, <2>1, RenderFrameType DEF RenderWin, TypeOK
<1>16. CASE GraphDone
  BY <1>16 DEF GraphDone, TypeOK
<1>17. ASSUME NEW w \in Wins, NEW i \in Ring, FrameDone(w, i) PROVE TypeOK'
  BY <1>17 DEF FrameDone, TypeOK
<1>18. CASE UNCHANGED vars
  BY <1>18 DEF vars, TypeOK
<1>19. CASE Wake
  BY <1>19 DEF Wake, TypeOK
<1> QED
  BY <1>1, <1>2, <1>3, <1>4, <1>5, <1>6, <1>7, <1>8, <1>9, <1>10, <1>11,
     <1>12, <1>13, <1>14, <1>15, <1>16, <1>17, <1>18, <1>19 DEF Next, Main, User, GPU

\* Every variable of the darkroom's main loop stays in its type; in
\* particular frame_index stays inside the arrays of a window (gui.c:769).
THEOREM DisplayTypeCorrect == Spec => []TypeOK
  BY TypeInit, TypeNext, PTL DEF Spec
-----------------------------------------------------------------------------
(***************************************************************************)
(* Slots.  The three timelines are ordered and no slot carries a value no  *)
(* dispatch has; a frame on the GPU reads a slot that is stamped, so       *)
(* display_in_use protects it; the slot that let a run start stays free.   *)
(***************************************************************************)
Timelines ==
  /\ timeline_value = timeline_process
  /\ semaphore_process <= timeline_process
  /\ timeline_display <= semaphore_process
  /\ \A s \in Slots : val[s] <= timeline_process

Stamped ==
  \A w \in Wins, i \in Ring : shown[w][i] # None => val[shown[w][i]] > 0

HasRoom == pc \in {"run", "acquire"} => FreeSlots # {}

SlotInv == TypeOK /\ Timelines /\ Stamped /\ FrameIntact /\ HasRoom

\* What a pending frame reads is not free: its value is noted.
LEMMA ShownNotFree ==
  ASSUME TypeOK, Stamped, FrameIntact,
         NEW w \in Wins, NEW i \in Ring, shown[w][i] # None
  PROVE  shown[w][i] \in Slots /\ ~ Free(shown[w][i])
<1>1. shown[w][i] \in Slots
  BY DEF TypeOK
<1>2. val[shown[w][i]] > 0 /\ val[shown[w][i]] = display_in_use[w][i]
  BY DEF Stamped, FrameIntact
<1> QED
  BY <1>1, <1>2 DEF Free, InUse

\* Only free slots are touched when a dispatch takes one.
LEMMA StampKeeps ==
  ASSUME TypeOK, Acquire, NEW s \in Slots, ~ Free(s)
  PROVE  val'[s] = val[s]
  BY DEF Acquire, Stamp, FreeSlots, TypeOK

LEMMA StampChanges ==
  ASSUME TypeOK, Acquire, NEW s \in Slots
  PROVE  val'[s] = val[s] \/ val'[s] = 0 \/ val'[s] = timeline_process + 1
  BY DEF Acquire, Stamp, TypeOK

\* A free slot stays free while the GPU makes progress and no new frame is
\* submitted and nothing new is displayed.
LEMMA FreeStays ==
  ASSUME TypeOK, semaphore_process' \in Nat, semaphore_process <= semaphore_process',
         UNCHANGED <<val, timeline_display, display_in_use>>, FreeSlots # {}
  PROVE  FreeSlots' # {}
<1>1. PICK s \in Slots : Free(s)
  BY DEF FreeSlots
<1>2. InUse(val[s])' <=> InUse(val[s])
  BY DEF InUse
<1>3. val[s] \in Nat
  BY DEF TypeOK
<1>4. Free(s)'
  BY <1>1, <1>2, <1>3 DEF Free, TypeOK
<1> QED
  BY <1>4 DEF FreeSlots

LEMMA SlotInit == Init => SlotInv
<1> SUFFICES ASSUME Init PROVE SlotInv
  OBVIOUS
<1>1. TypeOK
  BY TypeInit
<1>2. Timelines
  BY DEF Init, Timelines
<1>3. Stamped /\ FrameIntact
  BY DEF Init, Stamped, FrameIntact
<1>4. HasRoom
  BY DEF Init, HasRoom
<1> QED
  BY <1>1, <1>2, <1>3, <1>4 DEF SlotInv

\* The steps that leave slots, frames and timelines alone
LEMMA SlotKept ==
  ASSUME SlotInv, TypeOK', HasRoom',
         UNCHANGED <<slotVars, timeline_value, semaphore_process, shown, fence,
                     display_in_use>>
  PROVE  SlotInv'
<1> USE DEF slotVars
<1>1. Timelines'
  BY DEF SlotInv, Timelines
<1>2. Stamped' /\ FrameIntact'
  BY DEF SlotInv, Stamped, FrameIntact
<1> QED
  BY <1>1, <1>2 DEF SlotInv

\* A window that is made anew had nothing pending.
LEMMA SlotFresh ==
  ASSUME SlotInv, TypeOK', NEW w \in Wins, FreshFrames(w), pc \in {"events", "gui"},
         UNCHANGED <<slotVars, timeline_value, semaphore_process, shown, pc,
                     display_in_use>>
  PROVE  SlotInv'
<1> USE DEF slotVars
<1>1. Timelines'
  BY DEF SlotInv, Timelines
<1>2. \A v \in Wins, i \in Ring : shown[v][i] = None
  BY DEF SlotInv, FrameIntact, FreshFrames, Idle
<1>3. Stamped' /\ FrameIntact'
  BY <1>2 DEF Stamped, FrameIntact
<1>4. HasRoom'
  BY DEF HasRoom
<1> QED
  BY <1>1, <1>3, <1>4 DEF SlotInv

\* A frame reads the image with the value it notes, or none.
LEMMA SlotRendered ==
  ASSUME SlotInv, TypeOK', NEW w \in Wins, RenderFrame(w), pc' \in {"events", "asleep", "win"}
  PROVE  SlotInv'
<1> USE DEF slotVars, graphVars
<1> DEFINE i == frame_index[w]
<1>0. TypeOK /\ i \in Ring
  BY DEF SlotInv, TypeOK
<1>1. Timelines'
  BY DEF SlotInv, Timelines, RenderFrame
<1>2. HasRoom'
  BY DEF HasRoom
<1>3. UNCHANGED <<val, semaphore_process>>
  BY DEF RenderFrame
<1>4. shown[w][i] = None
  BY <1>0 DEF SlotInv, FrameIntact, RenderFrame
<1>5. display_in_use'[w][i] = timeline_display
  BY <1>0 DEF RenderFrame, TypeOK
<1>6. \A v \in Wins, j \in Ring : v # w \/ j # i =>
        /\ display_in_use'[v][j] = display_in_use[v][j]
        /\ fence'[v][j] = fence[v][j]
        /\ shown'[v][j] = shown[v][j]
  BY <1>0 DEF RenderFrame, TypeOK
<1>7. \/ shown'[w][i] = None
      \/ shown'[w][i] = Current /\ fence'[w][i] = "pending"
  BY <1>0, <1>4 DEF RenderFrame, TypeOK
<1>8. shown'[w][i] # None =>
        /\ fence'[w][i] = "pending"
        /\ shown'[w][i] \in Slots
        /\ val[shown'[w][i]] = timeline_display
        /\ val[shown'[w][i]] > 0
  BY <1>7, CurrentFound
<1>9. timeline_display <= semaphore_process
  BY DEF SlotInv, Timelines
<1>10. ASSUME NEW v \in Wins, NEW j \in Ring, shown'[v][j] # None
       PROVE  /\ fence'[v][j] = "pending"
              /\ val'[shown'[v][j]] = display_in_use'[v][j]
              /\ val'[shown'[v][j]] <= semaphore_process'
              /\ val'[shown'[v][j]] > 0
  <2>1. CASE v = w /\ j = i
    BY <2>1, <1>3, <1>5, <1>8, <1>9, <1>10
  <2>2. CASE v # w \/ j # i
    BY <2>2, <1>3, <1>6, <1>10 DEF SlotInv, FrameIntact, Stamped
  <2> QED
    BY <2>1, <2>2
<1> QED
  BY <1>1, <1>2, <1>10 DEF SlotInv, FrameIntact, Stamped

LEMMA SlotAcquired == SlotInv /\ Acquire /\ TypeOK' => SlotInv'
<1> SUFFICES ASSUME SlotInv, Acquire, TypeOK' PROVE SlotInv'
  OBVIOUS
<1> USE DEF winVars
<1>0. TypeOK /\ Stamped /\ FrameIntact /\ Timelines
  BY DEF SlotInv
<1>1. timeline_process \in Nat /\ semaphore_process \in Nat /\ timeline_display \in Nat
  BY <1>0 DEF TypeOK
<1>2. ASSUME NEW s \in Slots PROVE val'[s] <= timeline_process'
  <2>1. val[s] \in Nat /\ val[s] <= timeline_process
    BY <1>0 DEF TypeOK, Timelines
  <2>2. timeline_process' = timeline_process + 1
    BY DEF Acquire
  <2> QED
    BY <2>1, <2>2, <1>0, <1>1, StampChanges
<1>3. Timelines'
  BY <1>0, <1>1, <1>2 DEF Timelines, Acquire
<1>4. \A w \in Wins, i \in Ring : shown[w][i] # None => val'[shown[w][i]] = val[shown[w][i]]
  BY <1>0, ShownNotFree, StampKeeps
<1>5. FrameIntact' /\ Stamped'
  BY <1>0, <1>4 DEF FrameIntact, Stamped, Acquire
<1>6. HasRoom'
  BY DEF HasRoom, Acquire
<1> QED
  BY <1>3, <1>5, <1>6 DEF SlotInv

LEMMA SlotNext == SlotInv /\ [Next]_vars => SlotInv'
<1> SUFFICES ASSUME SlotInv, [Next]_vars PROVE SlotInv'
  OBVIOUS
<1> USE DEF slotVars, graphVars, winVars
<1>0. TypeOK /\ TypeOK' /\ Timelines
  BY TypeNext DEF SlotInv
<1>1. CASE Request
  BY <1>0, <1>1, SlotKept DEF Request, HasRoom
<1>2. ASSUME NEW w \in Wins, Resize(w) PROVE SlotInv'
  BY <1>0, <1>2, SlotFresh DEF Resize
<1>3. CASE Leave
  BY <1>0, <1>3, SlotKept DEF Leave, HasRoom
<1>4. CASE Reenter
  <2>1. UNCHANGED <<slotVars, timeline_value, semaphore_process, shown, fence, display_in_use>>
    BY <1>4 DEF Reenter
  <2> QED
    BY <1>0, <1>4, <2>1, SlotKept DEF Reenter, HasRoom
<1>5. CASE Process
  <2>1. UNCHANGED <<slotVars, timeline_value, semaphore_process, shown, fence, display_in_use>>
    BY <1>5 DEF Process
  <2>2. HasRoom'
    <3>1. CASE pc' = "display"
      BY <3>1 DEF HasRoom
    <3>2. CASE FreeSlots # {}
      BY <1>0, <2>1, <3>2, FreeStays DEF HasRoom, TypeOK
    <3> QED
      BY <1>5, <3>1, <3>2 DEF Process, HaveFree
  <2> QED
    BY <1>0, <2>1, <2>2, SlotKept
<1>6. CASE RunNothing
  BY <1>0, <1>6, SlotKept DEF RunNothing, HasRoom
<1>7. CASE Record
  <2>1. UNCHANGED <<slotVars, timeline_value, semaphore_process, shown, fence, display_in_use>>
    BY <1>7 DEF Record
  <2>2. HasRoom'
    <3>1. FreeSlots # {}
      BY <1>7 DEF SlotInv, HasRoom, Record
    <3> QED
      BY <1>0, <2>1, <3>1, FreeStays DEF HasRoom, TypeOK
  <2> QED
    BY <1>0, <2>1, <2>2, SlotKept
<1>8. CASE Acquire
  BY <1>0, <1>8, SlotAcquired
<1>9. CASE WaitDone
  BY <1>0, <1>9, SlotKept DEF WaitDone, HasRoom
<1>10. CASE AcquireForDisplay
  <2>1. Timelines'
    BY <1>0, <1>10 DEF Timelines, AcquireForDisplay, TypeOK, Newer
  <2>2. Stamped' /\ FrameIntact'
    BY <1>10 DEF SlotInv, Stamped, FrameIntact, AcquireForDisplay
  <2>3. HasRoom'
    BY <1>10 DEF HasRoom, AcquireForDisplay
  <2> QED
    BY <1>0, <2>1, <2>2, <2>3 DEF SlotInv
<1>11. CASE OpenWin1
  <2>1. "win1" \in Wins
    BY DEF Wins
  <2> QED
    BY <1>0, <1>11, <2>1, SlotFresh DEF OpenWin1
<1>12. CASE CloseWin1
  <2>1. "win1" \in Wins
    BY DEF Wins
  <2> QED
    BY <1>0, <1>12, <2>1, SlotFresh DEF CloseWin1
<1>13. CASE RenderWin1
  <2>1. "win1" \in Wins
    BY DEF Wins
  <2> QED
    BY <1>0, <1>13, <2>1, SlotRendered DEF RenderWin1
<1>14. CASE SkipWin1
  BY <1>0, <1>14, SlotKept DEF SkipWin1, HasRoom
<1>15. CASE RenderWin
  <2>1. "win" \in Wins
    BY DEF Wins
  <2> QED
    BY <1>0, <1>15, <2>1, SlotRendered DEF RenderWin
<1>16. CASE GraphDone
  <2>1. Timelines'
    BY <1>0, <1>16 DEF Timelines, GraphDone, TypeOK
  <2>2. Stamped'
    BY <1>16 DEF SlotInv, Stamped, GraphDone
  <2>3. FrameIntact'
    BY <1>0, <1>16 DEF SlotInv, FrameIntact, GraphDone, TypeOK
  <2>4. HasRoom'
    <3>1. /\ UNCHANGED <<val, timeline_display, display_in_use, pc>>
          /\ semaphore_process' \in Nat /\ semaphore_process <= semaphore_process'
      BY <1>0, <1>16 DEF GraphDone, TypeOK
    <3> QED
      BY <1>0, <3>1, FreeStays DEF HasRoom, SlotInv
  <2> QED
    BY <1>0, <2>1, <2>2, <2>3, <2>4 DEF SlotInv
<1>17. ASSUME NEW w \in Wins, NEW i \in Ring, FrameDone(w, i) PROVE SlotInv'
  <2>1. Timelines'
    BY <1>0, <1>17 DEF Timelines, FrameDone
  <2>2. \A v \in Wins, j \in Ring : v # w \/ j # i =>
          shown'[v][j] = shown[v][j] /\ fence'[v][j] = fence[v][j]
    BY <1>0, <1>17 DEF FrameDone, TypeOK
  <2>3. shown'[w][i] = None
    BY <1>0, <1>17 DEF FrameDone, TypeOK
  <2>4. Stamped' /\ FrameIntact'
    BY <1>17, <2>2, <2>3 DEF SlotInv, Stamped, FrameIntact, FrameDone
  <2>5. HasRoom'
    <3>1. /\ UNCHANGED <<val, timeline_display, display_in_use, pc, semaphore_process>>
      BY <1>17 DEF FrameDone
    <3>2. semaphore_process' \in Nat /\ semaphore_process <= semaphore_process'
      BY <1>0, <3>1 DEF TypeOK
    <3> QED
      BY <1>0, <3>1, <3>2, FreeStays DEF HasRoom, SlotInv
  <2> QED
    BY <1>0, <2>1, <2>4, <2>5 DEF SlotInv
<1>18. CASE UNCHANGED vars
  <2>1. UNCHANGED <<val, timeline_display, timeline_process, blank, timeline_value, display_in_use,
                    pc, semaphore_process, shown, fence>>
    BY <1>18 DEF vars
  <2>2. HasRoom'
    BY <1>0, <2>1, FreeStays DEF HasRoom, SlotInv, TypeOK
  <2> QED
    BY <1>0, <2>1, <2>2, SlotKept
<1>19. CASE Wake
  BY <1>0, <1>19, SlotKept DEF Wake, HasRoom
<1> QED
  BY <1>1, <1>2, <1>3, <1>4, <1>5, <1>6, <1>7, <1>8, <1>9, <1>10, <1>11,
     <1>12, <1>13, <1>14, <1>15, <1>16, <1>17, <1>18, <1>19 DEF Next, Main, User, GPU

\* A frame the GPU executes reads one finished image until its fence is
\* signalled, whatever dispatches and later frames do meanwhile
\* (display_in_use, gui.c:679-687 and its check in graph-display.c:293-300).
THEOREM DisplayFrameIntact == Spec => []FrameIntact
<1>1. SlotInv => FrameIntact
  BY DEF SlotInv
<1> QED
  BY <1>1, SlotInit, SlotNext, PTL DEF Spec

\* The asserts of dt_graph_display_acquire_for_processing never fail: the
\* slot seen before dt_graph_run (graph-display.c:350-382) is still free
\* after it waited and recorded.
THEOREM DisplayAlwaysASlot == Spec => []AlwaysASlot
<1>1. SlotInv => AlwaysASlot
  BY DEF SlotInv, Timelines, HasRoom, AlwaysASlot, TypeOK
<1> QED
  BY <1>1, SlotInit, SlotNext, PTL DEF Spec

\* An image is overwritten or destroyed only if neither a dispatch nor a
\* frame on the GPU uses it.
THEOREM DisplaySlotIdle == Spec => SlotIdle
<1> DEFINE Idly ==
      \A s \in Slots : val'[s] # val[s] =>
        /\ val[s] <= semaphore_process
        /\ \A w \in Wins, i \in Ring : shown[w][i] # s
<1>1. SlotInv /\ [Next]_vars => [Idly]_vars
  <2> SUFFICES ASSUME SlotInv, [Next]_vars, NEW s \in Slots, val'[s] # val[s]
               PROVE  /\ val[s] <= semaphore_process
                      /\ \A w \in Wins, i \in Ring : shown[w][i] # s
    OBVIOUS
  <2>1. Acquire
    BY DEF Next, Main, User, GPU, Wake, Request, Resize, Leave, Reenter, Process,
           RunNothing, Record, WaitDone, AcquireForDisplay, OpenWin1, CloseWin1, RenderWin1, SkipWin1,
           RenderWin, RenderFrame, GraphDone, FrameDone, vars, slotVars
  <2>2. Free(s)
    BY <2>1, StampKeeps DEF SlotInv
  <2>3. \A w \in Wins, i \in Ring : shown[w][i] = s => ~ Free(s)
    BY ShownNotFree, RingFacts DEF SlotInv
  <2> QED
    BY <2>2, <2>3 DEF Free
<1> QED
  BY <1>1, SlotInit, SlotNext, PTL DEF Spec, SlotIdle
-----------------------------------------------------------------------------
(***************************************************************************)
(* There is an image to display.  Once something is displayed, every value *)
(* from it to the last dispatch is on a slot, unless its dispatch had no   *)
(* image; before that there is at most one dispatch, which the main loop   *)
(* waits for.                                                              *)
(***************************************************************************)
Stays(v) == \E s \in Slots : val[s] = v

Kept ==
  timeline_display > 0 =>
    \A v \in Nat : timeline_display <= v /\ v <= timeline_process => Stays(v) \/ v \in blank

FirstRun ==
  /\ timeline_display = 0 =>
       \/ timeline_process = 0
       \/ /\ timeline_process = 1
          /\ Stays(1) \/ 1 \in blank
          /\ pc \in {"wait", "display"}
          /\ pc = "display" => semaphore_process = 1
  /\ timeline_process = 0 =>
       broken \/ (pc = "acquire" /\ "nodes" \in runflags)
  /\ pc = "acquire" => ~ broken

ImageInv == SlotInv /\ Kept /\ FirstRun

LEMMA ImageInit == Init => ImageInv
  BY SlotInit DEF Init, ImageInv, Kept, FirstRun

\* The steps that leave slots and timelines alone, and do not take or end
\* the first dispatch
LEMMA ImageKept ==
  ASSUME ImageInv, SlotInv', UNCHANGED <<slotVars, semaphore_process>>, FirstRun'
  PROVE  ImageInv'
<1>1. Kept'
  BY DEF ImageInv, Kept, Stays, slotVars
<1> QED
  BY <1>1 DEF ImageInv

LEMMA ImageAcquired == ImageInv /\ Acquire /\ SlotInv' => ImageInv'
<1> SUFFICES ASSUME ImageInv, Acquire, SlotInv' PROVE ImageInv'
  OBVIOUS
<1>0. TypeOK /\ TypeOK' /\ FirstRun /\ Kept
  BY DEF ImageInv, SlotInv
<1>1. /\ timeline_process \in Nat /\ semaphore_process \in Nat /\ timeline_display \in Nat
      /\ timeline_process' = timeline_process + 1
      /\ timeline_display' = timeline_display
  BY <1>0 DEF TypeOK, Acquire
<1>2. \/ \E s \in Slots : val'[s] = timeline_process + 1
      \/ timeline_process + 1 \in blank'
  <2>1. CASE shows
    BY <1>0, <2>1 DEF Acquire, Stamp, FreeSlots, TypeOK
  <2>2. CASE ~ shows
    BY <2>2 DEF Acquire
  <2> QED
    BY <2>1, <2>2
<1>5. blank \subseteq blank'
  BY DEF Acquire
<1>3. Kept'
  <2> SUFFICES ASSUME timeline_display > 0, NEW v \in Nat,
                      timeline_display <= v, v <= timeline_process + 1
               PROVE  (\E s \in Slots : val'[s] = v) \/ v \in blank'
    BY <1>1 DEF Kept, Stays
  <2>1. CASE v = timeline_process + 1
    BY <1>2, <2>1 DEF Stays
  <2>2. CASE v <= timeline_process /\ v \notin blank
    <3>1. PICK s \in Slots : val[s] = v
      BY <1>0, <2>2 DEF Kept, Stays
    <3>2. ~ Free(s)
      BY <1>0, <3>1 DEF Free, TypeOK
    <3>3. val'[s] = v
      BY <1>0, <3>1, <3>2, StampKeeps
    <3> QED
      BY <3>3
  <2> QED
    BY <1>1, <1>5, <2>1, <2>2
<1>4. FirstRun'
  <2>1. CASE timeline_display = 0
    <3>1. timeline_process = 0 /\ "nodes" \in runflags
      BY <1>0, <2>1 DEF FirstRun, Acquire
    <3>2. Synchronous
      BY <3>1 DEF Synchronous
    <3>3. pc' = "wait"
      BY <3>2 DEF Acquire
    <3> QED
      BY <1>1, <1>2, <3>1, <3>3 DEF FirstRun, Stays
  <2>2. CASE timeline_display > 0
    BY <1>1, <2>2 DEF FirstRun, Acquire
  <2> QED
    BY <1>1, <2>1, <2>2
<1> QED
  BY <1>3, <1>4 DEF ImageInv

LEMMA ImageShown == ImageInv /\ AcquireForDisplay /\ SlotInv' => ImageInv'
<1> SUFFICES ASSUME ImageInv, AcquireForDisplay, SlotInv' PROVE ImageInv'
  OBVIOUS
<1>0. TypeOK /\ FirstRun /\ Kept /\ Timelines
  BY DEF ImageInv, SlotInv
<1>1. /\ timeline_process \in Nat /\ semaphore_process \in Nat /\ timeline_display \in Nat
      /\ UNCHANGED <<val, timeline_process, semaphore_process, broken, runflags>>
      /\ \A v \in blank : v >= timeline_display' => v \in blank'
      /\ pc = "display" /\ pc' = "gui"
      /\ timeline_display' = semaphore_process
  BY <1>0 DEF TypeOK, AcquireForDisplay, Newer, Timelines, graphVars
<1>2. CASE timeline_display > 0
  BY <1>0, <1>1, <1>2 DEF Kept, FirstRun, Stays, ImageInv, Timelines
<1>3. CASE timeline_display = 0 /\ timeline_process = 0
  BY <1>0, <1>1, <1>3 DEF Kept, FirstRun, Stays, ImageInv, Timelines
<1>4. CASE timeline_display = 0 /\ timeline_process = 1
  BY <1>0, <1>1, <1>4 DEF Kept, FirstRun, Stays, ImageInv, Timelines
<1> QED
  BY <1>0, <1>1, <1>2, <1>3, <1>4 DEF FirstRun

LEMMA ImageNext == ImageInv /\ [Next]_vars => ImageInv'
<1> SUFFICES ASSUME ImageInv, [Next]_vars PROVE ImageInv'
  OBVIOUS
<1> USE DEF slotVars, graphVars, winVars
<1>0. SlotInv' /\ TypeOK /\ TypeOK' /\ Timelines /\ FirstRun
  BY SlotNext DEF ImageInv, SlotInv
<1>1. CASE Request
  BY <1>0, <1>1, ImageKept DEF Request, FirstRun, Stays
<1>2. ASSUME NEW w \in Wins, Resize(w) PROVE ImageInv'
  BY <1>0, <1>2, ImageKept DEF Resize, FirstRun, Stays
<1>3. CASE Leave
  BY <1>0, <1>3, ImageKept DEF Leave, FirstRun, Stays
<1>4. CASE Reenter
  BY <1>0, <1>4, ImageKept DEF Reenter, FirstRun, Stays
<1>5. CASE Process
  BY <1>0, <1>5, ImageKept DEF Process, FirstRun, Stays
<1>6. CASE RunNothing
  BY <1>0, <1>6, ImageKept DEF RunNothing, FirstRun, Stays
<1>7. CASE Record
  BY <1>0, <1>7, ImageKept DEF Record, FirstRun, Stays
<1>8. CASE Acquire
  BY <1>0, <1>8, ImageAcquired
<1>9. CASE WaitDone
  BY <1>0, <1>9, ImageKept DEF WaitDone, FirstRun, Stays, Timelines, TypeOK
<1>10. CASE AcquireForDisplay
  BY <1>0, <1>10, ImageShown
<1>11. CASE OpenWin1
  BY <1>0, <1>11, ImageKept DEF OpenWin1, FirstRun, Stays
<1>12. CASE CloseWin1
  BY <1>0, <1>12, ImageKept DEF CloseWin1, FirstRun, Stays
<1>13. CASE RenderWin1
  BY <1>0, <1>13, ImageKept DEF RenderWin1, RenderFrame, FirstRun, Stays
<1>14. CASE SkipWin1
  BY <1>0, <1>14, ImageKept DEF SkipWin1, FirstRun, Stays
<1>15. CASE RenderWin
  BY <1>0, <1>15, ImageKept DEF RenderWin, RenderFrame, FirstRun, Stays
<1>16. CASE GraphDone
  <2>1. Kept'
    BY <1>16 DEF ImageInv, Kept, Stays, GraphDone
  <2>2. FirstRun'
    BY <1>0, <1>16 DEF FirstRun, Stays, GraphDone, Timelines, TypeOK
  <2> QED
    BY <1>0, <2>1, <2>2 DEF ImageInv
<1>17. ASSUME NEW w \in Wins, NEW i \in Ring, FrameDone(w, i) PROVE ImageInv'
  BY <1>0, <1>17, ImageKept DEF FrameDone, FirstRun, Stays
<1>18. CASE UNCHANGED vars
  BY <1>0, <1>18, ImageKept DEF vars, FirstRun, Stays
<1>19. CASE Wake
  BY <1>0, <1>19, ImageKept DEF Wake, FirstRun, Stays
<1> QED
  BY <1>1, <1>2, <1>3, <1>4, <1>5, <1>6, <1>7, <1>8, <1>9, <1>10, <1>11,
     <1>12, <1>13, <1>14, <1>15, <1>16, <1>17, <1>18, <1>19 DEF Next, Main, User, GPU

\* What dt_graph_display_get_dset looks for is there (graph-display.c:384-409):
\* the value on display is stamped on a slot, unless its dispatch had no
\* display:main to copy (graph-display.c:209, 333-346).
THEOREM DisplayFindsImage == Spec => []DisplayHasImage
<1>1. ImageInv => DisplayHasImage
  <2> SUFFICES ASSUME ImageInv, timeline_display > 0, timeline_display \notin blank
               PROVE  Current # None
    BY DEF DisplayHasImage
  <2>1. Stays(timeline_display)
    BY DEF ImageInv, SlotInv, Timelines, Kept, TypeOK
  <2>2. \E s \in Slots : val[s] > 0 /\ val[s] = timeline_display
    BY <2>1 DEF Stays
  <2> DEFINE P(s) == val[s] > 0 /\ val[s] = timeline_display
  <2>3. Current = CHOOSE s \in Slots : P(s)
    BY <2>2 DEF Current
  <2>4. \E s \in Slots : P(s)
    BY <2>2
  <2> HIDE DEF P
  <2>5. Current \in Slots
    BY <2>3, <2>4
  <2> QED
    BY <2>5, RingFacts
<1> QED
  BY <1>1, ImageInit, ImageNext, PTL DEF Spec
-----------------------------------------------------------------------------
(***************************************************************************)
(* Recording.  Without the download button, and as long as the darkroom is *)
(* not left, the buffer the next run will record into is not that of the   *)
(* last dispatch, the only one dt_graph_run does not wait for.             *)
(***************************************************************************)
EditingOnly == "download" \notin Acts /\ "leave" \notin Acts

\* The buffer the next recording goes to
Next_buffer == IF pc = "run" THEN double_buffer ELSE 1 - double_buffer

Alternates ==
  /\ \A b \in {0, 1} : submitted[b] <= timeline_process
  /\ runflags \in {{}, All, {"record"}}
  /\ pc = "run" => runflags # {}
  /\ pc # "leaving"
  /\ pc # "acquire" /\ ~ broken =>
       submitted[Next_buffer] < timeline_process \/ timeline_process = 0

RecordInv == SlotInv /\ Alternates

LEMMA RecordInit == Init => RecordInv
<1>1. Init => Alternates
  BY DEF Init, Alternates
<1> QED
  BY <1>1, SlotInit DEF RecordInv

LEMMA RecordNext == EditingOnly /\ RecordInv /\ [Next]_vars => RecordInv'
<1> SUFFICES ASSUME EditingOnly, RecordInv, [Next]_vars PROVE Alternates'
  BY SlotNext DEF RecordInv
<1> USE DEF slotVars, graphVars, winVars, EditingOnly
<1>0. Alternates /\ TypeOK /\ double_buffer \in {0, 1} /\ timeline_process \in Nat
  BY DEF RecordInv, SlotInv, TypeOK
<1>1. CASE Request
  <2>1. runflags' \in {{}, All, {"record"}}
    BY <1>0, <1>1 DEF Request, Alternates, All
  <2> QED
    BY <1>0, <1>1, <2>1 DEF Request, Alternates, Next_buffer
<1>2. ASSUME NEW w \in Wins, Resize(w) PROVE Alternates'
  BY <1>0, <1>2 DEF Resize, Alternates, Next_buffer
<1>3. CASE Leave
  BY <1>3 DEF Leave
<1>4. CASE Reenter
  BY <1>0, <1>4 DEF Reenter, Alternates
<1>5. CASE Process
  BY <1>0, <1>5 DEF Process, Flip, Alternates, Next_buffer
<1>6. CASE RunNothing
  <2>1. "record" \in runflags
    BY <1>0, <1>6 DEF RunNothing, Alternates, All
  <2>2. broken'
    BY <1>6, <2>1 DEF RunNothing
  <2> QED
    BY <1>0, <1>6, <2>2 DEF RunNothing, Alternates
<1>7. CASE Record
  BY <1>0, <1>7 DEF Record, Alternates
<1>8. CASE Acquire
  <2>1. submitted'[1 - double_buffer] = submitted[1 - double_buffer]
    BY <1>0, <1>8 DEF Acquire, TypeOK
  <2>2. submitted'[1 - double_buffer] < timeline_process'
    BY <1>0, <1>8, <2>1 DEF Acquire, Alternates, TypeOK
  <2>3. \A b \in {0, 1} : submitted'[b] <= timeline_process'
    BY <1>0, <1>8 DEF Acquire, Alternates, TypeOK
  <2> QED
    BY <1>0, <1>8, <2>2, <2>3 DEF Acquire, Alternates, Next_buffer
<1>9. CASE WaitDone
  BY <1>0, <1>9 DEF WaitDone, Alternates, Next_buffer
<1>10. CASE AcquireForDisplay
  BY <1>0, <1>10 DEF AcquireForDisplay, Alternates, Next_buffer
<1>11. CASE OpenWin1
  BY <1>0, <1>11 DEF OpenWin1, Alternates, Next_buffer
<1>12. CASE CloseWin1
  BY <1>0, <1>12 DEF CloseWin1, Alternates, Next_buffer
<1>13. CASE RenderWin1
  BY <1>0, <1>13 DEF RenderWin1, RenderFrame, Alternates, Next_buffer
<1>14. CASE SkipWin1
  BY <1>0, <1>14 DEF SkipWin1, Alternates, Next_buffer
<1>15. CASE RenderWin
  BY <1>0, <1>15 DEF RenderWin, RenderFrame, Alternates, Next_buffer
<1>16. CASE GraphDone
  BY <1>0, <1>16 DEF GraphDone, Alternates, Next_buffer
<1>17. ASSUME NEW w \in Wins, NEW i \in Ring, FrameDone(w, i) PROVE Alternates'
  BY <1>0, <1>17 DEF FrameDone, Alternates, Next_buffer
<1>18. CASE UNCHANGED vars
  BY <1>0, <1>18 DEF vars, Alternates, Next_buffer
<1>19. CASE Wake
  BY <1>0, <1>19 DEF Wake, Alternates, Next_buffer
<1> QED
  BY <1>1, <1>2, <1>3, <1>4, <1>5, <1>6, <1>7, <1>8, <1>9, <1>10, <1>11,
     <1>12, <1>13, <1>14, <1>15, <1>16, <1>17, <1>18, <1>19 DEF Next, Main, User, GPU

\* The wait for all but the last dispatch and the double buffer are enough
\* (graph.c:782-792, render_darkroom.c:1247), provided every run that flips
\* the buffer also submits it: with the download button, or when leaving,
\* they are not (GraphDisplayRerecord.cfg).
THEOREM DisplayRecordsIdle ==
  ASSUME EditingOnly
  PROVE  Spec => RecordsIdle
<1> DEFINE Idly ==
      \/ pc' = "acquire" /\ pc # "acquire"
      \/ pc' = "leaving" /\ pc # "leaving" /\ Current # None
      => submitted[double_buffer] <= semaphore_process
<1>1. RecordInv /\ [Next]_vars => [Idly]_vars
  <2> SUFFICES ASSUME RecordInv, [Next]_vars,
                      \/ pc' = "acquire" /\ pc # "acquire"
                      \/ pc' = "leaving" /\ pc # "leaving"
               PROVE  submitted[double_buffer] <= semaphore_process
    OBVIOUS
  <2>0. TypeOK /\ Timelines /\ Alternates
    BY DEF RecordInv, SlotInv
  <2>1. Record
    BY DEF EditingOnly, Next, Main, User, GPU, Wake, Request, Resize, Leave, Reenter, Process,
           RunNothing, Acquire, WaitDone, AcquireForDisplay, OpenWin1, CloseWin1,
           RenderWin1, SkipWin1, RenderWin, GraphDone, FrameDone, vars
  <2>2. submitted[double_buffer] \in Nat /\ submitted[double_buffer] <= timeline_process
    BY <2>0 DEF TypeOK, Alternates
  <2>3. semaphore_process \in Nat /\ timeline_process \in Nat /\ timeline_value = timeline_process
    BY <2>0 DEF TypeOK, Timelines
  <2>4. CASE "nodes" \in runflags
    BY <2>1, <2>2, <2>3, <2>4 DEF Record, Waited
  <2>5. CASE "nodes" \notin runflags
    <3>1. submitted[double_buffer] < timeline_process \/ timeline_process = 0
      BY <2>0, <2>1, <2>5 DEF Record, Alternates, Next_buffer
    <3>2. semaphore_process + 1 >= timeline_process
      BY <2>1, <2>3 DEF Record, Waited
    <3> QED
      BY <2>2, <2>3, <3>1, <3>2
  <2> QED
    BY <2>4, <2>5
<1>2. RecordInv /\ [Next]_vars => RecordInv'
  BY RecordNext
<1> QED
  BY <1>1, <1>2, RecordInit, PTL DEF Spec, RecordsIdle
=============================================================================
