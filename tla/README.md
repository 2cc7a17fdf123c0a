# vkdt in TLA+

vkdt is a photo and animation editor: a graph of processing modules runs on the
GPU through Vulkan, a GUI thread edits it and draws, and a pool of threads
works on thumbnails, exports and copies. This directory models the parts of it
whose correctness depends on the order of events, checks them with TLC on small
instances and proves what matters most with TLAPS.

Paths are relative to `src/src/` unless they start with `src/`.

    tlc -config ThreadsSingle.cfg MCThreads.tla      # one run
    tlapm ThreadsProofs.tla                          # the proofs of one module

## Contents

| module | models | source |
|---|---|---|
| `JobPool` | what the worker pool promises | `core/threads.h` |
| `Threads` | the worker pool | `core/threads.c`, its clients `db/thumbnails.c:370-417`, `gui/main.c:363-364` |
| `ThreadsProofs` | theorems about `Threads` | |
| `GraphDisplay` | asynchronous preview: dispatches, display images, frames | `gui/graph-display.c`, `gui/gui.c`, `gui/render_darkroom.c`, `pipe/graph.c` |
| `GraphDisplayProofs` | theorems about `GraphDisplay` | |
| `Allocator` | what the memory allocator promises | `pipe/alloc.h` |
| `VkAlloc` | the memory allocator | `pipe/alloc.c`, `pipe/dlist.h` |
| `ThumbnailJobs` | rendering thumbnails in the background | `db/thumbnails.c`, `db/db.c`, `gui/api_gui.h`, `gui/widget_recentcollect.h` |
| `ThumbnailJobsProofs` | theorems about `ThumbnailJobs` | |
| `ThumbCache` | the cache of thumbnails on the GPU | `db/thumbnails.c`, `pipe/dlist.h`, `gui/render_lighttable.c`, `gui/gui.c` |
| `ThumbCacheProofs` | theorems about `ThumbCache` | |
| `ModuleGraph` | adding, connecting and removing modules | `pipe/module.c`, `pipe/connector.c`, `pipe/connector.inc`, `pipe/graph-export.c` |
| `Cycles` | the search for cycles, over `ModuleGraph` | `pipe/cycles.h` |
| `ModuleGraphProofs` | theorems about `ModuleGraph` and `Cycles` | |
| `History` | undo and redo, graph files, over `ModuleGraph` | `pipe/graph-history.h`, `pipe/graph-io.c`, `gui/api.h`, `gui/render_darkroom.h` |
| `HistoryProofs` | theorems about `History`, over those of `ModuleGraphProofs` | |
| `Traverse` | the order in which modules and nodes are visited | `pipe/graph-traverse.inc` |
| `TraverseProofs` | theorems about `Traverse` | |
| `NodeMemory` | which memory nodes share, and for how long | `pipe/graph-run-nodes-allocate.h`, `-upload.h`, `-record-cmd.h`, `pipe/graph.c` |
| `MemoryProofs` | theorems about `VkAlloc` and `NodeMemory` | |
| `MCThreads`, `MCGraphDisplay`, `MCVkAlloc`, `MCThumbnailJobs`, `MCModuleGraph`, `MCHistory`, `MCTraverse`, `MCNodeMemory`, `MCThumbCache` | values of the constants | |

How they fit together: `Threads` implements `JobPool` and `VkAlloc` implements
`Allocator`; `ThumbnailJobs` takes the pool, and `NodeMemory` the allocator, at the
word of those. `ThumbCache` sees the jobs of `ThumbnailJobs` as files that appear. `Cycles` and `History` extend `ModuleGraph` and run its operators.
`NodeMemory` assumes of its nodes the order that `Traverse` is shown to produce
(`Ordered`), and `Traverse` visits what `ModuleGraph` shows to be free of dangling
references and of cycles.

`PROJECT.json` holds the list of runs, the source lines of each definition, the
hazards and the findings.

## Inventory

For each component: its state, its operations, who it talks to, what makes it
hard, and what makes it correct.

**Worker pool** (`core/threads.c`). *State*: an array of task slots (`tid` as
state or owner, `work_item`, `done`, `work_item_cnt`, `reftask`, callbacks), two
condition variables, the flag `shutdown`. *Operations*: `threads_task`,
`threads_work`, `threads_wait`, `threads_shutdown`, `threads_global_cleanup`.
*Interaction*: called by thumbnails, copy and export jobs, file modules and the
build tools; runs callbacks. *Hard*: all of it runs concurrently, slots change
hands by compare and swap, a helper uses the counters of another slot, signals
can be lost, shutdown races with everything. *Correct if*: a slot has one owner,
every item is run once, `free` comes last, waits and the final join return.
**Modelled** (`Threads`).

**Display images** (`gui/graph-display.c`). *State*: three images per display
with the timeline value stamped on each, `timeline_display`,
`timeline_process`. *Operations*: `have_free_process`,
`acquire_for_processing`, `acquire_for_display`, `get_dset`,
`write_thumbnail`. *Interaction*: called by the graph run, by the frame and by
the darkroom; asks the windows what their frames show. *Hard*: two kinds of GPU
work in flight, and the slot is chosen from values read at different times.
*Correct if*: no image is destroyed or written while the GPU reads or writes
it, there is always an image to show and a slot to write, nothing is put off
for ever. **Modelled** (`GraphDisplay`).

**Windows and frames** (`gui/gui.c`). *State*: per window the swap chain, a ring
of fences and command buffers, `display_in_use`. *Operations*: render, resize,
open and close the second window. *Hard*: frames outlive the loop iteration
that made them; acquiring or presenting may fail. **Partly** (`GraphDisplay`, `ThumbCache`).

**Darkroom view** (`gui/render_darkroom.c`). *State*: `runflags`,
`double_buffer`, animation state. *Operations*: process, enter, leave, the
widgets that set flags. *Correct if*: requested work is done, and a command
buffer is recorded only when it is idle. **Partly** (`GraphDisplay`).

**Graph run** (`pipe/graph.c`, `pipe/graph-run-*.h`). *State*: modules, nodes,
connector images, command buffers, timeline semaphore. *Operation*: one
function in phases (modules, nodes, memory, upload, record, submit, wait,
download), each of which may return early. **Partly**: the waits, returns and
submissions that the display depends on (`GraphDisplay`).

**Graph memory and transfers** (`pipe/graph-run-nodes-allocate.h`, `-upload.h`,
`-record-cmd.h`). *State*: per output one or two buffers, their memory, a flag
`s_conn_protected`, the last node that refers to each (`nid_last_ref`), arenas of
memory over `alloc.c`. *Operations*: two passes over the nodes, one that marks and
one that hands out and takes back; upload of sources; recording. *Interaction*:
visits nodes in traversal order; the GPU reads and writes what was laid out, and
the windows and downloads read it after the run. *Hard*: memory is reused within
one dispatch, while feedback, still sources and what sinks show live on into the
next. *Correct if*: whatever a node reads is what was written for it. **Partly**
(`NodeMemory`).

**Memory allocator** (`pipe/alloc.c`). *State*: a free list by offset, a used
list, a pool of entries, totals. *Operations*: alloc, free, nuke, check. *Hard*:
bookkeeping over long sequences, alignment, limits. *Correct if*: blocks are
disjoint, aligned and inside the heap, and no memory is lost. **Modelled**
(`VkAlloc`).

**Main loop and exit** (`gui/main.c`). Order of events, processing, rendering,
and shutdown. **Partly** (`GraphDisplay`, `Threads`).

**Thumbnail cache** (`db/thumbnails.c`). *State*: an LRU list over a fixed number
of thumbnails, two graphs with a lock each, a time stamp that aborts older
jobs, an index per image. *Operations*: load, evict, cache a list in the
background. *Interaction*: the pool runs its jobs, which read the database and
write files; the GUI thread edits, loads, removes and replaces the database.
*Hard*: jobs and the GUI race, time stamps have the resolution of a second, an
index outlives the thumbnail, the cache is replaced while frames use it. *Correct
if*: no job touches a database that was replaced, thumbnails end up showing the last
edit of the photo they are drawn for, and what a frame uses outlives it. **Partly**:
the jobs (`ThumbnailJobs`), their posting (`Threads`), the cache (`ThumbCache`).

**Module graph** (`pipe/module.c`, `pipe/connector.inc`, `pipe/cycles.h`,
`pipe/graph-traverse.inc`). *State*: modules in the slots of an array, connectors;
`connected` is a module on inputs and a reference count on outputs; formats with
wildcards. *Operations*: add, connect, disconnect, feedback, remove, repurpose;
the traversal. *Interaction*: edited by the GUI, by the history and by graph files;
walked by every phase of a run. *Hard*: slots are recycled, a connect has a dozen
ways to fail halfway, long sequences of legal calls. *Correct if*: counts equal
readers, no connection dangles, formats agree, there is no cycle but by
feedback, and the traversal visits inputs first. **Modelled** (`ModuleGraph`,
`Cycles`, `Traverse`).

**History** (`pipe/graph-history.h`) and **graph files** (`pipe/graph-io.c`). *State*:
lines in a buffer of fixed size, a current and a last item. *Operations*: append
(replacing a recent item of the same parameter), cut, set, reset; write and read
lines. *Hard*: undo replays lines on the graph as it is now, with modules the
lines do not know. *Correct if*: undo and redo bring back what the user saw, and
leaving and entering the darkroom changes nothing. **Modelled** and **partly**
(`History`).

**Image database** (`db/db.c`, `db/stringpool.h`). Collection, selection, and a
hash table without deletion. **Partly**: opening, freeing and removing images as
jobs see them (`ThumbnailJobs`).

**Copy and export jobs** (`gui/job_copy.h`, `gui/render_lighttable.c`). Small state
machines (`state`, `abort`, `taskid`) over the pool. Not modelled.

Not to be modelled: export on the command line (a loop), views and widgets (drawing), ray tracing (a fixed
sequence of Vulkan calls), sound (a thin layer), Vulkan set-up, the processing
modules and their shaders (numeric), build tools and fitting (run once), and
vendored code (`nuklear.h`, `tinyexr.h`, `sort_r.h`, `strptime.c` ...).

## Worker pool: `Threads`

A step is one access to memory that other threads also write, with the local
work around it: one compare and swap of a scan, one increment of a counter, one
test. Lock; wait or signal; unlock is one step, because the mutexes protect
nothing but the wait. `pc`, `at`, `item` are the position, slot and item of each
worker; `cpc`, `cjob`, `cslot`, `cref`, `cleft` those of each client, which posts a
job by `Parts[j]` calls of `threads_task`, feeds the returned id back as the
thumbnail cache does and then may wait. `begun`, `ended`, `released` and `reused` are
history: `reused` says that a slot was handed out while somebody still referred to
it, be it a task that helps, a client that waits, or one that will still pass the
id on (`Holds`). Spurious wake-ups are allowed. Shutdown can come at any point at
which the main thread is not inside a call, and other clients continue through it.

| run | instance | shows |
|---|---|---|
| `threads_single` | 2 workers, 2 slots, 2 clients, jobs of 2 and 1 items with one task each, one waited for | implements `JobPool`; `threads_wait` returns, and only for finished jobs |
| `threads_shared` | 2 workers, 2 slots, 1 client, a job shared by two tasks and another one | one owner per slot; shared counters are right unless a slot was handed out again under a helper; taken slots are given back; busy workers exit |

*Bounds.* Two slots and two jobs are the least with which a slot is handed out
again while somebody still refers to it; two workers the least with which one
spins for the other. The proofs remove the bounds for safety.

*Fairness.* Weak fairness for each thread and for the shutdown under way: the
operating system runs every thread that can run, callbacks return, the timed
wait times out. None for posting, for asking to shut down, or for spurious
wake-ups.

*Deadlock is not checked* (`CHECK_DEADLOCK FALSE`): all jobs posted and done
with all workers waiting, or everything joined, is a legal end.

*Left out.* Affinity, printing, `threads_task_running`, `threads_task_progress`
(read only). The increments `work_item++` and `done++` are atomic in the code
(`_Atomic`, `core/threads.c`) and in the model. Clients stop at a negative result;
the build tools, which feed it back, are not modelled.

## Display: `GraphDisplay`

One CPU thread, whose position in the main loop is `pc`:

    events -> run -> acquire [-> wait] -> display -> gui -> win -> events | asleep
    events -> display                     (nothing to do or no room)
    asleep -> events                      (Wake: input)
    events -> leaving -> events           (darkroom_leave, darkroom_enter)

and the GPU, which finishes dispatches in the order of their timeline values
(`GraphDone`) and each window's frames in order (`FrameDone`), at any time between
two steps. Slots carry `val`; a frame carries the value it noted (`display_in_use`)
and, as history, the slot it reads (`shown`). `submitted` remembers the last
dispatch of each command buffer. `None` is no slot. `shows` says whether the nodes have
a `display:main` with an extent, which is decided when nodes are created: if not,
`Stamp` leaves the chosen slot as it is (`graph-display.c:209`, 333-346) while
`timeline_process` goes on, and the dispatch is remembered in `blank`, history.

| run | `Acts` | shows |
|---|---|---|
| `display_slots` | everything: forced download, second window opened and closed, resize, lost swap chain, leaving | three slots suffice, always: nothing in use is destroyed or written, a slot seen free stays free until acquired, the display has an image unless the dispatch on display had none (`blank`) |
| `display_live` | second window | command buffers are idle when recorded; if the loop is woken again and again, requested runs start and results are displayed |

*Bounds.* Three slots as in the code. Two frames in flight instead of four
(`DT_GUI_MAX_FRAMES_IN_FLIGHT`): with two windows that is already more values in
use than slots. `MaxRuns = 4` dispatches let every slot be used twice. The
proofs hold for any number of each.

*Fairness.* Weak fairness of the main thread, of the dispatches and of each frame:
a round that has begun goes on, and the GPU finishes what it was given. After any round the
loop may fall asleep in `glfwWaitEvents` (`main.c:281-287`, 324; how many rounds follow an
event is left open), and `Wake` is not fair: the GPU wakes nobody. So `Served` and
`ReachesDisplay` say what they say of behaviours in which the loop is woken again and
again (`KeepsWaking`): input comes, or an animation plays. Without that they are false
(`GraphDisplayAsleep.cfg`), and that is what the comment at `main.c:278` is about. In an instance
with lost swap chains the loop may stop on a fence nobody signals
(`gui.c:697-703`), so `display_slots` does not check for deadlock, and the live runs
do not have that act.

*Choices.* Requests happen at `pc = "events"` only; widgets set the same flags during
`gui`, which commutes with the rest of the iteration. A failed present recreates
the swap chain, which is `Resize` at the next round. `RunNothing` waits less than the
code may, which only adds behaviours. The wait for performance logs
(`graph.c:945-958`) is left out: it only waits more. The graph is abstracted to
`broken`, decided when nodes are created. `acquire_for_processing` never returns
for too many nodes because `graph.c:812` has checked the same bound. Failing
Vulkan calls other than acquiring a swap chain image are left out, as is
`dt_graph_cleanup` after a failed `darkroom_enter` (a hazard: `graph-display.c:380`).

## Allocator: `VkAlloc`

The free list is a sequence of `[offset, offset_orig, size]`, the used list a set, the
unused entries a number. An allocation is `Replace` (exact fit) or `Split`, a free is
`Insert` (with both merges), `InsertOnly` (empty free list) or `Lose` (the loop ends
without a place). A failing call changes nothing. `gaps` and `lost` are history:
an alignment skipped bytes, an entry got into no list.

| run | instance | shows |
|---|---|---|
| `alloc_mixed` | heap of 20, 6 entries, four shapes with alignments 1 to 8 | implements `Allocator`; `dt_vkalloc_check` finds nothing; without gaps or losses everything freed is the whole heap again |

*Bounds.* The shapes leave gaps, fit exactly, and use up both heap and entries. Alignment
is a power of two as `& (alignment-1)` needs; alignment 0, which the code turns
into 1, is 1. *Left out.* `peak_rss` (statistics), the check tag, the pointers of the
lists. `size : 48` does not overflow for sizes the assertion allows. That an entry can
get into no list (`VkAllocFull.cfg`) is under Findings.

## Thumbnails on disk: `ThumbnailJobs`

The pool is taken at the word of `Threads`' shared contract: each item of a list is
given to one of two jobs (`avail`, `work_item`), `free` comes when all are done (`done`).
Job number `gid` works under `graph_lock[gid]`, so two lists are worked on at a time,
and the same photo may be. A worker goes `lock -> stat -> render -> write -> reset`
with its next item, or skips the items of a stale list (`Stale`). Taking the lock,
comparing the time stamp and looking up the file name is one step: nothing another
thread does between them changes what they do that it could not have done before.

The GUI thread goes from `idle` through the steps of what the user asks for:

    idle -> help -> idle                           caching a list (two threads_task)
    idle -> load -> idle                           dt_thumbnails_load_list, one image
    idle -> leave -> idle                          darkroom_leave: cfg, then bc1
    idle -> lock -> unlock -> cleanup -> open -> post -> help -> idle
                                                   abort, and another directory

Caching a list is `CacheList`: the pool takes the first task (`AddJob`), which the second
may follow (`Help`), or refuses it because all its slots are taken (`NotCached`,
`threads.c:188-193`; no caller looks at the result). The slots are shared with exports,
copies and decoding, so this may happen any time. What is cached is what the filter of the collection lets
through, after opening a directory only if a filter comes with its name (`DbOpen`,
`widget_recentcollect.h:30`, 48-53). Pasting in the darkroom writes the cfg files and
caches nothing (`api_gui.h:143-149`). A worker that finds neither cfg nor default returns
without rendering, and the item counts as done (`Stat`, `thumbnails.c:229-264`).

A cfg file is a version number, a bc1 file the version it shows, `current` the
outcome of comparing their times. An edit in the second in which the bc1 file was
written may leave it current. `raced`, `missed`, `broken` and `uncached` record the photos for
which the code gives no guarantee, each with its cause at the action that adds it:

- `raced`: edited while a worker had read the old cfg; edited within the second;
  rendered by two at a time, who share a temporary file; left the darkroom with
  another image on display than the last edit's.
- `missed`: while the file was replaced its old content was being loaded, or the photo
  had moved to another id since its job was posted.
- `broken`: the graph failed, or there was none.
- `uncached`: nothing was started for it since its last edit, or since the last abort.

| run | instance | shows |
|---|---|---|
| `thumb_jobs` | 2 workers, 2 photos (one can be edited, the other may fail), 2 lists at a time, 2 acts of the user after start-up | no job uses a replaced database or a freed list; abort waits only for renderings; a file that counts as current shows the last edit; once quiet, so does the file of every photo cached since, and memory shows what the file does, except as recorded |

*Bounds.* Two lists at a time, two workers and two photos are the least with which
lists overlap, a photo is rendered twice at once, and ids change meaning. Two acts
(`MaxActs`) make the pairs: edit and load, edit and abort, remove and edit, edit and leave; the
first list is cached at start-up without an act. One edit per photo (`MaxVersion`)
tells old from new. Workers are symmetric; all properties are invariants.

*Choices.* The list numbers are reused once a list is forgotten. The filter is not state: a
collection is any set of images. Presets, brackets and time lapses change a cfg and cache a list as
pasting does. A photo stands for a file name; a directory opened again may lack one.
Files of removed images stay. The second writer of a temporary file ends with its
version or none.

*Deadlock is not checked*: everything done and the acts used up is a legal end.

## Thumbnails on the GPU: `ThumbCache`

One round of the lighttable is `pc = "check" -> "load" -> "draw"`:

    Check                             render_lighttable.c:290-308, Rebuild if it is time
    Missing, Touch, Load, LoadFails   dt_thumbnails_load_list, one image each
    OutOfMemory or ListDone           the end of the list, cacheline moves on
    Draw                              the loop over the images, dt_gui_win_render

Beside it the GPU finishes frames in order (`FrameDone`), jobs write files (`Render`), and
the user resizes and scrolls (`Resize`, `Scroll`), which the main loop handles between two
rounds. `tid` is the index each image keeps, `image` and `mem` what each entry shows and
holds, `link`, `lru`, `mru` the list with the macros of `dlist.h` translated one to one.
History: `rank` is the order of use that the links should spell out, `takes` counts
entries handed out since the cache was made, `leftover` says that the last rebuild kept an
index. Frame numbers only grow and are only compared, so the model has ages instead: the
last frame submitted has age 0, a semaphore carries the age of the last frame it was
signalled for (`None` for a new one, whose counter is 0).

| run | instance | shows |
|---|---|---|
| `thumb_cache` | 5 images, one never rendered, two of twice the size; three in view, lists of two; 4 entries and memory for 3 at first, 3 frames in flight, 2 acts | the list is in order of use; an index leads to its own image unless entries were reused or indices kept; a rebuild waits for the frames before it; in the end all images in view that can be reached are loaded, if the loop is woken again and again |

*Bounds.* The first cache is too small for the collection in entries and in memory, so
it runs out, is rebuilt once or twice, and then holds everything. Three frames in flight
(four in the code) leave room for frames before, at and after the trigger. Two acts make
the pairs of resize, scroll, new edit, failure and fragmentation. Two images per list
(`Iv`, 20 in the code) make the list go round the collection, and three in view
(`Rows`) make a window larger than a list, as with more than 20 images in view.

*Fairness.* Weak fairness of the round, of the GPU, and of the first file of every image
that can be rendered. After any round the interface may fall asleep (`main.c:281-287`),
and nothing is loaded then; only input (`Wake`, which is not fair) and finished jobs
(`Render`) wake it. So `AllLoaded` is about a lighttable that is woken again and again
(`KeepsWaking`).

*Reached.* An image in view that never gets a file sets `cacheline` to itself in every
frame (`render_lighttable.c:356`), so only it and the rest of its list are asked for. What
is a list or more behind it, and image 0, are never loaded (`ThumbCacheBehind.cfg`,
`ThumbCacheStarved.cfg`). `AllLoaded` claims all others (`Reached`): with everything
renderable, all that is in view, however large the window.

*Choices.* Loading one image is one step: it is done by the interface thread alone, on a
graph of its own. That a job may replace the file meanwhile is in `ThumbnailJobs`
(`missed`). Holes between blocks are counted as acts (`OutOfMemory` with room left), not
computed: `VkAlloc` has them.
*Left out.* Failures before an entry is taken (the image stays as it was), an image opened
directly from the command line, removing images, filters and sorting (the collection is
fixed), frames lost with the swap chain, and the busy bee's own memory.

## Modules and connections: `ModuleGraph`, `Cycles`

The graph is one record `g`, and every operation an operator from graph to graph
(`Added`, `ConnectInternal`, `Connect`, `Feedback`, `Removed`), so that `History` can
run them line by line. A pin is a slot and a connector; `src` is `connected` of an
input, `ref` the count an output keeps in the same field. `ConnectInternal` is
`dt_module_connect` of `connector.inc` with its early returns: `Refused` and
`Uncounted` are its errors 4 to 6 ("sink inconsistent!"), `BadChan` and `BadFmt` the
failures after wildcards were assigned. `Connect` adds the cycle check of
`connector.c`. Callers of `dt_module_remove` disconnect the readers first, which is
part of `RemoveModule`; `RemoveDisplays` is the one that does not need to, because
displays have no outputs. `oob` is history: a write through connector -1.

| run | instance | shows |
|---|---|---|
| `module_graph` | 3 slots; three filters (any format, channels of the input, fixed format), a display | counts equal readers, nothing dangles, formats agree, no cycles, and the search is exact |

*Bounds.* Three modules close a cycle over two steps, and recycle a slot between two
others. Two connectors each; the proofs hold for any number.

*Choices.* No class of the repository has a `modify` connector, so a pin is an input or
an output; source and sink connectors connect as outputs and inputs do. The sizes
that `dt_module_connect` copies (`roi`, `array_length`, `ssbo_offset`) are data that nothing
here reads. `Cyclic` defines what the search should find (`o` is computed from `i`);
`Cycles` has the search itself, and `SearchExact` compares the two on every
reachable graph. The recursion is written out: `SearchStep` goes on to the next call,
return or connector, with the loop variable (`at`) and the caller (`from`) of each
activation, and `SearchLimit` steps always end it. In
a failed `add` of an unknown class `num_modules` is taken back (`Bad`).

## Undo and files: `History`

`hist` is the sequence of recorded lines, `cur` the current item. A line is a
record of command, module, connector, the other side, and value; names stand for
themselves. `Lines` is the set of those the program writes. Reading and writing lines
are the functions of `graph-io.c` as operators: `ReadLine`, `ConfigLines`, `HistoryLines`.
A line for a module that is not there, or a parameter that its class does not have,
is passed over. Each edit of the user is one action with all its recording,
for example `RemoveEdit` is `dt_gui_dr_remove_module` with the bridge it builds.
`snap[n]` is history: what the user saw when item `n` was recorded (`View`), less
what the lines cannot bring back (`Claim`). `vague` is history too: the graph was
changed in a way that no line tells, for example because the buffer is full or a
connection failed halfway, and until the next undo nothing is promised. The user may
go on editing then, and what is recorded has no claim.

| run | instance | shows |
|---|---|---|
| `history` | a source and a filter, a display and the preview to be added; 7 items, 3 edits | undo and redo bring back what was seen; leaving and entering loses nothing |

*Bounds.* Seven items: the file at the start takes four, so that three edits fill the
buffer, and one more is cut. Undo goes back to item 3, the last line of
that file. Users set a parameter to 0 or 1, and increment it up to 2 per line.

*What is not promised*, each for a reason in the code, and excluded by name where the
property, the snapshot or `vague` is defined:
- two modules of one name (`Unique`, see the findings) become one when read;
- two wildcards take the default, so formats depend on who connects first, and
  files are written in another order (`OrderFree`);
- a connection that failed halfway left its format behind (`Stained`);
- the line that added a module was cut off, the module is still there (`Known`), and
  then lines about it may be read before the module is there again (`Sourced`);
- a module removed and added again gets the values recorded for the first one
  (`Haunted`);
- after leaving and entering with the preview on an output of any format, the history
  has the line that connects it. Edits release the preview without recording it
  (`graph-history.h:252-253`), undo reads the line again, and the output takes the
  formats of the preview instead of those of the module connected later, whose line
  then may fail (`Previewed`). Without this exception TLC finds a lost connection after
  two edits if the classes have an input whose channels the preview's do not match;
- feedback does not release the preview, and takes the formats the preview left on the
  output (`Bound`);
- a value was replaced in the history with increments behind it, which are added to
  the new value when read (`blur` in `RecordParam`).

*Assumptions* (`HistoryAssumption`). Graph files are made of `Lines`; the preview
that a display is replaced by has one input and nothing else; no class in `pipe/modules` has an input that copies its channels from
another connector (`&` is for outputs). *Left out.* Keyframes
(undo does not remove them), positions in the node editor, parameters with several
values, disabled modules, and the bytes of the buffer: only how many items it has.

## Visiting nodes: `Traverse`

One step is one round of one of the loops of `graph-traverse.inc`: looking at a seed
candidate (`Seed`), popping or finishing the top entry (`Drop`, `Post`), entering it
(`Enter`) and looking at one input (`Push`, `Overflow`, `Leave`), moving what feedback
put off onto the stack (`NextRound`). The code is deterministic, so the graph is the
only choice. Of `mark[]` only 3 is ever distinguished after the seeds (`ran`). The same
text is included for modules and for nodes.

| run | instance | shows |
|---|---|---|
| `traverse` | 4 nodes, one or two sinks, all connections of a family with cycles, self reference, feedback and double connections; stacks of 5 and 2 | inputs first, each node once; all that is needed is met; it ends; it fits if the stack has an entry per seed and connection |

*Bounds.* The stacks, 1000 and 100 in the code, are small enough that both fill, and
large enough that most graphs fit: the instance has graphs on both sides of
`Fits`. *Fairness.* `WF_vars(Next)`: a loop that has a next round goes on. That is
all `Terminates` needs. *Deadlock is not checked*: the end of the traversal is one.
*Assumption.* The seeds fit on the stack; nothing in the code checks this
(a graph would need 1000 connected sinks).

## Memory between nodes: `NodeMemory`

`phase` goes mark, place, run, idle, with `pos` the node in traversal order: `Mark` is
one call of `alloc_outputs`, `Place` one of `alloc_alias_memory`, `Execute` the node on
the GPU, `Allocate` the next run with nodes created anew, `Record` the next run
without. A block is one frame of an output; an output read by feedback has two
(`Double`). The arenas are sets of units of equal size; a block is placed at any unit
that is not in use, which is what `Allocator` promises (`NodeMemory` does not care which
one `VkAlloc` chooses). `content` is history: which buffer wrote a unit last, in
which run. A net says which nodes read which buffers, which are sources and sinks
(`guards`), and, for outputs that a node did not take over from a module's connector,
what the code finds in `connected` when it looks for their owner (`first`).

| run | instance | shows |
|---|---|---|
| `node_memory` | 5 nodes, 4 buffers, 3 shared and 4 protected units, 3 runs, graphs with a still source or none, with feedback or none | every node reads what was written for it, sinks' inputs survive |
| `memory_misled` | one such graph with an internal sink | finding: a displayed buffer is overwritten |

*Bounds.* Three runs make both frames of a feedback buffer used and reused. Three
shared units make reuse necessary for most graphs. Units of a kind are symmetric.
*Deadlock is not checked*: no room, and the last run, are ends.

*Condition.* `Recognised`: the owner looked up for a protected buffer is protected
itself. Without it `ReadsHold` is false (`memory_misled`); the graphs of
`node_memory` are those of the family that satisfy it.

*Choices.* Dispatches run one after the other: that the CPU waits for the one before
the last is the subject of `GraphDisplay`. Memory holds nothing after an
allocation, which comes with an upload. A buffer whose last use was not noted in
this run keeps what an earlier graph left in the pool (`stale` in `Place`): the pool is cleared
with a length that was set to zero before. *Left out.* Staging memory, still sources
read by feedback (`force_upload`), dynamic arrays, the arenas' types and the offsets
above 4 GB. One module asks for nodes and memory anew without an upload
(`select`, `modules/select/main.c:42`); it relies on the protected arena being laid
out as before, which is not modelled.

## Proofs

All theorems hold for every value of the constants that the assumptions of the
modules (`ThreadsAssumption`, `GraphDisplayAssumption` ...) allow.

`ThreadsProofs`
- `ThreadsTypeCorrect`, `ThreadsSlotOwned`. Types are not inductive alone: `Finish`
  needs to know that a busy worker has a job. The invariant adds that a slot that
  is taken or ready holds a job, that busy workers own their slots, and that claims
  by clients are exclusive.
- `SingleWaitSound`, `SingleImplementsJobPool`, assuming `SingleTask`, every job
  posted by one call. The invariant relates the counters of a slot to the history of
  its job: `work_item` splits items into begun and untouched, `done` counts the ended
  ones, and no two slots in use hold the same job; a client that waits looks at the
  slot of its job, or the job is finished (the slot may be another's by then). For
  shared jobs the same statement is false (`ThreadsReuse.cfg`).
- `SharedContractHolds`, `SharedWaitHolds`, `SharedImplementsJobPool`, with no
  assumption on how jobs are posted: as long as `reused` is false, no item is begun
  twice, `free` comes after the last, waits return only for finished jobs, and the
  pool implements `JobPool`. The invariant (`SharedInv`) says that all who refer
  to a job refer to it through one slot (`Shares`), that `work_item` and `done` of
  that slot count its items (`Counts`), that each item begun and not ended is with
  one worker (`Runs`), and that the slot a client waits on still counts its job, or
  the job is finished (`Waiting`). Looking for it showed what `reused` must include:
  a client between two calls of `threads_task` holds an id that no slot remembers.

`GraphDisplayProofs`
- `DisplayTypeCorrect`, `DisplayFrameIntact`, `DisplayAlwaysASlot`, `DisplaySlotIdle`. The
  invariant `SlotInv` adds that timeline values are ordered, that a frame on the GPU
  reads a stamped slot, and that between the decision to run and the acquisition a free slot remains: a slot
  becomes free when the semaphore advances, and the values windows note do not
  change in between.
- `DisplayFindsImage`: `ImageInv` adds that the displayed image, and all later
  dispatches on the way, are kept unless they are `blank`, and that before the first result is displayed
  there is at most one dispatch, because the first run is synchronous and waited for.
  The comment it is about has no exception (`GraphDisplayBlank.cfg`).
- `DisplayRecordsIdle`, assuming `EditingOnly` (no forced download, no leaving): with
  `RecordInv`, dispatches alternate between the two command buffers. Without the
  assumption it is false (`GraphDisplayRerecord.cfg`).

`ModuleGraphProofs`, assuming `KnownClasses` (modules that are installed)
- `GraphSound`: the conjunction of types, `NoDangling`, `RefExact`, `FormatsAgree` and
  `Acyclic` is inductive. Each operator has a lemma that it keeps `Sound`; most of the work is
  counting: linking adds one reader to one output, unlinking a set of inputs takes
  from each output as many as read it. `Acyclic` is stated with sets (each has
  a module that reads no other in it), so that no induction is needed: adding
  an edge from `o` to `i` keeps it because the set that proves `~Cyclic` separates them.
- `GraphTypeOK`, `GraphDangling`, `GraphReferences`, `GraphOrder`, `GraphFormats`,
  `GraphConsistent` are its parts. The assumption is needed: `Bad` lowers `num_modules` although the
  slot was recycled, which hides the last module from the graph.
- `GraphSearchExact`: the search of `cycles.h` finds a cycle if and only if there is one.
  The modules on the search's stack form a path; a module that was left reads, but
  through the connection about to be replaced, only modules that were left; so an end without
  a hit makes those left a set with no way back to the first. That it ends within `SearchLimit` is counted by the
  activations begun, ended and connectors passed (`Done`), which only grow.

`HistoryProofs`, assuming `KnownClasses` and `Numbers` (parameters are integers)
- `HistoryInv`, `HistoryTypeOK`, `HistoryGraphs`: the history is a list of `Lines` with a snapshot for
  each, and `Sound` holds whatever is read back, in whatever order, on whatever graph.
  Every edit and every line read is a sequence of the operators above, each of which keeps `Sound`;
  a fold over lines is unfolded once (`Through`) and then followed by induction in the form below.
- `HistoryRoundTrip`: `RoundTrip` for every graph that can be reached. `Kept` adds to `Sound`
  that what a class fixes is what the connectors have. The copy is followed line by line:
  after the lines for modules it has the modules of the graph, in slots that may
  differ (`Rebuilt`, by the map `At`); after each connection that of the original between
  the corresponding pins (`Wired`, `Marked`): formats fit since they agree in
  the original and do not depend on order (`OrderFree`), and no cycle is found since its image would be
  one in the original; after each parameter its value (`Valued`). `Unique` is needed,
  since a name is all that lines say of a module.
- `HistoryBringsBack`: `BringsBack` for any classes, files and number of edits. `BringsBack`
  alone is not inductive: an undo runs lines that were recorded long ago, on graphs with other
  modules in other slots, with the preview connected or not. So the graph is first
  taken apart into what lines can tell: its `Net`, the connections and formats by the
  names of the modules, the preview released and a module that is not there standing
  for its class; and one `Value` per name. Then:
  - each line is a function of these alone, `NetRead` and `ValStep`, whatever graph it is
    read on (`NetConnects`, `NetFeedbacks`, `ReadStep`). So what a history makes of a blank graph
    is computed without any graph (`NetRun`, `ValRun`, lemma `Replay`), and two blank
    graphs with different modules agree;
  - the inductive invariant (`Apt`) says that what an item claims of a module is what the
    lines up to it make of it (`Items`, `Kin`), and that the graph, unless `vague`, is
    what the lines up to `cur` make (`Tracked`), has no format left behind
    (`Clean`) and no name twice. It mentions all of the past only through the lines;
  - every edit is then compared with its line: what it did to the net is what the line
    does when read. For a connection this is where the preview must have been
    released; for a removal, pin by pin, it holds for the lines that disconnect, and
    a module that is gone counts as one that is there and not connected
    (`RemovedNet`); for a value replaced at `j` the items from `j` on change their claim
    as the runs do that follow (`SwappedValue`);
  - undo reads the lines on the blanked graph, so `Tracked` is `Replay`, and what is
    shown is what the item claims, since both are the same run (`ReplayShows`). Leaving
    and entering start over from a copy, which has the same net (`CopyNet`).

Induction over numbers is used as a fact about sets (`NatMin`, `NatInd`, from the
library's well-foundedness of `<`), since the prover cannot instantiate the library's
induction theorems.

`TraverseProofs`, with no further assumption
- `TraverseTypeOK`, `TraverseOrdered`: the invariant adds that an entry that waits for
  its inputs has each of them finished or above it on the stack, so when it is on
  top again they are finished, whatever cycles there are.
- `TraverseComplete`: as long as no stack was full, each seed looked at, and each
  input of what was finished or entered, is finished or still on one of the stacks.
  Both stacks are empty at the end.
- `TraverseEnds`: every step lowers `Rank`, in an order that the library shows to be
  well-founded. The rank counts seeds not looked at; then twice the nodes not
  finished, plus one if all that is on the stack is finished (`Turn`: what was put off
  comes next); then, from the bottom of the stack, what is left to do for each
  entry: 3 and its inputs when fresh, its remaining inputs while they are pushed, 1
  when it waits. Pushing an entry lowers the digit of the one below it. Since
  each state that is not `Finished` satisfies the guard of an action, this is all of
  `Terminates` but the fairness, which the prover cannot use.
- `TraverseSuffices`: a stack fills up only for a cyclic graph, or one with more seeds and
  connections than entries. `Room` charges each entry to a seed, or to a connection
  that was looked at; `Nested` says that what lies above an entry lies below its node
  in the graph, so that in an acyclic one no node is begun twice and no connection counted
  twice; the one being looked at is not counted yet, so there is an entry left for it.

`MemoryProofs`, about `NodeMemory`, assuming `AllRecognised`
- `MemoryTypeOK`, `MemoryReadsHold`. The invariant has eight parts: `Shape` has the types; `Marks`
  says what the first pass knows up to `pos`; `Layout` that blocks lie in their arena and
  which were given back; `Apart` that two blocks share memory only if neither is
  protected and the last use of one comes before the node that owns the other;
  `Aliased`, `Written`, `Cached` and `FedBack` what the memory of unprotected, protected,
  uploaded and fed back buffers holds. `Apart` is the heart: it turns "not in
  use when handed out" into "not in use when executed".

`MemoryProofs`, about `VkAlloc`, with no further assumption
- `AllocTypeOK`, `AllocImplements`, `AllocCheckEntries`, `AllocRegained`. The invariant is not
  about `offset` alone: an entry owns its bytes from `offset_orig`, those skipped for an
  alignment included, and no two entries own the same (`HeapShape`); `Pool` counts the
  entries. `NoOverlap`, which `dt_vkalloc_check` tests, says nothing of the skipped bytes,
  which a merge gives back to the free list, and is not inductive. `Tiled` is for `Regained`: as long as nothing was
  skipped, the free entries are as large as they can be and every byte is owned.
  The lemmas say what the library's `InsertAt`, `RemoveAt` and `ReplaceAt` return, and
  that the merges keep the list sorted, maximal, and owning what it owned.
- `AllocCheckPasses`: all of `dt_vkalloc_check`, the sum `rss` included. `CheckEntries` is
  the part without the sum; `Sum` is a fold over the set of blocks, for which
  `SumTake` says what taking one away does, by induction over the subsets.

`ThumbnailJobsProofs`, with no further assumption
- `ThumbnailTypeOK`: `Base` adds what the lists and images are: no photo twice, stamps and
  databases go together, an item belongs to its worker's list.
- `ThumbnailDbSafe`, `ThumbnailAbortWaits`: `Locks` adds that a graph is used by the worker
  that holds its lock, and that nobody works between the last lock of an abort and the next
  directory.
- `ThumbnailCollAlive`: `Counts` adds that of the items of a list that were handed out, as
  many are done as are not with a worker.
- `ThumbnailFresh`: `Files` and `Shows` say of every photo that its file shows the last edit and
  its thumbnail what the file does, or it is one of the exceptions, or somebody will still see
  to it (`Pending`): a directory being opened, an item not handed out, the gui on its way out of the darkroom, or a worker
  that has not looked at the file's time yet. The second task of a list may be refused, so
  `Counts` is joined by `Manned`: a list with items left has a job, or a worker, that takes them.
  Why a photo may stay `uncached` for ever is not a race: the code does not start anything for it.

`ThumbCacheProofs`, with no further assumption
- `ListInOrder`: the invariant `Links` says of every entry that the one before it in the
  list has the rank before its own, and that ranks are distinct. Two lemmas show what
  taking an entry out and appending it does to the links, for the tail, where the code
  moves `mru` first, and for any other; a third that the result is in the new order.
- `IndexIsOwn`: `Owned` adds that the entries taken since the cache was made are
  the `takes` most recently used ones, so that the head of the list, until all were
  taken once, is nobody's.
- `OldFramesThrough`: `SlotAges` says how the ages of the semaphores relate to the frames
  in flight: a slot that is in flight carries an age of a whole round ago, or none
  after a resize. If all are as young as the trigger, those in flight are younger.

The type invariants of `ThumbnailJobs`, `VkAlloc` and `GraphDisplay` are proved and not among
the properties of the runs.

Only model-checked:
- the liveness properties `WaitReturns`, `TakenIsGivenBack`, `BusyExits`, `Served`,
  `ReachesDisplay`, `AllLoaded` and the fairness part of `Terminates`: liveness under fairness
  is out of reach of the prover. All other properties of the runs are theorems, but those
  of `memory_misled`, which TLC finds violated.

## Findings

What TLC found violated, of what a comment, an assertion or a header says.
`PROJECT.json` quotes the lines. One is among the listed runs, `memory_misled`: the
memory of what an internal sink displays is given back during the run
(`graph-run-nodes-allocate.h:609`).

The others have a configuration here and can be repeated by hand; each ends with
the property violated:

| command | property | what |
|---|---|---|
| `tlc -config ThreadsLostSignal.cfg MCThreads.tla` | `TaskIsWorkedOn` | a signal for a new task is lost if no worker waits (`threads.c:85`) |
| `tlc -config ThreadsHang.cfg MCThreads.tla` | `ShutdownUnblocks` | a worker waits after the last broadcast and the join hangs (`threads.c:302`) |
| `tlc -config ThreadsReuse.cfg MCThreads.tla` | `FreeAtTheEnd` | a helper works on the counters of a slot handed out again (`threads.c:179`) |
| `tlc -config GraphDisplayClosed.cfg MCGraphDisplay.tla` | `Served` | images noted by a closed second window stay locked (`gui.c:1079`) |
| `tlc -config GraphDisplayBlank.cfg MCGraphDisplay.tla` | `AlwaysABuffer` | a run without an image for the display takes the display all the same (`graph-display.c:309`) |
| `tlc -config GraphDisplayAsleep.cfg MCGraphDisplay.tla` | `ServedUnprompted` | a requested run waits for input in a loop that sleeps; the comment at `main.c:278` says as much, so it is a hazard and no finding |
| `tlc -config GraphDisplayRerecord.cfg MCGraphDisplay.tla` | `RecordsIdle` | a forced download upsets the double buffer (`render_darkroom.c:1247`) |
| `tlc -config VkAllocFull.cfg MCVkAlloc.tla` | `Complete` | `dt_vkfree` cannot append to a nonempty free list (`alloc.c:210`) |
| `tlc -config ThumbCacheRebuild.cfg MCThumbCache.tla` | `RebuildIdle` | the cache is destroyed while frames submitted after the trigger use it (`render_lighttable.c:298`) |
| `tlc -config ThumbCacheLeftover.cfg MCThumbCache.tla` | `NoLeftover` | indices into the old cache survive the rebuild (`render_lighttable.c:305`) |
| `tlc -config ThumbCacheReuse.cfg MCThumbCache.tla` | `Corresponds` | an entry is handed on, and the image that had it shows the other one (`thumbnails.c:522`) |
| `tlc -config ThumbCacheStarved.cfg MCThumbCache.tla` | `NoneWaits` | image 0 is not loaded if another one in view has no file (`render_lighttable.c:356`) |
| `tlc -config ThumbCacheBehind.cfg MCThumbCache.tla` | `NoneBehind` | images in view a list or more behind one without a file are not loaded (`render_lighttable.c:356`) |
| `tlc -config ModuleGraphDedup.cfg MCModuleGraph.tla` | `Deduplicated` | a module is added twice (`module.c:20`) |
| `tlc -config HistoryDisconnect.cfg MCHistory.tla` | `InBounds` | reading a recorded disconnect of feedback writes in front of the modules (`connector.c:36`) |

## Not modelled, and why

- Copy and export jobs: a thin layer over what `Threads` models.
- Processing modules, shaders, Vulkan objects, ray tracing, sound: numeric code, or
  fixed sequences of calls into drivers. This is most of the source by lines,
  together with vendored code (`nuklear.h`, `tinyexr.h`) and drawing.
- Parsing and formatting beyond `History`'s lines; collections, tags, ratings, filters.

## What could come next

1. The file system steps of two writers of one thumbnail (`o-bc1/main.c:50`), and the
   displays one by one in `GraphDisplay` (`graph-display.c:209`).
2. Staging memory in `NodeMemory` composed with `GraphDisplay`'s overlapping dispatches
   (`graph-run-nodes-allocate.h:1326`).
