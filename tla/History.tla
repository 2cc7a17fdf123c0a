------------------------------ MODULE History ------------------------------
(***************************************************************************)
(* The undo history of a darkroom graph (pipe/graph-history.h) over the    *)
(* module graph, with the lines of pipe/graph-io.c it is made of.  Every   *)
(* edit changes the graph and records a line; going back in the history    *)
(* disconnects everything, resets all parameters and reads the lines up to *)
(* the item again, on the modules that are there now.  Leaving and         *)
(* entering the darkroom writes the graph out flat and reads it in again.  *)
(***************************************************************************)
EXTENDS ModuleGraph, Sequences

CONSTANTS Preview,     \* key of the display:dspy module, or NoKey
          WithParam,   \* keys of modules that have a parameter
          UserValues,  \* the values a user sets
          MaxValue,    \* not incremented further
          Configs,     \* the configuration files to start from
          ItemMax,     \* history_item_max
          Oldest,      \* how far back the user goes
          MaxEdits,    \* how many edits the user makes
          LookBack     \* how many items back a value can be replaced

VARIABLES hist,  \* history_item[0 .. history_item_end)
          cur,   \* history_item_cur
          snap,  \* history: what the user saw when the item was recorded
          vague, \* history: the graph was changed past the history, nothing is promised
          edits  \* history: how many edits were made

hvars == <<g, hist, cur, snap, vague, edits>>

\* Op(x), written so that TLC evaluates x once
Once(Op(_), x) == CHOOSE y \in {Op(v) : v \in {x}} : TRUE

\* Op(... Op(x, s[1]) ..., s[Len(s)])
Through(Op(_, _), x, s) ==
  LET after[n \in 0 .. Len(s)] ==
        IF n = 0 THEN x ELSE Once(LAMBDA v : Op(v, s[n]), after[n - 1])
  IN  after[Len(s)]

-----------------------------------------------------------------------------
(* Lines *)

\* The name "-1" in place of a module that is not connected
Nowhere == <<NoKey, -1>>
Named(h, o) == IF o = Unset THEN Nowhere ELSE <<h.mod[o[1]], o[2]>>

Line(cmd, k, c, from, v) ==
  [cmd |-> cmd, mod |-> k, conn |-> c, from |-> from, val |-> v]

\* What the program writes into a file or a history: the connectors are there.
Lines ==
  {l \in [cmd : {"module", "param", "paraminc", "connect", "feedback"}, mod : Keys,
          conn : Conns, from : (Keys \X Conns) \cup {Nowhere}, val : Int] :
     IF l.cmd \in {"connect", "feedback"}
     THEN /\ Class[l.mod][l.conn].io = "in"
          /\ l.from = Nowhere \/ Class[l.from[1]][l.from[2]].io = "out"
     ELSE l.from = Nowhere}

ASSUME HistoryAssumption ==
  /\ Preview # NoKey =>
       /\ Preview \in Keys /\ Class[Preview][0].io = "in"
       /\ \A c \in Conns \ {0} : Class[Preview][c].io = "none"
  /\ WithParam \subseteq Keys
  /\ \A k \in Keys, c \in Conns : Class[k][c].io = "in" => Class[k][c].chan # "&"
  /\ UserValues \subseteq Params
  /\ \A file \in Configs : file \in Seq(Lines)
  /\ MaxEdits \in Nat /\ LookBack \in Nat

ModuleLine(h, s) == Line("module", h.mod[s], 0, Nowhere, 0)
ParamLine(h, s)  == Line("param", h.mod[s], 0, Nowhere, h.par[s])

\* Mutant: feedback is written like any other connection
ConnLine_Plain(h, i) ==
  Line("connect", h.mod[i[1]], i[2], Named(h, h.src[i]), 0)

\* dt_graph_write_connection_ascii: also says when nothing is connected
ConnLine(h, i) ==
  Line(IF i \in h.fb THEN "feedback" ELSE "connect", h.mod[i[1]], i[2],
       Named(h, h.src[i]), 0)

ReadParam(h, l, add) ==
  LET s == Get(h, l.mod)
  IN  IF s = -1 \/ l.mod \notin WithParam THEN h
      ELSE [h EXCEPT !.par = [h.par EXCEPT ![s] = (IF add THEN @ ELSE 0) + l.val]]

\* read_connection_ascii; a line about a module that is gone is skipped.
ReadConnection(h, l) ==
  LET m0 == IF l.from = Nowhere THEN -1 ELSE Get(h, l.from[1])
      m1 == Get(h, l.mod)
      o  == IF l.from = Nowhere THEN Unset ELSE <<m0, l.from[2]>>
      i  == <<m1, l.conn>>
  IN  IF (l.from # Nowhere /\ m0 = -1) \/ m1 = -1 THEN h
      ELSE IF l.cmd = "feedback" THEN Feedback(h, o, i) ELSE Connect(h, o, i)

\* dt_graph_read_config_line: no line is fatal
ReadLine(h, l) ==
  CASE l.cmd = "module" -> Added(h, l.mod)
    [] l.cmd \in {"param", "paraminc"} -> ReadParam(h, l, l.cmd = "paraminc")
    [] OTHER -> ReadConnection(h, l)

ReadLines(h, ls) == Through(ReadLine, h, ls)

\* The elements of s that are in S
Picked(s, S) == Through(LAMBDA q, x : IF x \in S THEN Append(q, x) ELSE q, <<>>, s)

\* In the order of the loops over modules and their connectors
SlotSeq(S) == Picked([n \in 1 .. NumSlots |-> n - 1], S)
PinSeq(P) ==
  Picked([n \in 1 .. NumSlots * NumConns |-> <<(n - 1) \div NumConns, (n - 1) % NumConns>>], P)
Mapped(Op(_), s) == [n \in DOMAIN s |-> Op(s[n])]

\* The whole graph in lines, the open inputs too or not
Flat(h, P) ==
  LET ms == SlotSeq(Live(h))
  IN  Mapped(LAMBDA s : ModuleLine(h, s), ms)
      \o Mapped(LAMBDA p : ConnLine(h, p), PinSeq(P))
      \o Mapped(LAMBDA s : ParamLine(h, s), SlotSeq({s \in Live(h) : h.mod[s] \in WithParam}))
HistoryLines(h) == Flat(h, Inputs(h))
ConfigLines(h)  == Flat(h, {p \in Inputs(h) : h.src[p] # Unset})

\* Mutant: parameters keep the values they have now
Blank_Params(h) == Unlink(h, Pins)

\* dt_graph_history_set before it reads the lines
Blank(h) ==
  [Unlink(h, Pins) EXCEPT
     !.par = [s \in Slots |-> IF s \in Live(h) THEN Default ELSE h.par[s]]]

-----------------------------------------------------------------------------
(* What the user sees, by the names of the modules *)

View(h) ==
  [k \in Keys \ {Preview} |->
     LET s == Get(h, k)
     IN  IF s = -1 THEN <<>>
         ELSE [par |-> h.par[s],
               src |-> [c \in Conns |-> IF IsIn(h, <<s, c>>) THEN Named(h, h.src[<<s, c>>])
                                        ELSE Nowhere],
               fb  |-> {c \in Conns : <<s, c>> \in h.fb /\ h.src[<<s, c>>] # Unset}]]
Nothing == [k \in Keys \ {Preview} |-> <<>>]

\* All modules of v are there and look the same; there may be more.
Shows(h, v) == \A k \in DOMAIN v : v[k] # <<>> => View(h)[k] = v[k]

\* An open connector with a format that is not the one of its class, left
\* behind by a connection that failed halfway
Stained(h) ==
  \E p \in Inputs(h) \cup Outputs(h) :
    /\ IF IsIn(h, p) THEN h.src[p] = Unset ELSE h.ref[p] = 0
    /\ <<h.chan[p], h.fmt[p]>> # <<PinClass(h, p).chan, PinClass(h, p).fmt>>

\* Nothing is known of what the lines about such a graph bring back.
Unclear(h) == Stained(h) \/ ~Unique(h)

\* The formats do not depend on the order of the connections: an output of
\* any format that got one other than the default got it from all readers.
OrderFree(h) ==
  \A o \in Outputs(h) :
    LET rs == {PinClass(h, r) : r \in Readers(h, o)}
        c  == PinClass(h, o)
    IN  /\ c.chan # "*" \/ h.chan[o] = "rgba" \/ \A r \in rs : r.chan # "*"
        /\ c.fmt  # "*" \/ h.fmt[o]  = "f16"  \/ \A r \in rs : r.fmt # "*"

-----------------------------------------------------------------------------
(* Recording: an edit is a value of the variables, passed from call to call *)

State == [g |-> g, hist |-> hist, cur |-> cur, snap |-> snap, vague |-> vague]
Is(edited) == \E e \in {edited} : /\ g' = e.g /\ hist' = e.hist /\ cur' = e.cur
                                 /\ snap' = e.snap /\ vague' = e.vague

\* _dt_graph_history_check_buf cuts off what was undone, room or not.
Cut(e) == [e EXCEPT !.hist = SubSeq(e.hist, 1, e.cur), !.snap = SubSeq(e.snap, 1, e.cur)]

\* A module stays when its own line is cut off: then nothing would bring it
\* back after a removal, and the lines about it may be read before it is there.
Known(e, k, n) == \E m \in 1 .. n : e.hist[m].cmd = "module" /\ e.hist[m].mod = k
Sourced(e) ==
  \A n \in 1 .. e.cur, k \in Keys \ {Preview} :
    k \in {e.hist[n].mod, e.hist[n].from[1]} => Known(e, k, n)

\* A line that connects the preview is read again, but the preview has been
\* released since: an output of any format would be bound to the preview's.
Loose(o) == "*" \in {Class[o[1]][o[2]].chan, Class[o[1]][o[2]].fmt}
Previewed(e) ==
  \E n \in 1 .. e.cur : LET l == e.hist[n]
                        IN  l.mod = Preview /\ l.from # Nowhere /\ Loose(l.from)

\* Removed and added again, it has the default value, but the lines with the
\* values it had the first time are still read.
Haunted(e, k) ==
  \E m, n \in 1 .. e.cur : /\ m < n /\ e.hist[m].mod = k /\ e.hist[n].mod = k
                          /\ e.hist[m].cmd \in {"param", "paraminc"}
                          /\ e.hist[n].cmd = "module"

\* What the new item promises to bring back
Claim(e) ==
  IF e.vague \/ ~Sourced(e) \/ Previewed(e) THEN Nothing
  ELSE LET v == View(e.g)
       IN  [k \in DOMAIN v |-> IF Known(e, k, e.cur) /\ ~Haunted(e, k) THEN v[k] ELSE <<>>]

Recording(e, l) ==
  LET c == Cut(e)
  IN  IF c.cur >= ItemMax THEN [c EXCEPT !.vague = TRUE]
      ELSE LET n == [c EXCEPT !.hist = Append(@, l), !.cur = @ + 1]
           IN  [n EXCEPT !.snap = Append(@, Claim(n))]
Record(edited, l) == Once(LAMBDA e : Recording(e, l), edited)

\* dt_graph_history_append: the last value of the parameter is replaced if it
\* is among the last items and not too old, and stays where it was.
SameParam(l, k) == l.cmd = "param" /\ l.mod = k
Replaced(c, l) ==
  {j \in 1 .. c.cur : j > c.cur - LookBack /\ SameParam(c.hist[j], l.mod)}
RecordParam(e, l, recent) ==
  LET c == Cut(e)
      R == Replaced(c, l)
      j == CHOOSE r \in R : \A q \in R : q <= r
      blur == \E q \in j + 1 .. c.cur : c.hist[q].cmd = "paraminc" /\ c.hist[q].mod = l.mod
      now(v) == IF v[l.mod] = <<>> THEN v ELSE [v EXCEPT ![l.mod].par = l.val]
  IN  IF c.cur >= ItemMax \/ ~recent \/ R = {} THEN Record(e, l)
      ELSE [c EXCEPT !.hist[j] = l,
                     !.vague = @ \/ blur,
                     !.snap = [q \in DOMAIN c.snap |->
                                 IF q < j THEN c.snap[q]
                                 ELSE IF blur THEN Nothing ELSE now(c.snap[q])]]

\* The input of the preview display is released before an edit, unrecorded.
NoPreview(h) ==
  LET s == Get(h, Preview) IN IF s = -1 THEN h ELSE Connect(h, Unset, <<s, 0>>)

\* dt_module_connect_with_history
ConnectEdit(e, o, i) ==
  LET Made(h) == IF ConnectFails(h, o, i)
                 THEN Once(LAMBDA n : [e EXCEPT !.g = n, !.vague = @ \/ n # h],
                           Connect(h, o, i))
                 ELSE Once(LAMBDA n : Record([e EXCEPT !.g = n], ConnLine(n, i)),
                           Connect(h, o, i))
  IN  Once(Made, NoPreview(e.g))

ConnectEdits(e, ps) == Through(LAMBDA f, p : ConnectEdit(f, p[1], p[2]), e, ps)

-----------------------------------------------------------------------------
(* Edits *)

AddEdit(k) ==
  LET n == [State EXCEPT !.g = Added(g, k), !.vague = @ \/ ~Unique(Added(g, k))]
  IN  Is(IF AddId(g, k) = -1 THEN n ELSE Record(n, ModuleLine(n.g, AddId(g, k))))

Connecting(o, i) == /\ o \in Outputs(g) \cup {Unset}
                    /\ i \in Inputs(g)
                    /\ Is(ConnectEdit(State, o, i))

\* The preview holds the formats of an output of any format.
Bound(h) ==
  LET s == Get(h, Preview)
  IN  s # -1 /\ h.src[<<s, 0>>] # Unset /\ Loose(Named(h, h.src[<<s, 0>>]))

\* dt_module_feedback_with_history; the preview is not released.
FeedbackEdit(o, i) ==
  /\ o \in Outputs(g) /\ i \in Inputs(g)
  /\ LET n == [State EXCEPT !.g = Feedback(g, o, i), !.vague = @ \/ Bound(g)]
     IN  Is(IF InternalFails(g, o, i) THEN [n EXCEPT !.vague = TRUE]
            ELSE Record(n, ConnLine(n.g, i)))

\* dt_gui_dr_remove_module: close the gap in the chain, disconnect the rest
\* pin by pin, and remove the module, which is not recorded itself.
In(h, s)  == {<<s, c>> : c \in {d \in Conns : IsIn(h, <<s, d>>)}}
Out(h, s) == {<<s, c>> : c \in {d \in Conns : IsOut(h, <<s, d>>)}}
Bridge(e, s) ==
  LET h  == NoPreview(e.g)
      i  == <<s, 0>>
      o  == <<s, 1>>
      n  == [e EXCEPT !.g = h]
      rs == PinSeq(Readers(h, o))
      Next1(f, r) == IF f.bad THEN f
                     ELSE [e |-> ConnectEdit(f.e, h.src[i], r),
                           bad |-> ConnectFails(NoPreview(f.e.g), h.src[i], r)]
  IN  IF In(h, s) = {i} /\ Out(h, s) = {o} /\ h.src[i] # Unset /\ rs # <<>>
      THEN Through(Next1, [e |-> ConnectEdit(n, Unset, i), bad |-> FALSE], rs).e
      ELSE n

LoosePins(h, s) == PinSeq(In(h, s)) \o PinSeq(ReadersOf(h, s))
Forget(e, k) ==
  [e EXCEPT !.snap = [q \in DOMAIN e.snap |->
                        IF q = e.cur THEN [e.snap[q] EXCEPT ![k] = <<>>] ELSE e.snap[q]]]
RemoveEdit(s) ==
  /\ s \in Live(g) /\ g.mod[s] # Preview
  /\ LET b == Bridge(State, s)
         t == Get(b.g, g.mod[s])
         f == ConnectEdits(b, Mapped(LAMBDA p : <<Unset, p>>, LoosePins(b.g, t)))
     IN  Is(Once(LAMBDA e : [Forget(e, g.mod[s]) EXCEPT !.g = Removed(e.g, {t})], f))

\* A widget: throttled while it is dragged
ParamEdit(s, v, recent) ==
  /\ s \in Live(g) /\ g.mod[s] \in WithParam
  /\ g.par[s] # v
  /\ LET n == [State EXCEPT !.g.par = [g.par EXCEPT ![s] = v]]
     IN  Is(RecordParam(n, ParamLine(n.g, s), recent))

\* dt_keyaccel_exec and the presets: a line is read and recorded as it is.
LineEdit(s) ==
  /\ s \in Live(g) /\ g.mod[s] \in WithParam
  /\ g.par[s] < MaxValue
  /\ LET l == Line("paraminc", g.mod[s], 0, Nowhere, 1)
     IN  Is(Record([State EXCEPT !.g = ReadLine(g, l)], l))

\* dt_darkroom_activate_module: show the module's output s, unrecorded.
Activate(o) ==
  /\ Preview # NoKey /\ o \in Outputs(g)
  /\ LET h == Added(g, Preview)
         s == AddId(g, Preview)
     IN  /\ s # -1
         /\ g' = Connect(h, o, <<s, 0>>)
  /\ vague' = (vague \/ Unclear(g'))
  /\ UNCHANGED <<hist, cur, snap>>

\* dt_graph_history_set: undo (cur - 2), redo (cur) and a click on any item
Set(item) ==
  /\ item \in 0 .. Len(hist) - 1
  /\ cur' = item + 1
  /\ \E b \in {Blank(g)} : g' = ReadLines(b, SubSeq(hist, 1, cur'))
  /\ vague' = \/ Unclear(g) \/ Unclear(g')
              \/ \E n \in 1 .. cur' : hist[n].cmd = "module" /\ Get(g', hist[n].mod) = -1
  /\ UNCHANGED <<hist, snap>>

\* dt_graph_history_reset
FreshHistory(h) ==
  LET ls == HistoryLines(h)
      e  == [g |-> h, hist |-> ls, cur |-> Len(ls), snap |-> <<>>,
             vague |-> Unclear(h) \/ ~OrderFree(h)]
  IN  /\ hist' = ls
      /\ cur' = Len(ls)
      /\ snap' = [n \in DOMAIN ls |-> IF n < Len(ls) THEN Nothing ELSE Claim(e)]
      /\ vague' = e.vague

\* darkroom_leave writes the graph, darkroom_enter reads it into an empty one.
Reenter ==
  /\ g' = ReadLines(Empty, ConfigLines(g))
  /\ FreshHistory(g')

HInit ==
  \E file \in Configs :
    LET h  == ReadLines(Empty, file)
        ls == HistoryLines(h)
    IN  /\ g = h
        /\ hist = ls
        /\ cur = Len(ls)
        /\ snap = [n \in DOMAIN ls |-> Nothing]
        /\ vague = (Unclear(h) \/ ~OrderFree(h))
        /\ edits = 0

Edit ==
  \/ \E k \in Keys \ {Preview} : AddEdit(k)
  \/ \E o \in Pins \cup {Unset}, i \in Pins : Connecting(o, i)
  \/ \E o, i \in Pins : FeedbackEdit(o, i)
  \/ \E s \in Slots : RemoveEdit(s)
  \/ \E s \in Slots, v \in UserValues, recent \in BOOLEAN : ParamEdit(s, v, recent)
  \/ \E s \in Slots : LineEdit(s)
  \/ \E o \in Pins : Activate(o)

HNext ==
  \/ edits < MaxEdits /\ edits' = edits + 1 /\ Edit
  \/ UNCHANGED edits /\ (Reenter \/ \E n \in Oldest .. ItemMax : Set(n))

HSpec == HInit /\ [][HNext]_hvars

-----------------------------------------------------------------------------
HTypeOK ==
  /\ g \in Graph
  /\ cur \in 0 .. Len(hist)
  /\ Len(snap) = Len(hist)
  /\ vague \in BOOLEAN
  /\ edits \in 0 .. MaxEdits

\* Going back or forth in the history brings back what the user saw when the
\* item was recorded: all its modules, how they were connected, and their
\* parameters, whatever was added, removed or shown in between.  Claim leaves
\* out what the lines up to the item cannot tell, vague what no line tells.
BringsBack ==
  cur > 0 /\ ~vague => Shows(g, snap[cur])

\* Leaving the darkroom now and coming back would lose nothing.
\* (Two modules of one name become one, and which wildcards get which format
\* depends on the order of the connections: OrderFree.)
RoundTrip ==
  Unique(g) /\ OrderFree(g) =>
    LET h == ReadLines(Empty, ConfigLines(g))
    IN  Shows(h, View(g)) /\ Shows(g, View(h))

\* A recorded disconnect event can be read back: nothing is written in front
\* of the modules (dt_graph_write_connection_ascii, dt_module_feedback).
InBounds == ~g.oob
=============================================================================
