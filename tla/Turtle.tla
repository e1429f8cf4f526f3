------------------------------ MODULE Turtle ------------------------------
(***************************************************************************)
(* Turtle graphics (graphics.c, with the wxWidgets device of wxGraphics.h  *)
(* and wxTurtleGraphics.cpp): how the turtle moves in WRAP, FENCE and      *)
(* WINDOW mode, and the record of drawing commands from which              *)
(* redraw_graphics paints the window again and prints it.                  *)
(*                                                                         *)
(* Coordinates are whole steps about the centre, headings the four axes,   *)
(* the scrunch is 1.  drawn is what the device has been asked to draw      *)
(* since it was last cleared.                                              *)
(***************************************************************************)
EXTENDS Integers, Sequences

CONSTANTS
    Width, Height,  \* screen_width, screen_height: pixels 0 .. Width
    Steps,          \* inputs of FORWARD (negative: BACK)
    Xs, Ys,         \* inputs of SETX and SETY
    LabelLens,      \* lengths of labels
    GrSize,         \* GR_SIZE, bytes of a record buffer
    MaxOps          \* bound on the commands

ASSUME TurtleAssumption ==
    /\ Width \in Nat \ {0} /\ Height \in Nat \ {0} /\ MaxOps \in Nat /\ GrSize \in Nat
    /\ Steps \subseteq Int \ {0} /\ Xs \subseteq Int /\ Ys \subseteq Int /\ LabelLens \subseteq Nat

VARIABLES
    pos, heading,   \* turtle_x and turtle_y, turtle_heading
    mode,           \* current_mode
    wanna, out_of_bounds,
    goal, left,     \* who called forward_helper, and its distance still to go
    pen,            \* xgr_pen: visibility, mode, colour, width
    penmode,        \* internal_penmode
    dev,            \* xgr_pen's position
    spot,           \* turtlePosition: where a flood fill starts
    orig_vis,       \* orig_pen's visibility
    rec,            \* the record: chained buffers, cur and n of them in use
    last_recorded,
    refresh_p,
    filled,         \* the FILLED that runs, or Idle
    drawn,
    file,           \* a picture that SAVEPICT wrote
    whole,          \* history: the record is meant to hold what is drawn
    sync,           \* history: nothing has parted the turtle from wanna
    ops

place == <<pos, heading, mode, wanna, out_of_bounds>>
going == <<goal, left>>
device == <<pen, penmode, dev, spot, orig_vis, drawn>>
record == <<rec, last_recorded>>
other == <<refresh_p, filled, file>>
vars == <<place, going, device, record, other, whole, sync, ops>>

Center == <<0, 0>>
Right == Width - (Width \div 2)     \* turtle_right_max
Left == -(Width \div 2)
Top == Height \div 2
Bottom == (Height \div 2) - Height
Inside(p) == p[1] \in Left .. Right /\ p[2] \in Bottom .. Top

Idle == [on |-> FALSE]
Vis(p) == p.vis = 0

---------------------------------------------------------------------------
(* The record.  A buffer is the sequence of its entries; what lies after   *)
(* the first n entries of buffer cur is stale, and each writer ends with   *)
(* FINISHED, which cuts it off.                                            *)

Words(k) == 8 * k
Size(e) ==
    CASE e[1] \in {"SETPENVIS", "FILLERUP", "NEXTBUFFER"} -> Words(1)
      [] e[1] = "SETPENCOLOR" -> Words(2)
      [] e[1] \in {"LINEXY", "MOVEXY", "SETPENMODE", "SETPENSIZE", "STARTFILL", "ENDFILL"} -> Words(3)
      [] e[1] = "COLORFILL" -> Words(4)
      [] e[1] = "ARC" -> Words(9)
      [] e[1] = "LABEL" -> ((10 + e[2] + 7) \div 8) * 8

Bytes(b) ==
    LET sum[i \in 0 .. Len(b)] == IF i = 0 THEN 0 ELSE sum[i - 1] + Size(b[i])
    IN sum[Len(b)]
Index(r) == Words(1) + Bytes(SubSeq(r.bufs[r.cur], 1, r.n))

(* Mutant: no margin is kept for the next entry.                           *)
SafeToSaveFull(r) ==
    IF Index(r) < GrSize THEN r
    ELSE [bufs |-> Append([r.bufs EXCEPT ![r.cur] = Append(SubSeq(@, 1, r.n), <<"NEXTBUFFER">>)],
                          <<<<"garbage">>>>),
          cur |-> r.cur + 1, n |-> 0]

(* safe_to_save, when it may save: room for one more entry in this buffer, *)
(* or in the next one, which may be left from a longer picture.            *)
SafeToSave(r) ==
    IF Index(r) < GrSize - 300 THEN r
    ELSE LET closed == [r.bufs EXCEPT ![r.cur] = Append(SubSeq(@, 1, r.n), <<"NEXTBUFFER">>)]
         IN [bufs |-> IF r.cur < Len(r.bufs) THEN closed ELSE Append(closed, <<<<"garbage">>>>),
             cur |-> r.cur + 1, n |-> 0]

Put(r, e) ==
    [r EXCEPT !.bufs[r.cur] = Append(SubSeq(@, 1, r.n), e), !.n = r.n + 1]

(* The one element of a set.  TLC computes the elements of a set once.     *)
The(S) == CHOOSE x \in S : TRUE

Save(r, e) == The({Put(s, e) : s \in {SafeToSave(t) : t \in {r}}})

(* save_move: a move takes the place of a move before it.  The code steps  *)
(* back by a move's bytes; after LOADPICT, whose last_recorded is stale,   *)
(* that may end inside an entry, where here the last entry goes.  Nothing  *)
(* is said of what is drawn then (whole).                                  *)
SaveMove(r, p) ==
    The({IF Index(s) >= Words(3) /\ last_recorded = "MOVEXY" /\ ~filled.on
           THEN Put([s EXCEPT !.n = @ - 1], <<"MOVEXY", p>>)
           ELSE Put(s, <<"MOVEXY", p>>) : s \in {SafeToSave(t) : t \in {r}}})

SaveLine(r, p) == Save(r, <<"LINEXY", p>>)
SaveVis(r, p) == Save(r, <<"SETPENVIS", p.vis>>)
SaveColor(r, p) == Save(r, <<"SETPENCOLOR", p.color>>)
SaveSize(r, p) == Save(r, <<"SETPENSIZE", p.size>>)
SaveMode(r, p, m) == SaveColor(Save(r, <<"SETPENMODE", p.md, m>>), p)
SaveString(r, len) == Save(r, <<"LABEL", len>>)
SaveArc(r, c) == Save(r, <<"ARC", c>>)

(* The entries a reader sees: buffer after buffer, up to FINISHED.         *)
Live(b) == IF b # <<>> /\ b[Len(b)][1] = "NEXTBUFFER" THEN SubSeq(b, 1, Len(b) - 1) ELSE b
Entries(r) ==
    LET upTo[i \in 0 .. r.cur] == IF i = 0 THEN <<>> ELSE upTo[i - 1] \o Live(r.bufs[i])
    IN upTo[r.cur]

---------------------------------------------------------------------------
(* The device.  An item is what is seen.  Its tag is no part of it: it     *)
(* says that the record is known to have it in another place ("stray").    *)

Item(what, tag) == <<[what |-> what, tag |-> tag]>>
Ink(p) == <<p.md, p.color, p.size>>
Line(a, b, p, tag) == IF Vis(p) THEN Item(<<"line", a, b, Ink(p)>>, tag) ELSE <<>>

(* An arc of two segments about c, from above it to below it.  do_arc      *)
(* begins where the first segment ends when it reads the record.           *)
Up(c) == <<c[1], c[2] + 1>>
Side(c) == <<c[1] + 1, c[2]>>
Down(c) == <<c[1], c[2] - 1>>
DoArc(c, p, save) ==
    (IF save THEN Line(Side(c), Side(c), p, "") ELSE Line(Up(c), Side(c), p, "stray"))
      \o Line(Side(c), Down(c), p, "") \o Line(Down(c), Down(c), p, "")

(* redraw_graphics, entry after entry, from restore_pen(&orig_pen) on.  An *)
(* entry is read with the turtle where the one before left it.             *)
Fresh(vis) == [last |-> Center, dev |-> Center, spot |-> Center, imode |-> "PAINT",
               wanna |-> Center, points |-> <<>>, on |-> FALSE, out |-> <<>>, pcolor |-> 0,
               pen |-> [vis |-> vis, md |-> "PAINT", color |-> 7, size |-> 1]]

Visit(s, p) == IF s.on THEN [s EXCEPT !.points = Append(@, p)] ELSE s
Replay1(s, e) ==
    CASE e[1] = "LINEXY" ->
           Visit([s EXCEPT !.out = @ \o Line(s.dev, e[2], s.pen, ""), !.dev = e[2],
                           !.spot = e[2], !.last = e[2]], e[2])
      [] e[1] = "MOVEXY" ->
           Visit([s EXCEPT !.dev = e[2], !.spot = s.last, !.last = e[2]], e[2])
      [] e[1] = "LABEL" ->
           IF e[2] > 127 THEN [s EXCEPT !.out = @ \o Item(<<"garbage">>, "")]   \* a signed char
           ELSE [s EXCEPT !.out = @ \o Item(<<"label", s.dev, Ink(s.pen)>>, ""),
                          !.dev = s.last, !.spot = s.last]
      [] e[1] = "SETPENVIS" -> [s EXCEPT !.pen.vis = e[2]]
      [] e[1] = "SETPENMODE" -> [s EXCEPT !.pen.md = e[2], !.imode = e[3]]
      [] e[1] = "SETPENCOLOR" -> [s EXCEPT !.pen.color = e[2]]
      [] e[1] = "SETPENSIZE" -> [s EXCEPT !.pen.size = e[2]]
      [] e[1] = "FILLERUP" -> [s EXCEPT !.out = @ \o Item(<<"fill", s.spot, s.pen.color>>, "")]
      [] e[1] = "ARC" ->
           [s EXCEPT !.out = @ \o DoArc(e[2], s.pen, TRUE), !.dev = e[2], !.spot = e[2], !.wanna = e[2]]
      [] e[1] = "STARTFILL" -> [s EXCEPT !.on = TRUE, !.points = <<s.last>>, !.pcolor = e[2]]
      [] e[1] = "ENDFILL" ->
           [s EXCEPT !.on = FALSE,
                     !.out = @ \o Item(<<"polygon", s.points, s.pcolor, Ink(s.pen)>>, "")]
      [] OTHER -> [s EXCEPT !.out = @ \o Item(<<"garbage">>, "")]

Run(es, vis) ==
    LET run[i \in 0 .. Len(es)] ==
            IF i = 0 THEN Fresh(vis) ELSE The({Replay1(t, es[i]) : t \in {run[i - 1]}})
    IN run[Len(es)]
Replay(r, vis) == The({Run(es, vis) : es \in {Entries(r)}})

(* Where a redraw would have its pen when the next entry is read.          *)
RecDev == Replay(rec, orig_vis).dev
Tag(b) == IF b THEN "" ELSE "stray"

Recorded(r, op) ==
    IF refresh_p THEN rec' = r /\ last_recorded' = op ELSE UNCHANGED record

EmptyRec == [bufs |-> <<<<>>>>, cur |-> 1, n |-> 0]
None == [kind |-> "none"]

(* After a CLEARSCREEN.                                                    *)
Init ==
    /\ pos = Center /\ heading = 0 /\ mode = "wrap"
    /\ wanna = Center /\ out_of_bounds = FALSE
    /\ left = 0 /\ goal = None
    /\ pen = Fresh(0).pen /\ penmode = "PAINT" /\ dev = Center /\ spot = Center /\ orig_vis = 0
    /\ rec = EmptyRec /\ last_recorded = "none" /\ refresh_p = TRUE
    /\ filled = Idle /\ drawn = <<>> /\ file = Idle
    /\ whole = TRUE /\ sync = TRUE /\ ops = 0

Command == goal = None /\ ops < MaxOps /\ ops' = ops + 1

---------------------------------------------------------------------------
(* Motion.                                                                 *)

Dir(h) == CASE h = 0 -> <<0, 1>> [] h = 90 -> <<1, 0>> [] h = 180 -> <<0, -1>> [] h = 270 -> <<-1, 0>>
Plus(p, k, d) == <<p[1] + k * d[1], p[2] + k * d[2]>>
Abs(k) == IF k < 0 THEN -k ELSE k
Sign(k) == IF k < 0 THEN -1 ELSE 1

(* The edge that the turtle meets when it goes from p in direction d, and  *)
(* where it appears on the other side.                                     *)
Edge(p, d) ==
    CASE d[1] = 1 -> <<Right, p[2]>> [] d[1] = -1 -> <<Left, p[2]>>
      [] d[2] = 1 -> <<p[1], Top>>   [] OTHER -> <<p[1], Bottom>>
Opposite(p, d) == Edge(p, <<-d[1], -d[2]>>)
Apart(p, q) == Abs(p[1] - q[1]) + Abs(p[2] - q[2])

RightTurn ==
    /\ Command /\ heading' = (heading + 90) % 360
    /\ UNCHANGED <<pos, mode, wanna, out_of_bounds, going, device, record, other, whole, sync>>

Forward ==
    /\ Command
    /\ \E d \in Steps : left' = d
    /\ goal' = [kind |-> "forward", dir |-> Dir(heading)]
    /\ UNCHANGED <<place, device, record, other, whole, sync>>

(* Mutant: FORWARD forgets where SETPOS would start.                       *)
ArriveKeepsWanna(p) ==
    /\ goal' = None /\ left' = 0
    /\ IF goal.kind = "forward"
         THEN UNCHANGED wanna /\ out_of_bounds' = FALSE
         ELSE wanna' = goal.to /\ out_of_bounds' = ~Inside(goal.to)

(* forward sets wanna to the turtle; setpos_commonpart to its own target.  *)
Arrive(p) ==
    /\ goal' = None /\ left' = 0
    /\ IF goal.kind = "forward"
         THEN wanna' = p /\ out_of_bounds' = FALSE
         ELSE wanna' = goal.to /\ out_of_bounds' = ~Inside(goal.to)
Onward(k) == left' = k /\ UNCHANGED <<goal, wanna, out_of_bounds>>

(* One round of forward_helper's wraploop: where it goes, along which way. *)
Way == <<Sign(left) * goal.dir[1], Sign(left) * goal.dir[2]>>
Target == Plus(pos, left, goal.dir)
Free == mode = "window" \/ Inside(Target)
AtEdge == pos = Edge(pos, Way)

(* The corner that PENREVERSE flips before a move, and after one backward. *)
Flips == penmode = "REVERSE" /\ Vis(pen)
Corner == IF Flips /\ left > 0 THEN Line(pos, pos, pen, "") ELSE <<>>
Begun == IF Flips /\ left > 0 THEN SaveLine(SaveMove(rec, pos), pos) ELSE SaveMove(rec, pos)
BeganAs == IF Flips /\ left > 0 THEN "LINEXY" ELSE "MOVEXY"
TailItem(a, b, tag) == IF Flips /\ left < 0 THEN Line(a, b, pen, tag) ELSE <<>>
TailRec(r, b) == IF Flips /\ left < 0 THEN SaveLine(r, b) ELSE r

Moved(p, d, items) ==
    pos' = p /\ dev' = d /\ drawn' = drawn \o items
RestOfMove == UNCHANGED <<heading, mode, pen, penmode, orig_vis, other, whole, ops>>

Draw ==
    /\ goal # None /\ Free
    /\ Moved(Target, Target, Corner \o Line(pos, Target, pen, "") \o TailItem(Target, Target, ""))
    /\ spot' = Target
    /\ Recorded(TailRec(SaveLine(Begun, Target), Target), "LINEXY")
    /\ Arrive(Target)
    /\ sync' = (sync \/ goal.kind = "forward")
    /\ RestOfMove

(* Mutant: the turtle is not put at the other side.                        *)
JumpStays ==
    /\ goal # None /\ ~Free /\ AtEdge
    /\ Moved(pos, Opposite(pos, Way), Corner) /\ spot' = pos
    /\ Recorded(Begun, BeganAs)
    /\ Onward(left)
    /\ sync' = FALSE
    /\ RestOfMove

(* At the edge: the other side, whatever the mode, and as far to go.       *)
Jump ==
    /\ goal # None /\ ~Free /\ AtEdge
    /\ Moved(Opposite(pos, Way), Opposite(pos, Way), Corner) /\ spot' = pos
    /\ Recorded(Begun, BeganAs)
    /\ Onward(left)
    /\ sync' = FALSE
    /\ RestOfMove

(* wrap_right and the other three: a line to the edge, recorded before the *)
(* turtle is put at the other side.                                        *)
Cross ==
    /\ goal # None /\ ~Free /\ ~AtEdge
    /\ LET e == Edge(pos, Way)
           p == IF mode = "wrap" THEN Opposite(pos, Way) ELSE e
           k == IF mode = "wrap" THEN left - Sign(left) * (Apart(pos, e) + 1) ELSE 0
           r == SaveLine(Begun, pos)
       IN /\ Moved(p, IF k = 0 /\ Flips /\ left < 0 THEN p ELSE e,
                   Corner \o Line(pos, e, pen, "stray") \o (IF k = 0 THEN TailItem(e, p, "stray") ELSE <<>>))
          /\ spot' = IF k = 0 /\ Flips /\ left < 0 THEN p ELSE e
          /\ Recorded(IF k = 0 THEN TailRec(r, p) ELSE r, "LINEXY")
          /\ IF k = 0 THEN Arrive(p) ELSE Onward(k)
          /\ sync' = IF k = 0 THEN (sync /\ mode = "wrap") \/ goal.kind = "forward" ELSE sync
    /\ RestOfMove

(* An interrupt found by check_throwing, after save_move.                  *)
Interrupted ==
    /\ goal # None
    /\ dev' = pos /\ spot' = pos
    /\ Recorded(SaveMove(rec, pos), "MOVEXY")
    /\ Arrive(pos)
    /\ sync' = (goal.kind = "forward")
    /\ UNCHANGED <<pos, drawn>> /\ RestOfMove

Advance == Draw \/ Jump \/ Cross

(* setpos_helper, setpos_bynumber: a target in sight is reached at once,   *)
(* in WRAP mode one out of sight by a walk from wanna.                     *)
AxisParallel(a, b) == a[1] = b[1] \/ a[2] = b[2]
Toward(a, b) ==
    CASE b[1] > a[1] -> <<1, 0>> [] b[1] < a[1] -> <<-1, 0>>
      [] b[2] < a[2] -> <<0, -1>> [] OTHER -> <<0, 1>>

SetPos(to) ==
    IF mode = "fence" /\ ~Inside(to)
      THEN /\ dev' = pos /\ spot' = pos                              \* TURTLE_OUT_OF_BOUNDS
           /\ UNCHANGED <<place, going, record, drawn, sync>>
    ELSE IF mode = "wrap" /\ (~Inside(to) \/ out_of_bounds)
      THEN /\ AxisParallel(wanna, to)
           /\ goal' = [kind |-> "setpos", to |-> to, dir |-> Toward(wanna, to)]
           /\ left' = Apart(wanna, to) /\ dev' = pos /\ spot' = pos
           /\ UNCHANGED <<place, record, drawn, sync>>
    ELSE   /\ out_of_bounds' = FALSE /\ wanna' = to /\ pos' = to
           /\ dev' = to /\ spot' = to
           /\ drawn' = drawn \o Line(pos, to, pen, Tag(RecDev = pos))
           /\ Recorded(SaveLine(rec, to), "LINEXY")
           /\ sync' = TRUE
           /\ UNCHANGED <<heading, mode, going>>

SetXY ==
    /\ Command
    /\ \/ \E x \in Xs : SetPos(<<x, pos[2]>>)
       \/ \E y \in Ys : SetPos(<<pos[1], y>>)
    /\ UNCHANGED <<pen, penmode, orig_vis, other, whole>>

(* HOME clears out_of_bounds first.                                        *)
Home ==
    /\ Command
    /\ out_of_bounds' = FALSE /\ wanna' = Center /\ pos' = Center /\ heading' = 0
    /\ dev' = Center /\ spot' = Center
    /\ drawn' = drawn \o Line(pos, Center, pen, Tag(RecDev = pos))
    /\ Recorded(SaveLine(rec, Center), "LINEXY") /\ sync' = TRUE
    /\ UNCHANGED <<mode, going, pen, penmode, orig_vis, other, whole>>

(* WRAP, and FENCE after it, bring the turtle back by whole screens.       *)
Back(x, lo, hi, w) ==
    CASE x > hi -> x - w * ((x - hi + w - 1) \div w)
      [] x < lo -> x + w * ((lo - x + w - 1) \div w)
      [] OTHER -> x
Within(p) == <<Back(p[1], Left, Right, Width), Back(p[2], Bottom, Top, Height)>>

Enclose ==
    /\ Command /\ mode' \in {"wrap", "fence"} \ {mode}
    /\ pos' = Within(pos) /\ dev' = Within(pos) /\ spot' = Within(pos)
    /\ sync' = (sync /\ Inside(pos))
    /\ UNCHANGED <<heading, wanna, out_of_bounds, going, pen, penmode, orig_vis, drawn, record, other, whole>>

Window ==
    /\ Command /\ mode # "window" /\ mode' = "window"
    /\ UNCHANGED <<pos, heading, wanna, out_of_bounds, going, device, record, other, whole, sync>>

(* ARC with its centre at the turtle.                                      *)
Arc ==
    /\ Command /\ ~out_of_bounds /\ \A p \in {Up(pos), Side(pos), Down(pos)} : Inside(p)
    /\ LET hide(r) == Save(r, <<"SETPENVIS", -1>>)
           show(r) == SaveVis(r, pen)
           r1 == show(SaveLine(hide(rec), Up(pos)))
           r2 == show(SaveLine(hide(SaveArc(r1, pos)), pos))
       IN Recorded(show(SaveLine(Save(hide(r2), <<"MOVEXY", pos>>), pos)), "SETPENVIS")
    /\ drawn' = drawn \o DoArc(pos, pen, FALSE)
    /\ dev' = pos /\ spot' = pos /\ wanna' = pos /\ sync' = TRUE
    /\ UNCHANGED <<pos, heading, mode, out_of_bounds, going, pen, penmode, orig_vis, other, whole>>

---------------------------------------------------------------------------
(* The pen, labels and fills.                                              *)

Placement == UNCHANGED <<place, going, dev, spot, orig_vis, other, whole, sync>>

PenUpDown ==
    /\ Command
    /\ \E v \in {0, -1} :
          /\ pen' = [pen EXCEPT !.vis = v]
          /\ Recorded(SaveVis(rec, pen'), "SETPENVIS")
    /\ Placement /\ UNCHANGED <<penmode, drawn>>

(* PENPAINT and PENREVERSE put the pen down (PENERASE is like them).       *)
PenMode ==
    /\ Command
    /\ \E m \in {"PAINT", "REVERSE"} :
          /\ penmode' = m /\ pen' = [pen EXCEPT !.md = m, !.vis = 0]
          /\ Recorded(SaveVis(SaveMode(rec, [pen EXCEPT !.md = m], m), pen'), "SETPENVIS")
    /\ Placement /\ UNCHANGED drawn

(* Mutant: save_color does not set last_recorded.                          *)
SetPenColorStale ==
    /\ Command
    /\ pen' = [pen EXCEPT !.color = IF @ = 7 THEN 4 ELSE 7]
    /\ Recorded(SaveColor(rec, pen'), last_recorded)
    /\ Placement /\ UNCHANGED <<penmode, drawn>>

SetPenColor ==
    /\ Command
    /\ pen' = [pen EXCEPT !.color = IF @ = 7 THEN 4 ELSE 7]
    /\ Recorded(SaveColor(rec, pen'), "SETPENCOLOR")
    /\ Placement /\ UNCHANGED <<penmode, drawn>>

SetPenSize ==
    /\ Command
    /\ pen' = [pen EXCEPT !.size = 3 - @]
    /\ Recorded(SaveSize(rec, pen'), "SETPENSIZE")
    /\ Placement /\ UNCHANGED <<penmode, drawn>>

Label ==
    /\ Command
    /\ \E len \in LabelLens : Recorded(SaveString(rec, len), "LABEL")
    /\ drawn' = drawn \o Item(<<"label", dev, Ink(pen)>>, Tag(RecDev = dev))
    /\ Placement /\ UNCHANGED <<pen, penmode>>

(* The flood starts at spot, and the record has the turtle's position.     *)
Fill ==
    /\ Command
    /\ Recorded(Save(SaveMove(rec, pos), <<"FILLERUP">>), "FILLERUP")
    /\ drawn' = drawn \o Item(<<"fill", spot, pen.color>>,
                              Tag(RecDev = pos /\ spot = pos /\ last_recorded # "MOVEXY"))
    /\ Placement /\ UNCHANGED <<pen, penmode>>

---------------------------------------------------------------------------
(* FILLED.  filled.at is the place of its STARTFILL in the record.  The    *)
(* instructions in between are commands like others, but for CLEARSCREEN   *)
(* and LOADPICT, which leave lfilled with a place in a record that is gone.*)

StartFilled ==
    /\ Command /\ ~filled.on
    /\ refresh_p' = TRUE
    /\ LET r == SafeToSave(rec)
       IN /\ rec' = Put(r, <<"STARTFILL", 0>>)
          /\ filled' = [on |-> TRUE, old |-> refresh_p, cur |-> r.cur, n |-> r.n,
                        at |-> pos, tag |-> Tag(RecDev = pos /\ RecDev = Replay(rec, 0).last)]
    /\ last_recorded' = "STARTFILL"
    /\ UNCHANGED <<place, going, device, file, whole, sync>>

CutBack(r) == [r EXCEPT !.bufs[filled.cur] = SubSeq(@, 1, filled.n), !.cur = filled.cur, !.n = filled.n]

(* The points from the start to ENDFILL are those of lines and moves.      *)
Visited(es) ==
    LET visit[i \in 0 .. Len(es)] ==
            IF i = 0 THEN <<>>
            ELSE IF es[i][1] \in {"LINEXY", "MOVEXY"} THEN Append(visit[i - 1], es[i][2]) ELSE visit[i - 1]
    IN visit[Len(es)]
Since(r) == SubSeq(Entries(r), Len(Entries(CutBack(r))) + 1, Len(Entries(r)))
Points(r) == <<filled.at>> \o The({Visited(es) : es \in {Since(r)}})

EndFilled ==
    /\ Command /\ filled.on /\ refresh_p
    /\ LET done == Save([rec EXCEPT !.bufs[filled.cur][filled.n + 1][2] = 3], <<"ENDFILL">>)
       IN /\ rec' = IF filled.old THEN done ELSE CutBack(done)
          /\ drawn' = drawn \o Item(<<"polygon", Points(done), 3, Ink(pen)>>, filled.tag)
    /\ last_recorded' = "ENDFILL"
    /\ refresh_p' = filled.old /\ filled' = Idle
    /\ UNCHANGED <<place, going, pen, penmode, dev, spot, orig_vis, file, whole, sync>>

(* A throw out of the instructions, or NOREFRESH in them: no polygon, and  *)
(* STARTFILL stays as it is.                                               *)
BreakFilled ==
    /\ Command /\ filled.on
    /\ rec' = IF filled.old \/ ~refresh_p THEN rec ELSE CutBack(rec)
    /\ refresh_p' = filled.old /\ filled' = Idle /\ whole' = FALSE
    /\ UNCHANGED <<place, going, device, last_recorded, file, sync>>

---------------------------------------------------------------------------
(* The record as a whole.                                                  *)

CleanRec(p) ==
    LET r0 == [rec EXCEPT !.bufs[1] = <<>>, !.cur = 1, !.n = 0]
        r1 == IF p = Center THEN r0 ELSE Save(r0, <<"MOVEXY", p>>)
        r2 == IF Vis(pen) THEN r1 ELSE SaveVis(r1, pen)
        r3 == IF penmode = "PAINT" THEN r2 ELSE SaveMode(r2, pen, penmode)
        r4 == IF pen.color = 7 THEN r3 ELSE SaveColor(r3, pen)
    IN IF pen.size = 1 THEN r4 ELSE SaveSize(r4, pen)

(* CLEARSCREEN and CLEAN: the pen stays as it is, so the new record begins *)
(* with what differs from a fresh pen.                                     *)
Clear ==
    /\ Command /\ ~filled.on
    /\ \E centre \in BOOLEAN :
         /\ IF centre
              THEN /\ pos' = Center /\ wanna' = Center /\ heading' = 0 /\ out_of_bounds' = FALSE
                   /\ dev' = Center /\ spot' = Center /\ sync' = TRUE
              ELSE UNCHANGED <<pos, wanna, heading, out_of_bounds, dev, spot, sync>>
    /\ drawn' = <<>> /\ orig_vis' = pen.vis
    /\ LET r == CleanRec(pos')
       IN IF refresh_p
            THEN /\ rec' = r
                 /\ last_recorded' = IF r.n = 0 THEN "none" ELSE r.bufs[r.cur][r.n][1]
            ELSE /\ rec' = [rec EXCEPT !.bufs[1] = <<>>, !.cur = 1, !.n = 0]
                 /\ last_recorded' = "none"
    /\ whole' = (refresh_p /\ penmode = pen.md)    \* LOADPICT may have parted them
    /\ UNCHANGED <<mode, going, pen, penmode, other>>

Refresh ==
    /\ Command /\ refresh_p' = ~refresh_p                  \* REFRESH and NOREFRESH
    /\ whole' = (whole /\ refresh_p')
    /\ UNCHANGED <<place, going, device, record, filled, file, sync>>

(* redraw_graphics puts the pen and the turtle back, and not the position  *)
(* asked for last nor the pen mode.                                        *)
Redraw(r) ==
    IF refresh_p
      THEN LET s == Replay(r, orig_vis)
           IN /\ drawn' = s.out /\ spot' = s.spot /\ penmode' = s.imode
              /\ wanna' = s.wanna /\ out_of_bounds' = FALSE /\ sync' = FALSE
      ELSE UNCHANGED <<drawn, spot, penmode, wanna, out_of_bounds, sync>>

SetBackground ==
    /\ Command /\ Redraw(rec)
    /\ UNCHANGED <<pos, heading, mode, going, pen, dev, orig_vis, record, other, whole>>

SavePict ==
    /\ Command /\ ~filled.on
    /\ file' = [on |-> TRUE, bufs |-> SubSeq(rec.bufs, 1, rec.cur), n |-> rec.n,
                drawn |-> drawn, whole |-> whole, vis |-> orig_vis]
    /\ UNCHANGED <<place, going, device, record, refresh_p, filled, whole, sync>>

(* Mutant: LOADPICT starts to record again in the first buffer.            *)
LoadPictFirst ==
    /\ Command /\ ~filled.on /\ file.on
    /\ LET k == Len(file.bufs)
       IN /\ rec' = [bufs |-> file.bufs \o SubSeq(rec.bufs, k + 1, Len(rec.bufs)), cur |-> 1, n |-> Len(file.bufs[1])]
          /\ Redraw(rec')
    /\ whole' = FALSE
    /\ UNCHANGED <<pos, heading, mode, going, pen, dev, orig_vis, last_recorded, other>>

(* Buffers that LOADPICT does not fill stay chained.  last_recorded is     *)
(* still that of the old record.                                           *)
LoadPict ==
    /\ Command /\ ~filled.on /\ file.on
    /\ LET k == Len(file.bufs)
       IN /\ rec' = [bufs |-> file.bufs \o SubSeq(rec.bufs, k + 1, Len(rec.bufs)), cur |-> k, n |-> file.n]
          /\ Redraw([bufs |-> file.bufs, cur |-> k, n |-> file.n])
    /\ whole' = FALSE
    /\ UNCHANGED <<pos, heading, mode, going, pen, dev, orig_vis, last_recorded, other>>

Draws == PenUpDown \/ PenMode \/ SetPenColor \/ SetPenSize \/ Label \/ Fill \/ Arc
Moves == RightTurn \/ Forward \/ SetXY \/ Home \/ Enclose \/ Window
Records == StartFilled \/ EndFilled \/ BreakFilled \/ Clear \/ Refresh \/ SetBackground \/ SavePict \/ LoadPict

Next == Advance \/ Interrupted \/ Draws \/ Moves \/ Records

(* forward_helper is a loop of one thread.                                 *)
Spec == Init /\ [][Next]_vars /\ WF_vars(Advance)

---------------------------------------------------------------------------
(* Properties                                                              *)

TypeOK ==
    /\ {pos, wanna, dev, spot} \subseteq Int \X Int /\ heading \in {0, 90, 180, 270}
    /\ mode \in {"wrap", "fence", "window"} /\ out_of_bounds \in BOOLEAN
    /\ left \in Int /\ goal.kind \in {"none", "forward", "setpos"}
    /\ pen.vis \in {0, -1} /\ pen.md \in {"PAINT", "REVERSE"} /\ penmode \in {"PAINT", "REVERSE"}
    /\ rec.cur \in DOMAIN rec.bufs /\ rec.n \in 0 .. Len(rec.bufs[rec.cur])
    /\ {refresh_p, filled.on, file.on, whole, sync} \subseteq BOOLEAN /\ ops \in 0 .. MaxOps

(* Each buffer holds its entries and the FINISHED or NEXTBUFFER after them *)
(* (graphics.c:1675: the room that safe_to_save leaves is for the largest).*)
Used(b) == Words(1) + Bytes(b)
RecordFits ==
    /\ \A i \in DOMAIN rec.bufs : i # rec.cur => Used(rec.bufs[i]) <= GrSize
    /\ Index(rec) < GrSize

(* WRAP and FENCE keep the turtle on the screen, also in the middle of a   *)
(* move, when an interrupt stops it (graphics.c:396, 899).                 *)
InBounds == mode # "window" => Inside(pos)

(* As long as all has been recorded since the screen was cleared, a redraw *)
(* draws what was drawn, in the same order with the same pen, apart from   *)
(* the place of the items that are known to be misplaced: a line to an     *)
(* edge and what is drawn before the next move is recorded, the first      *)
(* segment of an arc, a fill just after CLEAN (graphics.c:1825).           *)
Same(seen, r) ==
    /\ Len(seen) = Len(r)
    /\ \A i \in DOMAIN r :
          IF seen[i].tag = "" THEN seen[i].what = r[i].what ELSE seen[i].what[1] = r[i].what[1]
RedrawFaithful == whole /\ ~filled.on => Same(drawn, Replay(rec, orig_vis).out)

(* ... and leaves PENMODE what the pen really does.                        *)
ModesAgree == whole => penmode = pen.md

(* After SETPOS in WRAP mode the turtle is at the image on the torus of    *)
(* the position asked for, from wherever the last SETPOS or FORWARD left   *)
(* it, unless a redraw, an interrupt, WRAP or a start at the edge came in  *)
(* between (graphics.c:805-813).                                           *)
Torus(p, q) == (p[1] - q[1]) % (Width + 1) = 0 /\ (p[2] - q[2]) % (Height + 1) = 0
WannaIsThere == goal = None /\ sync => Torus(pos, wanna)

(* A picture that is loaded is drawn as it was when it was saved, if the   *)
(* pen is up or down when the screen was last cleared as it was then:      *)
(* redraw_graphics starts from orig_pen, which no picture file holds.      *)
PictureComesBack ==
    [][LoadPict /\ file.whole /\ file.vis = orig_vis /\ refresh_p => Same(file.drawn, drawn')]_vars

(* wraploop ends.                                                          *)
ForwardEnds == goal # None ~> goal = None

(* The types; the turtle is on the screen, where SETPOS will look for it,  *)
(* and its pen is what PENMODE says.                                       *)
TurtleInv == TypeOK /\ InBounds /\ ModesAgree /\ WannaIsThere
=============================================================================
