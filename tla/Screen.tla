------------------------------- MODULE Screen -------------------------------
(***************************************************************************)
(* The screen of ffi/framebuffer.lua over the geometry of                  *)
(* ffi/blitbuffer.lua: what is painted in the rotated coordinates of the   *)
(* working buffer, perhaps a viewport of the panel's buffer, is sent to an *)
(* e-ink controller as a region in the panel's own coordinates, as         *)
(* ffi/framebuffer_mxcfb.lua computes it.                                  *)
(*                                                                         *)
(* A buffer is its place in the panel's memory, its rotation and inverse   *)
(* flag.  A pixel is <<column, row>> in the panel's memory; row H is what  *)
(* follows the buffer's memory.  Colours are not modelled, nor padding     *)
(* (the stride is W pixels), nor rotation by the hardware                  *)
(* (forced_rotation).  The user interface refreshes what it painted, and   *)
(* all of it after a rotation or night mode, before it does anything else. *)
(* X_... before X is a variant of X with a plausible bug.                  *)
(***************************************************************************)
EXTENDS Integers

CONSTANTS
  W, H,        \* the panel's columns and rows
  Rects,       \* rectangles painted, blitted to and set as the viewport
  Sources,     \* offset (x, y) into, and size (w, h) of, a blit's source; alike:
               \* of the working buffer's type, stride and inverse flag, not
               \* rotated, and the blit is not left to C
  Alignments,  \* alignment constraints of a refresh; 1 is none
  None

Rect   == [x : Int, y : Int, w : Nat, h : Nat]
Source == [x : Int, y : Int, w : Nat, h : Nat, alike : BOOLEAN]

ASSUME ScreenAssumption ==
  /\ W \in Nat \ {0} /\ H \in Nat \ {0}
  /\ Rects \in SUBSET Rect /\ Sources \in SUBSET Source
  /\ Alignments \in SUBSET (Nat \ {0})
  /\ None \notin Rect /\ None \notin Source

VARIABLES
  device,    \* is_always_portrait and canHWInvert
  full,      \* the panel's buffer (full_bb, or bb without a viewport)
  bb,        \* the working buffer
  viewport, cur_rotation_mode, night_mode,
  pending,   \* (history) what the user interface has yet to refresh, or None
  source,    \* (history) the source of the blit that painted it, or None
  unshown,   \* pixels written and not sent to the controller since
  read,      \* (history) pixels of the source that the last blit read
  sent       \* (history) the region the last step sent to the controller, or None

vars == <<device, full, bb, viewport, cur_rotation_mode, night_mode,
          pending, source, unshown, read, sent>>

Buffer == [x : Int, y : Int, w : Nat, h : Nat, rotation : 0 .. 3, inverse : 0 .. 1]

----------------------------------------------------------------------------
(* Geometry of a buffer *)

Width(b)  == IF b.rotation % 2 = 0 THEN b.w ELSE b.h
Height(b) == IF b.rotation % 2 = 0 THEN b.h ELSE b.w

At(x, y, w, h) == [x |-> x, y |-> y, w |-> w, h |-> h]

getPhysicalCoordinates(b, x, y) ==
  CASE b.rotation = 0 -> <<x, y>>
    [] b.rotation = 1 -> <<b.w - y - 1, x>>
    [] b.rotation = 2 -> <<b.w - x - 1, b.h - y - 1>>
    [] b.rotation = 3 -> <<y, b.h - x - 1>>

getPhysicalRect(b, r) ==
  CASE b.rotation = 0 -> r
    [] b.rotation = 1 -> At(b.w - (r.y + r.h), r.x, r.h, r.w)
    [] b.rotation = 2 -> At(b.w - (r.x + r.w), b.h - (r.y + r.h), r.w, r.h)
    [] b.rotation = 3 -> At(r.y, b.h - (r.x + r.w), r.h, r.w)

ALIGN_DOWN(n, a) == n - (n % a)
ALIGN_UP(n, a)   == ALIGN_DOWN(n + (a - 1), a)

\* getBoundedRect along one axis of a buffer of size max: the offset ...
BoundedOffset(o, max, a) ==
  IF o >= max \/ o < 0 THEN 0 ELSE ALIGN_DOWN(o, a)

\* ... and the length, which the alignment extends at both ends.
AlignedLength(o, n, max, a) ==
  IF o >= max THEN 0
  ELSE IF o < 0 THEN ALIGN_UP(n + o, a)
  ELSE ALIGN_UP(n + (o % a), a)

\* Lets the alignment extend it past the end.
BoundedLength_Unfit(o, n, max, a) == AlignedLength(o, n, max, a)

BoundedLength(o, n, max, a) ==
  LET to == BoundedOffset(o, max, a)
      length == AlignedLength(o, n, max, a)
  IN  IF to + length > max THEN max - to ELSE length

getBoundedRect(b, r, a) ==
  At(BoundedOffset(r.x, Width(b), a), BoundedOffset(r.y, Height(b), a),
     BoundedLength(r.x, r.w, Width(b), a), BoundedLength(r.y, r.h, Height(b), a))

\* Does not move the source with the target.
Clamp_KeepsSource(length, target, from) ==
  IF target < 0 THEN [length |-> length + target, target |-> 0, source |-> from]
  ELSE IF from < 0 THEN [length |-> length + from, target |-> target - from, source |-> 0]
  ELSE [length |-> length, target |-> target, source |-> from]

\* checkBounds: its handling of negative offsets ...
Clamp(length, target, from) ==
  LET n == IF target < 0 THEN length + target ELSE length
      s == IF target < 0 THEN from - target ELSE from
      t == IF target < 0 THEN 0 ELSE target
  IN  IF s < 0 THEN [length |-> n + s, target |-> t - s, source |-> 0]
      ELSE [length |-> n, target |-> t, source |-> s]

\* ... and what it returns: how much to copy, from where to where.
checkBounds(length, target, from, target_size, source_size) ==
  LET c == Clamp(length, target, from)
      target_left == target_size - c.target
      source_left == source_size - c.source
  IN  IF target_left <= 0 \/ source_left <= 0
      THEN [length |-> 0, target |-> 0, source |-> 0]
      ELSE IF c.length <= target_left /\ c.length <= source_left THEN c
      ELSE IF target_left < source_left THEN [c EXCEPT !.length = target_left]
      ELSE [c EXCEPT !.length = source_left]

\* Pixels of a rectangle that is given relative to a buffer's memory.
Span(o, n) == o .. (o + n - 1)
PixelsOf(b, r) == Span(b.x + r.x, r.w) \X Span(b.y + r.y, r.h)
Visible == PixelsOf(bb, At(0, 0, bb.w, bb.h))
Panel   == (0 .. W - 1) \X (0 .. H - 1)

----------------------------------------------------------------------------
(* Painting *)

\* paintRect's single fill of rows that are as wide as the buffer: they are
\* contiguous in memory up to the panel's stride, whatever lies in between.
SingleFill(b, r) ==
  {p \in (0 .. W - 1) \X (0 .. H) :
     /\ p[2] \in Span(b.y + r.y, r.h + 1)
     /\ (p[2] = b.y + r.y => p[1] >= b.x)
     /\ (p[2] = b.y + r.y + r.h => p[1] < b.x)}

\* What paintRect writes, r being bounded.
Filled(b, r) ==
  LET phys == getPhysicalRect(b, r)
  IN  IF r.w <= 0 \/ r.h <= 0 THEN {}
      ELSE IF phys.x = 0 /\ phys.w = b.w THEN SingleFill(b, phys)
      ELSE PixelsOf(b, phys)

\* What a blit writes pixel by pixel, in the buffer's coordinates, or line by line.
Blitted(b, r) ==
  {LET c == getPhysicalCoordinates(b, p[1], p[2]) IN <<b.x + c[1], b.y + c[2]>> :
     p \in Span(r.x, r.w) \X Span(r.y, r.h)}

\* w * h pixels in one run from column x of line y, in lines of W pixels.
Run(x, y, w, h) ==
  {p \in (0 .. W - 1) \X Span(y, h + 1) :
     LET k == (p[2] - y) * W + p[1] - x IN 0 <= k /\ k < w * h}

\* The Lua blitters of one type copy whole lines in a single step, though a line
\* may be narrower than its stride (the C ones ask that it is not).
InOneStep(s, i) ==
  /\ s.alike /\ bb.rotation = 0
  /\ i.source = 0 /\ i.target = 0 /\ i.length = s.w /\ i.length = bb.w

paintRect(r) ==
  /\ pending = None
  /\ pending' = r /\ source' = None /\ read' = {} /\ sent' = None
  /\ unshown' = Filled(bb, getBoundedRect(bb, r, 1))
  /\ UNCHANGED <<device, full, bb, viewport, cur_rotation_mode, night_mode>>

blitFrom(r, s) ==
  LET i == checkBounds(r.w, r.x, s.x, Width(bb), s.w)
      j == checkBounds(r.h, r.y, s.y, Height(bb), s.h)
      drawn == i.length > 0 /\ j.length > 0
  IN  /\ pending = None
      /\ pending' = r /\ source' = s /\ sent' = None
      /\ read' = IF ~drawn THEN {}
                 ELSE IF InOneStep(s, i) THEN Run(0, j.source, i.length, j.length)
                 ELSE Span(i.source, i.length) \X Span(j.source, j.length)
      /\ unshown' = IF ~drawn THEN {}
                    ELSE IF InOneStep(s, i)
                         THEN Run(bb.x, bb.y + j.target, i.length, j.length)
                         ELSE Blitted(bb, At(i.target, j.target, i.length, j.length))
      /\ UNCHANGED <<device, full, bb, viewport, cur_rotation_mode, night_mode>>

----------------------------------------------------------------------------
(* Refreshing *)

\* screen_size, which init swaps when it enforces the portrait mode.
screen_w == IF device.portrait THEN H ELSE W
screen_h == IF device.portrait THEN W ELSE H

\* As if the screen were always upright.
calculateRealCoordinates_IgnoresMode(b, v, mode, r) ==
  LET in == getBoundedRect(b, r, 1)
  IN  IF v = None THEN r ELSE [in EXCEPT !.x = @ + v.x, !.y = @ + v.y]

\* The rectangle r of the working buffer b in the coordinates of the panel's
\* buffer, when v is the viewport.
calculateRealCoordinates(b, v, mode, r) ==
  LET vx2 == screen_w - (v.x + v.w)
      vy2 == screen_h - (v.y + v.h)
      in  == getBoundedRect(b, r, 1)
      Moved(dx, dy) == At(in.x + dx, in.y + dy, in.w, in.h)
  IN  IF v = None THEN r
      ELSE CASE mode = 0 -> Moved(v.x, v.y)
             [] mode = 1 -> Moved(vy2, v.x)
             [] mode = 2 -> Moved(vx2, vy2)
             [] mode = 3 -> Moved(v.y, vx2)

\* The region that mxc_update sends of the panel's buffer.
RegionOf(r, a) == getPhysicalRect(full, getBoundedRect(full, r, a))
Bogus(region)  == region.w <= 1 \/ region.h <= 1

\* mxc_update discards bogus regions.
Update(written, region) ==
  IF Bogus(region) THEN unshown' = written /\ sent' = None
  ELSE unshown' = written \ PixelsOf(full, region) /\ sent' = region

\* The refresh of what was painted, under some alignment constraint.
Refresh(a) ==
  /\ pending # None
  /\ Update(unshown, RegionOf(calculateRealCoordinates(bb, viewport, cur_rotation_mode,
                                                       pending), a))
  /\ pending' = None /\ source' = None /\ read' = {}
  /\ UNCHANGED <<device, full, bb, viewport, cur_rotation_mode, night_mode>>

----------------------------------------------------------------------------
(* Configuring the screen *)

Whole(b) == At(0, 0, Width(b), Height(b))

\* Blitbuffer:viewport on the panel's buffer.
SubBuffer(v) ==
  LET r == getPhysicalRect(full, v)
  IN  [full EXCEPT !.x = r.x, !.y = r.y, !.w = r.w, !.h = r.h]

BadViewport(v) ==
  \/ v.x < 0 \/ v.x > screen_w \/ v.w < 0 \/ v.x + v.w > screen_w
  \/ v.y < 0 \/ v.y > screen_h \/ v.h < 0 \/ v.y + v.h > screen_h

\* A viewport is set while the screen is upright, as BadViewport presumes.
\* The whole panel is filled, the viewport alone is refreshed.
setViewport(v) ==
  /\ pending = None /\ cur_rotation_mode = 0
  /\ ~BadViewport(v)
  /\ viewport' = v /\ bb' = SubBuffer(v)
  /\ Update(Panel, RegionOf(calculateRealCoordinates(SubBuffer(v), v, 0,
                                                     Whole(SubBuffer(v))), 1))
  /\ source' = None /\ read' = {}
  /\ UNCHANGED <<device, full, cur_rotation_mode, night_mode, pending>>

blitbuffer_rotation_mode == IF device.portrait THEN 3 ELSE 0

\* Forgets the panel's buffer when there is a viewport.
setRotationMode_BufferOnly(mode) ==
  LET rotation == (blitbuffer_rotation_mode - mode) % 4
  IN  /\ pending = None
      /\ bb' = [bb EXCEPT !.rotation = rotation]
      /\ full' = IF viewport = None THEN bb' ELSE full
      /\ cur_rotation_mode' = mode
      /\ pending' = Whole(bb') /\ source' = None /\ read' = {}
      /\ unshown' = {} /\ sent' = None
      /\ UNCHANGED <<device, viewport, night_mode>>

\* In both cases the panel's buffer turns with the working one.
setRotationMode(mode) ==
  LET rotation == (blitbuffer_rotation_mode - mode) % 4
  IN  /\ pending = None
      /\ bb' = [bb EXCEPT !.rotation = rotation]
      /\ full' = [full EXCEPT !.rotation = rotation]
      /\ cur_rotation_mode' = mode
      /\ pending' = Whole(bb') /\ source' = None /\ read' = {}
      /\ unshown' = {} /\ sent' = None
      /\ UNCHANGED <<device, viewport, night_mode>>

\* With a viewport, the whole panel is filled too.
toggleNightMode ==
  LET inverse == IF device.canHWInvert THEN bb.inverse ELSE 1 - bb.inverse
  IN  /\ pending = None
      /\ night_mode' = ~night_mode
      /\ bb' = [bb EXCEPT !.inverse = inverse]
      /\ full' = [full EXCEPT !.inverse = inverse]
      /\ unshown' = IF viewport = None \/ device.canHWInvert THEN {} ELSE Panel
      /\ pending' = Whole(bb) /\ source' = None /\ read' = {} /\ sent' = None
      /\ UNCHANGED <<device, viewport, cur_rotation_mode>>

\* init: landscape panels are turned to portrait where the device asks for it.
Init ==
  /\ device \in [portrait : {FALSE, W > H}, canHWInvert : BOOLEAN]
  /\ full = [x |-> 0, y |-> 0, w |-> W, h |-> H,
             rotation |-> blitbuffer_rotation_mode, inverse |-> 0]
  /\ bb = full /\ viewport = None
  /\ cur_rotation_mode = 0 /\ night_mode = FALSE
  /\ pending = None /\ source = None /\ unshown = {} /\ read = {} /\ sent = None

Next ==
  \/ \E r \in Rects : paintRect(r)
  \/ \E r \in Rects, s \in Sources : blitFrom(r, s)
  \/ \E a \in Alignments : Refresh(a)
  \/ \E v \in Rects : setViewport(v)
  \/ \E mode \in 0 .. 3 : setRotationMode(mode)
  \/ toggleNightMode

Spec == Init /\ [][Next]_vars

----------------------------------------------------------------------------
(* Properties *)

TypeOK ==
  /\ device \in [portrait : {FALSE, W > H}, canHWInvert : BOOLEAN]
  /\ full \in Buffer /\ bb \in Buffer
  /\ viewport \in Rects \cup {None}
  /\ cur_rotation_mode \in 0 .. 3 /\ night_mode \in BOOLEAN
  /\ pending \in Rect \cup {None} /\ source \in Sources \cup {None}
  /\ unshown \in SUBSET (Int \X Int) /\ read \in SUBSET (Int \X Int)
  /\ sent \in Rect \cup {None}

(* The panel's and the working buffer turn and invert together, and as the *)
(* rotation mode and night mode say, in whatever order the viewport, the   *)
(* rotation and night mode are set (framebuffer.lua:454-488).              *)
BuffersAgree ==
  /\ full.rotation = bb.rotation /\ full.inverse = bb.inverse
  /\ (bb.rotation + cur_rotation_mode - blitbuffer_rotation_mode) % 4 = 0
  /\ device.canHWInvert => bb.inverse = 0
  /\ ~device.canHWInvert => ((bb.inverse = 1) <=> night_mode)

(* A region sent to the controller lies within the panel and has more than *)
(* one row and column, "as they might murder some kernels" otherwise       *)
(* (framebuffer_mxcfb.lua:277-286), also when an alignment constraint      *)
(* extends a rectangle at the panel's edge.                                *)
RegionInPanel ==
  sent # None =>
    /\ 0 <= sent.x /\ sent.x + sent.w <= W /\ 1 < sent.w
    /\ 0 <= sent.y /\ sent.y + sent.h <= H /\ 1 < sent.h

(* Once the rectangle that was painted is refreshed, all that is visible   *)
(* of it is shown, through the rotation, the viewport, the bounds and the  *)
(* alignment; when nothing was sent, because the region would have been    *)
(* bogus, what is left lies in one row or column of the panel.             *)
RefreshShows ==
  pending = None =>
    /\ sent # None => unshown \cap Visible = {}
    /\ \A p, q \in unshown \cap Visible : p[1] = q[1] \/ p[2] = q[2]

(* A blit copies the pixels asked for that exist in both buffers, each to  *)
(* where it was asked for, and reads no other (blitbuffer.lua:1094-1123).  *)
(* The single step of the Lua blitters, over several lines narrower than   *)
(* their stride, does not: it stops short of the last lines, and reads and *)
(* writes what lies beside the narrower buffers (blitbuffer.lua:1233,      *)
(* 1260).  But of what is visible it writes nothing that was not asked     *)
(* for, and within the source it reads nothing else.                       *)
BlitExact ==
  pending # None /\ source # None =>
    LET asked == {k \in Span(0, pending.w) \X Span(0, pending.h) :
                    /\ pending.x + k[1] \in 0 .. Width(bb) - 1
                    /\ pending.y + k[2] \in 0 .. Height(bb) - 1
                    /\ source.x + k[1] \in 0 .. source.w - 1
                    /\ source.y + k[2] \in 0 .. source.h - 1}
        to    == {LET c == getPhysicalCoordinates(bb, pending.x + k[1], pending.y + k[2])
                  IN  <<bb.x + c[1], bb.y + c[2]>> : k \in asked}
        from  == {<<source.x + k[1], source.y + k[2]>> : k \in asked}
        short == /\ source.alike /\ bb.rotation = 0 /\ bb.w < W
                 /\ source.w = bb.w /\ source.x = pending.x
                 /\ 0 .. bb.w - 1 \subseteq Span(pending.x, pending.w)
                 /\ \E k, l \in asked : k[2] # l[2]
    IN  /\ unshown \cap Visible \subseteq to
        /\ \A p \in read : p[1] < source.w => p \in from
        /\ ~short => unshown = to /\ read = from
=============================================================================
