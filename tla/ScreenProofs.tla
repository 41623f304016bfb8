---------------------------- MODULE ScreenProofs ----------------------------
(***************************************************************************)
(* Proofs about Screen for a panel, rectangles and alignments of any size. *)
(***************************************************************************)
EXTENDS Screen, TLAPS

(* The panel's buffer f never moves; the working buffer b is it, or lies   *)
(* where the viewport v is on the upright screen; both turn with the mode. *)
Placed(f, b, v, mode) ==
  /\ f.x = 0 /\ f.y = 0 /\ f.w = W /\ f.h = H
  /\ f.rotation = (blitbuffer_rotation_mode - mode) % 4
  /\ b.rotation = f.rotation
  /\ v = None => b.x = 0 /\ b.y = 0 /\ b.w = W /\ b.h = H
  /\ v # None =>
       /\ ~BadViewport(v)
       /\ ~device.portrait => b.x = v.x /\ b.y = v.y /\ b.w = v.w /\ b.h = v.h
       /\ device.portrait => /\ b.x = v.y /\ b.y = H - (v.x + v.w)
                             /\ b.w = v.h /\ b.h = v.w

\* The pixels of b that a rectangle asks for.
Asked(b, r) == PixelsOf(b, getPhysicalRect(b, getBoundedRect(b, r, 1)))

(* What is visible and unshown lies in what is still to be refreshed. *)
IInv ==
  /\ TypeOK /\ BuffersAgree /\ RegionInPanel /\ RefreshShows
  /\ Placed(full, bb, viewport, cur_rotation_mode)
  /\ pending # None => unshown \cap Visible \subseteq Asked(bb, pending)

----------------------------------------------------------------------------
(* The bounds along one axis, for every alignment. *)

LEMMA AlignBounds ==
  ASSUME NEW n \in Int, NEW a \in Nat \ {0}
  PROVE  /\ ALIGN_DOWN(n, a) \in Int /\ ALIGN_DOWN(n, a) <= n
         /\ n >= 0 => ALIGN_DOWN(n, a) >= 0
         /\ ALIGN_UP(n, a) \in Int /\ ALIGN_UP(n, a) >= n
         /\ n % a \in Int /\ n % a >= 0
<1>1. n % a \in 0 .. a - 1 /\ (n + (a - 1)) % a \in 0 .. a - 1
  OBVIOUS
<1>2. n >= 0 => n % a <= n
  OBVIOUS
<1> QED
  BY <1>1, <1>2 DEF ALIGN_DOWN, ALIGN_UP

\* Aligned to one pixel, a position stays where it is.
LEMMA AlignOne == ASSUME NEW n \in Int PROVE ALIGN_DOWN(n, 1) = n /\ ALIGN_UP(n, 1) = n
BY DEF ALIGN_DOWN, ALIGN_UP

(* getBoundedRect stays within the buffer and loses nothing that is asked  *)
(* for and in it (blitbuffer.lua:1150-1203).                               *)
LEMMA BoundedAxis ==
  ASSUME NEW o \in Int, NEW n \in Int, NEW max \in Nat, NEW a \in Nat \ {0}
  PROVE  /\ BoundedOffset(o, max, a) \in 0 .. max
         /\ BoundedLength(o, n, max, a) \in Int
         /\ BoundedOffset(o, max, a) + BoundedLength(o, n, max, a) <= max
         /\ \A k \in 0 .. max - 1 : k \in Span(o, n) =>
              k \in Span(BoundedOffset(o, max, a), BoundedLength(o, n, max, a))
<1>1. CASE o >= max
  <2>1. /\ BoundedOffset(o, max, a) = 0 /\ BoundedLength(o, n, max, a) = 0
        /\ \A k \in 0 .. max - 1 : k \notin Span(o, n)
    BY <1>1 DEF BoundedOffset, AlignedLength, BoundedLength, Span
  <2> QED
    BY <2>1
<1>2. CASE o < max /\ o < 0
  <2>1. ALIGN_UP(n + o, a) \in Int /\ ALIGN_UP(n + o, a) >= n + o
    BY AlignBounds
  <2> QED
    BY <1>2, <2>1 DEF BoundedOffset, AlignedLength, BoundedLength, Span
<1>3. CASE o < max /\ o >= 0
  <2>1. /\ ALIGN_DOWN(o, a) \in Int /\ ALIGN_DOWN(o, a) <= o /\ ALIGN_DOWN(o, a) >= 0
        /\ ALIGN_DOWN(o, a) = o - (o % a) /\ o % a \in Int
    BY <1>3, AlignBounds DEF ALIGN_DOWN
  <2>2. ALIGN_UP(n + (o % a), a) \in Int /\ ALIGN_UP(n + (o % a), a) >= n + (o % a)
    <3> DEFINE m == n + (o % a)
    <3>1. m \in Int
      BY <2>1
    <3> HIDE DEF m
    <3>2. ALIGN_UP(m, a) \in Int /\ ALIGN_UP(m, a) >= m
      BY <3>1, AlignBounds
    <3> QED
      BY <3>2 DEF m
  <2> QED
    BY <1>3, <2>1, <2>2 DEF BoundedOffset, AlignedLength, BoundedLength, Span
<1> QED
  BY <1>1, <1>2, <1>3

(* Without an alignment nothing that is not asked for is added. *)
LEMMA BoundedExact ==
  ASSUME NEW o \in Int, NEW n \in Nat, NEW max \in Nat
  PROVE  \A k \in Span(BoundedOffset(o, max, 1), BoundedLength(o, n, max, 1)) :
           k \in Span(o, n) /\ k \in 0 .. max - 1
<1>1. CASE o >= max
  BY <1>1 DEF BoundedOffset, AlignedLength, BoundedLength, Span
<1>2. CASE o < max /\ o < 0
  <2>1. ALIGN_UP(n + o, 1) = n + o
    BY AlignOne
  <2> QED
    BY <1>2, <2>1 DEF BoundedOffset, AlignedLength, BoundedLength, Span
<1>3. CASE o < max /\ o >= 0
  <2>1. ALIGN_DOWN(o, 1) = o /\ o % 1 = 0 /\ ALIGN_UP(n + (o % 1), 1) = n
    <3>1. o % 1 = 0
      OBVIOUS
    <3> QED
      BY <3>1, AlignOne
  <2> QED
    BY <1>3, <2>1 DEF BoundedOffset, AlignedLength, BoundedLength, Span
<1> QED
  BY <1>1, <1>2, <1>3

----------------------------------------------------------------------------
(* A refresh of a rectangle covers what painting in it changed. *)

Frame == [x : Int, y : Int, w : Int, h : Int]

\* A bounded rectangle lies in the buffer it is bounded by.
LEMMA BoundedRectInside ==
  ASSUME NEW b \in Buffer, NEW r \in Frame, NEW a \in Nat \ {0}
  PROVE  LET in == getBoundedRect(b, r, a)
         IN  /\ in \in Frame
             /\ 0 <= in.x /\ in.x + in.w <= Width(b)
             /\ 0 <= in.y /\ in.y + in.h <= Height(b)
<1>1. Width(b) \in Nat /\ Height(b) \in Nat
  BY DEF Width, Height, Buffer
<1>2. r.x \in Int /\ r.y \in Int /\ r.w \in Int /\ r.h \in Int
  BY DEF Frame
<1>3. /\ BoundedOffset(r.x, Width(b), a) \in 0 .. Width(b)
      /\ BoundedLength(r.x, r.w, Width(b), a) \in Int
      /\ BoundedOffset(r.x, Width(b), a) + BoundedLength(r.x, r.w, Width(b), a) <= Width(b)
  BY <1>1, <1>2, BoundedAxis
<1>4. /\ BoundedOffset(r.y, Height(b), a) \in 0 .. Height(b)
      /\ BoundedLength(r.y, r.h, Height(b), a) \in Int
      /\ BoundedOffset(r.y, Height(b), a) + BoundedLength(r.y, r.h, Height(b), a) <= Height(b)
  BY <1>1, <1>2, BoundedAxis
<1> QED
  BY <1>1, <1>3, <1>4 DEF getBoundedRect, At, Frame

(* Whatever mxc_update sends lies within the panel. *)
LEMMA RegionInside ==
  ASSUME full \in Buffer, full.w = W, full.h = H, NEW r \in Frame, NEW a \in Nat \ {0},
         ~Bogus(RegionOf(r, a))
  PROVE  LET region == RegionOf(r, a)
         IN  /\ region \in Rect
             /\ 0 <= region.x /\ region.x + region.w <= W /\ 1 < region.w
             /\ 0 <= region.y /\ region.y + region.h <= H /\ 1 < region.h
<1> DEFINE in == getBoundedRect(full, r, a)
<1>1. /\ in \in Frame
      /\ 0 <= in.x /\ in.x + in.w <= Width(full)
      /\ 0 <= in.y /\ in.y + in.h <= Height(full)
  BY BoundedRectInside
<1>2. full.rotation \in 0 .. 3 /\ W \in Nat /\ H \in Nat
  BY ScreenAssumption DEF Buffer
<1>3. ~Bogus(getPhysicalRect(full, in)) /\ RegionOf(r, a) = getPhysicalRect(full, in)
  BY DEF RegionOf
<1> HIDE DEF in
<1>4. CASE full.rotation = 0
  BY <1>1, <1>2, <1>3, <1>4 DEF getPhysicalRect, At, Bogus, Width, Height, Frame, Rect
<1>5. CASE full.rotation = 1
  BY <1>1, <1>2, <1>3, <1>5 DEF getPhysicalRect, At, Bogus, Width, Height, Frame, Rect
<1>6. CASE full.rotation = 2
  BY <1>1, <1>2, <1>3, <1>6 DEF getPhysicalRect, At, Bogus, Width, Height, Frame, Rect
<1>7. CASE full.rotation = 3
  BY <1>1, <1>2, <1>3, <1>7 DEF getPhysicalRect, At, Bogus, Width, Height, Frame, Rect
<1> QED
  BY <1>2, <1>4, <1>5, <1>6, <1>7

\* By how much the viewport's coordinates are off those of the panel's.
OffsetX(v, mode) ==
  IF v = None THEN 0
  ELSE CASE mode = 0 -> v.x
         [] mode = 1 -> screen_h - (v.y + v.h)
         [] mode = 2 -> screen_w - (v.x + v.w)
         [] mode = 3 -> v.y

OffsetY(v, mode) ==
  IF v = None THEN 0
  ELSE CASE mode = 0 -> v.y
         [] mode = 1 -> v.x
         [] mode = 2 -> screen_h - (v.y + v.h)
         [] mode = 3 -> screen_w - (v.x + v.w)

\* Where the viewport lies in the frame buffer, in each rotation.
LEMMA Frames ==
  ASSUME device \in [portrait : {FALSE, W > H}, canHWInvert : BOOLEAN],
         full \in Buffer, NEW b \in Buffer, NEW v \in Rect \cup {None},
         NEW mode \in 0 .. 3, Placed(full, b, v, mode)
  PROVE  LET dx == OffsetX(v, mode)
             dy == OffsetY(v, mode)
         IN  /\ dx \in Nat /\ dx + Width(b) <= Width(full)
             /\ dy \in Nat /\ dy + Height(b) <= Height(full)
             /\ b.rotation = 0 => b.x = dx /\ b.y = dy
             /\ b.rotation = 1 => b.y = dx /\ b.x + b.w + dy = W
             /\ b.rotation = 2 => b.x + b.w + dx = W /\ b.y + b.h + dy = H
             /\ b.rotation = 3 => b.x = dy /\ b.y + b.h + dx = H
<1>1. /\ W \in Nat /\ H \in Nat /\ None \notin Rect
      /\ b.x \in Int /\ b.y \in Int /\ b.w \in Nat /\ b.h \in Nat
  BY ScreenAssumption DEF Buffer
<1>2. /\ full.w = W /\ full.h = H /\ b.rotation = full.rotation
      /\ full.rotation = (blitbuffer_rotation_mode - mode) % 4
  BY DEF Placed
<1>3. CASE v = None
  <2>1. b.x = 0 /\ b.y = 0 /\ b.w = W /\ b.h = H
    BY <1>3 DEF Placed
  <2> QED
    BY <1>1, <1>2, <1>3, <2>1 DEF OffsetX, OffsetY, Width, Height
<1>4. CASE v # None /\ ~device.portrait
  <2>1. /\ v.x \in Nat /\ v.y \in Nat /\ v.w \in Nat /\ v.h \in Nat
        /\ v.x + v.w <= W /\ v.y + v.h <= H
        /\ b.x = v.x /\ b.y = v.y /\ b.w = v.w /\ b.h = v.h
    BY <1>1, <1>4 DEF Placed, BadViewport, screen_w, screen_h, Rect
  <2>2. full.rotation = (0 - mode) % 4 /\ screen_w = W /\ screen_h = H
    BY <1>2, <1>4 DEF blitbuffer_rotation_mode, screen_w, screen_h
  <2>3. CASE mode = 0
    BY <1>1, <1>2, <1>4, <2>1, <2>2, <2>3 DEF OffsetX, OffsetY, Width, Height
  <2>4. CASE mode = 1
    BY <1>1, <1>2, <1>4, <2>1, <2>2, <2>4 DEF OffsetX, OffsetY, Width, Height
  <2>5. CASE mode = 2
    BY <1>1, <1>2, <1>4, <2>1, <2>2, <2>5 DEF OffsetX, OffsetY, Width, Height
  <2>6. CASE mode = 3
    BY <1>1, <1>2, <1>4, <2>1, <2>2, <2>6 DEF OffsetX, OffsetY, Width, Height
  <2> QED
    BY <2>3, <2>4, <2>5, <2>6
<1>5. CASE v # None /\ device.portrait
  <2>1. /\ v.x \in Nat /\ v.y \in Nat /\ v.w \in Nat /\ v.h \in Nat
        /\ v.x + v.w <= H /\ v.y + v.h <= W
        /\ b.x = v.y /\ b.y = H - (v.x + v.w) /\ b.w = v.h /\ b.h = v.w
    BY <1>1, <1>5 DEF Placed, BadViewport, screen_w, screen_h, Rect
  <2>2. full.rotation = (3 - mode) % 4 /\ screen_w = H /\ screen_h = W
    BY <1>2, <1>5 DEF blitbuffer_rotation_mode, screen_w, screen_h
  <2>3. CASE mode = 0
    BY <1>1, <1>2, <1>5, <2>1, <2>2, <2>3 DEF OffsetX, OffsetY, Width, Height
  <2>4. CASE mode = 1
    BY <1>1, <1>2, <1>5, <2>1, <2>2, <2>4 DEF OffsetX, OffsetY, Width, Height
  <2>5. CASE mode = 2
    BY <1>1, <1>2, <1>5, <2>1, <2>2, <2>5 DEF OffsetX, OffsetY, Width, Height
  <2>6. CASE mode = 3
    BY <1>1, <1>2, <1>5, <2>1, <2>2, <2>6 DEF OffsetX, OffsetY, Width, Height
  <2> QED
    BY <2>3, <2>4, <2>5, <2>6
<1> QED
  BY <1>1, <1>3, <1>4, <1>5

(* Through the viewport's offsets and the bounds of both buffers, a refresh*)
(* covers all of the rectangle that is visible (framebuffer.lua:281-342).  *)
LEMMA RefreshCovers ==
  ASSUME device \in [portrait : {FALSE, W > H}, canHWInvert : BOOLEAN],
         full \in Buffer, NEW b \in Buffer, NEW v \in Rect \cup {None},
         NEW mode \in 0 .. 3, Placed(full, b, v, mode),
         NEW r \in Rect, NEW a \in Nat \ {0}
  PROVE  /\ calculateRealCoordinates(b, v, mode, r) \in Frame
         /\ Asked(b, r)
              \subseteq PixelsOf(full, RegionOf(calculateRealCoordinates(b, v, mode, r), a))
<1> DEFINE in  == getBoundedRect(b, r, 1)
           q   == calculateRealCoordinates(b, v, mode, r)
           out == getBoundedRect(full, q, a)
           dx  == OffsetX(v, mode)
           dy  == OffsetY(v, mode)
<1>1. /\ r \in Frame /\ 1 \in Nat \ {0}
      /\ r.x \in Int /\ r.y \in Int /\ r.w \in Nat /\ r.h \in Nat
      /\ Width(b) \in Nat /\ Height(b) \in Nat
      /\ Width(full) \in Nat /\ Height(full) \in Nat
  BY DEF Rect, Frame, Buffer, Width, Height
<1>2. in \in Frame
  BY <1>1, BoundedRectInside
<1>3. /\ dx \in Nat /\ dx + Width(b) <= Width(full)
      /\ dy \in Nat /\ dy + Height(b) <= Height(full)
      /\ b.rotation = 0 => b.x = dx /\ b.y = dy
      /\ b.rotation = 1 => b.y = dx /\ b.x + b.w + dy = W
      /\ b.rotation = 2 => b.x + b.w + dx = W /\ b.y + b.h + dy = H
      /\ b.rotation = 3 => b.x = dy /\ b.y + b.h + dx = H
  BY Frames
<1>4. /\ \A k \in Span(in.x, in.w) : k \in Span(r.x, r.w) /\ k \in 0 .. Width(b) - 1
      /\ \A l \in Span(in.y, in.h) : l \in Span(r.y, r.h) /\ l \in 0 .. Height(b) - 1
  BY <1>1, BoundedExact DEF getBoundedRect, At
<1>5. q = IF v = None THEN r ELSE At(in.x + dx, in.y + dy, in.w, in.h)
  BY DEF calculateRealCoordinates, OffsetX, OffsetY
<1> HIDE DEF in, q, dx, dy
<1>6. q \in Frame
  BY <1>1, <1>2, <1>3, <1>5 DEF At, Frame
<1>7. /\ \A k \in Span(in.x, in.w) : k + dx \in Span(q.x, q.w) /\ k + dx \in 0 .. Width(full) - 1
      /\ \A l \in Span(in.y, in.h) : l + dy \in Span(q.y, q.h) /\ l + dy \in 0 .. Height(full) - 1
  <2>1. CASE v = None
    <3>1. dx = 0 /\ dy = 0
      BY <2>1 DEF dx, dy, OffsetX, OffsetY
    <3> QED
      BY <1>1, <1>2, <1>3, <1>4, <1>5, <2>1, <3>1 DEF Span, Frame
  <2>2. CASE v # None
    BY <1>1, <1>2, <1>3, <1>4, <1>5, <2>2 DEF Span, At, Frame
  <2> QED
    BY <2>1, <2>2
<1>8. /\ out \in Frame
      /\ \A k \in Span(in.x, in.w) : k + dx \in Span(out.x, out.w)
      /\ \A l \in Span(in.y, in.h) : l + dy \in Span(out.y, out.h)
  <2>1. q.x \in Int /\ q.y \in Int /\ q.w \in Int /\ q.h \in Int
    BY <1>6 DEF Frame
  <2>2. \A k \in 0 .. Width(full) - 1 : k \in Span(q.x, q.w) => k \in Span(out.x, out.w)
    BY <1>1, <2>1, BoundedAxis DEF getBoundedRect, At
  <2>3. \A l \in 0 .. Height(full) - 1 : l \in Span(q.y, q.h) => l \in Span(out.y, out.h)
    BY <1>1, <2>1, BoundedAxis DEF getBoundedRect, At
  <2>4. out \in Frame
    BY <1>6, BoundedRectInside
  <2> QED
    BY <1>7, <2>2, <2>3, <2>4
<1> HIDE DEF out
<1>9. \A p \in PixelsOf(b, getPhysicalRect(b, in)) : p \in PixelsOf(full, getPhysicalRect(full, out))
  <2>1. /\ full.x = 0 /\ full.y = 0 /\ full.w = W /\ full.h = H
        /\ b.rotation = full.rotation /\ b.rotation \in 0 .. 3
        /\ W \in Nat /\ H \in Nat
        /\ b.x \in Int /\ b.y \in Int /\ b.w \in Nat /\ b.h \in Nat
    BY ScreenAssumption DEF Placed, Buffer
  <2>2. /\ in.x \in Int /\ in.y \in Int /\ in.w \in Int /\ in.h \in Int
        /\ out.x \in Int /\ out.y \in Int /\ out.w \in Int /\ out.h \in Int
    BY <1>2, <1>8 DEF Frame
  <2> SUFFICES ASSUME NEW i \in Int, NEW j \in Int,
                      <<i, j>> \in PixelsOf(b, getPhysicalRect(b, in))
               PROVE  <<i, j>> \in PixelsOf(full, getPhysicalRect(full, out))
    BY DEF PixelsOf, Span
  <2>3. CASE b.rotation = 0
    <3>1. i - b.x \in Span(in.x, in.w) /\ j - b.y \in Span(in.y, in.h)
      BY <2>1, <2>2, <2>3 DEF PixelsOf, getPhysicalRect, Span
    <3>2. (i - b.x) + dx \in Span(out.x, out.w) /\ (j - b.y) + dy \in Span(out.y, out.h)
      BY <1>8, <3>1
    <3> QED
      BY <1>3, <2>1, <2>2, <2>3, <3>2 DEF PixelsOf, getPhysicalRect, Span
  <2>4. CASE b.rotation = 1
    <3>1. /\ j - b.y \in Span(in.x, in.w)
          /\ b.x + b.w - 1 - i \in Span(in.y, in.h)
      BY <2>1, <2>2, <2>4 DEF PixelsOf, getPhysicalRect, At, Span
    <3>2. /\ (j - b.y) + dx \in Span(out.x, out.w)
          /\ (b.x + b.w - 1 - i) + dy \in Span(out.y, out.h)
      BY <1>8, <3>1
    <3> QED
      BY <1>3, <2>1, <2>2, <2>4, <3>2 DEF PixelsOf, getPhysicalRect, At, Span
  <2>5. CASE b.rotation = 2
    <3>1. /\ b.x + b.w - 1 - i \in Span(in.x, in.w)
          /\ b.y + b.h - 1 - j \in Span(in.y, in.h)
      BY <2>1, <2>2, <2>5 DEF PixelsOf, getPhysicalRect, At, Span
    <3>2. /\ (b.x + b.w - 1 - i) + dx \in Span(out.x, out.w)
          /\ (b.y + b.h - 1 - j) + dy \in Span(out.y, out.h)
      BY <1>8, <3>1
    <3> QED
      BY <1>3, <2>1, <2>2, <2>5, <3>2 DEF PixelsOf, getPhysicalRect, At, Span
  <2>6. CASE b.rotation = 3
    <3>1. /\ b.y + b.h - 1 - j \in Span(in.x, in.w)
          /\ i - b.x \in Span(in.y, in.h)
      BY <2>1, <2>2, <2>6 DEF PixelsOf, getPhysicalRect, At, Span
    <3>2. /\ (b.y + b.h - 1 - j) + dx \in Span(out.x, out.w)
          /\ (i - b.x) + dy \in Span(out.y, out.h)
      BY <1>8, <3>1
    <3> QED
      BY <1>3, <2>1, <2>2, <2>6, <3>2 DEF PixelsOf, getPhysicalRect, At, Span
  <2> QED
    BY <2>1, <2>3, <2>4, <2>5, <2>6
<1> QED
  BY <1>6, <1>9 DEF Asked, RegionOf, in, out, q

----------------------------------------------------------------------------
(* What painting writes. *)

LEMMA WholeIsVisible ==
  ASSUME NEW b \in Buffer
  PROVE  /\ Whole(b) \in Rect
         /\ Asked(b, Whole(b)) = PixelsOf(b, At(0, 0, b.w, b.h))
<1>1. /\ b.w \in Nat /\ b.h \in Nat /\ b.rotation \in 0 .. 3
      /\ Width(b) \in Nat /\ Height(b) \in Nat
  BY DEF Buffer, Width, Height
<1>2. ASSUME NEW max \in Nat
      PROVE  BoundedOffset(0, max, 1) = 0 /\ BoundedLength(0, max, max, 1) = max
  <2>1. ALIGN_DOWN(0, 1) = 0 /\ 0 % 1 = 0 /\ ALIGN_UP(max, 1) = max
    BY AlignOne
  <2> QED
    BY <2>1 DEF BoundedOffset, AlignedLength, BoundedLength
<1>3. getBoundedRect(b, Whole(b), 1) = At(0, 0, Width(b), Height(b))
  BY <1>1, <1>2 DEF getBoundedRect, Whole, At
<1>4. getPhysicalRect(b, At(0, 0, Width(b), Height(b))) = At(0, 0, b.w, b.h)
  BY <1>1 DEF getPhysicalRect, At, Width, Height
<1> QED
  BY <1>1, <1>3, <1>4 DEF Asked, Whole, At, Rect

(* What a fill changes of the buffer itself is what it was asked for.      *)
LEMMA FillsAsked ==
  ASSUME NEW b \in Buffer, NEW r \in Rect
  PROVE  /\ Filled(b, getBoundedRect(b, r, 1)) \subseteq Int \X Int
         /\ Filled(b, getBoundedRect(b, r, 1)) \cap PixelsOf(b, At(0, 0, b.w, b.h))
              \subseteq Asked(b, r)
<1> DEFINE in == getBoundedRect(b, r, 1)
           phys == getPhysicalRect(b, in)
<1>1. in \in Frame
  BY BoundedRectInside DEF Rect, Frame
<1>2. /\ phys.x \in Int /\ phys.y \in Int /\ phys.w \in Int /\ phys.h \in Int
      /\ b.x \in Int /\ b.y \in Int /\ b.w \in Nat /\ b.h \in Nat
  <2> HIDE DEF in
  <2>1. b.rotation \in 0 .. 3 /\ b.w \in Nat /\ b.h \in Nat /\ b.x \in Int /\ b.y \in Int
    BY DEF Buffer
  <2>2. in.x \in Int /\ in.y \in Int /\ in.w \in Int /\ in.h \in Int
    BY <1>1 DEF Frame
  <2> QED
    BY <2>1, <2>2 DEF getPhysicalRect, At
<1>3. Asked(b, r) = PixelsOf(b, phys)
  BY DEF Asked
<1>4. Filled(b, in) = IF in.w <= 0 \/ in.h <= 0 THEN {}
                      ELSE IF phys.x = 0 /\ phys.w = b.w THEN SingleFill(b, phys)
                      ELSE PixelsOf(b, phys)
  BY DEF Filled
<1> HIDE DEF in, phys
<1>5. PixelsOf(b, phys) \subseteq Int \X Int
  BY <1>2 DEF PixelsOf, Span
<1>6. SingleFill(b, phys) \subseteq Int \X Int
  BY ScreenAssumption DEF SingleFill
<1>7. ASSUME phys.x = 0, phys.w = b.w
      PROVE  SingleFill(b, phys) \cap PixelsOf(b, At(0, 0, b.w, b.h)) \subseteq PixelsOf(b, phys)
  <2> SUFFICES ASSUME NEW p \in SingleFill(b, phys), p \in PixelsOf(b, At(0, 0, b.w, b.h))
               PROVE  p \in PixelsOf(b, phys)
    OBVIOUS
  <2>1. /\ p[2] \in Span(b.y + phys.y, phys.h + 1)
        /\ p[2] = b.y + phys.y + phys.h => p[1] < b.x
    BY DEF SingleFill
  <2>2. /\ p = <<p[1], p[2]>>
        /\ p[1] \in Span(b.x, b.w) /\ p[2] \in Span(b.y, b.h)
    BY <1>2 DEF PixelsOf, At
  <2>3. p[1] \in Int /\ p[2] \in Int /\ p[1] >= b.x
    BY <1>2, <2>2 DEF Span
  <2>4. p[1] \in Span(b.x + phys.x, phys.w)
    BY <1>2, <1>7, <2>2
  <2>5. p[2] \in Span(b.y + phys.y, phys.h)
    BY <1>2, <2>1, <2>3 DEF Span
  <2> QED
    BY <2>2, <2>4, <2>5 DEF PixelsOf
<1> QED
  BY <1>3, <1>4, <1>5, <1>6, <1>7 DEF in

\* What to copy of length pixels, counted from the first.
Copied(length, target, from, target_size, source_size) ==
  {k \in Span(0, length) : /\ target + k \in 0 .. target_size - 1
                           /\ from + k \in 0 .. source_size - 1}

\* d is a length and offsets that copy just that.
CopiesExactly(d, length, target, from, target_size, source_size) ==
  /\ d.length \in Int /\ d.target \in Int /\ d.source \in Int
  /\ d.length <= 0 => Copied(length, target, from, target_size, source_size) = {}
  /\ d.length > 0 =>
       /\ d.target - target = d.source - from
       /\ \A k \in Int : k \in Copied(length, target, from, target_size, source_size)
                           <=> target + k \in Span(d.target, d.length)

(* checkBounds copies exactly what is asked for and exists on both sides,  *)
(* and moves source and target together (blitbuffer.lua:1094-1123).        *)
LEMMA CheckBoundsExact ==
  ASSUME NEW length \in Int, NEW target \in Int, NEW from \in Int,
         NEW target_size \in Nat, NEW source_size \in Nat
  PROVE  CopiesExactly(checkBounds(length, target, from, target_size, source_size),
                       length, target, from, target_size, source_size)
<1> DEFINE c == Clamp(length, target, from)
           d == checkBounds(length, target, from, target_size, source_size)
<1>1. /\ c.length \in Int /\ c.target \in Int /\ c.source \in Int
      /\ c = [length |-> c.length, target |-> c.target, source |-> c.source]
      /\ c.target - target = c.source - from
      /\ c.target >= 0 /\ c.source >= 0
      /\ c.length + c.target = length + target
      /\ c.target >= target
      /\ c.target = target \/ c.target = 0 \/ c.source = 0
  BY DEF Clamp
<1>2. d = IF target_size - c.target <= 0 \/ source_size - c.source <= 0
          THEN [length |-> 0, target |-> 0, source |-> 0]
          ELSE IF c.length <= target_size - c.target /\ c.length <= source_size - c.source THEN c
          ELSE IF target_size - c.target < source_size - c.source
               THEN [c EXCEPT !.length = target_size - c.target]
          ELSE [c EXCEPT !.length = source_size - c.source]
  BY DEF checkBounds
<1> HIDE DEF c, d
<1>3. CASE target_size - c.target <= 0 \/ source_size - c.source <= 0
  BY <1>1, <1>2, <1>3 DEF Span, Copied, CopiesExactly, d
<1>4. CASE ~(target_size - c.target <= 0 \/ source_size - c.source <= 0)
  <2>1. /\ d.target = c.target /\ d.source = c.source /\ d.length \in Int
        /\ d.length <= c.length
        /\ d.length <= target_size - c.target /\ d.length <= source_size - c.source
        /\ d.length = c.length \/ d.length = target_size - c.target
                               \/ d.length = source_size - c.source
    BY <1>1, <1>2, <1>4
  <2> QED
    BY <1>1, <1>4, <2>1 DEF Span, Copied, CopiesExactly, d
<1> QED
  BY <1>3, <1>4

(* The pixels a blit writes, one by one, are those of the rectangle.       *)
LEMMA BlitsRect ==
  ASSUME NEW b \in Buffer, NEW r \in Frame
  PROVE  Blitted(b, r) \subseteq PixelsOf(b, getPhysicalRect(b, r))
<1>1. /\ b.x \in Int /\ b.y \in Int /\ b.w \in Nat /\ b.h \in Nat /\ b.rotation \in 0 .. 3
      /\ r.x \in Int /\ r.y \in Int /\ r.w \in Int /\ r.h \in Int
  BY DEF Buffer, Frame
<1> SUFFICES ASSUME NEW x \in Span(r.x, r.w), NEW y \in Span(r.y, r.h)
             PROVE  LET c == getPhysicalCoordinates(b, x, y)
                    IN  <<b.x + c[1], b.y + c[2]>> \in PixelsOf(b, getPhysicalRect(b, r))
  BY DEF Blitted
<1>2. /\ x \in Int /\ y \in Int
      /\ r.x <= x /\ x <= r.x + r.w - 1 /\ r.y <= y /\ y <= r.y + r.h - 1
  BY <1>1 DEF Span
<1>3. CASE b.rotation = 0
  BY <1>1, <1>2, <1>3 DEF PixelsOf, getPhysicalRect, getPhysicalCoordinates, Span
<1>4. CASE b.rotation = 1
  BY <1>1, <1>2, <1>4 DEF PixelsOf, getPhysicalRect, getPhysicalCoordinates, At, Span
<1>5. CASE b.rotation = 2
  BY <1>1, <1>2, <1>5 DEF PixelsOf, getPhysicalRect, getPhysicalCoordinates, At, Span
<1>6. CASE b.rotation = 3
  BY <1>1, <1>2, <1>6 DEF PixelsOf, getPhysicalRect, getPhysicalCoordinates, At, Span
<1> QED
  BY <1>1, <1>3, <1>4, <1>5, <1>6

(* A run of w * h pixels lies, where it is within w columns, in h lines;   *)
(* it is just those when a line is as wide as the stride, or only one.     *)
LinesOfRun(x, y, w, h) ==
  /\ Run(x, y, w, h) \subseteq Int \X Int
  /\ \A p \in Run(x, y, w, h) :
       p[1] \in Span(x, w) => p \in Span(x, w) \X Span(y, h)
  /\ w = W \/ h = 1 => Run(x, y, w, h) = Span(x, w) \X Span(y, h)

LEMMA RunLines ==
  ASSUME NEW x \in Nat, NEW y \in Int, NEW w \in Nat, NEW h \in Nat, x + w <= W
  PROVE  LinesOfRun(x, y, w, h)
<1>1. W \in Nat /\ w <= W /\ w * h \in Nat /\ w * h <= W * h
  <2>1. W \in Nat /\ w <= W BY ScreenAssumption
  <2> QED BY <2>1
<1>2. ASSUME NEW d \in Int
      PROVE  /\ d < 0 => d * W <= 0 - W
             /\ d >= h => d * W >= W * h
             /\ d >= 1 => d * W >= W
             /\ d < h => d * W + W <= W * h
             /\ d >= 0 => d * W >= 0
             /\ d * W \in Int
  <2>1. d < 0 => (0 - 1 - d) * W >= 0 BY <1>1
  <2>2. d >= h => (d - h) * W >= 0 BY <1>1
  <2>3. d >= 1 => (d - 1) * W >= 0 BY <1>1
  <2>4. d < h => (h - d - 1) * W >= 0 BY <1>1
  <2>5. d >= 0 => d * W >= 0 BY <1>1
  <2>6. /\ (0 - 1 - d) * W = 0 - W - d * W /\ (d - h) * W = d * W - W * h
        /\ (d - 1) * W = d * W - W /\ (h - d - 1) * W = W * h - d * W - W
        /\ d * W \in Int /\ W * h \in Int
    BY <1>1
  <2> QED BY <1>1, <2>1, <2>2, <2>3, <2>4, <2>5, <2>6
<1>3. \A p \in Run(x, y, w, h) :
        /\ p = <<p[1], p[2]>> /\ p[1] \in 0 .. W - 1 /\ p[2] \in Span(y, h + 1)
        /\ p[2] - y \in Int /\ p[1] \in Int /\ p[2] \in Int
        /\ 0 <= (p[2] - y) * W + p[1] - x /\ (p[2] - y) * W + p[1] - x < w * h
  BY <1>1 DEF Run, Span
<1>4. ASSUME NEW p \in Run(x, y, w, h), p[1] \in Span(x, w)
      PROVE  p \in Span(x, w) \X Span(y, h)
  <2> DEFINE d == p[2] - y  dW == d * W
  <2>1. /\ d \in Int /\ p[2] = y + d /\ p[1] \in Int /\ x <= p[1] /\ p[1] <= x + w - 1
        /\ 0 <= dW + p[1] - x /\ dW + p[1] - x < w * h /\ p = <<p[1], p[2]>>
    BY <1>3, <1>4 DEF Span
  <2>2. dW \in Int /\ (d < 0 => dW <= 0 - W) /\ (d >= h => dW >= W * h)
    BY <1>2, <2>1
  <2> HIDE DEF d, dW
  <2>3. W * h \in Int BY <1>1
  <2>4. 0 <= d /\ d < h BY <1>1, <2>1, <2>2, <2>3
  <2>5. p[2] \in Span(y, h) BY <2>1, <2>4 DEF Span
  <2> QED BY <1>4, <2>1, <2>5
<1>5. ASSUME w = W \/ h = 1, NEW p \in Run(x, y, w, h)
      PROVE  p[1] \in Span(x, w)
  <2> DEFINE d == p[2] - y  dW == d * W
  <2>1. /\ d \in Int /\ p[1] \in Int /\ 0 <= p[1] /\ p[1] < W
        /\ 0 <= dW + p[1] - x /\ dW + p[1] - x < w * h
    BY <1>1, <1>3
  <2>2. dW \in Int /\ (d < 0 => dW <= 0 - W) /\ (d >= 1 => dW >= W) /\ (d = 0 => dW = 0)
    BY <1>1, <1>2, <2>1
  <2> HIDE DEF d, dW
  <2>3. CASE w = W BY <1>1, <2>1, <2>3 DEF Span
  <2>4. CASE h = 1
    <3>1. w * h = w BY <2>4
    <3>2. d = 0 BY <1>1, <2>1, <2>2, <3>1
    <3> QED BY <1>1, <2>1, <2>2, <3>1, <3>2 DEF Span
  <2> QED BY <1>5, <2>3, <2>4
<1>6. ASSUME w = W \/ h = 1, NEW c \in Span(x, w), NEW l \in Span(y, h)
      PROVE  <<c, l>> \in Run(x, y, w, h)
  <2> DEFINE d == l - y  dW == d * W
  <2>1. /\ c \in Int /\ x <= c /\ c <= x + w - 1 /\ l \in Int /\ d \in Int
        /\ 0 <= d /\ d < h
    BY <1>6 DEF Span
  <2>2. dW \in Int /\ dW >= 0 /\ dW + W <= W * h /\ (d = 0 => dW = 0)
    BY <1>1, <1>2, <2>1
  <2>3. c \in 0 .. W - 1 /\ l \in Span(y, h + 1) BY <1>1, <2>1 DEF Span
  <2>4. 0 <= dW + c - x /\ dW + c - x < w * h
    <3> HIDE DEF dW, d
    <3>1. CASE w = W
      <4>1. w * h = W * h /\ W * h \in Int BY <1>1, <3>1
      <4> QED BY <1>1, <2>1, <2>2, <3>1, <4>1
    <3>2. CASE h = 1
      <4>1. w * h = w /\ d = 0 BY <2>1, <3>2
      <4> QED BY <1>1, <2>1, <2>2, <4>1
    <3> QED BY <1>6, <3>1, <3>2
  <2> QED BY <2>3, <2>4 DEF Run
<1>7. Run(x, y, w, h) \subseteq Int \X Int BY <1>3
<1>8. ASSUME w = W \/ h = 1 PROVE Run(x, y, w, h) = Span(x, w) \X Span(y, h)
  <2>1. \A p \in Run(x, y, w, h) : p \in Span(x, w) \X Span(y, h) BY <1>4, <1>5, <1>8
  <2>2. \A p \in Span(x, w) \X Span(y, h) : p \in Run(x, y, w, h) BY <1>6, <1>8
  <2> QED BY <2>1, <2>2
<1> QED BY <1>4, <1>7, <1>8 DEF LinesOfRun

(* The working buffer lies within the panel's columns.                     *)
LEMMA NarrowBuffer ==
  ASSUME IInv
  PROVE  bb.x \in Nat /\ bb.x + bb.w <= W /\ bb.y \in Int /\ bb.w \in Nat /\ bb.h \in Nat
<1>1. /\ bb \in Buffer /\ full \in Buffer /\ viewport \in Rect \cup {None}
      /\ Placed(full, bb, viewport, cur_rotation_mode) /\ None \notin Rect
      /\ W \in Nat /\ H \in Nat
  BY ScreenAssumption DEF IInv, TypeOK
<1>2. bb.x \in Int /\ bb.y \in Int /\ bb.w \in Nat /\ bb.h \in Nat BY <1>1 DEF Buffer
<1>3. CASE viewport = None BY <1>1, <1>2, <1>3 DEF Placed
<1>4. CASE viewport # None
  <2>1. /\ viewport.x \in Int /\ viewport.y \in Int /\ viewport.w \in Nat /\ viewport.h \in Nat
    BY <1>1, <1>4 DEF Rect
  <2>2. ~BadViewport(viewport) BY <1>1, <1>4 DEF Placed
  <2>3. CASE device.portrait
    BY <1>1, <1>2, <1>4, <2>1, <2>2, <2>3 DEF Placed, BadViewport, screen_w, screen_h
  <2>4. CASE ~device.portrait
    BY <1>1, <1>2, <1>4, <2>1, <2>2, <2>4 DEF Placed, BadViewport, screen_w, screen_h
  <2> QED BY <2>3, <2>4
<1> QED BY <1>3, <1>4

(* What the single step writes and reads, against what was to be copied.   *)
LEMMA OneStepLines ==
  ASSUME IInv, NEW s \in Source, NEW i, NEW j, InOneStep(s, i),
         i.length \in Nat, j.length \in Nat, j.target \in Int, j.source \in Int
  PROVE  LET wrote == Run(bb.x, bb.y + j.target, i.length, j.length)
             took  == Run(0, j.source, i.length, j.length)
             to    == Blitted(bb, At(i.target, j.target, i.length, j.length))
             from  == Span(i.source, i.length) \X Span(j.source, j.length)
         IN  /\ wrote \subseteq Int \X Int /\ took \subseteq Int \X Int
             /\ wrote \cap Visible \subseteq to
             /\ \A p \in took : p[1] < s.w => p \in from
             /\ bb.w = W \/ j.length = 1 => wrote = to /\ took = from
<1> DEFINE wrote == Run(bb.x, bb.y + j.target, i.length, j.length)
           took  == Run(0, j.source, i.length, j.length)
           to    == Blitted(bb, At(i.target, j.target, i.length, j.length))
           from  == Span(i.source, i.length) \X Span(j.source, j.length)
<1>1. /\ i.length = bb.w /\ i.length = s.w /\ i.source = 0 /\ i.target = 0 /\ bb.rotation = 0
  BY DEF InOneStep
<1>2. W \in Nat
  BY ScreenAssumption
<1>3. bb.x \in Nat /\ bb.x + bb.w <= W /\ bb.y \in Int /\ bb.w \in Nat /\ bb.h \in Nat
  BY NarrowBuffer
<1>4. bb.y + j.target \in Int /\ 0 \in Nat /\ 0 + i.length <= W
  BY <1>1, <1>2, <1>3
<1>5. to = Span(bb.x, bb.w) \X Span(bb.y + j.target, j.length)
  <2>1. to = {<<bb.x + p[1], bb.y + p[2]>> : p \in Span(0, bb.w) \X Span(j.target, j.length)}
    BY <1>1 DEF Blitted, getPhysicalCoordinates, At
  <2>2. ASSUME NEW c \in Span(0, bb.w), NEW l \in Span(j.target, j.length)
        PROVE  bb.x + c \in Span(bb.x, bb.w) /\ bb.y + l \in Span(bb.y + j.target, j.length)
    BY <1>3 DEF Span
  <2>3. ASSUME NEW c \in Span(bb.x, bb.w), NEW l \in Span(bb.y + j.target, j.length)
        PROVE  \E p \in Span(0, bb.w) \X Span(j.target, j.length) :
                 <<c, l>> = <<bb.x + p[1], bb.y + p[2]>>
    <3>1. /\ c - bb.x \in Span(0, bb.w) /\ l - bb.y \in Span(j.target, j.length)
          /\ c = bb.x + (c - bb.x) /\ l = bb.y + (l - bb.y)
      BY <1>3, <1>4 DEF Span
    <3>2. <<c - bb.x, l - bb.y>> \in Span(0, bb.w) \X Span(j.target, j.length) BY <3>1
    <3> QED BY <3>1, <3>2
  <2> HIDE DEF to
  <2> QED BY <2>1, <2>2, <2>3
<1>6. from = Span(0, bb.w) \X Span(j.source, j.length) BY <1>1
<1>7. /\ wrote \subseteq Int \X Int
      /\ \A p \in wrote : p[1] \in Span(bb.x, bb.w) =>
           p \in Span(bb.x, bb.w) \X Span(bb.y + j.target, j.length)
      /\ bb.w = W \/ j.length = 1 =>
           wrote = Span(bb.x, bb.w) \X Span(bb.y + j.target, j.length)
  <2>1. LinesOfRun(bb.x, bb.y + j.target, bb.w, j.length) BY <1>1, <1>3, <1>4, RunLines
  <2>2. wrote = Run(bb.x, bb.y + j.target, bb.w, j.length) BY <1>1
  <2> HIDE DEF wrote
  <2> QED BY <2>1, <2>2 DEF LinesOfRun
<1>8. /\ took \subseteq Int \X Int
      /\ \A p \in took : p[1] \in Span(0, bb.w) => p \in Span(0, bb.w) \X Span(j.source, j.length)
      /\ bb.w = W \/ j.length = 1 => took = Span(0, bb.w) \X Span(j.source, j.length)
  <2>1. LinesOfRun(0, j.source, bb.w, j.length) BY <1>1, <1>3, <1>4, RunLines
  <2>2. took = Run(0, j.source, bb.w, j.length) BY <1>1
  <2> HIDE DEF took
  <2> QED BY <2>1, <2>2 DEF LinesOfRun
<1>9. \A p \in Visible : p[1] \in Span(bb.x, bb.w)
  BY <1>3 DEF Visible, PixelsOf, At
<1>10. \A p \in took : p[1] < s.w => p[1] \in Span(0, bb.w)
  <2>1. \A p \in took : p[1] \in 0 .. W - 1 BY DEF Run
  <2> HIDE DEF took
  <2> QED BY <1>1, <1>2, <1>3, <2>1 DEF Span
<1> HIDE DEF wrote, took, to, from
<1>11. wrote \cap Visible \subseteq to BY <1>5, <1>7, <1>9
<1>12. \A p \in took : p[1] < s.w => p \in from BY <1>6, <1>8, <1>10
<1> QED BY <1>5, <1>6, <1>7, <1>8, <1>11, <1>12 DEF wrote, took, to, from

(* A rectangle within another has its pixels within the other's. *)
LEMMA WithinAsked ==
  ASSUME NEW b \in Buffer, NEW r \in Frame, NEW u \in Frame,
         \A k \in Span(r.x, r.w) : k \in Span(u.x, u.w),
         \A l \in Span(r.y, r.h) : l \in Span(u.y, u.h)
  PROVE  Blitted(b, r) \subseteq Blitted(b, u)
BY DEF Blitted

----------------------------------------------------------------------------
(* The invariant. *)

LEMMA InitIInv == Init => IInv
<1> SUFFICES ASSUME Init PROVE IInv
  OBVIOUS
<1>1. /\ W \in Nat /\ H \in Nat /\ None \notin Rect
      /\ blitbuffer_rotation_mode \in 0 .. 3
  BY ScreenAssumption DEF blitbuffer_rotation_mode
<1>2. /\ full = [x |-> 0, y |-> 0, w |-> W, h |-> H,
                 rotation |-> blitbuffer_rotation_mode, inverse |-> 0]
      /\ bb = full /\ viewport = None
      /\ cur_rotation_mode = 0 /\ night_mode = FALSE
      /\ pending = None /\ source = None /\ unshown = {} /\ read = {} /\ sent = None
  BY DEF Init
<1>3. full \in Buffer
  BY <1>1, <1>2 DEF Buffer
<1>4. TypeOK
  <2>1. cur_rotation_mode \in 0 .. 3 /\ night_mode \in BOOLEAN
    <3>1. night_mode \in BOOLEAN
      BY <1>2, Zenon
    <3> QED
      BY <1>2, <3>1
  <2>3. unshown \in SUBSET (Int \X Int) /\ read \in SUBSET (Int \X Int)
    BY <1>2
  <2>2. /\ viewport \in Rects \cup {None} /\ pending \in Rect \cup {None}
        /\ source \in Sources \cup {None} /\ sent \in Rect \cup {None}
        /\ full \in Buffer /\ bb \in Buffer
    BY <1>2, <1>3
  <2> QED
    BY <2>1, <2>2, <2>3 DEF TypeOK, Init
<1>5. full.rotation = (blitbuffer_rotation_mode - 0) % 4
  BY <1>1, <1>2
<1>6. BuffersAgree
  BY <1>1, <1>2 DEF BuffersAgree
<1>7. Placed(full, bb, viewport, cur_rotation_mode)
  BY <1>2, <1>5 DEF Placed
<1>8. RegionInPanel /\ RefreshShows
  BY <1>2 DEF RegionInPanel, RefreshShows
<1> QED
  BY <1>2, <1>4, <1>6, <1>7, <1>8 DEF IInv

(* Painting only adds to what is to be refreshed what it changes.          *)
LEMMA PaintKeepsIInv ==
  ASSUME IInv, NEW r \in Rect, pending' = r, sent' = None,
         source' \in Sources \cup {None}, read' \in SUBSET (Int \X Int),
         unshown' \subseteq Int \X Int, unshown' \cap Visible \subseteq Asked(bb, r),
         UNCHANGED <<device, full, bb, viewport, cur_rotation_mode, night_mode>>
  PROVE  IInv'
<1>1. None \notin Rect
  BY ScreenAssumption
<1>2. TypeOK'
  BY DEF IInv, TypeOK
<1>3. BuffersAgree'
  BY DEF IInv, BuffersAgree, blitbuffer_rotation_mode
<1>4. RegionInPanel' /\ RefreshShows'
  BY <1>1 DEF RegionInPanel, RefreshShows
<1>5. Placed(full, bb, viewport, cur_rotation_mode)'
  BY DEF IInv, Placed, BadViewport, screen_w, screen_h, blitbuffer_rotation_mode
<1>6. (unshown \cap Visible)' \subseteq Asked(bb, pending)'
  BY DEF Visible, Asked
<1> QED
  BY <1>2, <1>3, <1>4, <1>5, <1>6 DEF IInv

(* Once a rectangle that holds all that is visible and unshown is sent,    *)
(* nothing is left, and what was sent lies in the panel; if it was bogus,  *)
(* what is left lies in a row or a column.                                 *)
LEMMA UpdateShows ==
  ASSUME full \in Buffer, full.w = W, full.h = H,
         NEW b \in Buffer, NEW q \in Frame, NEW a \in Nat \ {0},
         NEW written \in SUBSET (Int \X Int),
         written \cap PixelsOf(b, At(0, 0, b.w, b.h)) \subseteq PixelsOf(full, RegionOf(q, a)),
         Update(written, RegionOf(q, a))
  PROVE  /\ unshown' \in SUBSET (Int \X Int) /\ sent' \in Rect \cup {None}
         /\ sent' # None => /\ 0 <= sent'.x /\ sent'.x + sent'.w <= W /\ 1 < sent'.w
                            /\ 0 <= sent'.y /\ sent'.y + sent'.h <= H /\ 1 < sent'.h
         /\ sent' # None => unshown' \cap PixelsOf(b, At(0, 0, b.w, b.h)) = {}
         /\ \A p1, p2 \in unshown' \cap PixelsOf(b, At(0, 0, b.w, b.h)) :
              p1[1] = p2[1] \/ p1[2] = p2[2]
<1> DEFINE region == RegionOf(q, a)
<1>1. CASE Bogus(region)
  <2>1. unshown' = written /\ sent' = None
    BY <1>1 DEF Update
  <2>2. \A p1, p2 \in PixelsOf(full, region) : p1[1] = p2[1] \/ p1[2] = p2[2]
    <3>1. full.x \in Int /\ full.y \in Int /\ region.x \in Int /\ region.y \in Int
          /\ region.w \in Int /\ region.h \in Int
      <4>1. getBoundedRect(full, q, a) \in Frame
        BY BoundedRectInside
      <4> QED
        BY <4>1 DEF RegionOf, getPhysicalRect, At, Frame, Buffer
    <3> HIDE DEF region
    <3> QED
      BY <1>1, <3>1 DEF Bogus, PixelsOf, Span
  <2> QED
    BY <2>1, <2>2
<1>2. CASE ~Bogus(region)
  <2>1. unshown' = written \ PixelsOf(full, region) /\ sent' = region
    BY <1>2 DEF Update
  <2>2. /\ region \in Rect
        /\ 0 <= region.x /\ region.x + region.w <= W /\ 1 < region.w
        /\ 0 <= region.y /\ region.y + region.h <= H /\ 1 < region.h
    BY <1>2, RegionInside
  <2> QED
    BY <2>1, <2>2
<1> QED
  BY <1>1, <1>2

\* Drawing changes pixels only.
LEMMA PaintRectKeepsIInv ==
  ASSUME IInv, NEW r \in Rects, paintRect(r)
  PROVE  IInv'
<1>1. r \in Rect /\ bb \in Buffer
  BY ScreenAssumption DEF IInv, TypeOK
<1>2. /\ pending' = r /\ sent' = None /\ source' = None /\ read' = {}
      /\ unshown' = Filled(bb, getBoundedRect(bb, r, 1))
      /\ UNCHANGED <<device, full, bb, viewport, cur_rotation_mode, night_mode>>
  BY DEF paintRect
<1>3. unshown' \subseteq Int \X Int /\ unshown' \cap Visible \subseteq Asked(bb, r)
  BY <1>1, <1>2, FillsAsked DEF Visible
<1> QED
  BY <1>1, <1>2, <1>3, PaintKeepsIInv

\* Copying changes pixels only.
LEMMA BlitFromKeepsIInv ==
  ASSUME IInv, NEW r \in Rects, NEW s \in Sources, blitFrom(r, s)
  PROVE  IInv'
<1> DEFINE i  == checkBounds(r.w, r.x, s.x, Width(bb), s.w)
           j  == checkBounds(r.h, r.y, s.y, Height(bb), s.h)
           u  == At(i.target, j.target, i.length, j.length)
           in == getBoundedRect(bb, r, 1)
           drawn == i.length > 0 /\ j.length > 0
<1>1. /\ r \in Rect /\ s \in Source /\ bb \in Buffer
      /\ r.x \in Int /\ r.y \in Int /\ r.w \in Nat /\ r.h \in Nat
      /\ s.x \in Int /\ s.y \in Int /\ s.w \in Nat /\ s.h \in Nat
      /\ Width(bb) \in Nat /\ Height(bb) \in Nat
  BY ScreenAssumption DEF IInv, TypeOK, Rect, Source, Buffer, Width, Height
<1>2. /\ pending' = r /\ sent' = None /\ source' = s
      /\ read' = IF ~drawn THEN {}
                 ELSE IF InOneStep(s, i) THEN Run(0, j.source, i.length, j.length)
                 ELSE Span(i.source, i.length) \X Span(j.source, j.length)
      /\ unshown' = IF ~drawn THEN {}
                    ELSE IF InOneStep(s, i)
                         THEN Run(bb.x, bb.y + j.target, i.length, j.length)
                         ELSE Blitted(bb, u)
      /\ UNCHANGED <<device, full, bb, viewport, cur_rotation_mode, night_mode>>
  BY DEF blitFrom
<1>3. CopiesExactly(i, r.w, r.x, s.x, Width(bb), s.w)
  <2>1. r.w \in Int /\ r.x \in Int /\ s.x \in Int /\ Width(bb) \in Nat /\ s.w \in Nat
    BY <1>1
  <2> QED
    BY <2>1, CheckBoundsExact
<1>4. CopiesExactly(j, r.h, r.y, s.y, Height(bb), s.h)
  <2>1. r.h \in Int /\ r.y \in Int /\ s.y \in Int /\ Height(bb) \in Nat /\ s.h \in Nat
    BY <1>1
  <2> QED
    BY <2>1, CheckBoundsExact
<1>5. in \in Frame /\ u \in Frame
  <2>1. r \in Frame
    BY <1>1 DEF Rect, Frame
  <2>2. in \in Frame
    BY <1>1, <2>1, BoundedRectInside
  <2>3. u = [x |-> i.target, y |-> j.target, w |-> i.length, h |-> j.length]
    BY DEF At
  <2> HIDE DEF i, j, u
  <2>4. u \in Frame
    BY <1>3, <1>4, <2>3 DEF Frame, CopiesExactly
  <2> QED
    BY <2>2, <2>4
<1>6. /\ \A k \in 0 .. Width(bb) - 1 : k \in Span(r.x, r.w) => k \in Span(in.x, in.w)
      /\ \A l \in 0 .. Height(bb) - 1 : l \in Span(r.y, r.h) => l \in Span(in.y, in.h)
  <2>0. /\ r.w \in Int /\ r.h \in Int /\ 1 \in Nat \ {0}
        /\ in.x = BoundedOffset(r.x, Width(bb), 1)
        /\ in.w = BoundedLength(r.x, r.w, Width(bb), 1)
        /\ in.y = BoundedOffset(r.y, Height(bb), 1)
        /\ in.h = BoundedLength(r.y, r.h, Height(bb), 1)
    BY <1>1 DEF getBoundedRect, At
  <2> HIDE DEF i, j, u, in
  <2>1. \A k \in 0 .. Width(bb) - 1 : k \in Span(r.x, r.w) => k \in Span(in.x, in.w)
    BY <1>1, <2>0, BoundedAxis
  <2>2. \A l \in 0 .. Height(bb) - 1 : l \in Span(r.y, r.h) => l \in Span(in.y, in.h)
    BY <1>1, <2>0, BoundedAxis
  <2> QED
    BY <2>1, <2>2
<1>7. u.x = i.target /\ u.w = i.length /\ u.y = j.target /\ u.h = j.length
  BY DEF At
<1> HIDE DEF i, j, u, in
<1>8. ASSUME drawn
      PROVE  Blitted(bb, u) \subseteq Asked(bb, r)
  <2>1. \A k \in Span(u.x, u.w) : k \in Span(in.x, in.w)
    <3> SUFFICES ASSUME NEW k \in Span(i.target, i.length) PROVE k \in Span(in.x, in.w)
      BY <1>7
    <3>1. k \in Int /\ k - r.x \in Int /\ r.x + (k - r.x) = k
      BY <1>1, <1>3 DEF Span, CopiesExactly
    <3>2. k - r.x \in Span(0, r.w) /\ k \in 0 .. Width(bb) - 1
      BY <1>3, <1>8, <3>1 DEF Copied, CopiesExactly
    <3>3. k \in Span(r.x, r.w)
      BY <1>1, <3>1, <3>2 DEF Span
    <3> QED
      BY <1>6, <3>2, <3>3
  <2>2. \A l \in Span(u.y, u.h) : l \in Span(in.y, in.h)
    <3> SUFFICES ASSUME NEW l \in Span(j.target, j.length) PROVE l \in Span(in.y, in.h)
      BY <1>7
    <3>1. l \in Int /\ l - r.y \in Int /\ r.y + (l - r.y) = l
      BY <1>1, <1>4 DEF Span, CopiesExactly
    <3>2. l - r.y \in Span(0, r.h) /\ l \in 0 .. Height(bb) - 1
      BY <1>4, <1>8, <3>1 DEF Copied, CopiesExactly
    <3>3. l \in Span(r.y, r.h)
      BY <1>1, <3>1, <3>2 DEF Span
    <3> QED
      BY <1>6, <3>2, <3>3
  <2>3. Blitted(bb, u) \subseteq Blitted(bb, in)
    BY <1>1, <1>5, <2>1, <2>2, WithinAsked
  <2>4. Blitted(bb, in) \subseteq Asked(bb, r)
    BY <1>1, <1>5, BlitsRect DEF Asked, in
  <2> QED
    BY <2>3, <2>4
<1>9. Asked(bb, r) \subseteq Int \X Int
  <2>1. getPhysicalRect(bb, in) \in Frame
    BY <1>1, <1>5 DEF getPhysicalRect, At, Frame, Buffer
  <2> QED
    BY <1>1, <2>1 DEF Asked, PixelsOf, Span, Frame, Buffer, in
<1>10. ASSUME drawn, InOneStep(s, i)
       PROVE  /\ Run(bb.x, bb.y + j.target, i.length, j.length) \subseteq Int \X Int
              /\ Run(0, j.source, i.length, j.length) \subseteq Int \X Int
              /\ Run(bb.x, bb.y + j.target, i.length, j.length) \cap Visible \subseteq Blitted(bb, u)
  <2>1. /\ i.length \in Nat /\ j.length \in Nat /\ j.target \in Int /\ j.source \in Int
    BY <1>3, <1>4, <1>10 DEF CopiesExactly
  <2> QED
    BY <1>1, <1>10, <2>1, OneStepLines DEF u
<1>11. read' \in SUBSET (Int \X Int)
  BY <1>2, <1>3, <1>4, <1>10 DEF Span, CopiesExactly
<1>12. unshown' \subseteq Int \X Int /\ unshown' \cap Visible \subseteq Asked(bb, r)
  BY <1>2, <1>8, <1>9, <1>10
<1> QED
  BY <1>1, <1>2, <1>11, <1>12, PaintKeepsIInv

\* A refresh shows everything visible and unshown, one line or column aside.
LEMMA RefreshKeepsIInv ==
  ASSUME IInv, NEW a \in Alignments, Refresh(a)
  PROVE  IInv'
<1> DEFINE q == calculateRealCoordinates(bb, viewport, cur_rotation_mode, pending)
<1>1. /\ a \in Nat \ {0} /\ None \notin Rect
      /\ full \in Buffer /\ bb \in Buffer /\ pending \in Rect
      /\ viewport \in Rect \cup {None} /\ cur_rotation_mode \in 0 .. 3
      /\ unshown \in SUBSET (Int \X Int)
      /\ device \in [portrait : {FALSE, W > H}, canHWInvert : BOOLEAN]
      /\ Placed(full, bb, viewport, cur_rotation_mode)
      /\ full.w = W /\ full.h = H
  BY ScreenAssumption DEF IInv, TypeOK, Refresh, Placed
<1>2. /\ Update(unshown, RegionOf(q, a)) /\ pending' = None /\ source' = None /\ read' = {}
      /\ UNCHANGED <<device, full, bb, viewport, cur_rotation_mode, night_mode>>
  BY DEF Refresh
<1>3. q \in Frame /\ Asked(bb, pending) \subseteq PixelsOf(full, RegionOf(q, a))
  BY <1>1, RefreshCovers
<1>4. unshown \cap PixelsOf(bb, At(0, 0, bb.w, bb.h)) \subseteq PixelsOf(full, RegionOf(q, a))
  BY <1>1, <1>3 DEF IInv, Visible
<1> HIDE DEF q
<1>5. /\ unshown' \in SUBSET (Int \X Int) /\ sent' \in Rect \cup {None}
      /\ sent' # None => /\ 0 <= sent'.x /\ sent'.x + sent'.w <= W /\ 1 < sent'.w
                         /\ 0 <= sent'.y /\ sent'.y + sent'.h <= H /\ 1 < sent'.h
      /\ sent' # None => unshown' \cap PixelsOf(bb, At(0, 0, bb.w, bb.h)) = {}
      /\ \A p1, p2 \in unshown' \cap PixelsOf(bb, At(0, 0, bb.w, bb.h)) :
           p1[1] = p2[1] \/ p1[2] = p2[2]
  BY <1>1, <1>2, <1>3, <1>4, UpdateShows
<1>6. TypeOK'
  BY <1>2, <1>5 DEF IInv, TypeOK
<1>7. BuffersAgree'
  BY <1>2 DEF IInv, BuffersAgree, blitbuffer_rotation_mode
<1>8. RegionInPanel' /\ RefreshShows'
  BY <1>2, <1>5 DEF RegionInPanel, RefreshShows, Visible
<1>9. Placed(full, bb, viewport, cur_rotation_mode)'
  BY <1>2 DEF IInv, Placed, BadViewport, screen_w, screen_h, blitbuffer_rotation_mode
<1> QED
  BY <1>1, <1>2, <1>6, <1>7, <1>8, <1>9 DEF IInv

\* A valid viewport places the working buffer where it lies on the upright screen.
LEMMA SetViewportKeepsIInv ==
  ASSUME IInv, NEW v \in Rects, setViewport(v)
  PROVE  IInv'
<1> DEFINE sub == SubBuffer(v)
           q   == calculateRealCoordinates(sub, v, 0, Whole(sub))
<1>1. /\ v \in Rect /\ None \notin Rect /\ W \in Nat /\ H \in Nat
      /\ full \in Buffer /\ cur_rotation_mode = 0 /\ pending = None
      /\ device \in [portrait : {FALSE, W > H}, canHWInvert : BOOLEAN]
      /\ blitbuffer_rotation_mode = IF device.portrait THEN 3 ELSE 0
  BY ScreenAssumption DEF IInv, TypeOK, setViewport, blitbuffer_rotation_mode
<1>2. /\ v.x \in Nat /\ v.y \in Nat /\ v.w \in Nat /\ v.h \in Nat
      /\ v.x + v.w <= screen_w /\ v.y + v.h <= screen_h
      /\ ~BadViewport(v)
  BY <1>1 DEF setViewport, BadViewport, Rect, screen_w, screen_h
<1>3. /\ full.x = 0 /\ full.y = 0 /\ full.w = W /\ full.h = H
      /\ full.rotation = blitbuffer_rotation_mode
      /\ full.rotation = (blitbuffer_rotation_mode - 0) % 4
  BY <1>1 DEF IInv, Placed
<1>4. LET r == getPhysicalRect(full, v)
      IN  /\ r.x \in Int /\ r.y \in Int /\ r.w \in Nat /\ r.h \in Nat
          /\ ~device.portrait => r.x = v.x /\ r.y = v.y /\ r.w = v.w /\ r.h = v.h
          /\ device.portrait => /\ r.x = v.y /\ r.y = H - (v.x + v.w)
                                /\ r.w = v.h /\ r.h = v.w
  BY <1>1, <1>2, <1>3 DEF getPhysicalRect, At
<1>5. /\ sub \in Buffer /\ sub.rotation = full.rotation /\ sub.inverse = full.inverse
      /\ Placed(full, sub, v, 0)
  <2> DEFINE r == getPhysicalRect(full, v)
  <2>1. sub = [full EXCEPT !.x = r.x, !.y = r.y, !.w = r.w, !.h = r.h]
    BY DEF SubBuffer
  <2>2. r.x \in Int /\ r.y \in Int /\ r.w \in Nat /\ r.h \in Nat
    BY <1>4
  <2> HIDE DEF sub, r
  <2>3. /\ sub \in Buffer /\ sub.rotation = full.rotation /\ sub.inverse = full.inverse
        /\ sub.x = r.x /\ sub.y = r.y /\ sub.w = r.w /\ sub.h = r.h
    BY <1>1, <2>1, <2>2 DEF Buffer
  <2>4. Placed(full, sub, v, 0)
    BY <1>1, <1>2, <1>3, <1>4, <2>3 DEF Placed, r
  <2> QED
    BY <2>3, <2>4
<1>6. /\ viewport' = v /\ bb' = sub /\ pending' = None /\ source' = None /\ read' = {}
      /\ Update(Panel, RegionOf(q, 1))
      /\ UNCHANGED <<device, full, cur_rotation_mode, night_mode>>
  BY <1>1 DEF setViewport
<1> HIDE DEF sub
<1>7. /\ Whole(sub) \in Rect
      /\ Asked(sub, Whole(sub)) = PixelsOf(sub, At(0, 0, sub.w, sub.h))
  BY <1>5, WholeIsVisible
<1>8. q \in Frame /\ Asked(sub, Whole(sub)) \subseteq PixelsOf(full, RegionOf(q, 1))
  <2>1. 1 \in Nat \ {0} /\ 0 \in 0 .. 3 /\ v \in Rect \cup {None}
    BY <1>1
  <2> QED
    BY <1>1, <1>5, <1>7, <2>1, RefreshCovers
<1> HIDE DEF q
<1>9. /\ unshown' \in SUBSET (Int \X Int) /\ sent' \in Rect \cup {None}
      /\ sent' # None => /\ 0 <= sent'.x /\ sent'.x + sent'.w <= W /\ 1 < sent'.w
                         /\ 0 <= sent'.y /\ sent'.y + sent'.h <= H /\ 1 < sent'.h
      /\ sent' # None => unshown' \cap PixelsOf(sub, At(0, 0, sub.w, sub.h)) = {}
      /\ \A p1, p2 \in unshown' \cap PixelsOf(sub, At(0, 0, sub.w, sub.h)) :
           p1[1] = p2[1] \/ p1[2] = p2[2]
  <2>1. Panel \in SUBSET (Int \X Int)
    BY <1>1 DEF Panel
  <2>2. Panel \cap PixelsOf(sub, At(0, 0, sub.w, sub.h)) \subseteq PixelsOf(full, RegionOf(q, 1))
    BY <1>7, <1>8
  <2> QED
    BY <1>1, <1>3, <1>5, <1>6, <1>8, <2>1, <2>2, UpdateShows
<1>10. TypeOK'
  <2>1. read' \in SUBSET (Int \X Int) /\ pending' \in Rect \cup {None}
        /\ source' \in Sources \cup {None} /\ viewport' \in Rects \cup {None}
    BY <1>6
  <2> QED
    BY <1>5, <1>6, <1>9, <2>1 DEF IInv, TypeOK
<1>11. BuffersAgree'
  BY <1>5, <1>6 DEF IInv, BuffersAgree, blitbuffer_rotation_mode
<1>12. RegionInPanel' /\ RefreshShows'
  BY <1>6, <1>9 DEF RegionInPanel, RefreshShows, Visible
<1>13. Placed(full, bb, viewport, cur_rotation_mode)'
  BY <1>1, <1>5, <1>6 DEF Placed, BadViewport, screen_w, screen_h, blitbuffer_rotation_mode
<1> QED
  BY <1>6, <1>10, <1>11, <1>12, <1>13 DEF IInv

(* Turning and inverting leave all that is visible to be refreshed. *)
LEMMA WholePendingKeepsIInv ==
  ASSUME IInv, bb' \in Buffer, full' \in Buffer, cur_rotation_mode' \in 0 .. 3,
         night_mode' \in BOOLEAN, UNCHANGED <<device, viewport>>,
         BuffersAgree', Placed(full, bb, viewport, cur_rotation_mode)',
         pending' = Whole(bb'), source' = None, read' = {}, sent' = None,
         unshown' \subseteq Int \X Int
  PROVE  IInv'
<1>1. None \notin Rect
  BY ScreenAssumption
<1>2. /\ Whole(bb') \in Rect
      /\ Asked(bb', Whole(bb')) = PixelsOf(bb', At(0, 0, bb'.w, bb'.h))
  BY WholeIsVisible
<1>3. TypeOK'
  <2>1. /\ pending' \in Rect \cup {None} /\ source' \in Sources \cup {None}
        /\ sent' \in Rect \cup {None} /\ read' \in SUBSET (Int \X Int)
    BY <1>2
  <2> QED
    BY <2>1 DEF IInv, TypeOK
<1>4. RegionInPanel' /\ RefreshShows'
  BY <1>1, <1>2 DEF RegionInPanel, RefreshShows
<1>5. (unshown \cap Visible)' \subseteq Asked(bb, pending)'
  BY <1>2 DEF Visible
<1> QED
  BY <1>3, <1>4, <1>5 DEF IInv

\* A rotation turns the buffer, not the panel.
LEMMA SetRotationModeKeepsIInv ==
  ASSUME IInv, NEW mode \in 0 .. 3, setRotationMode(mode)
  PROVE  IInv'
<1> DEFINE rotation == (blitbuffer_rotation_mode - mode) % 4
<1>1. /\ bb' = [bb EXCEPT !.rotation = rotation]
      /\ full' = [full EXCEPT !.rotation = rotation]
      /\ cur_rotation_mode' = mode
      /\ pending' = Whole(bb') /\ source' = None /\ read' = {}
      /\ unshown' = {} /\ sent' = None
      /\ UNCHANGED <<device, viewport, night_mode>>
  BY DEF setRotationMode
<1>2. /\ bb \in Buffer /\ full \in Buffer /\ night_mode \in BOOLEAN
      /\ blitbuffer_rotation_mode \in {0, 3}
      /\ blitbuffer_rotation_mode' = blitbuffer_rotation_mode
  BY <1>1 DEF IInv, TypeOK, blitbuffer_rotation_mode
<1>3. rotation \in 0 .. 3 /\ (rotation + mode - blitbuffer_rotation_mode) % 4 = 0
  BY <1>2
<1> HIDE DEF rotation
<1>4. /\ bb' \in Buffer /\ full' \in Buffer
      /\ bb'.rotation = rotation /\ full'.rotation = rotation
      /\ bb'.x = bb.x /\ bb'.y = bb.y /\ bb'.w = bb.w /\ bb'.h = bb.h
      /\ full'.x = full.x /\ full'.y = full.y /\ full'.w = full.w /\ full'.h = full.h
      /\ bb'.inverse = bb.inverse /\ full'.inverse = full.inverse
  BY <1>1, <1>2, <1>3 DEF Buffer
<1>5. BuffersAgree'
  BY <1>1, <1>2, <1>3, <1>4 DEF IInv, BuffersAgree
<1>6. Placed(full, bb, viewport, cur_rotation_mode)'
  BY <1>1, <1>2, <1>4 DEF IInv, Placed, BadViewport, screen_w, screen_h, rotation
<1>7. unshown' \subseteq Int \X Int
  BY <1>1
<1> QED
  BY <1>1, <1>2, <1>4, <1>5, <1>6, <1>7, WholePendingKeepsIInv

\* Night mode changes no geometry.
LEMMA ToggleNightModeKeepsIInv ==
  ASSUME IInv, toggleNightMode
  PROVE  IInv'
<1> DEFINE inverse == IF device.canHWInvert THEN bb.inverse ELSE 1 - bb.inverse
<1>1. /\ night_mode' = ~night_mode
      /\ bb' = [bb EXCEPT !.inverse = inverse]
      /\ full' = [full EXCEPT !.inverse = inverse]
      /\ unshown' = IF viewport = None \/ device.canHWInvert THEN {} ELSE Panel
      /\ pending' = Whole(bb) /\ source' = None /\ read' = {} /\ sent' = None
      /\ UNCHANGED <<device, viewport, cur_rotation_mode>>
  BY DEF toggleNightMode
<1>2. /\ bb \in Buffer /\ full \in Buffer /\ night_mode \in BOOLEAN
      /\ cur_rotation_mode \in 0 .. 3 /\ W \in Nat /\ H \in Nat
  BY ScreenAssumption DEF IInv, TypeOK
<1>3. /\ inverse \in 0 .. 1
      /\ device.canHWInvert => inverse = bb.inverse
      /\ ~device.canHWInvert => (inverse = 1 <=> bb.inverse # 1)
  BY <1>2 DEF Buffer
<1> HIDE DEF inverse
<1>4. /\ bb' \in Buffer /\ full' \in Buffer
      /\ bb'.rotation = bb.rotation /\ full'.rotation = full.rotation
      /\ bb'.x = bb.x /\ bb'.y = bb.y /\ bb'.w = bb.w /\ bb'.h = bb.h
      /\ full'.x = full.x /\ full'.y = full.y /\ full'.w = full.w /\ full'.h = full.h
      /\ bb'.inverse = inverse /\ full'.inverse = inverse
  BY <1>1, <1>2, <1>3 DEF Buffer
<1>5. BuffersAgree'
  BY <1>1, <1>2, <1>3, <1>4 DEF IInv, BuffersAgree, blitbuffer_rotation_mode
<1>6. Placed(full, bb, viewport, cur_rotation_mode)'
  BY <1>1, <1>4 DEF IInv, Placed, BadViewport, screen_w, screen_h, blitbuffer_rotation_mode
<1>7. unshown' \subseteq Int \X Int
  BY <1>1, <1>2 DEF Panel
<1>8. pending' = Whole(bb')
  BY <1>1, <1>4 DEF Whole, Width, Height
<1>9. night_mode' \in BOOLEAN
  BY <1>1
<1> QED
  BY <1>1, <1>2, <1>4, <1>5, <1>6, <1>7, <1>8, <1>9, WholePendingKeepsIInv

(* The inductive invariant: the buffers lie and turn together, and what is *)
(* visible and unshown is within what is still to be refreshed             *)
(* (framebuffer.lua:145-488, blitbuffer.lua:1150-1203, 2375-2381).         *)
THEOREM Invariance == Spec => []IInv
<1>1. Init => IInv
  BY InitIInv
<1>2. IInv /\ [Next]_vars => IInv'
  <2> SUFFICES ASSUME IInv, [Next]_vars PROVE IInv'
    OBVIOUS
  <2>1. CASE Next
    BY <2>1, PaintRectKeepsIInv, BlitFromKeepsIInv, RefreshKeepsIInv, SetViewportKeepsIInv,
       SetRotationModeKeepsIInv, ToggleNightModeKeepsIInv DEF Next
  <2>2. CASE UNCHANGED vars
    BY <2>2 DEF vars, IInv, TypeOK, BuffersAgree, RegionInPanel, RefreshShows, Placed,
       Visible, BadViewport, screen_w, screen_h, blitbuffer_rotation_mode, Asked
  <2> QED
    BY <2>1, <2>2
<1> QED
  BY <1>1, <1>2, PTL DEF Spec

(* What is painted, through any rotation, viewport and night mode, is      *)
(* shown once the same rectangle is refreshed, but for what lies in one    *)
(* row or column (framebuffer.lua:281-342, framebuffer_mxcfb.lua:262-286). *)
THEOREM PaintedIsShown == Spec => []RefreshShows
<1>1. IInv => RefreshShows
  BY DEF IInv
<1> QED
  BY <1>1, Invariance, PTL

(* No region reaches the kernel that leaves the panel or is one pixel thin *)
(* (framebuffer_mxcfb.lua:262-286).                                        *)
THEOREM RegionsStayInPanel == Spec => []RegionInPanel
<1>1. IInv => RegionInPanel
  BY DEF IInv
<1> QED
  BY <1>1, Invariance, PTL

(* The panel's and the working buffer turn and invert together             *)
(* (framebuffer.lua:454-490).                                              *)
THEOREM BuffersTurnTogether == Spec => []BuffersAgree
<1>1. IInv => BuffersAgree
  BY DEF IInv
<1> QED
  BY <1>1, Invariance, PTL

----------------------------------------------------------------------------
(* Blits. *)

\* Where the buffer b has its pixel <<x, y>>, in the panel's memory.
Place(b, x, y) ==
  <<b.x + getPhysicalCoordinates(b, x, y)[1], b.y + getPhysicalCoordinates(b, x, y)[2]>>

\* A copy reaches the pixels of the bounded rectangle and no other.
LEMMA BlitFromExact ==
  ASSUME IInv, NEW r \in Rects, NEW s \in Sources, blitFrom(r, s)
  PROVE  BlitExact'
<1> DEFINE i == checkBounds(r.w, r.x, s.x, Width(bb), s.w)
           j == checkBounds(r.h, r.y, s.y, Height(bb), s.h)
           u == At(i.target, j.target, i.length, j.length)
           drawn == i.length > 0 /\ j.length > 0
           K == Copied(r.w, r.x, s.x, Width(bb), s.w)
           L == Copied(r.h, r.y, s.y, Height(bb), s.h)
           asked == {k \in Span(0, r.w) \X Span(0, r.h) :
                       /\ r.x + k[1] \in 0 .. Width(bb) - 1
                       /\ r.y + k[2] \in 0 .. Height(bb) - 1
                       /\ s.x + k[1] \in 0 .. s.w - 1
                       /\ s.y + k[2] \in 0 .. s.h - 1}
           to   == {Place(bb, r.x + k[1], r.y + k[2]) : k \in asked}
           from == {<<s.x + k[1], s.y + k[2]>> : k \in asked}
           short == /\ s.alike /\ bb.rotation = 0 /\ bb.w < W
                    /\ s.w = bb.w /\ s.x = r.x
                    /\ 0 .. bb.w - 1 \subseteq Span(r.x, r.w)
                    /\ \E k, l \in asked : k[2] # l[2]
<1>0. r \in Rect /\ s \in Source /\ bb \in Buffer
  BY ScreenAssumption DEF IInv, TypeOK
<1>1. /\ r.x \in Int /\ r.y \in Int /\ r.w \in Int /\ r.h \in Int
      /\ s.x \in Int /\ s.y \in Int /\ s.w \in Nat /\ s.h \in Nat
      /\ Width(bb) \in Nat /\ Height(bb) \in Nat
  BY <1>0 DEF Rect, Source, Buffer, Width, Height
<1>2. /\ pending' = r /\ source' = s /\ bb' = bb
      /\ read' = IF ~drawn THEN {}
                 ELSE IF InOneStep(s, i) THEN Run(0, j.source, i.length, j.length)
                 ELSE Span(i.source, i.length) \X Span(j.source, j.length)
      /\ unshown' = IF ~drawn THEN {}
                    ELSE IF InOneStep(s, i)
                         THEN Run(bb.x, bb.y + j.target, i.length, j.length)
                         ELSE Blitted(bb, u)
  BY DEF blitFrom
<1>3. CopiesExactly(i, r.w, r.x, s.x, Width(bb), s.w)
  BY <1>1, CheckBoundsExact
<1>4. CopiesExactly(j, r.h, r.y, s.y, Height(bb), s.h)
  BY <1>1, CheckBoundsExact
<1>5. asked = K \X L
  BY DEF Copied
<1>6. BlitExact' <=>
        /\ unshown' \cap Visible \subseteq to
        /\ \A p \in read' : p[1] < s.w => p \in from
        /\ ~short => unshown' = to /\ read' = from
  <2>1. r # None /\ s # None
    BY <1>0, ScreenAssumption
  <2>2. Width(bb)' = Width(bb) /\ Height(bb)' = Height(bb) /\ Visible' = Visible
    BY <1>2 DEF Width, Height, Visible
  <2> HIDE DEF i, j, u, K, L
  <2> QED
    BY <1>2, <2>1, <2>2 DEF BlitExact, Place
<1>7. /\ u.x = i.target /\ u.y = j.target /\ u.w = i.length /\ u.h = j.length
  BY DEF At
<1> HIDE DEF i, j, u, K, L, asked, to, from, short
<1>8. CASE drawn
  <2>1. /\ i.length \in Int /\ i.target \in Int /\ i.source \in Int
        /\ i.target - r.x = i.source - s.x
        /\ \A k \in Int : k \in K <=> r.x + k \in Span(i.target, i.length)
        /\ j.length \in Int /\ j.target \in Int /\ j.source \in Int
        /\ j.target - r.y = j.source - s.y
        /\ \A k \in Int : k \in L <=> r.y + k \in Span(j.target, j.length)
    BY <1>3, <1>4, <1>8 DEF CopiesExactly, K, L
  <2>2. K \subseteq Int /\ L \subseteq Int
    BY DEF K, L, Copied, Span
  <2>3. /\ \A x : x \in Span(i.target, i.length) <=> x \in Int /\ x - r.x \in K
        /\ \A y : y \in Span(j.target, j.length) <=> y \in Int /\ y - r.y \in L
    <3>1. \A x \in Int : r.x + (x - r.x) = x /\ x - r.x \in Int
      BY <1>1
    <3>2. \A y \in Int : r.y + (y - r.y) = y /\ y - r.y \in Int
      BY <1>1
    <3>3. Span(i.target, i.length) \subseteq Int /\ Span(j.target, j.length) \subseteq Int
      BY <2>1 DEF Span
    <3> QED
      BY <2>1, <3>1, <3>2, <3>3
  <2>4. /\ \A x : x \in Span(i.source, i.length) <=> x \in Int /\ x - s.x \in K
        /\ \A y : y \in Span(j.source, j.length) <=> y \in Int /\ y - s.y \in L
    <3>1. \A x \in Int : x \in Span(i.source, i.length)
                           <=> r.x + (x - s.x) \in Span(i.target, i.length)
      BY <1>1, <2>1 DEF Span
    <3>2. \A y \in Int : y \in Span(j.source, j.length)
                           <=> r.y + (y - s.y) \in Span(j.target, j.length)
      BY <1>1, <2>1 DEF Span
    <3>3. /\ Span(i.source, i.length) \subseteq Int /\ Span(j.source, j.length) \subseteq Int
          /\ \A x \in Int : x - s.x \in Int /\ x - s.y \in Int
      BY <1>1, <2>1 DEF Span
    <3> QED
      BY <2>1, <3>1, <3>2, <3>3
  <2>5. Blitted(bb, u) = {Place(bb, p[1], p[2]) : p \in Span(i.target, i.length) \X Span(j.target, j.length)}
    BY <1>7 DEF Blitted, Place
  <2>6. {Place(bb, p[1], p[2]) : p \in Span(i.target, i.length) \X Span(j.target, j.length)}
          = {Place(bb, r.x + k[1], r.y + k[2]) : k \in K \X L}
    <3>1. ASSUME NEW x \in Span(i.target, i.length), NEW y \in Span(j.target, j.length)
          PROVE  \E k \in K \X L : Place(bb, x, y) = Place(bb, r.x + k[1], r.y + k[2])
      <4>1. /\ <<x - r.x, y - r.y>> \in K \X L
            /\ r.x + (x - r.x) = x /\ r.y + (y - r.y) = y
        BY <1>1, <2>3
      <4> QED
        BY <4>1
    <3>2. ASSUME NEW k \in K, NEW l \in L
          PROVE  r.x + k \in Span(i.target, i.length) /\ r.y + l \in Span(j.target, j.length)
      BY <2>1, <2>2
    <3>3. ASSUME NEW p \in Span(i.target, i.length) \X Span(j.target, j.length)
          PROVE  \E k \in K \X L : Place(bb, p[1], p[2]) = Place(bb, r.x + k[1], r.y + k[2])
      BY <3>1
    <3>4. ASSUME NEW k \in K \X L
          PROVE  \E p \in Span(i.target, i.length) \X Span(j.target, j.length) :
                   Place(bb, r.x + k[1], r.y + k[2]) = Place(bb, p[1], p[2])
      <4>1. <<r.x + k[1], r.y + k[2]>> \in Span(i.target, i.length) \X Span(j.target, j.length)
        BY <3>2
      <4> QED
        BY <4>1
    <3> QED
      BY <3>3, <3>4
  <2>7. Span(i.source, i.length) \X Span(j.source, j.length)
          = {<<s.x + k[1], s.y + k[2]>> : k \in K \X L}
    <3>1. ASSUME NEW x \in Span(i.source, i.length), NEW y \in Span(j.source, j.length)
          PROVE  \E k \in K \X L : <<x, y>> = <<s.x + k[1], s.y + k[2]>>
      <4>1. /\ <<x - s.x, y - s.y>> \in K \X L
            /\ s.x + (x - s.x) = x /\ s.y + (y - s.y) = y
        BY <1>1, <2>4
      <4> QED
        BY <4>1
    <3>2. ASSUME NEW k \in K, NEW l \in L
          PROVE  s.x + k \in Span(i.source, i.length) /\ s.y + l \in Span(j.source, j.length)
      <4>1. /\ k \in Int /\ l \in Int /\ s.x + k \in Int /\ s.y + l \in Int
            /\ (s.x + k) - s.x = k /\ (s.y + l) - s.y = l
        BY <1>1, <2>2
      <4> QED
        BY <2>4, <4>1
    <3>3. ASSUME NEW p \in Span(i.source, i.length) \X Span(j.source, j.length)
          PROVE  \E k \in K \X L : p = <<s.x + k[1], s.y + k[2]>>
      BY <3>1
    <3>4. ASSUME NEW k \in K \X L
          PROVE  <<s.x + k[1], s.y + k[2]>> \in Span(i.source, i.length) \X Span(j.source, j.length)
      BY <3>2
    <3> QED
      BY <3>3, <3>4
  <2>8. Blitted(bb, u) = to
    BY <1>5, <2>5, <2>6 DEF to
  <2>9. Span(i.source, i.length) \X Span(j.source, j.length) = from
    BY <1>5, <2>7 DEF from
  <2>10. CASE ~InOneStep(s, i)
    <3>1. unshown' = to /\ read' = from
      BY <1>2, <1>8, <2>8, <2>9, <2>10
    <3>2. \A p \in from : p \in from
      OBVIOUS
    <3> QED
      BY <1>6, <3>1
  <2>11. CASE InOneStep(s, i)
    <3>1. i.length \in Nat /\ j.length \in Nat
      BY <1>8, <2>1
    <3>2. /\ unshown' \cap Visible \subseteq Blitted(bb, u)
          /\ \A p \in read' : p[1] < s.w => p \in Span(i.source, i.length) \X Span(j.source, j.length)
          /\ bb.w = W \/ j.length = 1 =>
               /\ unshown' = Blitted(bb, u)
               /\ read' = Span(i.source, i.length) \X Span(j.source, j.length)
      BY <1>0, <1>2, <1>8, <2>1, <2>11, <3>1, OneStepLines DEF u
    <3>3. ASSUME bb.w # W, j.length # 1 PROVE short
      <4>1. /\ i.source = 0 /\ i.target = 0 /\ i.length = bb.w /\ i.length = s.w
            /\ s.alike /\ bb.rotation = 0
        BY <2>11 DEF InOneStep
      <4>2. bb.w < W
        <5>1. bb.x \in Nat /\ bb.x + bb.w <= W /\ bb.w \in Nat
          BY NarrowBuffer
        <5>2. W \in Nat /\ bb.w # W
          BY ScreenAssumption, <3>3
        <5> HIDE <4>1
        <5> QED
          BY ONLY <5>1, <5>2
      <4>3. s.x = r.x
        BY <1>1, <2>1, <4>1
      <4>4. ASSUME NEW c \in 0 .. bb.w - 1 PROVE c \in Span(r.x, r.w) /\ c - r.x \in K
        <5>1. c \in Int /\ bb.w \in Int /\ c \in Span(i.target, i.length)
          <6>1. bb.w \in Int
            BY <1>0 DEF Buffer
          <6>2. i.target = 0 /\ i.length = bb.w
            BY <4>1
          <6>3. Span(0, bb.w) = 0 .. bb.w - 1
            BY <6>1 DEF Span
          <6> QED
            BY <4>4, <6>1, <6>2, <6>3
        <5>2. c - r.x \in K
          BY <2>3, <5>1
        <5>3. c - r.x \in Span(0, r.w)
          BY <5>2 DEF K, Copied
        <5> QED
          BY <1>1, <5>1, <5>2, <5>3 DEF Span
      <4>5. /\ 0 \in 0 .. bb.w - 1 /\ 0 - r.x \in K
        <5>1. bb.w \in Nat /\ bb.w > 0
          BY <1>0, <1>8, <4>1 DEF Buffer
        <5>2. 0 \in 0 .. bb.w - 1
          BY <5>1
        <5> QED
          BY <4>4, <5>2
      <4>6. j.target - r.y \in L /\ (j.target + 1) - r.y \in L
        <5>1. j.length \in Int /\ j.target \in Int /\ j.length > 0 /\ j.length # 1
          BY <1>8, <2>1, <3>3
        <5>2. j.target \in Span(j.target, j.length) /\ j.target + 1 \in Span(j.target, j.length)
          BY ONLY <5>1 DEF Span
        <5> QED
          BY <2>3, <5>2
      <4>7. \E k, l \in asked : k[2] # l[2]
        <5>1. /\ <<0 - r.x, j.target - r.y>> \in asked
              /\ <<0 - r.x, (j.target + 1) - r.y>> \in asked
          BY <1>5, <4>5, <4>6
        <5>2. j.target - r.y # (j.target + 1) - r.y
          BY <1>1, <2>1
        <5> QED
          BY <5>1, <5>2
      <4> QED
        BY <4>1, <4>2, <4>3, <4>4, <4>7 DEF short
    <3> QED
      BY <1>6, <2>8, <2>9, <3>2, <3>3
  <2> QED
    BY <2>10, <2>11
<1>9. CASE ~drawn
  <2>1. K = {} \/ L = {}
    BY <1>3, <1>4, <1>9 DEF CopiesExactly, K, L
  <2>2. asked = {}
    BY <1>5, <2>1
  <2>3. to = {} /\ from = {} /\ unshown' = {} /\ read' = {}
    BY <1>2, <1>9, <2>2 DEF to, from
  <2> QED
    BY <1>6, <2>3
<1> QED
  BY <1>8, <1>9

(* A blit copies the pixels asked for that exist on both sides, to where   *)
(* they were asked for, and no other, whatever the sizes, offsets and      *)
(* rotation (blitbuffer.lua:1094-1123, 1281-1299).                         *)
THEOREM BlitsExactly == Spec => []BlitExact
<1>1. Init => BlitExact
  BY DEF Init, BlitExact
<1>2. IInv /\ BlitExact /\ [Next]_vars => BlitExact'
  <2> SUFFICES ASSUME IInv, BlitExact, [Next]_vars PROVE BlitExact'
    OBVIOUS
  <2>1. ASSUME NEW r \in Rects, NEW s \in Sources, blitFrom(r, s) PROVE BlitExact'
    BY <2>1, BlitFromExact
  <2>2. ASSUME source' = None \/ pending' = None PROVE BlitExact'
    BY <2>2 DEF BlitExact
  <2>3. ASSUME UNCHANGED vars PROVE BlitExact'
    BY <2>3 DEF vars, BlitExact, Width, Height, Visible
  <2>4. ASSUME Next PROVE BlitExact'
    BY <2>1, <2>2, <2>4
       DEF Next, paintRect, Refresh, setViewport, setRotationMode, toggleNightMode
  <2> QED
    BY <2>3, <2>4
<1> QED
  BY <1>1, <1>2, Invariance, PTL DEF Spec
=============================================================================
