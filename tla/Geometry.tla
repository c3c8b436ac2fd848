------------------------------ MODULE Geometry ------------------------------
(***************************************************************************)
(* The quads of src/src/browser/tab/element/box_model.rs: the four corners *)
(* Chrome reports for a box of an element, the comparisons between two     *)
(* quads, the viewports screenshots are cut out with, and the midpoint     *)
(* that is clicked (get_midpoint in src/src/browser/tab/element/mod.rs).   *)
(*                                                                         *)
(* Coordinates are integers for f64: rounding and NaN are left out.        *)
(* Corners keep the names of the untransformed box, so that the top left   *)
(* corner of a rotated element may lie anywhere: nothing below assumes     *)
(* that a quad is upright unless it says so.                               *)
(***************************************************************************)
EXTENDS Integers, TLAPS

Point == [x: Int, y: Int]
Corners == {"top_left", "top_right", "bottom_right", "bottom_left"}
ElementQuad == [Corners -> Point]

RawQuad == [1..8 -> Int]

from_raw_points(raw) ==
  [c \in Corners |->
     CASE c = "top_left"     -> [x |-> raw[1], y |-> raw[2]]
       [] c = "top_right"    -> [x |-> raw[3], y |-> raw[4]]
       [] c = "bottom_right" -> [x |-> raw[5], y |-> raw[6]]
       [] c = "bottom_left"  -> [x |-> raw[7], y |-> raw[8]]]

height(q) == q["bottom_left"].y - q["top_left"].y
width(q)  == q["top_right"].x - q["top_left"].x

Lesser(a, b)  == IF a <= b THEN a ELSE b
Greater(a, b) == IF a >= b THEN a ELSE b

most_left(q)   == Lesser(Lesser(Lesser(q["top_right"].x, q["top_left"].x),
                                q["bottom_right"].x), q["bottom_left"].x)
most_right(q)  == Greater(Greater(Greater(q["top_right"].x, q["top_left"].x),
                                  q["bottom_right"].x), q["bottom_left"].x)
most_top(q)    == Lesser(Lesser(Lesser(q["top_right"].y, q["top_left"].y),
                                q["bottom_right"].y), q["bottom_left"].y)
most_bottom(q) == Greater(Greater(Greater(q["top_right"].y, q["top_left"].y),
                                  q["bottom_right"].y), q["bottom_left"].y)

strictly_above(q, r)    == most_bottom(q) < most_top(r)
above(q, r)             == most_bottom(q) <= most_top(r)
strictly_below(q, r)    == most_top(q) > most_bottom(r)
below(q, r)             == most_top(q) >= most_bottom(r)
strictly_left_of(q, r)  == most_right(q) < most_left(r)
left_of(q, r)           == most_right(q) <= most_left(r)
strictly_right_of(q, r) == most_left(q) > most_right(r)
right_of(q, r)          == most_left(q) >= most_right(r)

within_horizontal_bounds_of(q, r) == /\ most_left(q) >= most_left(r)
                                     /\ most_right(q) <= most_right(r)
within_vertical_bounds_of(q, r)   == /\ most_top(q) >= most_top(r)
                                     /\ most_bottom(q) <= most_bottom(r)
within_bounds_of(q, r) == /\ within_horizontal_bounds_of(q, r)
                          /\ within_vertical_bounds_of(q, r)

(* What Page.captureScreenshot cuts out for one of an element's boxes.     *)
viewport(q) == [x |-> q["top_left"].x, y |-> q["top_left"].y,
                width |-> width(q), height |-> height(q)]

(* (bottom_right + top_left) / 2, kept doubled to stay in the integers.    *)
TwiceMidpoint(q) == [x |-> q["bottom_right"].x + q["top_left"].x,
                     y |-> q["bottom_right"].y + q["top_left"].y]

-----------------------------------------------------------------------------
(* A box no transform has turned over or skewed.                           *)
Upright(q) ==
  /\ q["top_left"].x = q["bottom_left"].x /\ q["top_right"].x = q["bottom_right"].x
  /\ q["top_left"].y = q["top_right"].y   /\ q["bottom_left"].y = q["bottom_right"].y
  /\ q["top_left"].x <= q["top_right"].x  /\ q["top_left"].y <= q["bottom_left"].y

Covers(v, p) == /\ v.x <= p.x /\ p.x <= v.x + v.width
                /\ v.y <= p.y /\ p.y <= v.y + v.height

(* The four extremes are attained at a corner and bound every corner,      *)
(* whichever of the corners they are.                                      *)
LEMMA Extremes ==
  ASSUME NEW q \in ElementQuad
  PROVE  /\ most_left(q) \in Int /\ most_right(q) \in Int
         /\ most_top(q) \in Int /\ most_bottom(q) \in Int
         /\ \A c \in Corners : /\ most_left(q) <= q[c].x
                               /\ q[c].x <= most_right(q)
                               /\ most_top(q) <= q[c].y
                               /\ q[c].y <= most_bottom(q)
         /\ \E c \in Corners : most_left(q) = q[c].x
         /\ \E c \in Corners : most_right(q) = q[c].x
         /\ \E c \in Corners : most_top(q) = q[c].y
         /\ \E c \in Corners : most_bottom(q) = q[c].y
<1>1. \A c \in Corners : q[c].x \in Int /\ q[c].y \in Int
  BY DEF ElementQuad, Point
<1>2. /\ most_left(q) \in Int
      /\ \A c \in Corners : most_left(q) <= q[c].x
      /\ \E c \in Corners : most_left(q) = q[c].x
  BY <1>1 DEF most_left, Lesser, Corners
<1>3. /\ most_right(q) \in Int
      /\ \A c \in Corners : q[c].x <= most_right(q)
      /\ \E c \in Corners : most_right(q) = q[c].x
  BY <1>1 DEF most_right, Greater, Corners
<1>4. /\ most_top(q) \in Int
      /\ \A c \in Corners : most_top(q) <= q[c].y
      /\ \E c \in Corners : most_top(q) = q[c].y
  BY <1>1 DEF most_top, Lesser, Corners
<1>5. /\ most_bottom(q) \in Int
      /\ \A c \in Corners : q[c].y <= most_bottom(q)
      /\ \E c \in Corners : most_bottom(q) = q[c].y
  BY <1>1 DEF most_bottom, Greater, Corners
<1> QED
  BY <1>2, <1>3, <1>4, <1>5

(* box_model.rs documents strictly_above as "the most bottom point of self *)
(* is above the most top point of other": the four strict comparisons hold *)
(* exactly when every corner of the one lies strictly on that side of      *)
(* every corner of the other, for rotated quads too.                       *)
THEOREM StrictOrders ==
  ASSUME NEW q \in ElementQuad, NEW r \in ElementQuad
  PROVE  /\ strictly_above(q, r)    <=> \A c, e \in Corners : q[c].y < r[e].y
         /\ strictly_below(q, r)    <=> \A c, e \in Corners : q[c].y > r[e].y
         /\ strictly_left_of(q, r)  <=> \A c, e \in Corners : q[c].x < r[e].x
         /\ strictly_right_of(q, r) <=> \A c, e \in Corners : q[c].x > r[e].x
<1>1. \A c \in Corners : /\ q[c].x \in Int /\ q[c].y \in Int
                         /\ r[c].x \in Int /\ r[c].y \in Int
  BY DEF ElementQuad, Point
<1>2. strictly_above(q, r) <=> \A c, e \in Corners : q[c].y < r[e].y
  BY <1>1, Extremes, SMT DEF strictly_above
<1>3. strictly_below(q, r) <=> \A c, e \in Corners : q[c].y > r[e].y
  BY <1>1, Extremes, SMT DEF strictly_below
<1>4. strictly_left_of(q, r) <=> \A c, e \in Corners : q[c].x < r[e].x
  BY <1>1, Extremes, SMT DEF strictly_left_of
<1>5. strictly_right_of(q, r) <=> \A c, e \in Corners : q[c].x > r[e].x
  BY <1>1, Extremes, SMT DEF strictly_right_of
<1> QED
  BY <1>2, <1>3, <1>4, <1>5

(* The comparisons with "or on the same line", corner by corner.           *)
THEOREM WeakOrders ==
  ASSUME NEW q \in ElementQuad, NEW r \in ElementQuad
  PROVE  /\ above(q, r)    <=> \A c, e \in Corners : q[c].y <= r[e].y
         /\ below(q, r)    <=> \A c, e \in Corners : q[c].y >= r[e].y
         /\ left_of(q, r)  <=> \A c, e \in Corners : q[c].x <= r[e].x
         /\ right_of(q, r) <=> \A c, e \in Corners : q[c].x >= r[e].x
<1>1. \A c \in Corners : /\ q[c].x \in Int /\ q[c].y \in Int
                         /\ r[c].x \in Int /\ r[c].y \in Int
  BY DEF ElementQuad, Point
<1>2. above(q, r) <=> \A c, e \in Corners : q[c].y <= r[e].y
  BY <1>1, Extremes, SMT DEF above
<1>3. below(q, r) <=> \A c, e \in Corners : q[c].y >= r[e].y
  BY <1>1, Extremes, SMT DEF below
<1>4. left_of(q, r) <=> \A c, e \in Corners : q[c].x <= r[e].x
  BY <1>1, Extremes, SMT DEF left_of
<1>5. right_of(q, r) <=> \A c, e \in Corners : q[c].x >= r[e].x
  BY <1>1, Extremes, SMT DEF right_of
<1> QED
  BY <1>2, <1>3, <1>4, <1>5

(* within_bounds_of nests: an element within a container within a page is  *)
(* within the page, and never lies strictly beside what contains it.       *)
THEOREM BoundsNest ==
  ASSUME NEW q \in ElementQuad, NEW r \in ElementQuad, NEW s \in ElementQuad,
         within_bounds_of(q, r)
  PROVE  /\ within_bounds_of(r, s) => within_bounds_of(q, s)
         /\ ~strictly_above(q, r) /\ ~strictly_below(q, r)
         /\ ~strictly_left_of(q, r) /\ ~strictly_right_of(q, r)
<1>1. \A t \in ElementQuad : /\ most_left(t) \in Int /\ most_right(t) \in Int
                             /\ most_top(t) \in Int /\ most_bottom(t) \in Int
                             /\ most_left(t) <= most_right(t)
                             /\ most_top(t) <= most_bottom(t)
  <2> TAKE t \in ElementQuad
  <2>1. t["top_left"].x \in Int /\ t["top_left"].y \in Int /\ "top_left" \in Corners
    BY DEF ElementQuad, Point, Corners
  <2> QED
    BY <2>1, Extremes, SMT
<1>2. within_bounds_of(r, s) => within_bounds_of(q, s)
  BY <1>1 DEF within_bounds_of, within_horizontal_bounds_of, within_vertical_bounds_of
<1>3. /\ ~strictly_above(q, r) /\ ~strictly_below(q, r)
      /\ ~strictly_left_of(q, r) /\ ~strictly_right_of(q, r)
  BY <1>1 DEF within_bounds_of, within_horizontal_bounds_of, within_vertical_bounds_of,
              strictly_above, strictly_below, strictly_left_of, strictly_right_of
<1> QED
  BY <1>2, <1>3

(* The point a click goes to (get_midpoint) lies between the extremes of   *)
(* the quad it is taken from, however that quad is turned: it is never     *)
(* outside the element's bounding box.                                     *)
THEOREM MidpointIsInside ==
  ASSUME NEW q \in ElementQuad
  PROVE  /\ 2 * most_left(q) <= TwiceMidpoint(q).x
         /\ TwiceMidpoint(q).x <= 2 * most_right(q)
         /\ 2 * most_top(q) <= TwiceMidpoint(q).y
         /\ TwiceMidpoint(q).y <= 2 * most_bottom(q)
<1>1. /\ q["top_left"].x \in Int /\ q["top_left"].y \in Int
      /\ q["bottom_right"].x \in Int /\ q["bottom_right"].y \in Int
      /\ "top_left" \in Corners /\ "bottom_right" \in Corners
  BY DEF ElementQuad, Point, Corners
<1>2. /\ most_left(q) <= q["top_left"].x /\ most_left(q) <= q["bottom_right"].x
      /\ q["top_left"].x <= most_right(q) /\ q["bottom_right"].x <= most_right(q)
      /\ most_top(q) <= q["top_left"].y /\ most_top(q) <= q["bottom_right"].y
      /\ q["top_left"].y <= most_bottom(q) /\ q["bottom_right"].y <= most_bottom(q)
  BY <1>1, Extremes
<1>3. /\ most_left(q) \in Int /\ most_right(q) \in Int
      /\ most_top(q) \in Int /\ most_bottom(q) \in Int
  BY Extremes
<1> QED
  BY <1>1, <1>2, <1>3 DEF TwiceMidpoint

(* A screenshot of an upright element's box (content_viewport and its      *)
(* three siblings) is exactly the box's bounding box: it covers every      *)
(* corner, and its own edges are the extremes. Width and height are taken  *)
(* from three corners only, so that this needs the quad to be upright.     *)
THEOREM ViewportIsTheBox ==
  ASSUME NEW q \in ElementQuad, Upright(q)
  PROVE  /\ \A c \in Corners : Covers(viewport(q), q[c])
         /\ viewport(q).x = most_left(q) /\ viewport(q).y = most_top(q)
         /\ viewport(q).x + viewport(q).width = most_right(q)
         /\ viewport(q).y + viewport(q).height = most_bottom(q)
<1>1. \A c \in Corners : q[c].x \in Int /\ q[c].y \in Int
  BY DEF ElementQuad, Point
<1>2. /\ viewport(q).x = q["top_left"].x /\ viewport(q).y = q["top_left"].y
      /\ viewport(q).width = q["top_right"].x - q["top_left"].x
      /\ viewport(q).height = q["bottom_left"].y - q["top_left"].y
  BY DEF viewport, width, height
<1>3. /\ most_left(q) = q["top_left"].x /\ most_right(q) = q["top_right"].x
      /\ most_top(q) = q["top_left"].y /\ most_bottom(q) = q["bottom_left"].y
  BY <1>1 DEF Upright, Corners, most_left, most_right, most_top, most_bottom,
              Lesser, Greater
<1>4. \A c \in Corners : Covers(viewport(q), q[c])
  BY <1>1, <1>2 DEF Upright, Corners, Covers
<1> QED
  BY <1>1, <1>2, <1>3, <1>4 DEF Corners

(* What Chrome sends is a quad of the kind the theorems above speak of:    *)
(* from_raw_points reads the corners clockwise from the top left one.      *)
LEMMA RawPointsMakeAQuad ==
  ASSUME NEW raw \in RawQuad
  PROVE  from_raw_points(raw) \in ElementQuad
<1>1. \A i \in 1..8 : raw[i] \in Int
  BY DEF RawQuad
<1>2. \A c \in Corners : from_raw_points(raw)[c] \in Point
  BY <1>1 DEF from_raw_points, Corners, Point
<1> QED
  BY <1>2 DEF from_raw_points, ElementQuad
=============================================================================
