--------------------------- MODULE RoundingProofs ---------------------------
(***************************************************************************)
(* Proofs about four computations in whole numbers that must not drift.    *)
(*                                                                         *)
(* The color dialog turns a choice into channels, and back when it opens   *)
(* again.  The middle channel loses up to a unit of the chroma on the way  *)
(* there and the quotient one on the way back; from a chroma of 16 on this *)
(* is less than 17 in 256 of a sextant, which is four degrees.             *)
(*                                                                         *)
(* A line steps aside when its error says so.  After i rounds it has gone  *)
(* aside Asides(i): the exact way, rounded to the nearest pixel.  By       *)
(* induction over the rounds the error is what remains, and it never       *)
(* exceeds half a pixel.                                                   *)
(*                                                                         *)
(* A polygon is filled between the edges that go down and those that go    *)
(* up.  A vertex is above a row or not, and an edge meets the rows that    *)
(* only one of its ends is above: so a triangle has one edge of each kind  *)
(* in each of its rows, and so has a convex quad.  The edge between two    *)
(* triangles goes up in one and down in the other, and gives both the same *)
(* column, however it was rounded.                                         *)
(*                                                                         *)
(* Clipping leaves of a line or a convex polygon what can be seen of it.   *)
(* All that is left lies on the plane of the primitive, where four points  *)
(* depend on each other by the sides on which the eye sees them; so to be  *)
(* inside of a plane of the view volume cannot alternate around what is    *)
(* left, every plane is entered once, and one vertex is added at the most. *)
(* The points that stay in view stay off every edge, old and new.          *)
(***************************************************************************)
EXTENDS ColorPicker, Raster, Clip, SequenceTheorems, WellFoundedInduction, TLAPS

-----------------------------------------------------------------------------
(* Colors.                                                                  *)

\* A product with a natural number keeps the order.
LEMMA TimesMonotone ==
  ASSUME NEW a \in Int, NEW b \in Int, NEW c \in Nat, a <= b
  PROVE  c * a <= c * b
  BY SMT

\* A quotient that is rounded down, by the products that bound it.
LEMMA DivIs ==
  ASSUME NEW a \in Int, NEW d \in Nat, d > 0
  PROVE  a \div d \in Int /\ d * (a \div d) <= a /\ a < d * (a \div d) + d
  BY SMT

\* It is no less than nought.
LEMMA DivOfNat ==
  ASSUME NEW a \in Nat, NEW d \in Nat, d > 0
  PROVE  a \div d \in Nat
  BY SMT

\* C divides towards nought: the quotient of -a is that of a, turned around.
LEMMA QuotUp ==
  ASSUME NEW a \in Nat, NEW d \in Nat, d > 0
  PROVE  Quot(a, d) = a \div d /\ Quot(-a, d) = -(a \div d)
<1>1. Abs(a) = a /\ Abs(-a) = a /\ Abs(d) = d
  BY SMT DEF Abs
<1>2. a \div d \in Nat
  BY DivOfNat
<1>3. a = 0 => a \div d = 0
  BY SMT
<1>. QED
  BY <1>1, <1>2, <1>3, SMT DEF Quot

\* The parts of hsv_to_rgb: the chroma, the hue in 256ths of a sextant, how far
\* the middle channel has risen there, and what rgb_to_hsv divides to find it.
Chroma(v, s)  == (v * s) \div 256
Angle(h)      == (h * 256) \div 60
Height256(hp) == 256 - Abs((hp % 512) - 256)
Back(x, c)    == (x * 256) \div c

\* The chroma is at most the value.
LEMMA ChromaIs ==
  ASSUME NEW v \in Nat, NEW s \in Nat, s <= 256
  PROVE  Chroma(v, s) \in Nat /\ Chroma(v, s) <= v
<1>1. v * 0 <= v * s /\ v * s <= v * 256
  BY TimesMonotone
<1>2. v * s \in Nat
  BY <1>1, SMT
<1>. QED
  BY <1>1, <1>2, SMT DEF Chroma

\* The hue, in 256ths of a sextant: there are six.
LEMMA AngleIs ==
  ASSUME NEW h \in Nat, h <= 359
  PROVE  /\ Angle(h) \in Nat /\ Angle(h) <= 1531 /\ Angle(h) \div 256 \in Nat /\ Angle(h) \div 256 <= 5
         /\ Quot(h * 256, 60) = Angle(h)
<1>1. h * 256 \in Nat
  BY SMT
<1>. QED
  BY <1>1, QuotUp, SMT DEF Angle

\* How far the middle channel has risen at a hue, in 256ths of the chroma.
LEMMA HeightIs ==
  ASSUME NEW hp \in Nat
  PROVE  Height256(hp) \in Nat /\ Height256(hp) <= 256
  BY SMT DEF Height256, Abs

\* The middle channel is between the other two.
LEMMA RampIs ==
  ASSUME NEW c \in Nat, NEW hp \in Nat
  PROVE  /\ Ramp(c, hp) \in Nat /\ Ramp(c, hp) <= c
         /\ Height256(hp) < 256 /\ c > 0 => Ramp(c, hp) < c
<1>. DEFINE t == Height256(hp)
<1>1. t \in Nat /\ t <= 256
  BY HeightIs
<1>. HIDE DEF t
<1>2. c * 0 <= c * t /\ c * t <= c * 256 /\ (t < 256 => c * t <= c * 255)
  BY <1>1, TimesMonotone
<1>3. c * t \in Nat
  BY <1>1, <1>2, SMT
<1>4. Ramp(c, hp) = (c * t) \div 256
  BY DEF Ramp, Height256, t
<1>5. t = Height256(hp)
  BY DEF t
<1>. QED
  BY <1>1, <1>2, <1>3, <1>4, <1>5, SMT

\* Dividing the middle channel by the chroma gives the height back, at most 16
\* lower, when the chroma is 16 or more.
LEMMA RampBack ==
  ASSUME NEW c \in Nat, 16 <= c, NEW hp \in Nat
  PROVE  /\ Back(Ramp(c, hp), c) \in Nat
         /\ Back(Ramp(c, hp), c) <= Height256(hp)
         /\ Height256(hp) - 16 <= Back(Ramp(c, hp), c)
<1>. DEFINE t == Height256(hp)
            x == Ramp(c, hp)
            q == Back(x, c)
<1>1. t \in Nat /\ x \in Nat /\ x = (c * t) \div 256
  BY HeightIs, RampIs DEF Ramp, Height256
<1>. HIDE DEF t, x
<1>2. q \in Nat /\ c * q <= x * 256 /\ x * 256 < c * q + c
  BY <1>1, DivIs, DivOfNat DEF Back
<1>3. c * t \in Int /\ c * q \in Int /\ 256 * x <= c * t /\ c * t < 256 * x + 256
  BY <1>1, <1>2, DivIs
<1>. HIDE DEF q
<1>4. q <= t
  <2>1. ASSUME t + 1 <= q PROVE FALSE
    <3>1. c * (t + 1) <= c * q
      BY <1>1, <1>2, <2>1, TimesMonotone
    <3>2. c * (t + 1) = c * t + c
      BY <1>1, SMT
    <3>. QED
      BY <3>1, <3>2, <1>1, <1>2, <1>3, SMT
  <2>. QED
    BY <2>1, <1>1, <1>2, SMT
<1>5. t - 16 <= q
  <2>1. ASSUME q + 17 <= t PROVE FALSE
    <3>1. c * (q + 17) <= c * t
      BY <1>1, <1>2, <2>1, TimesMonotone
    <3>2. c * (q + 17) = c * q + 17 * c
      BY <1>2, SMT
    <3>. QED
      BY <3>1, <3>2, <1>1, <1>2, <1>3, SMT
  <2>. QED
    BY <2>1, <1>1, <1>2, SMT
<1>. QED
  BY <1>2, <1>4, <1>5 DEF q, t, x

\* The extremes of three channels.
LEMMA ExtremesAre ==
  ASSUME NEW c, c[1] \in Int, c[2] \in Int, c[3] \in Int,
         NEW m, m \in {c[1], c[2], c[3]}
  PROVE  /\ c[1] <= m /\ c[2] <= m /\ c[3] <= m => Max3(c) = m
         /\ m <= c[1] /\ m <= c[2] /\ m <= c[3] => Min3(c) = m
<1>1. ASSUME c[1] <= m, c[2] <= m, c[3] <= m PROVE Max3(c) = m
  <2>1. \A n \in {c[1], c[2], c[3]} : (\A i \in 1 .. 3 : c[i] <= n) => c[1] <= n /\ c[2] <= n /\ c[3] <= n
    BY SMT
  <2>2. \A n \in {c[1], c[2], c[3]} : (\A i \in 1 .. 3 : c[i] <= n) => n = m
    BY <1>1, <2>1, SMT
  <2>3. \A i \in 1 .. 3 : c[i] <= m
    BY <1>1, SMT
  <2>. QED
    BY <2>2, <2>3 DEF Max3
<1>2. ASSUME m <= c[1], m <= c[2], m <= c[3] PROVE Min3(c) = m
  <2>1. \A n \in {c[1], c[2], c[3]} : (\A i \in 1 .. 3 : c[i] >= n) => c[1] >= n /\ c[2] >= n /\ c[3] >= n
    BY SMT
  <2>2. \A n \in {c[1], c[2], c[3]} : (\A i \in 1 .. 3 : c[i] >= n) => n = m
    BY <1>2, <2>1, SMT
  <2>3. \A i \in 1 .. 3 : c[i] >= m
    BY <1>2, SMT
  <2>. QED
    BY <2>2, <2>3 DEF Min3
<1>. QED
  BY <1>1, <1>2

\* The channels of a sextant of the hue circle.
Sextant(k, c, x) ==
  CASE k = 0 -> <<c, x, 0>>
    [] k = 1 -> <<x, c, 0>>
    [] k = 2 -> <<0, c, x>>
    [] k = 3 -> <<0, x, c>>
    [] k = 4 -> <<x, 0, c>>
    [] OTHER -> <<c, 0, x>>

\* The same, lifted to the value.
Color(k, c, x, v) == [i \in 1 .. 3 |-> Sextant(k, c, x)[i] + (v - c)]

\* The channels of a color, one by one.
LEMMA ChannelsAre ==
  ASSUME NEW k, NEW c, NEW x, NEW v
  PROVE  LET d == Color(k, c, x, v) IN
         /\ d[1] = Sextant(k, c, x)[1] + (v - c)
         /\ d[2] = Sextant(k, c, x)[2] + (v - c)
         /\ d[3] = Sextant(k, c, x)[3] + (v - c)
<1>1. 1 \in 1 .. 3 /\ 2 \in 1 .. 3 /\ 3 \in 1 .. 3
  BY SMT
<1>. QED
  BY <1>1, Zenon DEF Color

\* A color is made of bytes, and its extremes are the value, and the value
\* without the chroma.
LEMMA ColorIs ==
  ASSUME NEW k \in Nat, k <= 5, NEW c \in Nat, NEW x \in Nat, x <= c, NEW v \in Nat, c <= v, v <= 255
  PROVE  /\ Color(k, c, x, v) \in [1 .. 3 -> 0 .. 255]
         /\ Max3(Color(k, c, x, v)) = v
         /\ Min3(Color(k, c, x, v)) = v - c
<1>. DEFINE d == Color(k, c, x, v)
            m == v - c
<1>1. d = [i \in 1 .. 3 |-> d[i]]
  BY DEF Color
<1>2. /\ d[1] = Sextant(k, c, x)[1] + m
      /\ d[2] = Sextant(k, c, x)[2] + m
      /\ d[3] = Sextant(k, c, x)[3] + m
  BY ChannelsAre, Zenon
<1>. HIDE DEF d
<1>3. /\ d[1] \in Int /\ d[2] \in Int /\ d[3] \in Int
      /\ m <= d[1] /\ d[1] <= v
      /\ m <= d[2] /\ d[2] <= v
      /\ m <= d[3] /\ d[3] <= v
      /\ m \in {d[1], d[2], d[3]} /\ v \in {d[1], d[2], d[3]}
      /\ m \in Nat
  BY <1>2, SMT DEF Sextant
<1>. HIDE DEF m
<1>4. Max3(d) = v /\ Min3(d) = m
  BY <1>3, ExtremesAre
<1>5. \A i \in 1 .. 3 : d[i] \in 0 .. 255
  BY <1>3, SMT
<1>. QED
  BY <1>1, <1>4, <1>5 DEF d, m

\* What hsv_to_rgb does.
LEMMA RgbIs ==
  ASSUME NEW h \in Nat, h <= 359, NEW s \in Int, NEW v \in Int, v <= 255
  PROVE  LET c == Chroma(v, s)
             d == Color(Angle(h) \div 256, c, Ramp(c, Angle(h)), v)
         IN  /\ \A i \in 1 .. 3 : d[i] \in Int
             /\ HsvToRgb([h |-> h, s |-> s, v |-> v]) = [i \in 1 .. 3 |-> IF d[i] > 255 THEN 255 ELSE d[i]]
<1>. DEFINE c == Chroma(v, s)
            hp == Angle(h)
            k == hp \div 256
            x == Ramp(c, hp)
            d == Color(k, c, x, v)
            t == [h |-> h, s |-> s, v |-> v]
<1>1. hp \in Nat /\ k \in Nat /\ k <= 5 /\ Quot(h * 256, 60) = hp
  BY AngleIs
<1>2. c \in Int
  BY SMT DEF Chroma
<1>3. t.h = h /\ t.s = s /\ t.v = v
  OBVIOUS
<1>. HIDE DEF t
<1>4. Quot(t.h * 256, 60) = hp /\ (t.v * t.s) \div 256 = c
  BY <1>1, <1>3 DEF Chroma
<1>5. x \in Int
  <2>1. Height256(hp) \in Nat
    BY <1>1, HeightIs
  <2>. HIDE DEF c, hp
  <2>2. x = (c * Height256(hp)) \div 256
    BY DEF Ramp, Height256
  <2>. QED
    BY <1>2, <2>1, <2>2, SMT
<1>. HIDE DEF c, hp
<1>6. HsvToRgb(t) = [i \in 1 .. 3 |-> IF Sextant(k, c, x)[i] + (v - c) > 255 THEN 255 ELSE Sextant(k, c, x)[i] + (v - c)]
  BY <1>1, <1>3, <1>4, SMT DEF HsvToRgb, Lift, Sextant
<1>. HIDE DEF k, x
<1>7. \A i \in 1 .. 3 : d[i] = Sextant(k, c, x)[i] + (v - c)
  BY DEF Color
<1>8. \A i \in 1 .. 3 : Sextant(k, c, x)[i] \in Int
  <2>1. Sextant(k, c, x)[1] \in Int /\ Sextant(k, c, x)[2] \in Int /\ Sextant(k, c, x)[3] \in Int
    BY <1>1, <1>2, <1>5, SMT DEF Sextant
  <2>. QED
    BY <2>1, SMT
<1>. HIDE DEF d
<1>9. \A i \in 1 .. 3 : d[i] \in Int
  BY <1>2, <1>7, <1>8, SMT
<1>10. HsvToRgb(t) = [i \in 1 .. 3 |-> IF d[i] > 255 THEN 255 ELSE d[i]]
  BY <1>6, <1>7
<1>. QED
  BY <1>9, <1>10 DEF d, k, c, x, hp, t

\* The hue that rgb_to_hsv finds in the sextant k.
FoundHue(k, q) ==
  CASE k = 0 -> ((60 * (q + 1536)) \div 256) % 360
    [] k = 1 -> (60 * (512 - q)) \div 256
    [] k = 2 -> (60 * (q + 512)) \div 256
    [] k = 3 -> (60 * (1024 - q)) \div 256
    [] k = 4 -> (60 * (q + 1024)) \div 256
    [] OTHER -> ((60 * (1536 - q)) \div 256) % 360

\* Two hues are at most four degrees apart on the circle.
Near(f, h) ==
  LET d == Abs(f - h)
      away == IF d > 180 THEN 360 - d ELSE d
  IN  away <= 4

\* From a height that is at most 16 too low, the hue that is found is at most four
\* degrees away on the circle.
LEMMA FoundHueIsNear ==
  ASSUME NEW h \in Nat, h <= 359, NEW q \in Nat,
         Height256(Angle(h)) - 16 <= q, q <= Height256(Angle(h))
  PROVE  Near(FoundHue(Angle(h) \div 256, q), h)
<1>. DEFINE hp == Angle(h)
            t == Height256(hp)
            k == hp \div 256
<1>. SUFFICES Near(FoundHue(k, q), h)
  OBVIOUS
<1>1. hp \in Nat /\ hp <= 1531 /\ 60 * hp <= h * 256 /\ h * 256 < 60 * hp + 60
  BY SMT DEF Angle
<1>. HIDE DEF hp
<1>2. t = 256 - Abs((hp % 512) - 256) /\ t - 16 <= q /\ q <= t
  BY DEF Height256, hp
<1>. HIDE DEF t
<1>3. CASE 0 <= hp /\ hp <= 255
  <2>1. k = 0 /\ t = hp
    BY <1>1, <1>2, <1>3, SMT DEF Abs
  <2>. HIDE DEF k
  <2>. QED
    BY <2>1, <1>1, <1>2, <1>3, SMT DEF FoundHue, Abs, Near
<1>4. CASE 256 <= hp /\ hp <= 511
  <2>1. k = 1 /\ t = 512 - hp
    BY <1>1, <1>2, <1>4, SMT DEF Abs
  <2>. HIDE DEF k
  <2>. QED
    BY <2>1, <1>1, <1>2, <1>4, SMT DEF FoundHue, Abs, Near
<1>5. CASE 512 <= hp /\ hp <= 767
  <2>1. k = 2 /\ t = hp - 512
    BY <1>1, <1>2, <1>5, SMT DEF Abs
  <2>. HIDE DEF k
  <2>. QED
    BY <2>1, <1>1, <1>2, <1>5, SMT DEF FoundHue, Abs, Near
<1>6. CASE 768 <= hp /\ hp <= 1023
  <2>1. k = 3 /\ t = 1024 - hp
    BY <1>1, <1>2, <1>6, SMT DEF Abs
  <2>. HIDE DEF k
  <2>. QED
    BY <2>1, <1>1, <1>2, <1>6, SMT DEF FoundHue, Abs, Near
<1>7. CASE 1024 <= hp /\ hp <= 1279
  <2>1. k = 4 /\ t = hp - 1024
    BY <1>1, <1>2, <1>7, SMT DEF Abs
  <2>. HIDE DEF k
  <2>. QED
    BY <2>1, <1>1, <1>2, <1>7, SMT DEF FoundHue, Abs, Near
<1>8. CASE 1280 <= hp /\ hp <= 1531
  <2>1. k = 5 /\ t = 1536 - hp
    BY <1>1, <1>2, <1>8, SMT DEF Abs
  <2>. HIDE DEF k
  <2>. QED
    BY <2>1, <1>1, <1>2, <1>8, SMT DEF FoundHue, Abs, Near
<1>. HIDE DEF k
<1>. QED
  BY <1>1, <1>3, <1>4, <1>5, <1>6, <1>7, <1>8, SMT

\* rgb_to_hsv finds the sextant that hsv_to_rgb has chosen; where two channels are
\* equal it may choose its neighbour, and the hue on their border is the same.
LEMMA HueOfColor ==
  ASSUME NEW k \in Nat, k <= 5, NEW c \in Nat, c > 0, NEW x \in Nat, x <= c, k = 4 => x < c,
         NEW v \in Nat
  PROVE  Hue(Color(k, c, x, v), v, c) = FoundHue(k, Back(x, c))
<1>. DEFINE d == Color(k, c, x, v)
            q == Back(x, c)
            m == v - c
<1>. SUFFICES Hue(d, v, c) = FoundHue(k, q)
  OBVIOUS
<1>1. m \in Int /\ v = c + m
  BY SMT
<1>2. /\ d[1] = Sextant(k, c, x)[1] + m
      /\ d[2] = Sextant(k, c, x)[2] + m
      /\ d[3] = Sextant(k, c, x)[3] + m
  BY ChannelsAre, Zenon
<1>. HIDE DEF d, m
<1>3. Quot(x * 256, c) = q /\ Quot(-(x * 256), c) = -q
  <2>1. x * 256 \in Nat
    BY SMT
  <2>. QED
    BY <2>1, QuotUp DEF Back
<1>4. q \in Nat /\ (x = c => q = 256)
  <2>1. x = c => c * 256 = x * 256
    OBVIOUS
  <2>. QED
    BY <2>1, DivOfNat, DivIs, SMT DEF Back
<1>. HIDE DEF q
<1>5. CASE k = 0
  <2>1. d[1] = c + m /\ d[2] = x + m /\ d[3] = m
    BY <1>1, <1>2, <1>5, SMT DEF Sextant
  <2>2. HueFrom(d[2], d[3], c, 6) = (60 * (q + 6 * 256)) \div 256
    <3>1. (d[2] - d[3]) * 256 = x * 256
      BY <1>1, <2>1, SMT
    <3>. QED
      BY <3>1, <1>3, <1>4 DEF HueFrom
  <2>. QED
    BY <2>1, <2>2, <1>4, <1>5, <1>1, SMT DEF Hue, FoundHue
<1>6. CASE k = 1
  <2>1. d[1] = x + m /\ d[2] = c + m /\ d[3] = m
    BY <1>1, <1>2, <1>6, SMT DEF Sextant
  <2>2. HueFrom(d[3], d[1], c, 2) = (60 * (2 * 256 + -q)) \div 256
    <3>1. (d[3] - d[1]) * 256 = -(x * 256)
      BY <1>1, <2>1, SMT
    <3>. QED
      BY <3>1, <1>3, <1>4 DEF HueFrom
  <2>3. ASSUME x = c PROVE HueFrom(d[2], d[3], c, 6) = (60 * (q + 6 * 256)) \div 256
    <3>1. (d[2] - d[3]) * 256 = x * 256
      BY <1>1, <2>1, <2>3, SMT
    <3>. QED
      BY <3>1, <1>3, <1>4 DEF HueFrom
  <2>4. CASE x = c
    <3>1. HueFrom(d[2], d[3], c, 6) = 420 /\ FoundHue(k, q) = 60
      BY <2>3, <2>4, <1>4, <1>6, SMT DEF FoundHue
    <3>. QED
      BY <3>1, <2>1, <2>4, <1>1, SMT DEF Hue
  <2>5. CASE x # c
    BY <2>1, <2>2, <2>5, <1>4, <1>6, <1>1, SMT DEF Hue, FoundHue
  <2>. QED
    BY <2>4, <2>5
<1>7. CASE k = 2
  <2>1. d[1] = m /\ d[2] = c + m /\ d[3] = x + m
    BY <1>1, <1>2, <1>7, SMT DEF Sextant
  <2>2. HueFrom(d[3], d[1], c, 2) = (60 * (q + 2 * 256)) \div 256
    <3>1. (d[3] - d[1]) * 256 = x * 256
      BY <1>1, <2>1, SMT
    <3>. QED
      BY <3>1, <1>3, <1>4 DEF HueFrom
  <2>. QED
    BY <2>1, <2>2, <1>4, <1>7, <1>1, SMT DEF Hue, FoundHue
<1>8. CASE k = 3
  <2>1. d[1] = m /\ d[2] = x + m /\ d[3] = c + m
    BY <1>1, <1>2, <1>8, SMT DEF Sextant
  <2>2. HueFrom(d[1], d[2], c, 4) = (60 * (4 * 256 + -q)) \div 256
    <3>1. (d[1] - d[2]) * 256 = -(x * 256)
      BY <1>1, <2>1, SMT
    <3>. QED
      BY <3>1, <1>3, <1>4 DEF HueFrom
  <2>3. ASSUME x = c PROVE HueFrom(d[3], d[1], c, 2) = (60 * (q + 2 * 256)) \div 256
    <3>1. (d[3] - d[1]) * 256 = x * 256
      BY <1>1, <2>1, <2>3, SMT
    <3>. QED
      BY <3>1, <1>3, <1>4 DEF HueFrom
  <2>. QED
    BY <2>1, <2>2, <2>3, <1>4, <1>8, <1>1, SMT DEF Hue, FoundHue
<1>9. CASE k = 4
  <2>1. d[1] = x + m /\ d[2] = m /\ d[3] = c + m
    BY <1>1, <1>2, <1>9, SMT DEF Sextant
  <2>2. HueFrom(d[1], d[2], c, 4) = (60 * (q + 4 * 256)) \div 256
    <3>1. (d[1] - d[2]) * 256 = x * 256
      BY <1>1, <2>1, SMT
    <3>. QED
      BY <3>1, <1>3, <1>4 DEF HueFrom
  <2>. QED
    BY <2>1, <2>2, <1>4, <1>9, <1>1, SMT DEF Hue, FoundHue
<1>10. CASE k = 5
  <2>1. d[1] = c + m /\ d[2] = m /\ d[3] = x + m
    BY <1>1, <1>2, <1>10, SMT DEF Sextant
  <2>2. HueFrom(d[2], d[3], c, 6) = (60 * (6 * 256 + -q)) \div 256
    <3>1. (d[2] - d[3]) * 256 = -(x * 256)
      BY <1>1, <2>1, SMT
    <3>. QED
      BY <3>1, <1>3, <1>4 DEF HueFrom
  <2>. QED
    BY <2>1, <2>2, <1>4, <1>10, <1>1, SMT DEF Hue, FoundHue
<1>. QED
  BY <1>5, <1>6, <1>7, <1>8, <1>9, <1>10, SMT

\* For what the bar and the box show, hsv_to_rgb need not cut anything off.
LEMMA BrightIs ==
  ASSUME NEW h \in Nat, h <= 359, NEW s \in Nat, s <= 256, NEW v \in Nat, v <= 255
  PROVE  LET c == Chroma(v, s) IN
         /\ c \in Nat /\ c <= v
         /\ Ramp(c, Angle(h)) \in Nat /\ Ramp(c, Angle(h)) <= c
         /\ HsvToRgb([h |-> h, s |-> s, v |-> v]) = Color(Angle(h) \div 256, c, Ramp(c, Angle(h)), v)
         /\ HsvToRgb([h |-> h, s |-> s, v |-> v]) \in [1 .. 3 -> 0 .. 255]
<1>. DEFINE c == Chroma(v, s)
            x == Ramp(c, Angle(h))
            k == Angle(h) \div 256
            d == Color(k, c, x, v)
            t == [h |-> h, s |-> s, v |-> v]
<1>1. c \in Nat /\ c <= v
  BY ChromaIs
<1>2. k \in Nat /\ k <= 5 /\ Angle(h) \in Nat
  BY AngleIs
<1>3. x \in Nat /\ x <= c
  BY <1>1, <1>2, RampIs
<1>4. HsvToRgb(t) = [i \in 1 .. 3 |-> IF d[i] > 255 THEN 255 ELSE d[i]]
  <2>1. s \in Int /\ v \in Int
    OBVIOUS
  <2>. QED
    BY <2>1, RgbIs
<1>. HIDE DEF c, x, k
<1>5. d \in [1 .. 3 -> 0 .. 255]
  BY <1>1, <1>2, <1>3, ColorIs
<1>. HIDE DEF d
<1>6. \A i \in 1 .. 3 : ~(d[i] > 255)
  BY <1>5, SMT
<1>7. HsvToRgb(t) = d
  BY <1>4, <1>5, <1>6
<1>. QED
  BY <1>1, <1>3, <1>5, <1>7 DEF d, c, x, k

\* There and back: the value is the same and, where the chroma is 16 or more, the
\* hue is near.
LEMMA ColorIsFoundAgain ==
  ASSUME NEW h \in Nat, h <= 359, NEW s \in Nat, s <= 256, NEW v \in Nat, v <= 255
  PROVE  LET back == RgbToHsv(HsvToRgb([h |-> h, s |-> s, v |-> v])) IN
         /\ back.v = v
         /\ Chroma(v, s) >= 16 => Near(back.h, h)
<1>. DEFINE c == Chroma(v, s)
            x == Ramp(c, Angle(h))
            k == Angle(h) \div 256
            d == Color(k, c, x, v)
            t == [h |-> h, s |-> s, v |-> v]
<1>1. /\ c \in Nat /\ c <= v /\ x \in Nat /\ x <= c /\ HsvToRgb(t) = d
  BY BrightIs
<1>2. k \in Nat /\ k <= 5 /\ Angle(h) \in Nat /\ Angle(h) <= 1531
  BY AngleIs
<1>. HIDE DEF c, t
<1>3. Max3(d) = v /\ Min3(d) = v - c
  <2>. HIDE DEF k, x
  <2>. QED
    BY <1>1, <1>2, ColorIs
<1>4. RgbToHsv(d).v = v /\ RgbToHsv(d).h = Hue(d, v, c)
  <2>1. v - (v - c) = c
    BY <1>1, SMT
  <2>. HIDE DEF d
  <2>. QED
    BY <1>3, <2>1 DEF RgbToHsv
<1>5. ASSUME c >= 16 PROVE Near(RgbToHsv(d).h, h)
  <2>1. c > 0 /\ 16 <= c
    BY <1>1, <1>5, SMT
  <2>2. k = 4 => x < c
    <3>1. ASSUME k = 4 PROVE Height256(Angle(h)) < 256
      BY <3>1, <1>2, SMT DEF Height256, Abs
    <3>2. Height256(Angle(h)) < 256 /\ c > 0 => Ramp(c, Angle(h)) < c
      BY <1>1, <1>2, RampIs
    <3>. QED
      BY <3>1, <3>2, <2>1
  <2>3. Hue(d, v, c) = FoundHue(k, Back(x, c))
    <3>. HIDE DEF k, x
    <3>. QED
      BY <1>1, <1>2, <2>1, <2>2, HueOfColor
  <2>4. /\ Back(x, c) \in Nat
        /\ Height256(Angle(h)) - 16 <= Back(x, c)
        /\ Back(x, c) <= Height256(Angle(h))
    BY <1>1, <1>2, <2>1, RampBack
  <2>5. Near(FoundHue(k, Back(x, c)), h)
    <3>. HIDE DEF x
    <3>. QED
      BY <2>4, FoundHueIsNear
  <2>. QED
    BY <1>4, <2>3, <2>5
<1>. HIDE DEF d
<1>. QED
  BY <1>1, <1>4, <1>5 DEF c, t

\* The dialog's numbers.  A drag below the box makes the value negative.
DialogOK ==
  /\ hsv = [h |-> hsv.h, s |-> hsv.s, v |-> hsv.v]
  /\ hsv.h \in Nat /\ hsv.h <= 359
  /\ hsv.s \in Int /\ hsv.s <= 256
  /\ hsv.v \in Int /\ hsv.v <= 255
  /\ hsv.v >= 0 => hsv.s >= 0

\* What a negative value stores is no color, but never lighter than black.
ColorOK ==
  \/ rgb \in [1 .. 3 -> 0 .. 255]
  \/ rgb \in [1 .. 3 -> Int] /\ \A i \in 1 .. 3 : rgb[i] <= 0

\* The inductive invariant of the dialog and of the color that it stores.
ColInv == DialogOK /\ ColorOK

\* A negative value makes no channel larger than nought.
LEMMA DarkIs ==
  ASSUME NEW h \in Nat, h <= 359, NEW s \in Int, s <= 256, NEW v \in Int, v < 0
  PROVE  LET d == HsvToRgb([h |-> h, s |-> s, v |-> v])
         IN  d \in [1 .. 3 -> Int] /\ \A i \in 1 .. 3 : d[i] <= 0
<1>. DEFINE c == Chroma(v, s)
            hp == Angle(h)
            k == hp \div 256
            x == Ramp(c, hp)
            d == Color(k, c, x, v)
            t == [h |-> h, s |-> s, v |-> v]
<1>1. k \in Nat /\ k <= 5 /\ Height256(hp) \in Nat /\ Height256(hp) <= 256
  BY AngleIs, HeightIs
<1>2. c \in Int /\ v <= c
  <2>1. -v \in Nat
    BY SMT
  <2>2. (-v) * s <= (-v) * 256
    BY <2>1, TimesMonotone
  <2>3. (-v) * s = -(v * s) /\ v * s \in Int
    BY SMT
  <2>. QED
    BY <2>2, <2>3, SMT DEF Chroma
<1>3. x \in Int /\ (c >= 0 => x <= c) /\ (c < 0 => x <= 0)
  <2>. DEFINE u == Height256(hp)
  <2>1. x = (c * u) \div 256
    BY DEF Ramp, Height256
  <2>. HIDE DEF c, x, u
  <2>2. ASSUME c >= 0 PROVE c * u <= c * 256
    <3>1. c \in Nat
      BY <1>2, <2>2, SMT
    <3>. QED
      BY <3>1, <1>1, TimesMonotone DEF u
  <2>3. ASSUME c < 0 PROVE c * u <= 0
    <3>1. -c \in Nat
      BY <1>2, <2>3, SMT
    <3>2. (-c) * 0 <= (-c) * u
      BY <3>1, <1>1, TimesMonotone DEF u
    <3>. QED
      BY <3>2, <1>1, <1>2, SMT DEF u
  <2>4. c * u \in Int
    BY <1>1, <1>2, SMT DEF u
  <2>. QED
    BY <1>2, <2>1, <2>2, <2>3, <2>4, SMT
<1>4. /\ \A i \in 1 .. 3 : d[i] \in Int
      /\ HsvToRgb(t) = [i \in 1 .. 3 |-> IF d[i] > 255 THEN 255 ELSE d[i]]
  <2>1. v <= 255
    BY SMT
  <2>. QED
    BY <2>1, RgbIs
<1>5. /\ d[1] = Sextant(k, c, x)[1] + (v - c)
      /\ d[2] = Sextant(k, c, x)[2] + (v - c)
      /\ d[3] = Sextant(k, c, x)[3] + (v - c)
  <2>. HIDE DEF k, c, x
  <2>. QED
    BY ChannelsAre, Zenon
<1>. HIDE DEF d
<1>6. d[1] <= 0 /\ d[2] <= 0 /\ d[3] <= 0
  <2>. HIDE DEF k, c, x
  <2>. QED
    BY <1>1, <1>2, <1>3, <1>5, SMT DEF Sextant
<1>7. \A i \in 1 .. 3 : d[i] <= 0 /\ ~(d[i] > 255)
  BY <1>4, <1>6, SMT
<1>8. HsvToRgb(t) = [i \in 1 .. 3 |-> d[i]]
  BY <1>4, <1>7
<1>. QED
  BY <1>4, <1>7, <1>8

\* rgb_to_hsv gives a hue on the circle.
LEMMA HsvIs ==
  ASSUME ColorOK
  PROVE  LET t == RgbToHsv(rgb) IN
         /\ t.h \in Nat /\ t.h <= 359
         /\ t.s \in Int /\ t.s <= 256
         /\ t.v \in Int /\ t.v <= 255
         /\ t.v >= 0 => t.s >= 0
<1>. DEFINE v == Max3(rgb)
            w == Min3(rgb)
            c == v - w
<1>1. /\ rgb[1] \in Int /\ rgb[2] \in Int /\ rgb[3] \in Int
      /\ rgb[1] <= 255 /\ rgb[2] <= 255 /\ rgb[3] <= 255
      /\ \/ rgb[1] >= 0 /\ rgb[2] >= 0 /\ rgb[3] >= 0
         \/ rgb[1] <= 0 /\ rgb[2] <= 0 /\ rgb[3] <= 0
  BY DEF ColorOK
<1>2. /\ v \in {rgb[1], rgb[2], rgb[3]} /\ w \in {rgb[1], rgb[2], rgb[3]}
      /\ \A i \in 1 .. 3 : w <= rgb[i] /\ rgb[i] <= v
  <2>1. \E m \in {rgb[1], rgb[2], rgb[3]} : rgb[1] <= m /\ rgb[2] <= m /\ rgb[3] <= m
    BY <1>1, SMT
  <2>2. \E m \in {rgb[1], rgb[2], rgb[3]} : m <= rgb[1] /\ m <= rgb[2] /\ m <= rgb[3]
    BY <1>1, SMT
  <2>. QED
    BY <2>1, <2>2, <1>1, ExtremesAre, SMT
<1>3. /\ v \in Int /\ w \in Int /\ v <= 255
      /\ w <= rgb[1] /\ w <= rgb[2] /\ w <= rgb[3]
      /\ rgb[1] <= v /\ rgb[2] <= v /\ rgb[3] <= v
      /\ w >= 0 \/ v <= 0
  BY <1>1, <1>2, SMT
<1>. HIDE DEF v, w
<1>4. c \in Nat
  BY <1>1, <1>2, <1>3, SMT
<1>5. Hue(rgb, v, c) \in Nat /\ Hue(rgb, v, c) <= 359
  <2>1. CASE c = 0
    BY <2>1, SMT DEF Hue
  <2>2. CASE c > 0
    <3>1. ASSUME NEW a \in Int, NEW b \in Int, -c <= a - b, a - b <= c
          PROVE  -256 <= Quot((a - b) * 256, c) /\ Quot((a - b) * 256, c) <= 256
                  /\ Quot((a - b) * 256, c) \in Int
      <4>. DEFINE y == Abs((a - b) * 256)
      <4>1. y \in Nat /\ y <= c * 256 /\ Abs(c) = c
        BY <3>1, <1>4, SMT DEF Abs
      <4>. HIDE DEF y, c
      <4>2. c * (y \div c) <= y /\ y \div c \in Nat
        BY <1>4, <2>2, <4>1, DivIs, DivOfNat
      <4>3. y \div c <= 256
        <5>1. ASSUME 257 <= y \div c PROVE FALSE
          <6>1. c * 257 <= c * (y \div c)
            BY <5>1, <4>2, <1>4, TimesMonotone
          <6>. QED
            BY <6>1, <4>1, <4>2, <1>4, <2>2, SMT
        <5>. QED
          BY <5>1, <4>2, SMT
      <4>. QED
        BY <4>1, <4>2, <4>3, SMT DEF Quot, y
    <3>2. /\ HueFrom(rgb[2], rgb[3], c, 6) \in Int
          /\ HueFrom(rgb[3], rgb[1], c, 2) \in Nat /\ HueFrom(rgb[3], rgb[1], c, 2) <= 180
          /\ HueFrom(rgb[1], rgb[2], c, 4) \in Nat /\ HueFrom(rgb[1], rgb[2], c, 4) <= 300
      <4>1. /\ -c <= rgb[2] - rgb[3] /\ rgb[2] - rgb[3] <= c
            /\ -c <= rgb[3] - rgb[1] /\ rgb[3] - rgb[1] <= c
            /\ -c <= rgb[1] - rgb[2] /\ rgb[1] - rgb[2] <= c
        BY <1>1, <1>3, SMT
      <4>. HIDE DEF c
      <4>. QED
        BY <1>1, <3>1, <4>1, SMT DEF HueFrom
    <3>. HIDE DEF c
    <3>. QED
      BY <3>2, <2>2, <1>4, SMT DEF Hue
  <2>. HIDE DEF c
  <2>. QED
    BY <2>1, <2>2, <1>4, SMT
<1>6. /\ (IF v = 0 THEN 0 ELSE Quot(c * 256, v)) \in Int
      /\ (IF v = 0 THEN 0 ELSE Quot(c * 256, v)) <= 256
      /\ v >= 0 => (IF v = 0 THEN 0 ELSE Quot(c * 256, v)) >= 0
  <2>1. CASE v = 0
    BY <2>1, SMT
  <2>2. CASE v > 0
    <3>. DEFINE q == (c * 256) \div v
    <3>1. v \in Nat /\ c <= v /\ c * 256 \in Nat
      BY <1>3, <1>4, <2>2, SMT
    <3>. HIDE DEF c
    <3>2. Quot(c * 256, v) = q /\ q \in Nat /\ v * q <= c * 256
      <4>. DEFINE a == c * 256
      <4>1. a \in Nat
        BY <3>1
      <4>. HIDE DEF a
      <4>2. Quot(a, v) = a \div v /\ a \div v \in Nat /\ v * (a \div v) <= a
        <5>1. Quot(a, v) = a \div v
          BY <4>1, <3>1, <2>2, QuotUp
        <5>2. a \div v \in Nat
          BY <4>1, <3>1, <2>2, DivOfNat
        <5>3. v * (a \div v) <= a
          BY <4>1, <3>1, <2>2, DivIs
        <5>. QED
          BY <5>1, <5>2, <5>3
      <4>. QED
        BY <4>2 DEF a
    <3>. HIDE DEF q
    <3>3. q <= 256
      <4>1. ASSUME 257 <= q PROVE FALSE
        <5>1. v * 257 <= v * q
          BY <4>1, <3>1, <3>2, TimesMonotone
        <5>. QED
          BY <5>1, <3>1, <3>2, <2>2, <1>4, SMT
      <4>. QED
        BY <4>1, <3>2, SMT
    <3>. QED
      BY <3>2, <3>3, <2>2, SMT
  <2>3. CASE v < 0
    <3>1. c * 256 \in Nat /\ Abs(c * 256) = c * 256 /\ Abs(v) \in Nat /\ Abs(v) > 0
      BY <1>3, <1>4, <2>3, SMT DEF Abs
    <3>. HIDE DEF c
    <3>2. Abs(c * 256) \div Abs(v) \in Nat
      BY <3>1, DivOfNat
    <3>3. Quot(c * 256, v) = -(Abs(c * 256) \div Abs(v))
      BY <3>1, <3>2, <1>3, <2>3, SMT DEF Quot
    <3>. QED
      BY <3>2, <3>3, <1>3, <2>3, SMT
  <2>. QED
    BY <2>1, <2>2, <2>3, <1>3, SMT
<1>7. RgbToHsv(rgb) = [h |-> Hue(rgb, v, c), s |-> IF v = 0 THEN 0 ELSE Quot(c * 256, v), v |-> v]
  BY DEF RgbToHsv, v, w
<1>. HIDE DEF c
<1>. QED
  BY <1>3, <1>5, <1>6, <1>7

\* The invariant holds at first.
LEMMA ColInitInv == ColInit => ColInv
<1>. SUFFICES ASSUME ColInit PROVE ColInv
  OBVIOUS
<1>1. rgb \in [1 .. 3 -> 0 .. 255]
  BY ColorAssumption DEF ColInit, ColorAssumption
<1>2. hsv = [h |-> 0, s |-> 0, v |-> 0]
  BY DEF ColInit
<1>. QED
  BY <1>1, <1>2, SMT DEF ColInv, DialogOK, ColorOK

\* Opening the dialog asks rgb_to_hsv.
LEMMA OpenKeeps == ColInv /\ OpenPicker => ColInv'
<1>. SUFFICES ASSUME ColInv, OpenPicker PROVE ColInv'
  OBVIOUS
<1>1. rgb' = rgb /\ hsv' = RgbToHsv(rgb)
  BY DEF OpenPicker
<1>2. DialogOK'
  <2>1. RgbToHsv(rgb) = [h |-> RgbToHsv(rgb).h, s |-> RgbToHsv(rgb).s, v |-> RgbToHsv(rgb).v]
    BY DEF RgbToHsv
  <2>2. ColorOK
    BY DEF ColInv
  <2>. QED
    BY <1>1, <2>1, <2>2, HsvIs DEF DialogOK
<1>. QED
  BY <1>1, <1>2 DEF ColInv, ColorOK

\* What the bar and the box choose, inside of their widths and from their tops on.
LEMMA ChosenIs ==
  ASSUME DialogOK, NEW w, NEW x \in Int, NEW y \in Int, x \in 0 .. Huebox_sz - 1, y >= 0,
         hsv' = Choose(w, x, y)
  PROVE  DialogOK'
<1>1. x \in Nat /\ x <= 127 /\ y \in Nat
  BY SMT DEF Huebox_sz
<1>2. /\ Quot(x * 360, Huebox_sz) = (x * 360) \div 128
      /\ Quot(x * 256, Huebox_sz) = (x * 256) \div 128
      /\ Quot(y * 256, Huebox_sz) = (y * 256) \div 128
  <2>1. x * 360 \in Nat /\ x * 256 \in Nat /\ y * 256 \in Nat
    BY <1>1, SMT
  <2>. QED
    BY <2>1, QuotUp, SMT DEF Huebox_sz
<1>3. CASE w = "huebar"
  <2>1. hsv' = [h |-> (x * 360) \div 128, s |-> hsv.s, v |-> hsv.v]
    BY <1>2, <1>3 DEF Choose, DialogOK
  <2>2. (x * 360) \div 128 \in Nat /\ (x * 360) \div 128 <= 359
    BY <1>1, SMT
  <2>. QED
    BY <2>1, <2>2 DEF DialogOK
<1>4. CASE w # "huebar"
  <2>1. hsv' = [h |-> hsv.h, s |-> (x * 256) \div 128, v |-> 255 - (y * 256) \div 128]
    BY <1>2, <1>4 DEF Choose, DialogOK
  <2>2. /\ (x * 256) \div 128 \in Nat /\ (x * 256) \div 128 <= 256
        /\ 255 - (y * 256) \div 128 \in Int /\ 255 - (y * 256) \div 128 <= 255
    BY <1>1, SMT
  <2>. QED
    BY <2>1, <2>2 DEF DialogOK
<1>. QED
  BY <1>3, <1>4

\* Closing it with OK asks hsv_to_rgb.
LEMMA OkKeeps == ColInv /\ OkPicker => ColInv'
<1>. SUFFICES ASSUME ColInv, OkPicker PROVE ColInv'
  OBVIOUS
<1>. DEFINE t == [h |-> hsv.h, s |-> hsv.s, v |-> hsv.v]
<1>1. rgb' = HsvToRgb(hsv) /\ hsv' = hsv /\ hsv = t
  BY DEF OkPicker, ColInv, DialogOK
<1>2. ColorOK'
  <2>1. CASE hsv.v >= 0
    <3>1. hsv.s \in Nat /\ hsv.v \in Nat
      BY <2>1, SMT DEF ColInv, DialogOK
    <3>2. HsvToRgb(t) \in [1 .. 3 -> 0 .. 255]
      BY <3>1, BrightIs DEF ColInv, DialogOK
    <3>. QED
      BY <1>1, <3>2 DEF ColorOK
  <2>2. CASE hsv.v < 0
    <3>1. HsvToRgb(t) \in [1 .. 3 -> Int] /\ \A i \in 1 .. 3 : HsvToRgb(t)[i] <= 0
      BY <2>2, DarkIs DEF ColInv, DialogOK
    <3>. QED
      BY <1>1, <3>1 DEF ColorOK
  <2>. QED
    BY <2>1, <2>2, SMT DEF ColInv, DialogOK
<1>. QED
  BY <1>1, <1>2 DEF ColInv, DialogOK

\* Every event keeps the invariant.
LEMMA PickerStepInv == ColInv /\ [ColNext]_colVars => ColInv'
<1>. SUFFICES ASSUME ColInv, [ColNext]_colVars PROVE ColInv'
  OBVIOUS
<1>1. CASE OpenPicker
  BY <1>1, OpenKeeps
<1>2. CASE ReleasePicker
  BY <1>2 DEF ReleasePicker, ColInv, DialogOK, ColorOK
<1>3. CASE OkPicker
  BY <1>3, OkKeeps
<1>4. CASE CancelPicker
  BY <1>4 DEF CancelPicker, ColInv, DialogOK, ColorOK
<1>5. ASSUME NEW w \in {"huebar", "huebox"}, NEW x \in Xs, NEW y \in Ys, PressPicker(w, x, y)
      PROVE  ColInv'
  <2>1. x \in Int /\ y \in Int
    BY ColorAssumption DEF ColorAssumption
  <2>2. x \in 0 .. Huebox_sz - 1 /\ y >= 0 /\ hsv' = Choose(w, x, y) /\ rgb' = rgb
    BY <1>5, SMT DEF PressPicker, Height, Huebar_height, Huebox_sz
  <2>3. DialogOK'
    BY <2>1, <2>2, ChosenIs DEF ColInv
  <2>. QED
    BY <2>2, <2>3 DEF ColInv, ColorOK
<1>6. ASSUME NEW x \in Xs, NEW y \in Ys, DragPicker(x, y)
      PROVE  ColInv'
  <2>1. x \in Int /\ y \in Int
    BY ColorAssumption DEF ColorAssumption
  <2>2. x \in 0 .. Huebox_sz - 1 /\ y >= 0 /\ hsv' = Choose(on, x, y) /\ rgb' = rgb
    BY <1>6 DEF DragPicker
  <2>3. DialogOK'
    BY <2>1, <2>2, ChosenIs DEF ColInv
  <2>. QED
    BY <2>2, <2>3 DEF ColInv, ColorOK
<1>7. CASE UNCHANGED colVars
  BY <1>7 DEF colVars, ColInv, DialogOK, ColorOK
<1>. QED
  BY <1>1, <1>2, <1>3, <1>4, <1>5, <1>6, <1>7 DEF ColNext

\* The invariant says that the choice is shown again.
LEMMA PickerInvImplies == ColInv => ChoiceIsShownAgain
<1>. SUFFICES ASSUME ColInv, hsv.v >= 0, hsv.s >= 0
              PROVE  LET back == RgbToHsv(HsvToRgb(hsv)) IN
                     /\ HsvToRgb(hsv) \in [1 .. 3 -> 0 .. 255]
                     /\ back.v = hsv.v
                     /\ (hsv.v * hsv.s) \div 256 >= 16 => Near(back.h, hsv.h)
  BY DEF ChoiceIsShownAgain, Near
<1>. DEFINE t == [h |-> hsv.h, s |-> hsv.s, v |-> hsv.v]
<1>1. hsv = t /\ hsv.h \in Nat /\ hsv.h <= 359 /\ hsv.s \in Nat /\ hsv.s <= 256 /\ hsv.v \in Nat /\ hsv.v <= 255
  BY SMT DEF ColInv, DialogOK
<1>2. /\ HsvToRgb(t) \in [1 .. 3 -> 0 .. 255]
      /\ RgbToHsv(HsvToRgb(t)).v = hsv.v
      /\ Chroma(hsv.v, hsv.s) >= 16 => Near(RgbToHsv(HsvToRgb(t)).h, hsv.h)
  BY <1>1, BrightIs, ColorIsFoundAgain
<1>. QED
  BY <1>1, <1>2 DEF Chroma

\* Whatever color the dialog starts from and wherever the mouse is pressed and
\* dragged, a choice that is stored and opened again has the same value, its
\* hue is at most four degrees away unless the color is nearly grey, and it is
\* stored in bytes (gfxutil.c:20-85, mtlui.c:445-617).
THEOREM ColorsAreShownAgain == ColSpec => []ChoiceIsShownAgain
<1>1. ColSpec => []ColInv
  BY ColInitInv, PickerStepInv, PTL DEF ColSpec
<1>. QED
  BY <1>1, PickerInvImplies, PTL

-----------------------------------------------------------------------------
(* Least and greatest numbers.                                              *)

\* A set of natural numbers has a least one.
LEMMA LeastCounterexample ==
  ASSUME NEW S \in SUBSET Nat, S # {}
  PROVE  \E m \in S : \A n \in S : m <= n
<1>1. PICK m \in S : \A n \in S : ~ (<<n, m>> \in OpToRel(<, Nat))
  BY NatLessThanWellFounded, WFMin
<1>2. ASSUME NEW n \in S PROVE m <= n
  <2>1. ~ (<<n, m>> \in {p \in Nat \X Nat : p[1] < p[2]})
    BY <1>1 DEF OpToRel
  <2>. QED
    BY <2>1
<1>. QED
  BY <1>2

-----------------------------------------------------------------------------
(* Lines.                                                                   *)

\* s solves the equation of the rounds.
IsRounds(s, p, long, short, along, aside) ==
  s = [i \in 0 .. long |->
         IF i = 0 THEN [at |-> p, error |-> 2 * short - long]
         ELSE Stepped(s[i - 1], long, short, along, aside)]

\* The rounds of a line are the solution of their equation, when it has one.
LEMMA RoundsUnfold ==
  ASSUME NEW p, NEW long, NEW short, NEW along, NEW aside,
         NEW s, IsRounds(s, p, long, short, along, aside)
  PROVE  IsRounds(Rounds(p, long, short, along, aside), p, long, short, along, aside)
<1>1. Rounds(p, long, short, along, aside) = CHOOSE r : IsRounds(r, p, long, short, along, aside)
  BY DEF Rounds, IsRounds
<1>. QED
  BY <1>1, Zenon

\* Only one number is bounded like a quotient.
LEMMA QuotientIsOnly ==
  ASSUME NEW a \in Int, NEW d \in Nat, d > 0, NEW q \in Int, d * q <= a, a < d * q + d
  PROVE  a \div d = q
<1>. DEFINE r == a \div d
<1>1. r \in Int /\ d * r <= a /\ a < d * r + d
  BY DivIs
<1>. HIDE DEF r
<1>2. ASSUME r + 1 <= q PROVE FALSE
  <2>1. d * (r + 1) <= d * q
    BY <1>1, <1>2, TimesMonotone
  <2>2. d * (r + 1) = d * r + d
    BY <1>1, SMT
  <2>3. d * r \in Int /\ d * q \in Int
    BY <1>1, SMT
  <2>. QED
    BY <2>1, <2>2, <2>3, <1>1, SMT
<1>3. ASSUME q + 1 <= r PROVE FALSE
  <2>1. d * (q + 1) <= d * r
    BY <1>1, <1>3, TimesMonotone
  <2>2. d * (q + 1) = d * q + d
    BY SMT
  <2>3. d * r \in Int /\ d * q \in Int
    BY <1>1, SMT
  <2>. QED
    BY <2>1, <2>2, <2>3, <1>1, SMT
<1>4. r = q
  BY <1>1, <1>2, <1>3, SMT
<1>. QED
  BY <1>4 DEF r

\* Twice the way to the side after i rounds, in units of the longer side; and the
\* steps to the side until then, which is that way, rounded.
Way(i, short)         == 2 * (short * i)
Asides(i, long, short) == IF long = 0 THEN 0 ELSE (Way(i, short) + long) \div (2 * long)
Paid(i, long, short)  == 2 * (long * Asides(i, long, short))

\* The steps to the side are never more than half a pixel from the way.
LEMMA AsidesAre ==
  ASSUME NEW i \in Nat, NEW long \in Nat, NEW short \in Nat, short <= long, i <= long
  PROVE  /\ Asides(i, long, short) \in Int
         /\ Way(i, short) \in Int /\ Paid(i, long, short) \in Int
         /\ -long <= Way(i, short) - Paid(i, long, short)
         /\ Way(i, short) - Paid(i, long, short) <= long
         /\ long > 0 => Way(i, short) - Paid(i, long, short) < long
<1>1. short * i \in Int /\ Way(i, short) \in Int
  BY SMT DEF Way
<1>2. CASE long = 0
  <2>1. short = 0 /\ Asides(i, long, short) = 0
    BY <1>2, SMT DEF Asides
  <2>. QED
    BY <2>1, <1>1, <1>2, SMT DEF Paid, Way
<1>3. CASE long > 0
  <2>. DEFINE d == 2 * long
              q == Asides(i, long, short)
              a == Way(i, short) + long
  <2>1. d \in Nat /\ d > 0 /\ a \in Int /\ q = a \div d
    BY <1>1, <1>3, SMT DEF Asides
  <2>. HIDE DEF d, q
  <2>2. q \in Int /\ d * q <= a /\ a < d * q + d
    <3>. HIDE DEF a
    <3>. QED
      BY <2>1, DivIs
  <2>3. d * q = Paid(i, long, short) /\ Paid(i, long, short) \in Int
    BY <2>2, SMT DEF Paid, d, q
  <2>. QED
    BY <2>2, <2>3, <1>1, <1>3, SMT DEF d, q
<1>. QED
  BY <1>2, <1>3, SMT

\* One more round: a step to the side when the error says so.
LEMMA OneMoreRound ==
  ASSUME NEW i \in Nat, NEW long \in Nat, NEW short \in Nat, short <= long, i < long
  PROVE  LET error == Way(i, short) + 2 * short - long - Paid(i, long, short) IN
         /\ Way(i + 1, short) = Way(i, short) + 2 * short
         /\ error >= 0 => Asides(i + 1, long, short) = Asides(i, long, short) + 1
         /\ error < 0 => Asides(i + 1, long, short) = Asides(i, long, short)
<1>. DEFINE d == 2 * long
            q == Asides(i, long, short)
            a == Way(i + 1, short) + long
<1>1. Way(i + 1, short) = Way(i, short) + 2 * short
  BY SMT DEF Way
<1>2. /\ q \in Int /\ Way(i, short) \in Int /\ Paid(i, long, short) \in Int
      /\ -long <= Way(i, short) - Paid(i, long, short)
      /\ Way(i, short) - Paid(i, long, short) < long
  BY AsidesAre, SMT
<1>3. d \in Nat /\ d > 0 /\ a \in Int
  BY <1>1, <1>2, SMT
<1>4. Asides(i + 1, long, short) = a \div d
  BY SMT DEF Asides
<1>5. d * q = Paid(i, long, short) /\ d * (q + 1) = Paid(i, long, short) + d
  <2>. HIDE DEF q
  <2>. QED
    BY <1>2, SMT DEF Paid, q
<1>6. ASSUME Way(i, short) + 2 * short - long - Paid(i, long, short) >= 0
      PROVE  a \div d = q + 1
  <2>1. d * (q + 1) <= a /\ a < d * (q + 1) + d /\ q + 1 \in Int
    <3>. HIDE DEF q
    <3>. QED
      BY <1>1, <1>2, <1>5, <1>6, SMT
  <2>. HIDE DEF q, a, d
  <2>. QED
    BY <1>3, <2>1, QuotientIsOnly
<1>7. ASSUME Way(i, short) + 2 * short - long - Paid(i, long, short) < 0
      PROVE  a \div d = q
  <2>1. d * q <= a /\ a < d * q + d
    <3>. HIDE DEF q
    <3>. QED
      BY <1>1, <1>2, <1>5, <1>7, SMT
  <2>. HIDE DEF q, a, d
  <2>. QED
    BY <1>2, <1>3, <2>1, QuotientIsOnly
<1>. QED
  BY <1>1, <1>4, <1>6, <1>7

\* Where a line is after i rounds, and what its error is.
After(p, long, short, along, aside, i) ==
  [at    |-> p + i * along + Asides(i, long, short) * aside,
   error |-> Way(i, short) + 2 * short - long - Paid(i, long, short)]

\* One more step.
LEMMA OnceMore ==
  ASSUME NEW a \in Int, NEW b \in Int
  PROVE  (a + 1) * b = a * b + b /\ a * b \in Int
  BY SMT

\* A round of the loop goes from where the line is after i rounds to where it is
\* after one more.
LEMMA RoundIsStep ==
  ASSUME NEW p \in Int, NEW along \in Int, NEW aside \in Int,
         NEW long \in Nat, NEW short \in Nat, short <= long, NEW i \in Nat, i < long
  PROVE  Stepped(After(p, long, short, along, aside, i), long, short, along, aside)
           = After(p, long, short, along, aside, i + 1)
<1>. DEFINE s == After(p, long, short, along, aside, i)
            k == Asides(i, long, short)
            l == Asides(i + 1, long, short)
            e == Way(i, short) + 2 * short - long - Paid(i, long, short)
<1>1. s.at = p + i * along + k * aside /\ s.error = e
  BY DEF After
<1>2. k \in Int /\ Way(i, short) \in Int /\ Paid(i, long, short) \in Int
  BY AsidesAre, SMT
<1>3. /\ Way(i + 1, short) = Way(i, short) + 2 * short
      /\ e >= 0 => l = k + 1
      /\ e < 0 => l = k
  BY OneMoreRound, Zenon
<1>4. e \in Int
  BY <1>2, SMT
<1>. HIDE DEF s, k, l
<1>5. /\ Paid(i, long, short) = 2 * (long * k)
      /\ Paid(i + 1, long, short) = 2 * (long * l)
  BY DEF Paid, k, l
<1>6. /\ (i + 1) * along = i * along + along /\ i * along \in Int
      /\ (k + 1) * aside = k * aside + aside /\ k * aside \in Int
  BY <1>2, OnceMore
<1>7. CASE e >= 0
  <2>1. /\ l = k + 1 /\ s.error >= 0
        /\ Stepped(s, long, short, along, aside)
             = [at |-> s.at + along + aside, error |-> s.error + 2 * short - 2 * long]
    BY <1>1, <1>3, <1>7 DEF Stepped
  <2>2. s.at + along + aside = p + (i + 1) * along + l * aside
    <3>. DEFINE a == i * along  b == k * aside
    <3>1. s.at = p + a + b /\ a \in Int /\ b \in Int
      BY <1>1, <1>6
    <3>2. (i + 1) * along = a + along /\ l * aside = b + aside
      BY <1>6, <2>1
    <3>. HIDE DEF a, b
    <3>3. s.at + along + aside = p + (a + along) + (b + aside)
      BY <3>1, SMT
    <3>. QED
      BY <3>2, <3>3
  <2>3. Paid(i + 1, long, short) = Paid(i, long, short) + 2 * long
    BY <1>2, <1>5, <2>1, SMT
  <2>4. s.error + 2 * short - 2 * long = Way(i + 1, short) + 2 * short - long - Paid(i + 1, long, short)
    BY <1>1, <1>2, <1>3, <2>3, SMT
  <2>. QED
    BY <2>1, <2>2, <2>4 DEF After, l, s
<1>8. CASE e < 0
  <2>1. l = k /\ ~(s.error >= 0)
    BY <1>1, <1>3, <1>4, <1>8, SMT
  <2>2. Stepped(s, long, short, along, aside)
             = [at |-> s.at + along + 0, error |-> s.error + 2 * short - 0]
    BY <2>1 DEF Stepped
  <2>3. s.at + along + 0 = p + (i + 1) * along + l * aside
    BY <1>1, <1>2, <1>6, <2>1, SMT
  <2>4. Paid(i + 1, long, short) = Paid(i, long, short)
    BY <1>5, <2>1
  <2>5. s.error + 2 * short - 0 = Way(i + 1, short) + 2 * short - long - Paid(i + 1, long, short)
    BY <1>1, <1>2, <1>3, <2>4, SMT
  <2>. QED
    BY <2>2, <2>3, <2>5 DEF After, l, s
<1>. QED
  BY <1>4, <1>7, <1>8, SMT

\* In the beginning the line has not gone aside at all.
LEMMA AsidesAtStart ==
  ASSUME NEW long \in Nat, NEW short \in Nat, short <= long
  PROVE  Asides(0, long, short) = 0
<1>1. Way(0, short) = 0
  BY SMT DEF Way
<1>2. CASE long = 0
  BY <1>2 DEF Asides
<1>3. CASE long > 0
  <2>. DEFINE d == 2 * long
  <2>1. d \in Nat /\ d > 0 /\ d * 0 <= long /\ long < d * 0 + d
    BY <1>3, SMT
  <2>2. Asides(0, long, short) = long \div d
    BY <1>1, <1>3, SMT DEF Asides
  <2>. HIDE DEF d
  <2>. QED
    BY <2>1, <2>2, QuotientIsOnly
<1>. QED
  BY <1>2, <1>3, SMT

\* The loop begins at the first pixel, with the error of no round.
LEMMA FirstRound ==
  ASSUME NEW p \in Int, NEW along \in Int, NEW aside \in Int,
         NEW long \in Nat, NEW short \in Nat, short <= long
  PROVE  After(p, long, short, along, aside, 0) = [at |-> p, error |-> 2 * short - long]
<1>. DEFINE k == Asides(0, long, short)
<1>1. Way(0, short) = 0
  BY SMT DEF Way
<1>2. k = 0
  BY AsidesAtStart
<1>3. Paid(0, long, short) = 0
  BY <1>2, SMT DEF Paid
<1>. HIDE DEF k
<1>4. p + 0 * along + k * aside = p
  BY <1>2, SMT
<1>5. Way(0, short) + 2 * short - long - Paid(0, long, short) = 2 * short - long
  BY <1>1, <1>3, SMT
<1>. QED
  BY <1>4, <1>5 DEF After, k

\* So all the rounds of the loop are known.
LEMMA RoundsAre ==
  ASSUME NEW p \in Int, NEW along \in Int, NEW aside \in Int,
         NEW long \in Nat, NEW short \in Nat, short <= long
  PROVE  \A i \in 0 .. long : Rounds(p, long, short, along, aside)[i] = After(p, long, short, along, aside, i)
<1>. DEFINE A(i) == After(p, long, short, along, aside, i)
            start == [at |-> p, error |-> 2 * short - long]
            S(r) == Stepped(r, long, short, along, aside)
            f == [i \in 0 .. long |-> A(i)]
            s == Rounds(p, long, short, along, aside)
<1>1. A(0) = start
  BY FirstRound
<1>2. ASSUME NEW i \in Nat, i < long PROVE S(A(i)) = A(i + 1)
  BY <1>2, RoundIsStep
<1>. HIDE DEF A, S, start
<1>3. f = [i \in 0 .. long |-> IF i = 0 THEN start ELSE S(f[i - 1])]
  <2>1. ASSUME NEW i \in 0 .. long, i # 0 PROVE A(i) = S(f[i - 1])
    <3>1. i - 1 \in Nat /\ i - 1 < long /\ i - 1 \in 0 .. long /\ (i - 1) + 1 = i
      BY <2>1, SMT
    <3>2. f[i - 1] = A(i - 1)
      BY <3>1
    <3>. HIDE DEF f
    <3>3. S(A(i - 1)) = A((i - 1) + 1)
      BY <3>1, <1>2
    <3>. QED
      BY <3>1, <3>2, <3>3
  <2>. QED
    BY <2>1, <1>1
<1>4. s = [i \in 0 .. long |-> IF i = 0 THEN start ELSE S(s[i - 1])]
  <2>. HIDE DEF f
  <2>1. IsRounds(f, p, long, short, along, aside)
    BY <1>3 DEF IsRounds, S, start
  <2>2. IsRounds(s, p, long, short, along, aside)
    BY <2>1, RoundsUnfold, Zenon
  <2>. HIDE DEF s
  <2>. QED
    BY <2>2 DEF IsRounds, S, start
<1>. HIDE DEF s, f
<1>5. ASSUME NEW j \in 0 .. long, s[j] # A(j) PROVE FALSE
  <2>. DEFINE Wrong == {i \in 0 .. long : s[i] # A(i)}
  <2>1. Wrong \in SUBSET Nat /\ Wrong # {}
    BY <1>5
  <2>2. PICK m \in Wrong : \A n \in Wrong : m <= n
    <3>. HIDE DEF Wrong
    <3>. QED
      BY <2>1, LeastCounterexample
  <2>3. m \in 0 .. long /\ s[m] # A(m)
    OBVIOUS
  <2>4. CASE m = 0
    BY <2>3, <2>4, <1>1, <1>4
  <2>5. CASE m # 0
    <3>1. m - 1 \in Nat /\ m - 1 < long /\ m - 1 \in 0 .. long /\ (m - 1) + 1 = m /\ ~(m <= m - 1)
      BY <2>3, <2>5, SMT
    <3>2. s[m - 1] = A(m - 1)
      BY <3>1, <2>2
    <3>3. s[m] = S(s[m - 1])
      BY <2>3, <2>5, <1>4
    <3>4. S(A(m - 1)) = A((m - 1) + 1)
      BY <3>1, <1>2
    <3>. QED
      BY <2>3, <3>1, <3>2, <3>3, <3>4
  <2>. QED
    BY <2>4, <2>5
<1>. QED
  BY <1>5 DEF A, s

\* In the end, the line has gone aside all the way.
LEMMA AsidesAtEnd ==
  ASSUME NEW long \in Nat, NEW short \in Nat, short <= long
  PROVE  Asides(long, long, short) = short
<1>1. CASE long = 0
  BY <1>1, SMT DEF Asides
<1>2. CASE long > 0
  <2>. DEFINE d == 2 * long
              a == Way(long, short) + long
  <2>1. short * long \in Int /\ long * short = short * long
    BY SMT
  <2>2. d * short = 2 * (short * long)
    BY SMT
  <2>3. d \in Nat /\ d > 0 /\ a \in Int /\ d * short <= a /\ a < d * short + d
    BY <1>2, <2>1, <2>2, SMT DEF Way
  <2>4. Asides(long, long, short) = a \div d
    BY <1>2, SMT DEF Asides
  <2>. HIDE DEF d, a
  <2>5. a \div d = short
    BY <2>3, QuotientIsOnly
  <2>. QED
    BY <2>4, <2>5
<1>. QED
  BY <1>1, <1>2, SMT

\* And it never goes back, nor too far.
LEMMA AsidesFit ==
  ASSUME NEW i \in Nat, NEW long \in Nat, NEW short \in Nat, short <= long, i <= long
  PROVE  Asides(i, long, short) \in 0 .. short
<1>1. CASE long = 0
  BY <1>1, SMT DEF Asides
<1>2. CASE long > 0
  <2>. DEFINE d == 2 * long
              k == Asides(i, long, short)
  <2>1. short * i <= short * long /\ 0 <= short * i /\ short * i \in Int /\ short * long \in Int
    <3>1. short * 0 <= short * i /\ short * 0 = 0
      BY TimesMonotone
    <3>. QED
      BY <3>1, TimesMonotone, SMT
  <2>2. /\ d \in Nat /\ d > 0 /\ Way(i, short) + long \in Nat
        /\ k = (Way(i, short) + long) \div d
    BY <1>2, <2>1, SMT DEF Asides, Way
  <2>3. k \in Int /\ k >= 0 /\ d * k <= Way(i, short) + long
    <3>. DEFINE a == Way(i, short) + long
    <3>1. a \in Nat /\ k = a \div d /\ d \in Nat /\ d > 0
      BY <2>2
    <3>. HIDE DEF a, d, k
    <3>2. k \in Int /\ k >= 0 /\ d * k <= a
      BY <3>1, DivIs, DivOfNat
    <3>. QED
      BY <3>2 DEF a
  <2>. HIDE DEF k
  <2>4. ASSUME short + 1 <= k PROVE FALSE
    <3>1. d * (short + 1) <= d * k
      <4>. HIDE DEF d
      <4>. QED
        BY <2>2, <2>3, <2>4, TimesMonotone
    <3>2. d * (short + 1) = 2 * (short * long) + 2 * long
      BY SMT
    <3>3. d * k \in Int /\ Way(i, short) = 2 * (short * i)
      BY <2>3, SMT DEF Way
    <3>. QED
      BY <3>1, <3>2, <3>3, <2>1, <2>3, <1>2, SMT
  <2>. QED
    BY <2>3, <2>4, SMT DEF k
<1>. QED
  BY <1>1, <1>2, SMT

\* A number is its sign times what abs makes of it.
LEMMA SignIs ==
  ASSUME NEW n \in Int
  PROVE  /\ Abs(n) \in Nat /\ Sign(n) \in Int
         /\ \/ Sign(n) = 1 /\ n = Abs(n)
            \/ Sign(n) = -1 /\ n = -Abs(n)
  BY SMT DEF Abs, Sign

\* The longer side.
LEMMA MaxOfTwo ==
  ASSUME NEW a \in Int, NEW b \in Int, b <= a
  PROVE  Max({a, b}) = a /\ Max({b, a}) = a
<1>1. \A x \in {a, b} : (\A y \in {a, b} : x >= y) => x = a
  BY SMT
<1>2. \A y \in {a, b} : a >= y
  BY SMT
<1>3. Max({a, b}) = a
  BY <1>1, <1>2 DEF Max
<1>4. {a, b} = {b, a}
  OBVIOUS
<1>. QED
  BY <1>3, <1>4

\* How far the pixel after i steps along and k aside lies from the line.
LEMMA Distance ==
  ASSUME NEW a \in Int, NEW b \in Int, NEW i \in Int, NEW k \in Int,
         -Abs(a) <= 2 * (Abs(b) * i) - 2 * (Abs(a) * k), 2 * (Abs(b) * i) - 2 * (Abs(a) * k) <= Abs(a)
  PROVE  /\ 2 * Abs((i * Sign(a)) * b - (k * Sign(b)) * a) <= Abs(a)
         /\ 2 * Abs((k * Sign(b)) * a - (i * Sign(a)) * b) <= Abs(a)
<1>. DEFINE x == Abs(b) * i
            y == Abs(a) * k
            u == (i * Sign(a)) * b
            v == (k * Sign(b)) * a
<1>1. Abs(a) \in Nat /\ Abs(b) \in Nat /\ x \in Int /\ y \in Int
  <2>1. Abs(a) \in Nat /\ Abs(b) \in Nat
    BY SignIs
  <2>. QED
    BY <2>1, SMT
<1>2. \/ u = x /\ v = y
      \/ u = -x /\ v = -y
  <2>1. CASE Sign(a) = 1 /\ a = Abs(a) /\ Sign(b) = 1 /\ b = Abs(b)
    <3>1. i * 1 = i /\ k * 1 = k
      BY SMT
    <3>2. u = i * Abs(b) /\ v = k * Abs(a)
      BY <2>1, <3>1
    <3>. QED
      BY <3>2, <1>1, SMT
  <2>2. CASE Sign(a) = 1 /\ a = Abs(a) /\ Sign(b) = -1 /\ b = -Abs(b)
    <3>1. u = (i * 1) * (-Abs(b)) /\ v = (k * (-1)) * Abs(a)
      BY <2>2
    <3>. QED
      BY <3>1, <1>1, SMT
  <2>3. CASE Sign(a) = -1 /\ a = -Abs(a) /\ Sign(b) = 1 /\ b = Abs(b)
    <3>1. u = (i * (-1)) * Abs(b) /\ v = (k * 1) * (-Abs(a))
      BY <2>3
    <3>. QED
      BY <3>1, <1>1, SMT
  <2>4. CASE Sign(a) = -1 /\ a = -Abs(a) /\ Sign(b) = -1 /\ b = -Abs(b)
    <3>1. u = (i * (-1)) * (-Abs(b)) /\ v = (k * (-1)) * (-Abs(a))
      BY <2>4
    <3>. QED
      BY <3>1, <1>1, SMT
  <2>. QED
    BY <2>1, <2>2, <2>3, <2>4, SignIs
<1>. DEFINE n == Abs(a)
<1>3. -n <= 2 * x - 2 * y /\ 2 * x - 2 * y <= n /\ n \in Nat
  BY <1>1
<1>. HIDE DEF x, y, u, v, n
<1>4. 2 * Abs(u - v) <= n /\ 2 * Abs(v - u) <= n
  BY <1>1, <1>2, <1>3, SMT DEF Abs
<1>. QED
  BY <1>4 DEF u, v, n

\* The steps of a line from a towards b stay between them.
OnTheWay(n, a, b) ==
  \/ a <= n /\ n <= b
  \/ b <= n /\ n <= a

LEMMA StepsBetween ==
  ASSUME NEW a \in Int, NEW b \in Int, NEW n \in Nat, n <= Abs(b - a)
  PROVE  a + n * Sign(b - a) \in Int /\ OnTheWay(a + n * Sign(b - a), a, b)
<1>1. CASE b - a < 0
  <2>1. Sign(b - a) = -1 /\ n <= a - b /\ n * (-1) = -n
    BY <1>1, SMT DEF Sign, Abs
  <2>. QED
    BY <2>1, SMT DEF OnTheWay
<1>2. CASE ~(b - a < 0)
  <2>1. Sign(b - a) = 1 /\ n <= b - a /\ n * 1 = n
    BY <1>2, SMT DEF Sign, Abs
  <2>. QED
    BY <2>1, SMT DEF OnTheWay
<1>. QED
  BY <1>1, <1>2

\* So many columns and rows away.
LEMMA OffsetMoves ==
  ASSUME NEW x \in Int, NEW y \in Int, NEW n \in Int, NEW m \in Int, NEW s \in Int
  PROVE  Offset(x + n, y + m * s) = Offset(x, y) + n + m * (s * FbW)
<1>. DEFINE u == m * s
<1>1. FbW \in Int
  BY RasterAssumption DEF RasterAssumption
<1>2. u \in Int /\ m * (s * FbW) = u * FbW
  BY <1>1, SMT
<1>. HIDE DEF u
<1>3. (y + u) * FbW = y * FbW + u * FbW /\ y * FbW \in Int /\ u * FbW \in Int
  BY <1>1, <1>2, SMT
<1>. QED
  BY <1>2, <1>3, SMT DEF Offset, u

\* Of the pixels that gaw_swtnl_drawprim delivers, those of the frame have an
\* offset of their own in it, and the others are not far away.
LEMMA OffsetIs ==
  ASSUME NEW x \in 0 .. FbW, NEW y \in -1 .. FbH - 1
  PROVE  /\ Offset(x, y) \in -FbW .. FbH * FbW
         /\ InFrame(x, y) => /\ Offset(x, y) \in 0 .. FbH * FbW - 1
                             /\ Offset(x, y) % FbW = x
                             /\ Offset(x, y) \div FbW = y
<1>1. FbW \in Nat /\ FbW > 0 /\ FbH \in Nat
  BY RasterAssumption, SMT DEF RasterAssumption
<1>2. /\ FbW * (-1) <= FbW * y /\ FbW * y <= FbW * (FbH - 1) /\ FbW * y \in Int
      /\ FbW * (-1) = -FbW /\ FbW * (FbH - 1) = FbH * FbW - FbW /\ FbH * FbW \in Int
      /\ y * FbW = FbW * y
  <2>1. FbW * (-1) <= FbW * y /\ FbW * y <= FbW * (FbH - 1)
    BY <1>1, TimesMonotone
  <2>. QED
    BY <1>1, <2>1, SMT
<1>3. Offset(x, y) = FbW * y + x /\ Offset(x, y) \in Int
  BY <1>1, <1>2, SMT DEF Offset
<1>4. Offset(x, y) \in -FbW .. FbH * FbW
  BY <1>1, <1>2, <1>3, SMT
<1>5. ASSUME InFrame(x, y)
      PROVE  /\ Offset(x, y) \in 0 .. FbH * FbW - 1
             /\ Offset(x, y) % FbW = x
             /\ Offset(x, y) \div FbW = y
  <2>1. x <= FbW - 1 /\ 0 <= y
    BY <1>1, <1>5, SMT DEF InFrame, Rows
  <2>2. FbW * 0 <= FbW * y /\ FbW * 0 = 0
    BY <1>1, <2>1, TimesMonotone, SMT
  <2>3. Offset(x, y) \in 0 .. FbH * FbW - 1
    BY <1>1, <1>2, <1>3, <2>1, <2>2, SMT
  <2>4. Offset(x, y) \div FbW = y
    <3>. DEFINE o == Offset(x, y)
    <3>1. o \in Int /\ FbW * y <= o /\ o < FbW * y + FbW
      BY <1>1, <1>2, <1>3, <2>1, SMT
    <3>. HIDE DEF o
    <3>2. o \div FbW = y
      BY <1>1, <3>1, QuotientIsOnly
    <3>. QED
      BY <3>2 DEF o
  <2>5. Offset(x, y) % FbW = Offset(x, y) - FbW * (Offset(x, y) \div FbW)
    BY <1>1, <1>3, SMT
  <2>6. Offset(x, y) % FbW = x
    BY <1>2, <1>3, <2>4, <2>5, SMT
  <2>. QED
    BY <2>3, <2>4, <2>6
<1>. QED
  BY <1>4, <1>5

\* The pixel after i rounds, of a line that is longer along x, and of one that
\* is longer along y.
PixelX(x0, y0, dx, dy, long, short, i) ==
  Rounds(Offset(x0, y0), long, short, Sign(dx), Sign(dy) * FbW)[i].at

PixelY(x0, y0, dx, dy, long, short, i) ==
  Rounds(Offset(x0, y0), long, short, Sign(dy) * FbW, Sign(dx))[i].at

\* The pixel that is n columns and m rows away from x0, y0, the way dx, dy goes.
Away(x0, y0, dx, dy, n, m) == Offset(x0 + n * Sign(dx), y0 + m * Sign(dy))

\* The pixel after i rounds, of a line that is longer along x, and of one that is
\* longer along y: i steps along, and the steps aside that Asides gives.
LEMMA PixelsAre ==
  ASSUME NEW x0 \in Int, NEW y0 \in Int, NEW dx \in Int, NEW dy \in Int,
         NEW long \in Nat, NEW short \in Nat, short <= long, NEW i \in Nat, i <= long
  PROVE  /\ PixelX(x0, y0, dx, dy, long, short, i)
              = Away(x0, y0, dx, dy, i, Asides(i, long, short))
         /\ PixelY(x0, y0, dx, dy, long, short, i)
              = Away(x0, y0, dx, dy, Asides(i, long, short), i)
<1>. DEFINE p == Offset(x0, y0)
            k == Asides(i, long, short)
            xInc == Sign(dx)
            yInc == Sign(dy) * FbW
<1>1. Sign(dx) \in Int /\ Sign(dy) \in Int /\ FbW \in Int
  BY SignIs, RasterAssumption DEF RasterAssumption
<1>2. k \in Int
  BY AsidesAre
<1>3. p \in Int /\ xInc \in Int /\ yInc \in Int /\ i \in 0 .. long
  <2>1. yInc \in Int /\ i \in 0 .. long
    BY <1>1, SMT
  <2>2. p \in Int
    BY <1>1, SMT DEF Offset
  <2>. QED
    BY <1>1, <2>1, <2>2
<1>4. /\ Away(x0, y0, dx, dy, i, k) = p + i * xInc + k * yInc
      /\ Away(x0, y0, dx, dy, k, i) = p + k * xInc + i * yInc
      /\ i * xInc \in Int /\ k * xInc \in Int /\ i * yInc \in Int /\ k * yInc \in Int
  <2>1. i \in Int /\ i * Sign(dx) \in Int /\ k * Sign(dx) \in Int
    <3>. HIDE DEF k
    <3>. QED
      BY <1>1, <1>2, SMT
  <2>2. i * yInc \in Int /\ k * yInc \in Int
    <3>. HIDE DEF k, yInc
    <3>. QED
      BY <1>2, <1>3, SMT
  <2>. DEFINE a == i * Sign(dx)
              b == k * Sign(dx)
              s == Sign(dy)
  <2>3. a \in Int /\ b \in Int /\ i \in Int /\ s \in Int
    BY <1>1, <2>1
  <2>. HIDE DEF k, a, b, s
  <2>4. /\ Offset(x0 + a, y0 + k * s) = Offset(x0, y0) + a + k * (s * FbW)
        /\ Offset(x0 + b, y0 + i * s) = Offset(x0, y0) + b + i * (s * FbW)
    <3>1. Offset(x0 + a, y0 + k * s) = Offset(x0, y0) + a + k * (s * FbW)
      BY <1>2, <2>3, OffsetMoves
    <3>2. Offset(x0 + b, y0 + i * s) = Offset(x0, y0) + b + i * (s * FbW)
      BY <2>3, OffsetMoves
    <3>. QED
      BY <3>1, <3>2
  <2>5. /\ Away(x0, y0, dx, dy, i, k) = p + i * xInc + k * yInc
        /\ Away(x0, y0, dx, dy, k, i) = p + k * xInc + i * yInc
    BY <2>4, Zenon DEF Away, a, b, s
  <2>6. i * xInc \in Int /\ k * xInc \in Int
    BY <2>3, Zenon DEF a, b
  <2>. QED
    BY <2>2, <2>5, <2>6
<1>. HIDE DEF p, xInc, yInc, k
<1>5. /\ Rounds(p, long, short, xInc, yInc)[i] = After(p, long, short, xInc, yInc, i)
      /\ Rounds(p, long, short, yInc, xInc)[i] = After(p, long, short, yInc, xInc, i)
  BY <1>3, RoundsAre
<1>6. /\ After(p, long, short, xInc, yInc, i).at = p + i * xInc + k * yInc
      /\ After(p, long, short, yInc, xInc, i).at = p + i * yInc + k * xInc
  BY DEF After, k
<1>7. p + i * yInc + k * xInc = p + k * xInc + i * yInc
  BY <1>3, <1>4, SMT
<1>. QED
  BY <1>4, <1>5, <1>6, <1>7, Zenon DEF PixelX, PixelY, p, k, xInc, yInc

\* The line from v to w, as a property of LinePixels.
IsClosest(p, v, w) ==
  LET x0 == Floor(v.x)
      y0 == Floor(v.y)
      x1 == Floor(w.x)
      y1 == Floor(w.y)
  IN /\ p[1] = Offset(x0, y0) /\ p[Len(p)] = Offset(x1, y1)
     /\ \A i \in DOMAIN p : \E x, y \in Int :
          /\ p[i] = Offset(x, y) /\ OnTheWay(x, x0, x1) /\ OnTheWay(y, y0, y1)
          /\ 2 * Abs((x - x0) * (y1 - y0) - (y - y0) * (x1 - x0))
               <= Max({Abs(x1 - x0), Abs(y1 - y0)})

\* The loop counts from nought, the pixels from one.
LEMMA FromOne ==
  ASSUME NEW n \in Nat, NEW f, NEW p, p = [i \in 1 .. n + 1 |-> f[i - 1]]
  PROVE  /\ DOMAIN p = 1 .. n + 1 /\ Len(p) = n + 1
         /\ p[1] = f[0] /\ p[n + 1] = f[n]
         /\ \A i \in 1 .. n + 1 : p[i] = f[i - 1] /\ i - 1 \in Nat /\ i - 1 <= n
<1>1. n + 1 \in Nat /\ DOMAIN p = 1 .. n + 1
  BY SMT
<1>2. Len(p) = n + 1
  <2>1. p \in [1 .. n + 1 -> {f[i - 1] : i \in 1 .. n + 1}]
    OBVIOUS
  <2>. QED
    BY <1>1, <2>1, SeqDef, LenProperties
<1>3. 1 \in 1 .. n + 1 /\ n + 1 \in 1 .. n + 1 /\ 1 - 1 = 0 /\ (n + 1) - 1 = n
  BY SMT
<1>4. \A i \in 1 .. n + 1 : i - 1 \in Nat /\ i - 1 <= n
  BY SMT
<1>. QED
  BY <1>1, <1>2, <1>3, <1>4

\* A line that is longer along a than along b, and the other way around.
LEMMA PixelIsClose ==
  ASSUME NEW a \in Int, NEW b \in Int, Abs(b) <= Abs(a), NEW i \in Nat, i <= Abs(a)
  PROVE  LET k == Asides(i, Abs(a), Abs(b)) IN
         /\ k \in Int
         /\ 2 * Abs((i * Sign(a)) * b - (k * Sign(b)) * a) <= Abs(a)
         /\ 2 * Abs((k * Sign(b)) * a - (i * Sign(a)) * b) <= Abs(a)
<1>. DEFINE k == Asides(i, Abs(a), Abs(b))
<1>1. Abs(a) \in Nat /\ Abs(b) \in Nat
  BY SignIs
<1>2. k \in Int /\ -Abs(a) <= Way(i, Abs(b)) - Paid(i, Abs(a), Abs(b))
      /\ Way(i, Abs(b)) - Paid(i, Abs(a), Abs(b)) <= Abs(a)
  BY <1>1, AsidesAre
<1>3. Way(i, Abs(b)) = 2 * (Abs(b) * i) /\ Paid(i, Abs(a), Abs(b)) = 2 * (Abs(a) * k)
  BY DEF Way, Paid
<1>. HIDE DEF k
<1>4. i \in Int /\ -Abs(a) <= 2 * (Abs(b) * i) - 2 * (Abs(a) * k) /\ 2 * (Abs(b) * i) - 2 * (Abs(a) * k) <= Abs(a)
  BY <1>2, <1>3
<1>. QED
  BY <1>2, <1>4, Distance DEF k

\* The pixels of any line, whichever side is longer.
LEMMA LinesAreClosest ==
  ASSUME NEW v, v.x \in Int, v.y \in Int, NEW w, w.x \in Int, w.y \in Int
  PROVE  IsClosest(LinePixels(v, w), v, w)
<1>. DEFINE x0 == Floor(v.x)
            y0 == Floor(v.y)
            x1 == Floor(w.x)
            y1 == Floor(w.y)
            dx == x1 - x0
            dy == y1 - y0
            xInc == Sign(dx)
            yInc == Sign(dy) * FbW
            p == LinePixels(v, w)
<1>1. x0 \in Int /\ y0 \in Int /\ x1 \in Int /\ y1 \in Int /\ dx \in Int /\ dy \in Int
  BY SMT DEF Floor, One
<1>2. p = [i \in 1 .. Max({Abs(dx), Abs(dy)}) + 1 |->
             (IF Abs(dx) > Abs(dy) THEN Rounds(Offset(x0, y0), Abs(dx), Abs(dy), xInc, yInc)
              ELSE Rounds(Offset(x0, y0), Abs(dy), Abs(dx), yInc, xInc))[i - 1].at]
  BY DEF LinePixels
<1>. HIDE DEF p
<1>. SUFFICES /\ p[1] = Offset(x0, y0) /\ p[Len(p)] = Offset(x1, y1)
              /\ \A i \in DOMAIN p : \E x, y \in Int :
                   /\ p[i] = Offset(x, y) /\ OnTheWay(x, x0, x1) /\ OnTheWay(y, y0, y1)
                   /\ 2 * Abs((x - x0) * dy - (y - y0) * dx) <= Max({Abs(dx), Abs(dy)})
  BY DEF IsClosest, p
<1>. HIDE DEF x0, y0, x1, y1
<1>4. x0 + dx = x1 /\ y0 + dy = y1
  BY <1>1, SMT
<1>. HIDE DEF dx, dy
<1>3. Abs(dx) \in Nat /\ Abs(dy) \in Nat /\ Sign(dx) \in Int /\ Sign(dy) \in Int
  BY <1>1, SignIs
<1>5. /\ x0 + 0 * Sign(dx) = x0 /\ y0 + 0 * Sign(dy) = y0
      /\ x0 + Abs(dx) * Sign(dx) = x1 /\ y0 + Abs(dy) * Sign(dy) = y1
  <2>1. Abs(dx) * Sign(dx) = dx /\ Abs(dy) * Sign(dy) = dy
    BY <1>1, <1>3, SignIs, SMT
  <2>2. 0 * Sign(dx) = 0 /\ 0 * Sign(dy) = 0 /\ x0 + 0 = x0 /\ y0 + 0 = y0
    BY <1>1, <1>3, SMT
  <2>. QED
    BY <1>4, <2>1, <2>2
<1>6. CASE Abs(dx) > Abs(dy)
  <2>. DEFINE long == Abs(dx)
              short == Abs(dy)
              k(i) == Asides(i, long, short)
              f == [i \in 0 .. long |-> Rounds(Offset(x0, y0), long, short, xInc, yInc)[i].at]
  <2>1. short <= long /\ Max({Abs(dx), Abs(dy)}) = long
    BY <1>3, <1>6, MaxOfTwo, SMT
  <2>2. \A i \in Nat : i <= long => f[i] = Away(x0, y0, dx, dy, i, k(i))
    <3>. SUFFICES ASSUME NEW i \in Nat, i <= long
                  PROVE  f[i] = Away(x0, y0, dx, dy, i, k(i))
      OBVIOUS
    <3>1. long \in Nat /\ short \in Nat /\ short <= long
      BY <1>3, <2>1
    <3>2. i \in 0 .. long
      BY <3>1
    <3>3. f[i] = Rounds(Offset(x0, y0), long, short, xInc, yInc)[i].at
      BY <3>2
    <3>. HIDE DEF f
    <3>4. PixelX(x0, y0, dx, dy, long, short, i) = Away(x0, y0, dx, dy, i, k(i))
      <4>. HIDE DEF long, short
      <4>. QED
        BY <1>1, <3>1, PixelsAre, SMTT(30)
    <3>5. Rounds(Offset(x0, y0), long, short, xInc, yInc)[i].at = PixelX(x0, y0, dx, dy, long, short, i)
      BY Zenon DEF PixelX
    <3>. QED
      BY <3>3, <3>4, <3>5, Zenon
  <2>3. p = [i \in 1 .. long + 1 |-> f[i - 1]]
    <3>1. \A i \in 1 .. long + 1 : i - 1 \in 0 .. long
      BY <1>3, SMT
    <3>. QED
      BY <1>2, <1>6, <2>1, <3>1
  <2>. HIDE DEF f
  <2>4. /\ DOMAIN p = 1 .. long + 1 /\ Len(p) = long + 1 /\ p[1] = f[0] /\ p[long + 1] = f[long]
        /\ \A i \in 1 .. long + 1 : p[i] = f[i - 1] /\ i - 1 \in Nat /\ i - 1 <= long
    BY <1>3, <2>3, FromOne
  <2>5. k(0) = 0 /\ k(long) = short
    BY <1>3, <2>1, AsidesAtStart, AsidesAtEnd
  <2>6. 0 \in Nat /\ 0 <= long /\ long \in Nat /\ long <= long
    BY <1>3, SMT
  <2>7. p[1] = Offset(x0, y0)
    <3>1. f[0] = Away(x0, y0, dx, dy, 0, k(0))
      BY <2>6, <2>2, Zenon
    <3>. QED
      BY <1>5, <2>4, <2>5, <3>1, Zenon DEF Away
  <2>8. p[Len(p)] = Offset(x1, y1)
    <3>1. f[long] = Away(x0, y0, dx, dy, long, k(long))
      BY <2>6, <2>2, Zenon
    <3>. QED
      BY <1>5, <2>4, <2>5, <3>1, Zenon DEF Away
  <2>9. ASSUME NEW i \in DOMAIN p
        PROVE  \E x, y \in Int :
                 /\ p[i] = Offset(x, y) /\ OnTheWay(x, x0, x1) /\ OnTheWay(y, y0, y1)
                 /\ 2 * Abs((x - x0) * dy - (y - y0) * dx) <= long
    <3>. DEFINE j == i - 1
                x == x0 + j * Sign(dx)
                y == y0 + k(j) * Sign(dy)
    <3>1. j \in Nat /\ j <= long /\ p[i] = f[j]
      BY <2>4
    <3>. HIDE DEF j
    <3>2. k(j) \in Nat /\ k(j) <= short
      <4>1. k(j) \in 0 .. short
        BY <1>3, <2>1, <3>1, AsidesFit
      <4>. HIDE DEF k
      <4>. QED
        BY <4>1, <1>3, SMT
    <3>3. p[i] = Offset(x, y)
      BY <2>2, <3>1, Zenon DEF Away
    <3>4. 2 * Abs((j * Sign(dx)) * dy - (k(j) * Sign(dy)) * dx) <= long
      BY <1>1, <2>1, <3>1, PixelIsClose
    <3>. HIDE DEF k
    <3>5. j \in Nat /\ j <= Abs(dx) /\ k(j) \in Nat /\ k(j) <= Abs(dy)
      BY <3>1, <3>2
    <3>6. x \in Int /\ OnTheWay(x, x0, x1) /\ y \in Int /\ OnTheWay(y, y0, y1)
      BY <1>1, <3>5, StepsBetween DEF dx, dy
    <3>7. x - x0 = j * Sign(dx) /\ y - y0 = k(j) * Sign(dy)
      BY <1>1, <1>3, <3>5, SMT
    <3>. HIDE DEF x, y
    <3>. QED
      BY <3>3, <3>4, <3>6, <3>7
  <2>. QED
    BY <2>1, <2>7, <2>8, <2>9
<1>7. CASE ~(Abs(dx) > Abs(dy))
  <2>. DEFINE long == Abs(dy)
              short == Abs(dx)
              k(i) == Asides(i, long, short)
              f == [i \in 0 .. long |-> Rounds(Offset(x0, y0), long, short, yInc, xInc)[i].at]
  <2>1. short <= long /\ Max({Abs(dx), Abs(dy)}) = long
    BY <1>3, <1>7, MaxOfTwo, SMT
  <2>2. \A i \in Nat : i <= long => f[i] = Away(x0, y0, dx, dy, k(i), i)
    <3>. SUFFICES ASSUME NEW i \in Nat, i <= long
                  PROVE  f[i] = Away(x0, y0, dx, dy, k(i), i)
      OBVIOUS
    <3>1. long \in Nat /\ short \in Nat /\ short <= long
      BY <1>3, <2>1
    <3>2. i \in 0 .. long
      BY <3>1
    <3>3. f[i] = Rounds(Offset(x0, y0), long, short, yInc, xInc)[i].at
      BY <3>2
    <3>. HIDE DEF f
    <3>4. PixelY(x0, y0, dx, dy, long, short, i) = Away(x0, y0, dx, dy, k(i), i)
      <4>. HIDE DEF long, short
      <4>. QED
        BY <1>1, <3>1, PixelsAre, SMTT(30)
    <3>5. Rounds(Offset(x0, y0), long, short, yInc, xInc)[i].at = PixelY(x0, y0, dx, dy, long, short, i)
      BY Zenon DEF PixelY
    <3>. QED
      BY <3>3, <3>4, <3>5, Zenon
  <2>3. p = [i \in 1 .. long + 1 |-> f[i - 1]]
    <3>1. \A i \in 1 .. long + 1 : i - 1 \in 0 .. long
      BY <1>3, SMT
    <3>. QED
      BY <1>2, <1>7, <2>1, <3>1
  <2>. HIDE DEF f
  <2>4. /\ DOMAIN p = 1 .. long + 1 /\ Len(p) = long + 1 /\ p[1] = f[0] /\ p[long + 1] = f[long]
        /\ \A i \in 1 .. long + 1 : p[i] = f[i - 1] /\ i - 1 \in Nat /\ i - 1 <= long
    BY <1>3, <2>3, FromOne
  <2>5. k(0) = 0 /\ k(long) = short
    BY <1>3, <2>1, AsidesAtStart, AsidesAtEnd
  <2>6. 0 \in Nat /\ 0 <= long /\ long \in Nat /\ long <= long
    BY <1>3, SMT
  <2>7. p[1] = Offset(x0, y0)
    <3>1. f[0] = Away(x0, y0, dx, dy, k(0), 0)
      BY <2>6, <2>2, Zenon
    <3>. QED
      BY <1>5, <2>4, <2>5, <3>1, Zenon DEF Away
  <2>8. p[Len(p)] = Offset(x1, y1)
    <3>1. f[long] = Away(x0, y0, dx, dy, k(long), long)
      BY <2>6, <2>2, Zenon
    <3>. QED
      BY <1>5, <2>4, <2>5, <3>1, Zenon DEF Away
  <2>9. ASSUME NEW i \in DOMAIN p
        PROVE  \E x, y \in Int :
                 /\ p[i] = Offset(x, y) /\ OnTheWay(x, x0, x1) /\ OnTheWay(y, y0, y1)
                 /\ 2 * Abs((x - x0) * dy - (y - y0) * dx) <= long
    <3>. DEFINE j == i - 1
                x == x0 + k(j) * Sign(dx)
                y == y0 + j * Sign(dy)
    <3>1. j \in Nat /\ j <= long /\ p[i] = f[j]
      BY <2>4
    <3>. HIDE DEF j
    <3>2. k(j) \in Nat /\ k(j) <= short
      <4>1. k(j) \in 0 .. short
        BY <1>3, <2>1, <3>1, AsidesFit
      <4>. HIDE DEF k
      <4>. QED
        BY <4>1, <1>3, SMT
    <3>3. p[i] = Offset(x, y)
      BY <2>2, <3>1, Zenon DEF Away
    <3>4. 2 * Abs((k(j) * Sign(dx)) * dy - (j * Sign(dy)) * dx) <= long
      BY <1>1, <2>1, <3>1, PixelIsClose
    <3>. HIDE DEF k
    <3>5. k(j) \in Nat /\ k(j) <= Abs(dx) /\ j \in Nat /\ j <= Abs(dy)
      BY <3>1, <3>2
    <3>6. x \in Int /\ OnTheWay(x, x0, x1) /\ y \in Int /\ OnTheWay(y, y0, y1)
      BY <1>1, <3>5, StepsBetween DEF dx, dy
    <3>7. x - x0 = k(j) * Sign(dx) /\ y - y0 = j * Sign(dy)
      BY <1>1, <1>3, <3>5, SMT
    <3>. HIDE DEF x, y
    <3>. QED
      BY <3>3, <3>4, <3>6, <3>7
  <2>. QED
    BY <2>1, <2>7, <2>8, <2>9
<1>. QED
  BY <1>6, <1>7

\* What is known of a line that was drawn: its pixels are those of LinePixels.
LineOK ==
  line = Nothing \/ \E v, w \in Ends : line = [from |-> v, to |-> w, pixels |-> LinePixels(v, w)]

\* Pixels between the ends of a line that gaw_swtnl_drawprim delivers, and
\* between two of the frame.
LEMMA PixelsOfEnds ==
  ASSUME NEW x0 \in 0 .. FbW, NEW x1 \in 0 .. FbW, NEW x \in Int, OnTheWay(x, x0, x1),
         NEW y0 \in -1 .. FbH - 1, NEW y1 \in -1 .. FbH - 1, NEW y \in Int, OnTheWay(y, y0, y1)
  PROVE  /\ x \in 0 .. FbW /\ y \in -1 .. FbH - 1
         /\ InFrame(x0, y0) /\ InFrame(x1, y1) => InFrame(x, y)
<1>1. FbW \in Nat /\ FbH \in Nat
  BY RasterAssumption DEF RasterAssumption
<1>. QED
  BY <1>1, SMT DEF OnTheWay, InFrame, Rows

\* A line begins and ends at its ends, nothing is written farther from the frame
\* buffer than a row before it and a pixel behind it, and between two ends in the
\* frame each pixel is the closest to the straight line in its column or row, for
\* any ends in and around a frame buffer of any size (polyfill.c:430-483).
THEOREM EveryLineIsClosest == RasSpec => []LineIsClosest
<1>1. RasInit => LineOK
  BY DEF RasInit, LineOK
<1>2. LineOK /\ [RasNext]_rasVars => LineOK'
  BY DEF LineOK, RasNext, Background, DrawCut, DrawLine, rasVars
<1>3. LineOK => LineIsClosest
  <2>. SUFFICES ASSUME NEW v \in Ends, NEW w \in Ends,
                       line = [from |-> v, to |-> w, pixels |-> LinePixels(v, w)]
                PROVE  LineIsClosest
    BY DEF LineOK, LineIsClosest
  <2>. DEFINE p == LinePixels(v, w)
              x0 == Floor(v.x)
              y0 == Floor(v.y)
              x1 == Floor(w.x)
              y1 == Floor(w.y)
  <2>1. /\ v.x \in 0 .. FbW * One /\ v.y \in -One .. (FbH - 1) * One
        /\ w.x \in 0 .. FbW * One /\ w.y \in -One .. (FbH - 1) * One
        /\ FbW \in Nat /\ FbH \in Nat
    BY RasterAssumption DEF RasterAssumption, Vertices
  <2>2. /\ x0 \in 0 .. FbW /\ y0 \in -1 .. FbH - 1
        /\ x1 \in 0 .. FbW /\ y1 \in -1 .. FbH - 1
    BY <2>1, SMT DEF Floor, One
  <2>3. IsClosest(p, v, w)
    <3>1. v.x \in Int /\ v.y \in Int /\ w.x \in Int /\ w.y \in Int
      BY <2>1, SMT DEF One
    <3>. QED
      BY <3>1, LinesAreClosest
  <2>. HIDE DEF p
  <2>4. /\ p[1] = Offset(x0, y0) /\ p[Len(p)] = Offset(x1, y1)
        /\ \A i \in DOMAIN p : \E x, y \in Int :
             /\ p[i] = Offset(x, y) /\ OnTheWay(x, x0, x1) /\ OnTheWay(y, y0, y1)
             /\ 2 * Abs((x - x0) * (y1 - y0) - (y - y0) * (x1 - x0))
                  <= Max({Abs(x1 - x0), Abs(y1 - y0)})
    BY <2>3 DEF IsClosest
  <2>. SUFFICES /\ p[1] = Offset(x0, y0) /\ p[Len(p)] = Offset(x1, y1)
                /\ \A i \in DOMAIN p : p[i] \in -FbW .. FbH * FbW
                /\ InFrame(x0, y0) /\ InFrame(x1, y1) =>
                     \A i \in DOMAIN p :
                       /\ p[i] \in 0 .. FbH * FbW - 1
                       /\ 2 * Abs(((p[i] % FbW) - x0) * (y1 - y0) - ((p[i] \div FbW) - y0) * (x1 - x0))
                            <= Max({Abs(x1 - x0), Abs(y1 - y0)})
    BY DEF LineIsClosest, p
  <2>. HIDE DEF x0, y0, x1, y1
  <2>5. ASSUME NEW i \in DOMAIN p
        PROVE  /\ p[i] \in -FbW .. FbH * FbW
               /\ InFrame(x0, y0) /\ InFrame(x1, y1) =>
                    /\ p[i] \in 0 .. FbH * FbW - 1
                    /\ 2 * Abs(((p[i] % FbW) - x0) * (y1 - y0) - ((p[i] \div FbW) - y0) * (x1 - x0))
                         <= Max({Abs(x1 - x0), Abs(y1 - y0)})
    <3>1. PICK x \in Int, y \in Int :
            /\ p[i] = Offset(x, y) /\ OnTheWay(x, x0, x1) /\ OnTheWay(y, y0, y1)
            /\ 2 * Abs((x - x0) * (y1 - y0) - (y - y0) * (x1 - x0))
                 <= Max({Abs(x1 - x0), Abs(y1 - y0)})
      BY <2>4
    <3>2. /\ x \in 0 .. FbW /\ y \in -1 .. FbH - 1
          /\ InFrame(x0, y0) /\ InFrame(x1, y1) => InFrame(x, y)
      BY <2>2, <3>1, PixelsOfEnds
    <3>3. /\ Offset(x, y) \in -FbW .. FbH * FbW
          /\ InFrame(x, y) => /\ Offset(x, y) \in 0 .. FbH * FbW - 1
                              /\ Offset(x, y) % FbW = x
                              /\ Offset(x, y) \div FbW = y
      BY <3>2, OffsetIs
    <3>4. CASE InFrame(x0, y0) /\ InFrame(x1, y1)
      <4>1. /\ p[i] \in -FbW .. FbH * FbW /\ p[i] \in 0 .. FbH * FbW - 1
            /\ p[i] % FbW = x /\ p[i] \div FbW = y
        BY <3>1, <3>2, <3>3, <3>4, Zenon
      <4>. QED
        BY <3>1, <4>1, Zenon
    <3>. QED
      BY <3>1, <3>3, <3>4, Zenon
  <2>. QED
    BY <2>4, <2>5, Zenon
<1>. QED
  BY <1>1, <1>2, <1>3, PTL DEF RasSpec

-----------------------------------------------------------------------------
(* Polygons.                                                                *)

\* The least of a set of natural numbers.
LEMMA LeastOf ==
  ASSUME NEW S \in SUBSET Nat, S # {}
  PROVE  Min(S) \in S /\ \A n \in S : Min(S) <= n
  BY LeastCounterexample DEF Min

\* The greatest of a set of numbers that has a bound.
LEMMA GreatestOf ==
  ASSUME NEW S \in SUBSET Int, S # {}, NEW b \in Int, \A n \in S : n <= b
  PROVE  Max(S) \in S /\ \A n \in S : n <= Max(S)
<1>. DEFINE T == {b - n : n \in S}
<1>1. T \in SUBSET Nat /\ T # {}
  <2>1. \A n \in S : b - n \in Nat
    BY SMT
  <2>. QED
    BY <2>1
<1>2. PICK k \in T : \A n \in T : k <= n
  BY <1>1, LeastCounterexample
<1>3. PICK m \in S : k = b - m
  OBVIOUS
<1>4. \A n \in S : m >= n
  <2>. SUFFICES ASSUME NEW n \in S PROVE m >= n
    OBVIOUS
  <2>1. b - n \in T
    OBVIOUS
  <2>2. b - m <= b - n
    BY <1>2, <1>3, <2>1
  <2>. QED
    BY <2>2, <1>3, SMT
<1>5. Max(S) \in S /\ \A n \in S : Max(S) >= n
  BY <1>3, <1>4 DEF Max
<1>. QED
  BY <1>5, SMT

\* What is filled here.
Outlines == [1 .. 3 -> Vertices] \cup [1 .. 4 -> Vertices]

\* A vertex that lies above a row.
Over(v, row) == Floor(v.y) < row

\* An edge that comes down into a row, or past it.
Falls(v, w, row) == Over(v, row) /\ ~ Over(w, row)

\* Where an edge meets a row, whatever its direction.
Meets(v, w, row) == IF w.y >= v.y THEN ColumnAt(v, w, row, TRUE) ELSE ColumnAt(w, v, row, TRUE)

\* The rows of an edge.
Spanned(p, i) == FirstRow(Upper(p, i)) .. LastRow(Lower(p, i))

\* The vertices of a triangle or a quad.
LEMMA PolygonIs ==
  ASSUME NEW p \in Outlines
  PROVE  /\ Len(p) \in {3, 4} /\ DOMAIN p = 1 .. Len(p)
         /\ \A i \in DOMAIN p : p[i] \in Vertices /\ VNext(p, i) \in Vertices
<1>1. ASSUME NEW n \in {3, 4}, p \in [1 .. n -> Vertices]
      PROVE  Len(p) = n
  <2>1. n \in Nat
    BY <1>1
  <2>2. p \in Seq(Vertices)
    BY <2>1, <1>1, SeqDef
  <2>. QED
    BY <2>1, <2>2, <1>1, LenProperties
<1>2. Len(p) \in {3, 4} /\ DOMAIN p = 1 .. Len(p) /\ p \in [1 .. Len(p) -> Vertices]
  BY <1>1 DEF Outlines
<1>3. \A i \in DOMAIN p : (IF i = Len(p) THEN 1 ELSE i + 1) \in DOMAIN p
  BY <1>2, SMT
<1>. QED
  BY <1>2, <1>3 DEF VNext

\* The rows of the vertices lie in the window, or just above it.
LEMMA VertexIs ==
  ASSUME NEW v \in Vertices
  PROVE  /\ v.x \in Int /\ v.y \in Int /\ -One <= v.y /\ v.y <= (FbH - 1) * One
         /\ Floor(v.y) \in Int /\ -1 <= Floor(v.y) /\ Floor(v.y) <= FbH - 1
         /\ FirstRow(v) = Floor(v.y) + 1 /\ LastRow(v) = Floor(v.y)
<1>1. FbH \in Nat
  BY RasterAssumption DEF RasterAssumption
<1>2. v.x \in Int /\ v.y \in Int /\ -One <= v.y /\ v.y <= (FbH - 1) * One
  BY <1>1 DEF Vertices, One
<1>. QED
  BY <1>1, <1>2, SMT DEF Floor, One, FirstRow, LastRow

\* Truncation keeps the order.
LEMMA FloorKeepsOrder ==
  ASSUME NEW a \in Int, NEW b \in Int
  PROVE  /\ a <= b => Floor(a) <= Floor(b)
         /\ Floor(a) < Floor(b) => a < b
  BY SMT DEF Floor, One

\* The edges that meet a row.
LEMMA EdgesOfRow ==
  ASSUME NEW p \in Outlines, NEW i \in DOMAIN p, NEW row \in Int
  PROVE  /\ (i \in Down(p) /\ row \in Spanned(p, i)) <=> Falls(p[i], VNext(p, i), row)
         /\ (i \in Up(p) /\ row \in Spanned(p, i)) <=> Falls(VNext(p, i), p[i], row)
<1>. DEFINE v == p[i]
            w == VNext(p, i)
<1>1. v \in Vertices /\ w \in Vertices
  BY PolygonIs
<1>2. /\ v.y \in Int /\ w.y \in Int /\ Floor(v.y) \in Int /\ Floor(w.y) \in Int
      /\ FirstRow(v) = Floor(v.y) + 1 /\ LastRow(v) = Floor(v.y)
      /\ FirstRow(w) = Floor(w.y) + 1 /\ LastRow(w) = Floor(w.y)
  <2>. HIDE DEF v, w
  <2>. QED
    BY <1>1, VertexIs
<1>3. i \in Down(p) <=> w.y > v.y
  BY DEF Down
<1>4. i \in Up(p) <=> w.y < v.y
  BY DEF Up
<1>5. /\ Upper(p, i) = (IF w.y >= v.y THEN v ELSE w)
      /\ Lower(p, i) = (IF w.y >= v.y THEN w ELSE v)
  BY DEF Upper, Lower
<1>. HIDE DEF v, w
<1>6. /\ w.y > v.y => Spanned(p, i) = Floor(v.y) + 1 .. Floor(w.y)
      /\ w.y < v.y => Spanned(p, i) = Floor(w.y) + 1 .. Floor(v.y)
  BY <1>2, <1>5, SMT DEF Spanned
<1>7. /\ Floor(v.y) < Floor(w.y) => v.y < w.y
      /\ Floor(w.y) < Floor(v.y) => w.y < v.y
  BY <1>2, FloorKeepsOrder
<1>8. (i \in Down(p) /\ row \in Spanned(p, i)) <=> Falls(v, w, row)
  BY <1>2, <1>3, <1>6, <1>7, SMT DEF Falls, Over
<1>9. (i \in Up(p) /\ row \in Spanned(p, i)) <=> Falls(w, v, row)
  BY <1>2, <1>4, <1>6, <1>7, SMT DEF Falls, Over
<1>. QED
  BY <1>8, <1>9 DEF v, w

\* A table is given the column where the edge meets the row.
LEMMA ColumnIs ==
  ASSUME NEW p \in Outlines, NEW i \in DOMAIN p, NEW row
  PROVE  ColumnAt(Upper(p, i), Lower(p, i), row, i \in Up(p)) = Meets(p[i], VNext(p, i), row)
  BY DEF ColumnAt, Meets, Upper, Lower

\* Both directions of an edge give the same column: this is what a common edge
\* has in common.
LEMMA MeetsIs ==
  ASSUME NEW v \in Vertices, NEW w \in Vertices, NEW row \in Int, Floor(v.y) # Floor(w.y)
  PROVE  Meets(v, w, row) \in Int /\ Meets(v, w, row) = Meets(w, v, row)
<1>1. v.y \in Int /\ w.y \in Int /\ v.x \in Int /\ w.x \in Int /\ v.y # w.y
  BY VertexIs
<1>2. Meets(v, w, row) = Meets(w, v, row)
  <2>1. CASE w.y >= v.y /\ ~(v.y >= w.y)
    BY <2>1, Zenon DEF Meets
  <2>2. CASE v.y >= w.y /\ ~(w.y >= v.y)
    BY <2>2, Zenon DEF Meets
  <2>3. (w.y >= v.y /\ ~(v.y >= w.y)) \/ (v.y >= w.y /\ ~(w.y >= v.y))
    BY <1>1, SMT
  <2>. QED
    BY <2>1, <2>2, <2>3
<1>3. ASSUME NEW a \in Vertices, NEW b \in Vertices, a.y < b.y PROVE ColumnAt(a, b, row, TRUE) \in Int
  <2>. DEFINE slope == Quot((b.x - a.x) * One, b.y - a.y)
              x == a.x + Floor((FirstRow(a) * One - a.y) * slope) + (row - FirstRow(a)) * slope
  <2>1. a.x \in Int /\ a.y \in Int /\ b.x \in Int /\ b.y \in Int /\ FirstRow(a) \in Int
    BY VertexIs
  <2>2. \A n \in Int : Abs(n) \in Int
    BY SMT DEF Abs
  <2>3. slope \in Int
    <3>. DEFINE n == (b.x - a.x) * One
                d == b.y - a.y
    <3>1. n \in Int /\ d \in Int /\ d > 0
      BY <1>3, <2>1, SMT DEF One
    <3>. HIDE DEF n, d
    <3>2. Abs(n) \in Nat /\ Abs(d) \in Nat /\ Abs(d) > 0
      BY <3>1, SMT DEF Abs
    <3>3. Abs(n) \div Abs(d) \in Int
      BY <3>2, SMT
    <3>4. Quot(n, d) \in Int
      <4>. DEFINE q == Abs(n) \div Abs(d)
      <4>1. q \in Int
        BY <3>3
      <4>2. Quot(n, d) = q \/ Quot(n, d) = -q
        BY <4>1, SMT DEF Quot
      <4>. HIDE DEF q
      <4>. QED
        BY <4>1, <4>2
    <3>. QED
      BY <3>4 DEF n, d
  <2>. HIDE DEF slope
  <2>4. (FirstRow(a) * One - a.y) * slope \in Int /\ (row - FirstRow(a)) * slope \in Int
    BY <2>1, <2>3, SMT DEF One
  <2>5. \A n \in Int : Floor(n) \in Int
    BY SMT DEF Floor, One
  <2>6. x \in Int
    BY <2>1, <2>4, <2>5
  <2>. HIDE DEF x
  <2>7. FbW - 1 \in Int
    BY RasterAssumption DEF RasterAssumption
  <2>8. \A m, n \in Int : Min({m, n}) \in Int
    <3>. SUFFICES ASSUME NEW m \in Int, NEW n \in Int PROVE Min({m, n}) \in Int
      OBVIOUS
    <3>1. \E k \in {m, n} : \A j \in {m, n} : k <= j
      BY SMT
    <3>. QED
      BY <3>1 DEF Min
  <2>9. (IF x < 0 THEN 0 ELSE Floor(x)) \in Int
    BY <2>5, <2>6
  <2>10. ColumnAt(a, b, row, TRUE) = Min({IF x < 0 THEN 0 ELSE Floor(x), FbW - 1})
    BY DEF ColumnAt, x, slope
  <2>. QED
    BY <2>7, <2>8, <2>9, <2>10
<1>4. Meets(v, w, row) \in Int
  <2>1. CASE w.y >= v.y
    <3>1. v.y < w.y
      BY <1>1, <2>1, SMT
    <3>. QED
      BY <1>3, <2>1, <3>1, Zenon DEF Meets
  <2>2. CASE ~(w.y >= v.y)
    <3>1. w.y < v.y
      BY <1>1, <2>2, SMT
    <3>. QED
      BY <1>3, <2>2, <3>1, Zenon DEF Meets
  <2>. QED
    BY <2>1, <2>2
<1>. QED
  BY <1>2, <1>4

\* The vertices that follow each other.
LEMMA CornersAre ==
  ASSUME NEW p \in Outlines
  PROVE  /\ p \in [1 .. 3 -> Vertices] =>
              /\ Len(p) = 3 /\ DOMAIN p = {1, 2, 3}
              /\ VNext(p, 1) = p[2] /\ VNext(p, 2) = p[3] /\ VNext(p, 3) = p[1]
         /\ p \in [1 .. 4 -> Vertices] =>
              /\ Len(p) = 4 /\ DOMAIN p = {1, 2, 3, 4}
              /\ VNext(p, 1) = p[2] /\ VNext(p, 2) = p[3] /\ VNext(p, 3) = p[4] /\ VNext(p, 4) = p[1]
<1>1. 1 .. 3 = {1, 2, 3} /\ 1 .. 4 = {1, 2, 3, 4}
  BY SMT
<1>2. DOMAIN p = 1 .. Len(p) /\ Len(p) \in {3, 4}
  BY PolygonIs
<1>3. ASSUME p \in [1 .. 3 -> Vertices] PROVE Len(p) = 3
  <2>1. DOMAIN p = {1, 2, 3}
    BY <1>1, <1>3
  <2>2. Len(p) = 4 => 4 \in DOMAIN p
    BY <1>1, <1>2
  <2>3. 4 \notin DOMAIN p
    BY <2>1, SMT
  <2>. QED
    BY <1>2, <2>2, <2>3
<1>4. ASSUME p \in [1 .. 4 -> Vertices] PROVE Len(p) = 4
  <2>1. 4 \in DOMAIN p
    BY <1>1, <1>4
  <2>2. Len(p) = 3 => 4 \notin DOMAIN p
    BY <1>1, <1>2
  <2>. QED
    BY <1>2, <2>1, <2>2, SMT
<1>. QED
  BY <1>1, <1>2, <1>3, <1>4, SMT DEF VNext

\* Around a polygon that lies above a row only in parts, some edge falls into the
\* row and some edge rises out of it.
LEMMA EdgesAround ==
  ASSUME NEW p \in Outlines, NEW row,
         \E i \in DOMAIN p : Over(p[i], row), \E i \in DOMAIN p : ~ Over(p[i], row)
  PROVE  /\ \E i \in DOMAIN p : Falls(p[i], VNext(p, i), row)
         /\ \E i \in DOMAIN p : Falls(VNext(p, i), p[i], row)
<1>1. CASE p \in [1 .. 3 -> Vertices]
  <2>1. /\ DOMAIN p = {1, 2, 3}
        /\ VNext(p, 1) = p[2] /\ VNext(p, 2) = p[3] /\ VNext(p, 3) = p[1]
    BY <1>1, CornersAre
  <2>2. /\ Falls(p[1], p[2], row) \/ Falls(p[2], p[3], row) \/ Falls(p[3], p[1], row)
        /\ Falls(p[2], p[1], row) \/ Falls(p[3], p[2], row) \/ Falls(p[1], p[3], row)
    BY <2>1 DEF Falls
  <2>. QED
    BY <2>1, <2>2
<1>2. CASE p \in [1 .. 4 -> Vertices]
  <2>1. /\ DOMAIN p = {1, 2, 3, 4}
        /\ VNext(p, 1) = p[2] /\ VNext(p, 2) = p[3] /\ VNext(p, 3) = p[4] /\ VNext(p, 4) = p[1]
    BY <1>2, CornersAre
  <2>2. /\ Falls(p[1], p[2], row) \/ Falls(p[2], p[3], row) \/ Falls(p[3], p[4], row) \/ Falls(p[4], p[1], row)
        /\ Falls(p[2], p[1], row) \/ Falls(p[3], p[2], row) \/ Falls(p[4], p[3], row) \/ Falls(p[1], p[4], row)
    BY <2>1 DEF Falls
  <2>. QED
    BY <2>1, <2>2
<1>. QED
  BY <1>1, <1>2 DEF Outlines

\* The ends of an edge are vertices.
LEMMA EndsOfEdge ==
  ASSUME NEW p \in Outlines, NEW i \in DOMAIN p
  PROVE  /\ \E j \in DOMAIN p : Upper(p, i) = p[j]
         /\ \E j \in DOMAIN p : Lower(p, i) = p[j]
<1>1. DOMAIN p = 1 .. Len(p) /\ Len(p) \in {3, 4}
  BY PolygonIs
<1>2. \E j \in DOMAIN p : VNext(p, i) = p[j]
  <2>1. (IF i = Len(p) THEN 1 ELSE i + 1) \in DOMAIN p
    BY <1>1, SMT
  <2>. QED
    BY <2>1 DEF VNext
<1>. QED
  BY <1>2 DEF Upper, Lower

\* The first and the last row, seen from one row.
LEMMA TopAndBot ==
  ASSUME NEW p \in Outlines, NEW row \in Rows
  PROVE  /\ Top(p) \in Int /\ Bot(p) \in Int
         /\ Top(p) <= row <=> \E i \in Down(p) \cup Up(p) : FirstRow(Upper(p, i)) <= row
         /\ row <= Bot(p) <=> row = 0 \/ \E i \in Down(p) \cup Up(p) : row <= LastRow(Lower(p, i))
<1>. DEFINE E == Down(p) \cup Up(p)
            T == {FbH} \cup {FirstRow(Upper(p, i)) : i \in E}
            B == {0} \cup {LastRow(Lower(p, i)) : i \in E}
<1>1. FbH \in Nat /\ FbH > 0 /\ row \in Int /\ 0 <= row /\ row < FbH
  BY RasterAssumption, SMT DEF RasterAssumption, Rows
<1>2. E \subseteq DOMAIN p
  BY DEF Down, Up
<1>3. \A i \in E : /\ FirstRow(Upper(p, i)) \in Nat
                   /\ LastRow(Lower(p, i)) \in Int /\ LastRow(Lower(p, i)) <= FbH - 1
  <2>. SUFFICES ASSUME NEW i \in DOMAIN p
                PROVE  /\ FirstRow(Upper(p, i)) \in Nat
                       /\ LastRow(Lower(p, i)) \in Int /\ LastRow(Lower(p, i)) <= FbH - 1
    BY <1>2
  <2>1. Upper(p, i) \in Vertices /\ Lower(p, i) \in Vertices
    BY EndsOfEdge, PolygonIs
  <2>. QED
    BY <1>1, <2>1, VertexIs, SMT
<1>. HIDE DEF E
<1>4. T \in SUBSET Nat /\ FbH \in T
  BY <1>1, <1>3
<1>5. B \in SUBSET Int /\ 0 \in B /\ \A n \in B : n <= FbH
  BY <1>1, <1>3, SMT
<1>6. Top(p) \in T /\ \A n \in T : Top(p) <= n
  <2>1. Top(p) = Min(T)
    BY DEF Top, T, E
  <2>. HIDE DEF T
  <2>. QED
    BY <1>4, <2>1, LeastOf
<1>7. Bot(p) \in B /\ \A n \in B : n <= Bot(p)
  <2>1. Bot(p) = Max(B)
    BY DEF Bot, B, E
  <2>. HIDE DEF B
  <2>. QED
    BY <1>1, <1>5, <2>1, GreatestOf
<1>8. Top(p) \in Int /\ Bot(p) \in Int
  BY <1>4, <1>5, <1>6, <1>7
<1>9. Top(p) <= row <=> \E i \in E : FirstRow(Upper(p, i)) <= row
  <2>1. ASSUME Top(p) <= row PROVE \E i \in E : FirstRow(Upper(p, i)) <= row
    <3>1. Top(p) # FbH
      BY <1>1, <2>1, SMT
    <3>. QED
      BY <1>6, <2>1, <3>1
  <2>2. ASSUME NEW i \in E, FirstRow(Upper(p, i)) <= row PROVE Top(p) <= row
    <3>1. Top(p) <= FirstRow(Upper(p, i)) /\ FirstRow(Upper(p, i)) \in Int
      BY <1>3, <1>6
    <3>. QED
      BY <1>1, <1>8, <2>2, <3>1, SMT
  <2>. QED
    BY <2>1, <2>2
<1>10. row <= Bot(p) <=> row = 0 \/ \E i \in E : row <= LastRow(Lower(p, i))
  <2>1. ASSUME row <= Bot(p) PROVE row = 0 \/ \E i \in E : row <= LastRow(Lower(p, i))
    <3>1. CASE Bot(p) = 0
      BY <1>1, <2>1, <3>1, SMT
    <3>2. CASE Bot(p) # 0
      BY <1>7, <2>1, <3>2
    <3>. QED
      BY <3>1, <3>2
  <2>2. row = 0 => row <= Bot(p)
    BY <1>5, <1>7
  <2>3. ASSUME NEW i \in E, row <= LastRow(Lower(p, i)) PROVE row <= Bot(p)
    <3>1. LastRow(Lower(p, i)) <= Bot(p) /\ LastRow(Lower(p, i)) \in Int
      BY <1>3, <1>7
    <3>. QED
      BY <1>1, <1>8, <2>3, <3>1, SMT
  <2>. QED
    BY <2>1, <2>2, <2>3
<1>. QED
  BY <1>8, <1>9, <1>10 DEF E

\* A polygon that reaches into the window fills the rows that it lies above only in
\* parts.
LEMMA RowsOfFill ==
  ASSUME NEW p \in Outlines, ReachesWindow(p), NEW row \in Rows
  PROVE  row \in Max({0, Top(p)}) .. Min({Bot(p), FbH - 1})
           <=> /\ \E i \in DOMAIN p : Over(p[i], row)
               /\ \E i \in DOMAIN p : ~ Over(p[i], row)
<1>1. FbH \in Nat /\ row \in Int /\ 0 <= row /\ row <= FbH - 1
  BY RasterAssumption, SMT DEF RasterAssumption, Rows
<1>2. Top(p) \in Int /\ Bot(p) \in Int
  BY TopAndBot
<1>3. row \in Max({0, Top(p)}) .. Min({Bot(p), FbH - 1}) <=> Top(p) <= row /\ row <= Bot(p)
  <2>1. \A a, b \in Int : Max({a, b}) = IF a >= b THEN a ELSE b
    <3>. SUFFICES ASSUME NEW a \in Int, NEW b \in Int PROVE Max({a, b}) = IF a >= b THEN a ELSE b
      OBVIOUS
    <3>1. \A x \in {a, b} : (\A y \in {a, b} : x >= y) <=> x = IF a >= b THEN a ELSE b
      BY SMT
    <3>2. (IF a >= b THEN a ELSE b) \in {a, b}
      OBVIOUS
    <3>. QED
      BY <3>1, <3>2 DEF Max
  <2>2. \A a, b \in Int : Min({a, b}) = IF a <= b THEN a ELSE b
    <3>. SUFFICES ASSUME NEW a \in Int, NEW b \in Int PROVE Min({a, b}) = IF a <= b THEN a ELSE b
      OBVIOUS
    <3>1. \A x \in {a, b} : (\A y \in {a, b} : x <= y) <=> x = IF a <= b THEN a ELSE b
      BY SMT
    <3>2. (IF a <= b THEN a ELSE b) \in {a, b}
      OBVIOUS
    <3>. QED
      BY <3>1, <3>2 DEF Min
  <2>3. 0 \in Int /\ FbH - 1 \in Int
    BY <1>1
  <2>4. Max({0, Top(p)}) = (IF 0 >= Top(p) THEN 0 ELSE Top(p)) /\ Min({Bot(p), FbH - 1}) = (IF Bot(p) <= FbH - 1 THEN Bot(p) ELSE FbH - 1)
    BY <1>2, <2>1, <2>2, <2>3
  <2>. QED
    BY <1>1, <1>2, <2>4, SMT
<1>4. \A i \in DOMAIN p : /\ p[i] \in Vertices /\ VNext(p, i) \in Vertices
                          /\ Upper(p, i) \in Vertices /\ Lower(p, i) \in Vertices
  BY PolygonIs, EndsOfEdge
<1>5. ASSUME Top(p) <= row, row <= Bot(p)
      PROVE  /\ \E i \in DOMAIN p : Over(p[i], row)
             /\ \E i \in DOMAIN p : ~ Over(p[i], row)
  <2>1. PICK i \in Down(p) \cup Up(p) : FirstRow(Upper(p, i)) <= row
    BY <1>5, TopAndBot
  <2>2. i \in DOMAIN p
    BY DEF Down, Up
  <2>3. Over(Upper(p, i), row)
    BY <1>1, <1>4, <2>1, <2>2, VertexIs, SMT DEF Over
  <2>4. \E j \in DOMAIN p : Over(p[j], row)
    BY <2>2, <2>3, EndsOfEdge
  <2>5. CASE row = 0
    <3>1. PICK j \in DOMAIN p : p[j].y >= 0
      BY DEF ReachesWindow, Range
    <3>2. p[j].y \in Int
      BY <1>4, VertexIs
    <3>3. ~ Over(p[j], row)
      BY <2>5, <3>1, <3>2, SMT DEF Over, Floor, One
    <3>. QED
      BY <2>4, <3>3
  <2>6. CASE row # 0
    <3>1. PICK j \in Down(p) \cup Up(p) : row <= LastRow(Lower(p, j))
      BY <1>5, <2>6, TopAndBot
    <3>2. j \in DOMAIN p
      BY DEF Down, Up
    <3>3. ~ Over(Lower(p, j), row)
      BY <1>1, <1>4, <3>1, <3>2, VertexIs, SMT DEF Over
    <3>4. \E k \in DOMAIN p : ~ Over(p[k], row)
      BY <3>2, <3>3, EndsOfEdge
    <3>. QED
      BY <2>4, <3>4
  <2>. QED
    BY <2>5, <2>6
<1>6. ASSUME \E i \in DOMAIN p : Over(p[i], row), \E i \in DOMAIN p : ~ Over(p[i], row)
      PROVE  Top(p) <= row /\ row <= Bot(p)
  <2>1. PICK i \in DOMAIN p : Falls(p[i], VNext(p, i), row)
    BY <1>6, EdgesAround
  <2>2. i \in Down(p) /\ row \in Spanned(p, i)
    BY <1>1, <2>1, EdgesOfRow
  <2>3. FirstRow(Upper(p, i)) \in Int /\ LastRow(Lower(p, i)) \in Int
    BY <1>4, VertexIs
  <2>4. FirstRow(Upper(p, i)) <= row /\ row <= LastRow(Lower(p, i))
    BY <1>1, <2>2, <2>3 DEF Spanned
  <2>. QED
    BY <2>2, <2>4, TopAndBot
<1>. QED
  BY <1>3, <1>5, <1>6

\* In each row one edge of a polygon goes down, and one up.
Simple(p, row) ==
  \A i, j \in DOMAIN p :
    /\ Falls(p[i], VNext(p, i), row) /\ Falls(p[j], VNext(p, j), row) => i = j
    /\ Falls(VNext(p, i), p[i], row) /\ Falls(VNext(p, j), p[j], row) => i = j

\* The pixels of a row between an edge that goes down and one that goes up.
Between(p, x, row) ==
  \E i, j \in DOMAIN p :
    /\ Falls(p[i], VNext(p, i), row) /\ Falls(VNext(p, j), p[j], row)
    /\ x \in Meets(p[i], VNext(p, i), row) .. Meets(p[j], VNext(p, j), row) - 1

\* The greatest of one number.
LEMMA GreatestOfOne ==
  ASSUME NEW n \in Int
  PROVE  Max({n}) = n
  BY GreatestOf

\* What a table holds for a row after its edges, when only one has the row.
LEMMA ScannedIs ==
  ASSUME NEW p \in Outlines, NEW t, NEW E \in SUBSET DOMAIN p, NEW row \in Rows,
         NEW j \in E, row \in Spanned(p, j), \A i \in E : row \in Spanned(p, i) => i = j
  PROVE  Scanned(t, p, E)[row] = Meets(p[j], VNext(p, j), row)
<1>1. {i \in E : row \in Spanned(p, i)} = {j}
  OBVIOUS
<1>2. j \in DOMAIN p /\ j \in Int
  BY PolygonIs
<1>3. Max({i \in E : row \in Spanned(p, i)}) = j
  BY <1>1, <1>2, GreatestOfOne, Zenon
<1>4. {i \in E : row \in Spanned(p, i)} # {}
  BY <1>1
<1>5. Scanned(t, p, E)[row] = ColumnAt(Upper(p, j), Lower(p, j), row, j \in Up(p))
  BY <1>3, <1>4 DEF Scanned, Spanned
<1>. QED
  BY <1>2, <1>5, ColumnIs, Zenon

\* The pixels that POLYFILL sets, whatever was in the tables.
LEMMA FillIs ==
  ASSUME NEW p \in Outlines, ReachesWindow(p), NEW l, NEW r,
         \A row \in Rows : Simple(p, row)
  PROVE  /\ \A c \in Fill(p, l, r).pixels : \E x \in Int, row \in Rows : c = <<x, row>>
         /\ \A x, row : <<x, row>> \in Fill(p, l, r).pixels <=> row \in Rows /\ Between(p, x, row)
<1>. DEFINE nl == Scanned(l, p, Down(p))
            nr == Scanned(r, p, Up(p))
            span == Max({0, Top(p)}) .. Min({Bot(p), FbH - 1})
            pixels == UNION {(nl[row] .. nr[row] - 1) \X {row} : row \in span}
<1>1. Fill(p, l, r).pixels = pixels
  BY DEF Fill
<1>2. span \subseteq Rows
  <2>1. FbH - 1 \in Int /\ Top(p) \in Int /\ Bot(p) \in Int
    <3>1. FbH \in Nat /\ 0 \in Rows
      BY RasterAssumption, SMT DEF RasterAssumption, Rows
    <3>. QED
      BY <3>1, TopAndBot
  <2>2. \A a, b \in Int : Max({a, b}) \in Int /\ Max({a, b}) >= a
    <3>. SUFFICES ASSUME NEW a \in Int, NEW b \in Int PROVE Max({a, b}) \in Int /\ Max({a, b}) >= a
      OBVIOUS
    <3>1. \E k \in {a, b} : \A j \in {a, b} : k >= j
      BY SMT
    <3>. QED
      BY <3>1 DEF Max
  <2>3. \A a, b \in Int : Min({a, b}) \in Int /\ Min({a, b}) <= b
    <3>. SUFFICES ASSUME NEW a \in Int, NEW b \in Int PROVE Min({a, b}) \in Int /\ Min({a, b}) <= b
      OBVIOUS
    <3>1. \E k \in {a, b} : \A j \in {a, b} : k <= j
      BY SMT
    <3>. QED
      BY <3>1 DEF Min
  <2>4. /\ Max({0, Top(p)}) \in Int /\ Max({0, Top(p)}) >= 0
        /\ Min({Bot(p), FbH - 1}) \in Int /\ Min({Bot(p), FbH - 1}) <= FbH - 1
    BY <2>1, <2>2, <2>3
  <2>. QED
    BY <2>1, <2>4, SMT DEF Rows
<1>3. ASSUME NEW row \in Rows
      PROVE  row \in span <=> /\ \E i \in DOMAIN p : Over(p[i], row)
                              /\ \E i \in DOMAIN p : ~ Over(p[i], row)
  BY <1>3, RowsOfFill
<1>4. Down(p) \in SUBSET DOMAIN p /\ Up(p) \in SUBSET DOMAIN p
  BY DEF Down, Up
<1>5. \A row \in Rows : row \in Int
  BY RasterAssumption DEF RasterAssumption, Rows
<1>6. ASSUME NEW row \in Rows, NEW i \in DOMAIN p, Falls(p[i], VNext(p, i), row)
      PROVE  nl[row] = Meets(p[i], VNext(p, i), row)
  <2>1. i \in Down(p) /\ row \in Spanned(p, i)
    BY <1>5, <1>6, EdgesOfRow
  <2>2. ASSUME NEW k \in Down(p), row \in Spanned(p, k) PROVE k = i
    <3>1. k \in DOMAIN p /\ Falls(p[k], VNext(p, k), row)
      BY <1>4, <1>5, <2>2, EdgesOfRow
    <3>. QED
      BY <1>6, <3>1 DEF Simple
  <2>. QED
    BY <1>4, <2>1, <2>2, ScannedIs
<1>7. ASSUME NEW row \in Rows, NEW i \in DOMAIN p, Falls(VNext(p, i), p[i], row)
      PROVE  nr[row] = Meets(p[i], VNext(p, i), row)
  <2>1. i \in Up(p) /\ row \in Spanned(p, i)
    BY <1>5, <1>7, EdgesOfRow
  <2>2. ASSUME NEW k \in Up(p), row \in Spanned(p, k) PROVE k = i
    <3>1. k \in DOMAIN p /\ Falls(VNext(p, k), p[k], row)
      BY <1>4, <1>5, <2>2, EdgesOfRow
    <3>. QED
      BY <1>7, <3>1 DEF Simple
  <2>. QED
    BY <1>4, <2>1, <2>2, ScannedIs
<1>. HIDE DEF nl, nr, span
<1>8. \A c \in pixels : \E x \in Int, row \in Rows : c = <<x, row>>
  BY <1>2
<1>9. \A x, row : <<x, row>> \in pixels <=> row \in span /\ x \in nl[row] .. nr[row] - 1
  OBVIOUS
<1>10. ASSUME NEW x, NEW row \in Rows
       PROVE  (row \in span /\ x \in nl[row] .. nr[row] - 1) <=> Between(p, x, row)
  <2>1. ASSUME row \in span, x \in nl[row] .. nr[row] - 1 PROVE Between(p, x, row)
    <3>1. PICK i \in DOMAIN p : Falls(p[i], VNext(p, i), row)
      BY <1>3, <2>1, EdgesAround
    <3>2. PICK j \in DOMAIN p : Falls(VNext(p, j), p[j], row)
      BY <1>3, <2>1, EdgesAround
    <3>3. nl[row] = Meets(p[i], VNext(p, i), row) /\ nr[row] = Meets(p[j], VNext(p, j), row)
      BY <1>6, <1>7, <3>1, <3>2
    <3>. QED
      BY <2>1, <3>1, <3>2, <3>3 DEF Between
  <2>2. ASSUME Between(p, x, row) PROVE row \in span /\ x \in nl[row] .. nr[row] - 1
    <3>1. PICK i \in DOMAIN p, j \in DOMAIN p :
            /\ Falls(p[i], VNext(p, i), row) /\ Falls(VNext(p, j), p[j], row)
            /\ x \in Meets(p[i], VNext(p, i), row) .. Meets(p[j], VNext(p, j), row) - 1
      BY <2>2 DEF Between
    <3>2. nl[row] = Meets(p[i], VNext(p, i), row) /\ nr[row] = Meets(p[j], VNext(p, j), row)
      BY <1>6, <1>7, <3>1
    <3>3. Over(p[i], row) /\ ~ Over(p[j], row)
      BY <3>1 DEF Falls
    <3>. QED
      BY <1>3, <3>1, <3>2, <3>3
  <2>. QED
    BY <2>1, <2>2
<1>. QED
  BY <1>1, <1>2, <1>8, <1>9, <1>10

\* Which way a path by three points turns, and how far.
Twist(x1, y1, x2, y2, x3, y3) == (x2 - x1) * (y3 - y1) - (y2 - y1) * (x3 - x1)

\* The turn at a vertex.
Bend(a, b, c) == Twist(a.x, a.y, b.x, b.y, c.x, c.y)

\* All corners turn the same way.
Convex(q) ==
  LET corners == {Bend(q[1], q[2], q[3]), Bend(q[2], q[3], q[4]),
                  Bend(q[3], q[4], q[1]), Bend(q[4], q[1], q[2])}
  IN  (\A n \in corners : n > 0) \/ (\A n \in corners : n < 0)

\* A product with a positive number keeps the order.
LEMMA TimesStrict ==
  ASSUME NEW a \in Int, NEW b \in Int, NEW s \in Nat, s > 0
  PROVE  /\ s * a \in Int
         /\ a < b => s * a < s * b
         /\ a <= b => s * a <= s * b
  BY SMT

\* Two means of numbers, with the same weight in all, cannot be equal when all numbers of
\* the first are less than all of the second.
LEMMA MeansDiffer ==
  ASSUME NEW s1 \in Nat, NEW s2 \in Nat, NEW s3 \in Nat, NEW s4 \in Nat,
         s1 > 0, s2 > 0, s3 > 0, s4 > 0, s2 + s4 = s1 + s3,
         NEW y1 \in Int, NEW y2 \in Int, NEW y3 \in Int, NEW y4 \in Int,
         y1 < y2, y1 < y4, y3 < y2, y3 < y4
  PROVE  s2 * y1 + s4 * y3 < s3 * y2 + s1 * y4
<1>. DEFINE m == IF y1 <= y3 THEN y3 ELSE y1
<1>1. m \in Int /\ y1 <= m /\ y3 <= m /\ m < y2 /\ m < y4
  BY SMT
<1>. HIDE DEF m
<1>2. s2 * y1 <= s2 * m /\ s4 * y3 <= s4 * m /\ s3 * m < s3 * y2 /\ s1 * m < s1 * y4
  BY <1>1, TimesStrict
<1>3. /\ s2 * y1 \in Int /\ s4 * y3 \in Int /\ s3 * y2 \in Int /\ s1 * y4 \in Int
      /\ s1 * m \in Int /\ s2 * m \in Int /\ s3 * m \in Int /\ s4 * m \in Int
  BY <1>1, TimesStrict
<1>4. s2 * m + s4 * m = s1 * m + s3 * m
  <2>1. (s2 + s4) * m = s2 * m + s4 * m /\ (s1 + s3) * m = s1 * m + s3 * m
    BY <1>1, SMT
  <2>. QED
    BY <2>1
<1>. QED
  BY <1>2, <1>3, <1>4, SMT

\* Two means of heights, with the corners as weights, are the same.
Balance(s1, s2, s3, s4, y1, y2, y3, y4) ==
  /\ s1 \in Int /\ s2 \in Int /\ s3 \in Int /\ s4 \in Int
  /\ s2 + s4 = s1 + s3
  /\ s2 * y1 + s4 * y3 = s3 * y2 + s1 * y4

\* The corners of a quad are the weights with which its diagonals meet.
LEMMA CornersBalance ==
  ASSUME NEW x1 \in Int, NEW x2 \in Int, NEW x3 \in Int, NEW x4 \in Int,
         NEW y1 \in Int, NEW y2 \in Int, NEW y3 \in Int, NEW y4 \in Int
  PROVE  Balance(Twist(x1, y1, x2, y2, x3, y3), Twist(x2, y2, x3, y3, x4, y4),
                 Twist(x3, y3, x4, y4, x1, y1), Twist(x4, y4, x1, y1, x2, y2), y1, y2, y3, y4)
  BY SMT DEF Twist, Balance

\* A vertex above a row is higher than one that is not.
LEMMA OverOrder ==
  ASSUME NEW v \in Vertices, NEW w \in Vertices, NEW row \in Int, Over(v, row), ~ Over(w, row)
  PROVE  v.y < w.y
<1>1. v.y \in Int /\ w.y \in Int /\ Floor(v.y) \in Int /\ Floor(w.y) \in Int
  BY VertexIs
<1>2. Floor(v.y) < Floor(w.y)
  BY <1>1, SMT DEF Over
<1>. QED
  BY <1>1, <1>2, FloorKeepsOrder

\* No row has one diagonal of a convex quad above and the other below.
LEMMA DiagonalsMeet ==
  ASSUME NEW q \in [1 .. 4 -> Vertices], Convex(q), NEW row \in Int
  PROVE  /\ ~ (Over(q[1], row) /\ Over(q[3], row) /\ ~ Over(q[2], row) /\ ~ Over(q[4], row))
         /\ ~ (Over(q[2], row) /\ Over(q[4], row) /\ ~ Over(q[1], row) /\ ~ Over(q[3], row))
<1>. DEFINE s1 == Bend(q[1], q[2], q[3])
            s2 == Bend(q[2], q[3], q[4])
            s3 == Bend(q[3], q[4], q[1])
            s4 == Bend(q[4], q[1], q[2])
            y1 == q[1].y
            y2 == q[2].y
            y3 == q[3].y
            y4 == q[4].y
<1>1. q[1] \in Vertices /\ q[2] \in Vertices /\ q[3] \in Vertices /\ q[4] \in Vertices
  BY SMT
<1>2. /\ y1 \in Int /\ y2 \in Int /\ y3 \in Int /\ y4 \in Int
      /\ q[1].x \in Int /\ q[2].x \in Int /\ q[3].x \in Int /\ q[4].x \in Int
  BY <1>1, VertexIs
<1>3. /\ s1 \in Int /\ s2 \in Int /\ s3 \in Int /\ s4 \in Int
      /\ s2 + s4 = s1 + s3
      /\ s2 * y1 + s4 * y3 = s3 * y2 + s1 * y4
  <2>1. /\ s1 = Twist(q[1].x, y1, q[2].x, y2, q[3].x, y3)
        /\ s2 = Twist(q[2].x, y2, q[3].x, y3, q[4].x, y4)
        /\ s3 = Twist(q[3].x, y3, q[4].x, y4, q[1].x, y1)
        /\ s4 = Twist(q[4].x, y4, q[1].x, y1, q[2].x, y2)
    BY Zenon DEF Bend
  <2>. HIDE DEF s1, s2, s3, s4, y1, y2, y3, y4
  <2>2. Balance(s1, s2, s3, s4, y1, y2, y3, y4)
    BY <1>2, <2>1, CornersBalance
  <2>. QED
    BY <2>2 DEF Balance
<1>4. \/ s1 > 0 /\ s2 > 0 /\ s3 > 0 /\ s4 > 0
      \/ s1 < 0 /\ s2 < 0 /\ s3 < 0 /\ s4 < 0
  BY DEF Convex
<1>5. /\ Over(q[1], row) /\ Over(q[3], row) /\ ~ Over(q[2], row) /\ ~ Over(q[4], row)
           => y1 < y2 /\ y1 < y4 /\ y3 < y2 /\ y3 < y4
      /\ Over(q[2], row) /\ Over(q[4], row) /\ ~ Over(q[1], row) /\ ~ Over(q[3], row)
           => y2 < y1 /\ y2 < y3 /\ y4 < y1 /\ y4 < y3
  BY <1>1, OverOrder
<1>. HIDE DEF s1, s2, s3, s4, y1, y2, y3, y4
<1>6. ASSUME NEW t1 \in Int, NEW t2 \in Int, NEW t3 \in Int, NEW t4 \in Int,
             t1 > 0, t2 > 0, t3 > 0, t4 > 0, t2 + t4 = t1 + t3,
             t2 * y1 + t4 * y3 = t3 * y2 + t1 * y4
      PROVE  /\ ~ (y1 < y2 /\ y1 < y4 /\ y3 < y2 /\ y3 < y4)
             /\ ~ (y2 < y1 /\ y2 < y3 /\ y4 < y1 /\ y4 < y3)
  <2>1. t1 \in Nat /\ t2 \in Nat /\ t3 \in Nat /\ t4 \in Nat
    BY <1>6, SMT
  <2>2. /\ t2 * y1 \in Int /\ t4 * y3 \in Int /\ t3 * y2 \in Int /\ t1 * y4 \in Int
    BY <1>2, <1>6, <2>1, TimesStrict
  <2>3. ASSUME y1 < y2, y1 < y4, y3 < y2, y3 < y4 PROVE FALSE
    <3>1. t2 * y1 + t4 * y3 < t3 * y2 + t1 * y4
      BY <1>2, <1>6, <2>1, <2>3, MeansDiffer
    <3>. QED
      BY <1>6, <2>2, <3>1, SMT
  <2>4. ASSUME y2 < y1, y2 < y3, y4 < y1, y4 < y3 PROVE FALSE
    <3>1. t1 + t3 = t4 + t2 /\ t1 + t3 = t2 + t4
      BY <1>6, SMT
    <3>2. t3 * y2 + t1 * y4 < t2 * y1 + t4 * y3
      BY <1>2, <1>6, <2>1, <2>4, <3>1, MeansDiffer
    <3>. QED
      BY <1>6, <2>2, <3>2, SMT
  <2>. QED
    BY <2>3, <2>4
<1>7. CASE s1 > 0 /\ s2 > 0 /\ s3 > 0 /\ s4 > 0
  BY <1>3, <1>5, <1>6, <1>7
<1>8. CASE s1 < 0 /\ s2 < 0 /\ s3 < 0 /\ s4 < 0
  <2>1. -s1 \in Int /\ -s2 \in Int /\ -s3 \in Int /\ -s4 \in Int
        /\ -s1 > 0 /\ -s2 > 0 /\ -s3 > 0 /\ -s4 > 0 /\ -s2 + -s4 = -s1 + -s3
    BY <1>3, <1>8, SMT
  <2>2. (-s2) * y1 + (-s4) * y3 = (-s3) * y2 + (-s1) * y4
    BY <1>2, <1>3, SMT
  <2>. QED
    BY <1>5, <1>6, <2>1, <2>2
<1>. QED
  BY <1>4, <1>7, <1>8

\* The pixels of a row between the edges from a to b and from c to d.
From(a, b, c, d, x, row) ==
  /\ Falls(a, b, row) /\ Falls(d, c, row)
  /\ Meets(a, b, row) <= x /\ x < Meets(c, d, row)

\* Where an edge meets a row is a column, and the same in both directions.
Columns(a, b, row) == Over(a, row) # Over(b, row) => Meets(a, b, row) \in Int /\ Meets(a, b, row) = Meets(b, a, row)

\* The columns of an edge, for either direction.
LEMMA ColumnsAre ==
  ASSUME NEW a \in Vertices, NEW b \in Vertices, NEW row \in Int
  PROVE  Columns(a, b, row)
<1>1. Over(a, row) # Over(b, row) => Floor(a.y) # Floor(b.y)
  BY DEF Over
<1>. QED
  BY <1>1, MeetsIs DEF Columns

\* A range of columns, by its bounds.
LEMMA InRange ==
  ASSUME NEW a \in Vertices, NEW b \in Vertices, NEW c \in Vertices, NEW d \in Vertices,
         NEW row \in Int, NEW x \in Int
  PROVE  From(a, b, c, d, x, row) <=> /\ Falls(a, b, row) /\ Falls(d, c, row)
                                      /\ x \in Meets(a, b, row) .. Meets(c, d, row) - 1
<1>1. ASSUME Falls(a, b, row), Falls(d, c, row) PROVE Meets(a, b, row) \in Int /\ Meets(c, d, row) \in Int
  BY <1>1, ColumnsAre DEF Columns, Falls
<1>. QED
  BY <1>1, SMT DEF From

\* A triangle has one edge down and one up in each row that meets it.
LEMMA TriangleIs ==
  ASSUME NEW a \in Vertices, NEW b \in Vertices, NEW c \in Vertices, NEW row \in Int
  PROVE  /\ <<a, b, c>> \in Outlines
         /\ Simple(<<a, b, c>>, row)
         /\ \A x \in Int :
              Between(<<a, b, c>>, x, row) <=>
                \/ From(a, b, b, c, x, row) \/ From(a, b, c, a, x, row)
                \/ From(b, c, a, b, x, row) \/ From(b, c, c, a, x, row)
                \/ From(c, a, a, b, x, row) \/ From(c, a, b, c, x, row)
<1>. DEFINE p == <<a, b, c>>
<1>1. p \in [1 .. 3 -> Vertices] /\ p[1] = a /\ p[2] = b /\ p[3] = c
  BY SMT
<1>. HIDE DEF p
<1>2. p \in Outlines
  BY <1>1 DEF Outlines
<1>3. /\ DOMAIN p = {1, 2, 3}
      /\ VNext(p, 1) = b /\ VNext(p, 2) = c /\ VNext(p, 3) = a
  BY <1>1, <1>2, CornersAre
<1>4. Simple(p, row)
  BY <1>1, <1>3 DEF Simple, Falls
<1>5. ASSUME NEW x \in Int
      PROVE  Between(p, x, row) <=>
                \/ From(a, b, b, c, x, row) \/ From(a, b, c, a, x, row)
                \/ From(b, c, a, b, x, row) \/ From(b, c, c, a, x, row)
                \/ From(c, a, a, b, x, row) \/ From(c, a, b, c, x, row)
  <2>1. Between(p, x, row) <=>
          \E i, j \in {1, 2, 3} : From(p[i], VNext(p, i), p[j], VNext(p, j), x, row)
    <3>1. \A i \in {1, 2, 3} : p[i] \in Vertices /\ VNext(p, i) \in Vertices
      BY <1>1, <1>3
    <3>. QED
      BY <1>3, <3>1, InRange DEF Between
  <2>2. ~ From(a, b, a, b, x, row) /\ ~ From(b, c, b, c, x, row) /\ ~ From(c, a, c, a, x, row)
    BY DEF From, Falls
  <2>. QED
    BY <1>1, <1>3, <2>1, <2>2
<1>. QED
  BY <1>2, <1>4, <1>5 DEF p

\* So has a convex quad.
LEMMA QuadIs ==
  ASSUME NEW q \in [1 .. 4 -> Vertices], Convex(q), NEW row \in Int
  PROVE  /\ q \in Outlines
         /\ Simple(q, row)
         /\ \A x \in Int :
              Between(q, x, row) =>
                \E i, j \in 1 .. 4 : i # j /\ From(q[i], VNext(q, i), q[j], VNext(q, j), x, row)
<1>1. q \in Outlines
  BY DEF Outlines
<1>2. /\ DOMAIN q = {1, 2, 3, 4} /\ 1 .. 4 = {1, 2, 3, 4}
      /\ VNext(q, 1) = q[2] /\ VNext(q, 2) = q[3] /\ VNext(q, 3) = q[4] /\ VNext(q, 4) = q[1]
  BY <1>1, CornersAre, SMT
<1>3. Simple(q, row)
  BY <1>2, DiagonalsMeet DEF Simple, Falls
<1>4. ASSUME NEW x \in Int, Between(q, x, row)
      PROVE  \E i, j \in 1 .. 4 : i # j /\ From(q[i], VNext(q, i), q[j], VNext(q, j), x, row)
  <2>1. \A i \in 1 .. 4 : q[i] \in Vertices /\ VNext(q, i) \in Vertices
    BY <1>2
  <2>2. PICK i \in 1 .. 4, j \in 1 .. 4 : From(q[i], VNext(q, i), q[j], VNext(q, j), x, row)
    BY <1>2, <1>4, <2>1, InRange DEF Between
  <2>3. i # j
    BY <2>2 DEF From, Falls
  <2>. QED
    BY <2>2, <2>3
<1>. QED
  BY <1>1, <1>3, <1>4

\* A row of a convex quad, and of its halves.
LEMMA RowOfPieces ==
  ASSUME NEW q \in [1 .. 4 -> Vertices], Convex(q), NEW row \in Int, NEW x \in Int
  PROVE  /\ ~ (Between(<<q[1], q[2], q[3]>>, x, row) /\ Between(<<q[1], q[3], q[4]>>, x, row))
         /\ Between(q, x, row) => Between(<<q[1], q[2], q[3]>>, x, row) \/ Between(<<q[1], q[3], q[4]>>, x, row)
<1>. DEFINE a == q[1]
            b == q[2]
            c == q[3]
            d == q[4]
<1>1. a \in Vertices /\ b \in Vertices /\ c \in Vertices /\ d \in Vertices
  BY SMT
<1>2. /\ ~ (Over(a, row) /\ Over(c, row) /\ ~ Over(b, row) /\ ~ Over(d, row))
      /\ ~ (Over(b, row) /\ Over(d, row) /\ ~ Over(a, row) /\ ~ Over(c, row))
  BY DiagonalsMeet
<1>3. Between(q, x, row) =>
        \/ From(a, b, b, c, x, row) \/ From(a, b, c, d, x, row) \/ From(a, b, d, a, x, row)
        \/ From(b, c, a, b, x, row) \/ From(b, c, c, d, x, row) \/ From(b, c, d, a, x, row)
        \/ From(c, d, a, b, x, row) \/ From(c, d, b, c, x, row) \/ From(c, d, d, a, x, row)
        \/ From(d, a, a, b, x, row) \/ From(d, a, b, c, x, row) \/ From(d, a, c, d, x, row)
  <2>1. q \in Outlines
    BY DEF Outlines
  <2>2. /\ 1 .. 4 = {1, 2, 3, 4}
        /\ VNext(q, 1) = b /\ VNext(q, 2) = c /\ VNext(q, 3) = d /\ VNext(q, 4) = a
    BY <2>1, CornersAre, SMT
  <2>. QED
    BY <2>2, QuadIs
<1>. HIDE DEF a, b, c, d
<1>4. Between(<<a, b, c>>, x, row) <=>
        \/ From(a, b, b, c, x, row) \/ From(a, b, c, a, x, row)
        \/ From(b, c, a, b, x, row) \/ From(b, c, c, a, x, row)
        \/ From(c, a, a, b, x, row) \/ From(c, a, b, c, x, row)
  BY <1>1, TriangleIs
<1>5. Between(<<a, c, d>>, x, row) <=>
        \/ From(a, c, c, d, x, row) \/ From(a, c, d, a, x, row)
        \/ From(c, d, a, c, x, row) \/ From(c, d, d, a, x, row)
        \/ From(d, a, a, c, x, row) \/ From(d, a, c, d, x, row)
  BY <1>1, TriangleIs
<1>6. Columns(a, b, row) /\ Columns(b, c, row) /\ Columns(c, a, row) /\ Columns(c, d, row) /\ Columns(d, a, row)
  BY <1>1, ColumnsAre
<1>7. ~ (Between(<<a, b, c>>, x, row) /\ Between(<<a, c, d>>, x, row))
  BY <1>2, <1>4, <1>5, <1>6, SMT DEF From, Falls, Columns
<1>8. Between(q, x, row) => Between(<<a, b, c>>, x, row) \/ Between(<<a, c, d>>, x, row)
  BY <1>2, <1>3, <1>4, <1>5, <1>6, SMT DEF From, Falls, Columns
<1>. QED
  BY <1>7, <1>8 DEF a, b, c, d

\* Rows are numbers.
LEMMA RowIsInt == \A row \in Rows : row \in Int
  BY RasterAssumption DEF RasterAssumption, Rows

\* A quad reaches where its half does.
LEMMA QuadReaches ==
  ASSUME NEW q \in [1 .. 4 -> Vertices], ReachesWindow(<<q[1], q[2], q[3]>>)
  PROVE  ReachesWindow(q)
<1>1. \A i \in {1, 2, 3} : q[i] \in Range(q)
  <2>1. {1, 2, 3} \subseteq DOMAIN q
    BY SMT
  <2>. QED
    BY <2>1 DEF Range
<1>2. \A v \in Range(<<q[1], q[2], q[3]>>) : v \in Range(q)
  <2>1. DOMAIN <<q[1], q[2], q[3]>> = {1, 2, 3}
    BY SMT
  <2>2. <<q[1], q[2], q[3]>>[1] = q[1] /\ <<q[1], q[2], q[3]>>[2] = q[2] /\ <<q[1], q[2], q[3]>>[3] = q[3]
    OBVIOUS
  <2>. QED
    BY <1>1, <2>1, <2>2 DEF Range
<1>. QED
  BY <1>2 DEF ReachesWindow

\* The quad and its halves, filled with whatever is in the tables.
LEMMA HalvesMeet ==
  ASSUME NEW q \in [1 .. 4 -> Vertices], Convex(q),
         \A p \in Halves(q) : ReachesWindow(p),
         NEW l, NEW r, NEW la, NEW ra, NEW lb, NEW rb
  PROVE  LET f == Fill(q, l, r).pixels
             a == Fill(<<q[1], q[2], q[3]>>, la, ra).pixels
             b == Fill(<<q[1], q[3], q[4]>>, lb, rb).pixels
         IN  a \cap b = {} /\ f \subseteq a \cup b
<1>. DEFINE pa == <<q[1], q[2], q[3]>>
            pb == <<q[1], q[3], q[4]>>
            f == Fill(q, l, r).pixels
            a == Fill(pa, la, ra).pixels
            b == Fill(pb, lb, rb).pixels
<1>1. q[1] \in Vertices /\ q[2] \in Vertices /\ q[3] \in Vertices /\ q[4] \in Vertices
  BY SMT
<1>2. ReachesWindow(pa) /\ ReachesWindow(pb) /\ ReachesWindow(q)
  BY QuadReaches DEF Halves
<1>3. 0 \in Int /\ pa \in Outlines /\ pb \in Outlines /\ q \in Outlines
  BY <1>1, TriangleIs, QuadIs
<1>4. \A row \in Rows : Simple(pa, row) /\ Simple(pb, row) /\ Simple(q, row)
  BY <1>1, RowIsInt, TriangleIs, QuadIs
<1>5. \A row \in Rows, x \in Int :
        /\ ~ (Between(pa, x, row) /\ Between(pb, x, row))
        /\ Between(q, x, row) => Between(pa, x, row) \/ Between(pb, x, row)
  BY RowIsInt, RowOfPieces
<1>. HIDE DEF pa, pb
<1>6. /\ \A c \in a : \E x \in Int, row \in Rows : c = <<x, row>>
      /\ \A x, row : <<x, row>> \in a <=> row \in Rows /\ Between(pa, x, row)
  BY <1>2, <1>3, <1>4, FillIs
<1>7. \A x, row : <<x, row>> \in b <=> row \in Rows /\ Between(pb, x, row)
  BY <1>2, <1>3, <1>4, FillIs
<1>8. /\ \A c \in f : \E x \in Int, row \in Rows : c = <<x, row>>
      /\ \A x, row : <<x, row>> \in f <=> row \in Rows /\ Between(q, x, row)
  BY <1>2, <1>3, <1>4, FillIs
<1>. HIDE DEF a, b, f
<1>9. ASSUME NEW c \in a, c \in b PROVE FALSE
  <2>1. PICK x \in Int, row \in Rows : c = <<x, row>>
    BY <1>6
  <2>. QED
    BY <1>5, <1>6, <1>7, <1>9, <2>1
<1>10. ASSUME NEW c \in f PROVE c \in a \cup b
  <2>1. PICK x \in Int, row \in Rows : c = <<x, row>>
    BY <1>8
  <2>. QED
    BY <1>5, <1>6, <1>7, <1>8, <1>10, <2>1
<1>. QED
  BY <1>9, <1>10 DEF a, b, f, pa, pb

\* What is known of a quad that was drawn: it was filled as it is and in two halves.
QuadOK ==
  drawn = Nothing \/
  \E q \in Quads : \E l, r, la, ra, lb, rb :
    drawn = [quad |-> q, whole |-> Fill(q, l, r).pixels,
             parts |-> <<Fill(<<q[1], q[2], q[3]>>, la, ra).pixels, Fill(<<q[1], q[3], q[4]>>, lb, rb).pixels>>]

\* The two triangles of a convex quad meet at their common edge without an overlap
\* or a gap, whatever the tables held before and however the slopes are rounded, for
\* a frame buffer of any size (polytmpl.h, polyfill.c: scan_edge and POLYFILL).
THEOREM HalvesOfQuadsMeet == (\A q \in Quads : Convex(q)) => (RasSpec => []PiecesMeet)
<1>. SUFFICES ASSUME \A q \in Quads : Convex(q) PROVE RasSpec => []PiecesMeet
  OBVIOUS
<1>1. RasInit => QuadOK
  BY DEF RasInit, QuadOK
<1>2. QuadOK /\ [RasNext]_rasVars => QuadOK'
  <2>. SUFFICES ASSUME QuadOK, [RasNext]_rasVars PROVE QuadOK'
    OBVIOUS
  <2>1. CASE Background
    BY <2>1 DEF Background, QuadOK
  <2>2. ASSUME NEW q \in Quads, DrawCut(q) PROVE QuadOK'
    <3>. DEFINE f == Fill(q, left, right)
                a == Fill(<<q[1], q[2], q[3]>>, f.left, f.right)
                b == Fill(<<q[1], q[3], q[4]>>, a.left, a.right)
    <3>1. drawn' = [quad |-> q, whole |-> f.pixels, parts |-> <<a.pixels, b.pixels>>]
      BY <2>2 DEF DrawCut
    <3>. QED
      BY <3>1 DEF QuadOK
  <2>3. ASSUME NEW v \in Ends, NEW w \in Ends, DrawLine(v, w) PROVE QuadOK'
    BY <2>3 DEF DrawLine, QuadOK
  <2>4. CASE UNCHANGED rasVars
    BY <2>4 DEF rasVars, QuadOK
  <2>. QED
    BY <2>1, <2>2, <2>3, <2>4 DEF RasNext
<1>3. QuadOK => PiecesMeet
  <2>. SUFFICES ASSUME drawn # Nothing, \A p \in Halves(drawn.quad) : ReachesWindow(p),
                       NEW q \in Quads, NEW l, NEW r, NEW la, NEW ra, NEW lb, NEW rb,
                       drawn = [quad |-> q, whole |-> Fill(q, l, r).pixels,
                                parts |-> <<Fill(<<q[1], q[2], q[3]>>, la, ra).pixels,
                                            Fill(<<q[1], q[3], q[4]>>, lb, rb).pixels>>]
                PROVE  /\ drawn.parts[1] \cap drawn.parts[2] = {}
                       /\ drawn.whole \subseteq drawn.parts[1] \cup drawn.parts[2]
    BY DEF QuadOK, PiecesMeet
  <2>1. q \in [1 .. 4 -> Vertices] /\ Convex(q)
    BY RasterAssumption DEF RasterAssumption
  <2>2. drawn.quad = q
    OBVIOUS
  <2>3. \A p \in Halves(q) : ReachesWindow(p)
    BY <2>2
  <2>4. /\ drawn.whole = Fill(q, l, r).pixels
        /\ drawn.parts[1] = Fill(<<q[1], q[2], q[3]>>, la, ra).pixels
        /\ drawn.parts[2] = Fill(<<q[1], q[3], q[4]>>, lb, rb).pixels
    OBVIOUS
  <2>. QED
    BY <2>1, <2>3, <2>4, HalvesMeet, SMTT(30)
<1>. QED
  BY <1>1, <1>2, <1>3, PTL DEF RasSpec

-----------------------------------------------------------------------------
(* Clipping.                                                                *)

\* Up to n, when nought is in the set and with every number the next one.
LEMMA UpTo ==
  ASSUME NEW n \in Nat, NEW S, 0 \in S,
         \A k \in 0 .. n : k < n /\ k \in S => k + 1 \in S
  PROVE  0 .. n \subseteq S
<1>. SUFFICES ASSUME NEW j \in 0 .. n, j \notin S PROVE FALSE
  OBVIOUS
<1>. DEFINE Out == {k \in 0 .. n : k \notin S}
<1>1. Out \in SUBSET Nat /\ Out # {}
  OBVIOUS
<1>2. PICK m \in Out : \A k \in Out : m <= k
  <2>. HIDE DEF Out
  <2>. QED
    BY <1>1, LeastCounterexample
<1>3. m # 0
  BY <1>2
<1>4. m - 1 \in 0 .. n /\ m - 1 < n /\ ~ (m <= m - 1) /\ (m - 1) + 1 = m
  BY <1>2, <1>3
<1>5. m - 1 \in S
  BY <1>2, <1>4
<1>. QED
  BY <1>2, <1>4, <1>5

-----------------------------------------------------------------------------
(* Sides and distances are linear in each vertex.                           *)

Coords == [Field -> Int]

\* The fields of a vertex are whole numbers.
LEMMA CoordsAre ==
  ASSUME NEW v \in Coords
  PROVE  /\ v["x"] \in Int /\ v["y"] \in Int /\ v["z"] \in Int
         /\ v["w"] \in Int /\ v["a"] \in Int /\ v["one"] \in Int
BY DEF Coords, Field

\* A vertex of a primitive has a scale.
LEMMA ClipSpaceIs ==
  ASSUME NEW v \in ClipSpace
  PROVE  v \in Coords /\ v["one"] \in Int /\ v["one"] > 0
BY DEF Coords, Field, ClipSpace

\* The side turns with the order of its three points.
LEMMA SideIs ==
  ASSUME NEW a \in Coords, NEW b \in Coords, NEW c \in Coords
  PROVE  /\ Side(a, b, c) \in Int
         /\ Side(b, c, a) = Side(a, b, c) /\ Side(c, a, b) = Side(a, b, c)
         /\ Side(b, a, c) = -Side(a, b, c) /\ Side(a, c, b) = -Side(a, b, c)
         /\ Side(c, b, a) = -Side(a, b, c)
BY CoordsAre DEF Side

\* Two points have no side.
LEMMA SideOfTwo ==
  ASSUME NEW a \in Coords, NEW b \in Coords
  PROVE  Side(a, b, a) = 0 /\ Side(a, b, b) = 0 /\ Side(a, a, b) = 0
BY CoordsAre DEF Side

\* Left, right, bottom, top, near and far.
LEMMA InsideIs ==
  ASSUME NEW v
  PROVE  /\ Inside(v, 0) = v["w"] + v["x"] /\ Inside(v, 1) = v["w"] - v["x"]
         /\ Inside(v, 2) = v["w"] + v["y"] /\ Inside(v, 3) = v["w"] - v["y"]
         /\ Inside(v, 4) = v["w"] + v["z"] /\ Inside(v, 5) = v["w"] - v["z"]
<1>1. /\ 0 \div 2 + 1 = 1 /\ 1 \div 2 + 1 = 1 /\ 2 \div 2 + 1 = 2 /\ 3 \div 2 + 1 = 2
      /\ 4 \div 2 + 1 = 3 /\ 5 \div 2 + 1 = 3
      /\ 0 % 2 = 0 /\ 1 % 2 = 1 /\ 2 % 2 = 0 /\ 3 % 2 = 1 /\ 4 % 2 = 0 /\ 5 % 2 = 1
  OBVIOUS
<1>. QED
  BY <1>1 DEF Inside

\* How far inside of a plane a vertex is, is a whole number.
LEMMA InsideInt ==
  ASSUME NEW v \in Coords, NEW p \in 0 .. 5
  PROVE  Inside(v, p) \in Int
<1>1. p \in {0, 1, 2, 3, 4, 5}
  OBVIOUS
<1>. QED
  BY <1>1, InsideIs, CoordsAre

\* The number m lies between v and w: g m = k v + l w; and so does each field of a
\* vertex on the edge from v to w.
Mixed(m, g, v, k, w, l) == g * m = k * v + l * w
Mixes(m, g, v, k, w, l) == \A f \in Field : Mixed(m[f], g, v[f], k, w[f], l)

\* The fields of a vertex on an edge, one by one.
LEMMA MixOf ==
  ASSUME NEW m, NEW g, NEW v, NEW k, NEW w, NEW l, Mixes(m, g, v, k, w, l)
  PROVE  /\ Mixed(m["x"], g, v["x"], k, w["x"], l) /\ Mixed(m["y"], g, v["y"], k, w["y"], l)
         /\ Mixed(m["z"], g, v["z"], k, w["z"], l) /\ Mixed(m["w"], g, v["w"], k, w["w"], l)
         /\ Mixed(m["a"], g, v["a"], k, w["a"], l) /\ Mixed(m["one"], g, v["one"], k, w["one"], l)
BY DEF Mixes, Field

\* A sum, a difference or a multiple of mixed numbers is mixed.
LEMMA MixSum ==
  ASSUME NEW g \in Int, NEW k \in Int, NEW l \in Int, NEW m1 \in Int, NEW m2 \in Int,
         NEW v1 \in Int, NEW v2 \in Int, NEW w1 \in Int, NEW w2 \in Int,
         Mixed(m1, g, v1, k, w1, l), Mixed(m2, g, v2, k, w2, l)
  PROVE  /\ Mixed(m1 + m2, g, v1 + v2, k, w1 + w2, l)
         /\ Mixed(m1 - m2, g, v1 - v2, k, w1 - w2, l)
BY DEF Mixed

\* So is a multiple of one.
LEMMA MixTimes ==
  ASSUME NEW g \in Int, NEW k \in Int, NEW l \in Int, NEW m \in Int, NEW v \in Int, NEW w \in Int,
         NEW c \in Int, Mixed(m, g, v, k, w, l)
  PROVE  Mixed(c * m, g, c * v, k, c * w, l)
<1>1. g * (c * m) = c * (g * m)
  OBVIOUS
<1>2. c * (g * m) = c * (k * v + l * w)
  BY DEF Mixed
<1>3. c * (k * v + l * w) = k * (c * v) + l * (c * w)
  OBVIOUS
<1>. QED
  BY <1>1, <1>2, <1>3 DEF Mixed

\* So how far inside of a plane a vertex on the edge is lies between the ends too.
LEMMA MixInside ==
  ASSUME NEW m \in Coords, NEW v \in Coords, NEW w \in Coords, NEW g \in Int, NEW k \in Int, NEW l \in Int,
         Mixes(m, g, v, k, w, l), NEW p \in 0 .. 5
  PROVE  Mixed(Inside(m, p), g, Inside(v, p), k, Inside(w, p), l)
<1>1. p \in {0, 1, 2, 3, 4, 5}
  OBVIOUS
<1>2. /\ m["x"] \in Int /\ m["y"] \in Int /\ m["z"] \in Int /\ m["w"] \in Int
      /\ v["x"] \in Int /\ v["y"] \in Int /\ v["z"] \in Int /\ v["w"] \in Int
      /\ w["x"] \in Int /\ w["y"] \in Int /\ w["z"] \in Int /\ w["w"] \in Int
  BY CoordsAre
<1>4. /\ Mixed(m["w"] + m["x"], g, v["w"] + v["x"], k, w["w"] + w["x"], l)
      /\ Mixed(m["w"] - m["x"], g, v["w"] - v["x"], k, w["w"] - w["x"], l)
  BY <1>2, MixOf, MixSum
<1>5. /\ Mixed(m["w"] + m["y"], g, v["w"] + v["y"], k, w["w"] + w["y"], l)
      /\ Mixed(m["w"] - m["y"], g, v["w"] - v["y"], k, w["w"] - w["y"], l)
  BY <1>2, MixOf, MixSum
<1>6. /\ Mixed(m["w"] + m["z"], g, v["w"] + v["z"], k, w["w"] + w["z"], l)
      /\ Mixed(m["w"] - m["z"], g, v["w"] - v["z"], k, w["w"] - w["z"], l)
  BY <1>2, MixOf, MixSum
<1>. QED
  BY <1>1, <1>4, <1>5, <1>6, InsideIs

\* A side is a sum of products with the fields of the last vertex.
SideAt(A, B, C, u) == A * u["x"] + B * u["y"] + C * u["w"]

\* The side of two points is such a sum.
LEMMA SideLinear ==
  ASSUME NEW a \in Coords, NEW b \in Coords
  PROVE  \E A, B, C \in Int : \A u \in Coords : Side(a, b, u) = SideAt(A, B, C, u)
<1>. DEFINE A == a["y"] * b["w"] - a["w"] * b["y"]
            B == a["w"] * b["x"] - a["x"] * b["w"]
            C == a["x"] * b["y"] - a["y"] * b["x"]
<1>1. \A u \in Coords : Side(a, b, u) = SideAt(A, B, C, u)
  BY CoordsAre DEF Side, SideAt
<1>2. A \in Int /\ B \in Int /\ C \in Int
  BY CoordsAre
<1>. QED
  BY <1>1, <1>2

\* And it is mixed with the vertex,
LEMMA MixSideAt ==
  ASSUME NEW m \in Coords, NEW v \in Coords, NEW w \in Coords, NEW g \in Int, NEW k \in Int, NEW l \in Int,
         Mixes(m, g, v, k, w, l), NEW A \in Int, NEW B \in Int, NEW C \in Int
  PROVE  Mixed(SideAt(A, B, C, m), g, SideAt(A, B, C, v), k, SideAt(A, B, C, w), l)
<1>1. /\ m["x"] \in Int /\ m["y"] \in Int /\ m["w"] \in Int
      /\ v["x"] \in Int /\ v["y"] \in Int /\ v["w"] \in Int
      /\ w["x"] \in Int /\ w["y"] \in Int /\ w["w"] \in Int
  BY CoordsAre
<1>2. /\ Mixed(A * m["x"], g, A * v["x"], k, A * w["x"], l)
      /\ Mixed(B * m["y"], g, B * v["y"], k, B * w["y"], l)
      /\ Mixed(C * m["w"], g, C * v["w"], k, C * w["w"], l)
  BY <1>1, MixOf, MixTimes
<1>3. /\ A * m["x"] \in Int /\ B * m["y"] \in Int /\ C * m["w"] \in Int
      /\ A * v["x"] \in Int /\ B * v["y"] \in Int /\ C * v["w"] \in Int
      /\ A * w["x"] \in Int /\ B * w["y"] \in Int /\ C * w["w"] \in Int
  BY <1>1
<1>4. Mixed(A * m["x"] + B * m["y"], g, A * v["x"] + B * v["y"], k, A * w["x"] + B * w["y"], l)
  BY <1>2, <1>3, MixSum
<1>5. /\ A * m["x"] + B * m["y"] \in Int /\ A * v["x"] + B * v["y"] \in Int
      /\ A * w["x"] + B * w["y"] \in Int
  BY <1>3
<1>. QED
  BY <1>2, <1>3, <1>4, <1>5, MixSum DEF SideAt

\* as is the side.
LEMMA MixSide ==
  ASSUME NEW m \in Coords, NEW v \in Coords, NEW w \in Coords, NEW g \in Int, NEW k \in Int, NEW l \in Int,
         Mixes(m, g, v, k, w, l), NEW a \in Coords, NEW b \in Coords
  PROVE  Mixed(Side(a, b, m), g, Side(a, b, v), k, Side(a, b, w), l)
<1>1. PICK A, B, C \in Int : \A u \in Coords : Side(a, b, u) = SideAt(A, B, C, u)
  BY SideLinear
<1>. QED
  BY <1>1, MixSideAt

-----------------------------------------------------------------------------
(* Four points that the eye sees on one plane depend on each other.         *)

\* The numbers a, b, c and d balance each other with the weights A, B, C and D.
Balanced(a, b, c, d, A, B, C, D) == a * A - b * B + c * C - d * D = 0

\* Sums and differences of balanced numbers are balanced.
LEMMA BalanceSum ==
  ASSUME NEW a \in Int, NEW b \in Int, NEW c \in Int, NEW d \in Int,
         NEW e \in Int, NEW f \in Int, NEW g \in Int, NEW h \in Int,
         NEW A \in Int, NEW B \in Int, NEW C \in Int, NEW D \in Int,
         Balanced(a, b, c, d, A, B, C, D), Balanced(e, f, g, h, A, B, C, D)
  PROVE  /\ Balanced(a + e, b + f, c + g, d + h, A, B, C, D)
         /\ Balanced(a - e, b - f, c - g, d - h, A, B, C, D)
<1>1. a * A - b * B + c * C - d * D = 0 /\ e * A - f * B + g * C - h * D = 0
  BY DEF Balanced
<1>2. (a + e) * A - (b + f) * B + (c + g) * C - (d + h) * D
        = (a * A - b * B + c * C - d * D) + (e * A - f * B + g * C - h * D)
  OBVIOUS
<1>3. (a - e) * A - (b - f) * B + (c - g) * C - (d - h) * D
        = (a * A - b * B + c * C - d * D) - (e * A - f * B + g * C - h * D)
  OBVIOUS
<1>. QED
  BY <1>1, <1>2, <1>3 DEF Balanced

\* And multiples are; and what has a balanced multiple.
LEMMA BalanceTimes ==
  ASSUME NEW a \in Int, NEW b \in Int, NEW c \in Int, NEW d \in Int, NEW k \in Int,
         NEW A \in Int, NEW B \in Int, NEW C \in Int, NEW D \in Int
  PROVE  /\ Balanced(a, b, c, d, A, B, C, D) => Balanced(k * a, k * b, k * c, k * d, A, B, C, D)
         /\ k # 0 /\ Balanced(k * a, k * b, k * c, k * d, A, B, C, D) => Balanced(a, b, c, d, A, B, C, D)
<1>1. (k * a) * A - (k * b) * B + (k * c) * C - (k * d) * D = k * (a * A - b * B + c * C - d * D)
  OBVIOUS
<1>2. DEFINE n == a * A - b * B + c * C - d * D
<1>3. n \in Int /\ (k * n = 0 <=> k = 0 \/ n = 0)
  <2>1. n \in Int
    OBVIOUS
  <2>. HIDE DEF n
  <2>. QED
    BY <2>1
<1>. QED
  BY <1>1, <1>3 DEF Balanced

\* The function h of points is balanced by the sides of any four points.
Relates(ha, hb, hc, hd, a, b, c, d) ==
  Balanced(ha, hb, hc, hd, Side(b, c, d), Side(a, c, d), Side(a, b, d), Side(a, b, c))

\* The axes of the screen are so balanced.
LEMMA FourAxes ==
  ASSUME NEW a \in Coords, NEW b \in Coords, NEW c \in Coords, NEW d \in Coords
  PROVE  /\ Relates(a["x"], b["x"], c["x"], d["x"], a, b, c, d)
         /\ Relates(a["y"], b["y"], c["y"], d["y"], a, b, c, d)
         /\ Relates(a["w"], b["w"], c["w"], d["w"], a, b, c, d)
<1>1. /\ a["x"] \in Int /\ a["y"] \in Int /\ a["w"] \in Int
      /\ b["x"] \in Int /\ b["y"] \in Int /\ b["w"] \in Int
      /\ c["x"] \in Int /\ c["y"] \in Int /\ c["w"] \in Int
      /\ d["x"] \in Int /\ d["y"] \in Int /\ d["w"] \in Int
  BY CoordsAre
<1>. QED
  BY <1>1 DEF Relates, Balanced, Side

\* And therefore every side is.
LEMMA FourSideAt ==
  ASSUME NEW a \in Coords, NEW b \in Coords, NEW c \in Coords, NEW d \in Coords,
         NEW A \in Int, NEW B \in Int, NEW C \in Int
  PROVE  Relates(SideAt(A, B, C, a), SideAt(A, B, C, b), SideAt(A, B, C, c), SideAt(A, B, C, d), a, b, c, d)
<1>. DEFINE I == Side(b, c, d)
            J == Side(a, c, d)
            K == Side(a, b, d)
            L == Side(a, b, c)
<1>1. I \in Int /\ J \in Int /\ K \in Int /\ L \in Int
  BY SideIs
<1>2. /\ a["x"] \in Int /\ a["y"] \in Int /\ a["w"] \in Int
      /\ b["x"] \in Int /\ b["y"] \in Int /\ b["w"] \in Int
      /\ c["x"] \in Int /\ c["y"] \in Int /\ c["w"] \in Int
      /\ d["x"] \in Int /\ d["y"] \in Int /\ d["w"] \in Int
  BY CoordsAre
<1>3. /\ Balanced(a["x"], b["x"], c["x"], d["x"], I, J, K, L)
      /\ Balanced(a["y"], b["y"], c["y"], d["y"], I, J, K, L)
      /\ Balanced(a["w"], b["w"], c["w"], d["w"], I, J, K, L)
  BY FourAxes DEF Relates
<1>. HIDE DEF I, J, K, L
<1>4. /\ Balanced(A * a["x"], A * b["x"], A * c["x"], A * d["x"], I, J, K, L)
      /\ Balanced(B * a["y"], B * b["y"], B * c["y"], B * d["y"], I, J, K, L)
      /\ Balanced(C * a["w"], C * b["w"], C * c["w"], C * d["w"], I, J, K, L)
  BY <1>1, <1>2, <1>3, BalanceTimes
<1>5. /\ A * a["x"] \in Int /\ A * b["x"] \in Int /\ A * c["x"] \in Int /\ A * d["x"] \in Int
      /\ B * a["y"] \in Int /\ B * b["y"] \in Int /\ B * c["y"] \in Int /\ B * d["y"] \in Int
      /\ C * a["w"] \in Int /\ C * b["w"] \in Int /\ C * c["w"] \in Int /\ C * d["w"] \in Int
  BY <1>2
<1>6. Balanced(A * a["x"] + B * a["y"], A * b["x"] + B * b["y"],
               A * c["x"] + B * c["y"], A * d["x"] + B * d["y"], I, J, K, L)
  BY <1>1, <1>4, <1>5, BalanceSum
<1>7. /\ A * a["x"] + B * a["y"] \in Int /\ A * b["x"] + B * b["y"] \in Int
      /\ A * c["x"] + B * c["y"] \in Int /\ A * d["x"] + B * d["y"] \in Int
  BY <1>5
<1>8. Balanced(A * a["x"] + B * a["y"] + C * a["w"], A * b["x"] + B * b["y"] + C * b["w"],
               A * c["x"] + B * c["y"] + C * c["w"], A * d["x"] + B * d["y"] + C * d["w"], I, J, K, L)
  BY <1>1, <1>4, <1>5, <1>6, <1>7, BalanceSum
<1>. QED
  BY <1>8 DEF Relates, SideAt, I, J, K, L

\* The points of the plane of the polygon q, with what it has there.
Base(q) ==
  /\ q[1] \in ClipSpace /\ q[2] \in ClipSpace /\ q[3] \in ClipSpace
  /\ Side(q[1], q[2], q[3]) # 0
Flat(q) == {v \in Coords : Interpolated(q, v)}

\* Interpolation, with the point always in the last place.
LEMMA InterpolatedAt ==
  ASSUME NEW q, Base(q), NEW v \in Flat(q), NEW f \in {"z", "a", "one"}
  PROVE  /\ v \in Coords
         /\ v[f] * Side(q[1], q[2], q[3])
              = q[1][f] * Side(q[2], q[3], v) + q[2][f] * Side(q[3], q[1], v) + q[3][f] * Side(q[1], q[2], v)
<1>1. v \in Coords /\ q[1] \in Coords /\ q[2] \in Coords /\ q[3] \in Coords
  BY ClipSpaceIs DEF Flat, Base
<1>2. /\ Side(v, q[2], q[3]) = Side(q[2], q[3], v)
      /\ Side(q[1], v, q[3]) = Side(q[3], q[1], v)
  BY <1>1, SideIs
<1>. QED
  BY <1>1, <1>2 DEF Flat, Interpolated

\* Every field of four points of the plane is balanced,
LEMMA FourFields ==
  ASSUME NEW q, Base(q), NEW a \in Flat(q), NEW b \in Flat(q), NEW c \in Flat(q), NEW d \in Flat(q),
         NEW f \in Field
  PROVE  Relates(a[f], b[f], c[f], d[f], a, b, c, d)
<1>1. /\ a \in Coords /\ b \in Coords /\ c \in Coords /\ d \in Coords
      /\ q[1] \in Coords /\ q[2] \in Coords /\ q[3] \in Coords
  BY ClipSpaceIs DEF Flat, Base
<1>2. CASE f \in {"x", "y", "w"}
  BY <1>1, <1>2, FourAxes
<1>3. CASE f \in {"z", "a", "one"}
  <2>. DEFINE I == Side(b, c, d)
              J == Side(a, c, d)
              K == Side(a, b, d)
              L == Side(a, b, c)
              S == Side(q[1], q[2], q[3])
              U(v) == Side(q[2], q[3], v)
              V(v) == Side(q[3], q[1], v)
              W(v) == Side(q[1], q[2], v)
              k == q[1][f]
              l == q[2][f]
              m == q[3][f]
  <2>1. I \in Int /\ J \in Int /\ K \in Int /\ L \in Int /\ S \in Int
    BY <1>1, SideIs
  <2>2. \A v \in {a, b, c, d} : U(v) \in Int /\ V(v) \in Int /\ W(v) \in Int
    BY <1>1, SideIs
  <2>3. \A v \in {a, b, c, d, q[1], q[2], q[3]} : v[f] \in Int
    BY <1>1, <1>3, CoordsAre
  <2>4. /\ Balanced(U(a), U(b), U(c), U(d), I, J, K, L)
        /\ Balanced(V(a), V(b), V(c), V(d), I, J, K, L)
        /\ Balanced(W(a), W(b), W(c), W(d), I, J, K, L)
    <3>1. \A i, j \in {q[1], q[2], q[3]} :
            Balanced(Side(i, j, a), Side(i, j, b), Side(i, j, c), Side(i, j, d), I, J, K, L)
      <4>. SUFFICES ASSUME NEW i \in {q[1], q[2], q[3]}, NEW j \in {q[1], q[2], q[3]}
                    PROVE  Balanced(Side(i, j, a), Side(i, j, b), Side(i, j, c), Side(i, j, d), I, J, K, L)
        OBVIOUS
      <4>1. i \in Coords /\ j \in Coords
        BY <1>1
      <4>2. PICK A, B, C \in Int : \A u \in Coords : Side(i, j, u) = SideAt(A, B, C, u)
        BY <4>1, SideLinear
      <4>. QED
        BY <1>1, <4>2, FourSideAt DEF Relates
    <3>. QED
      BY <3>1
  <2>5. S # 0
    BY DEF Base
  <2>6. \A v \in {a, b, c, d} : S * v[f] = k * U(v) + l * V(v) + m * W(v)
    <3>. SUFFICES ASSUME NEW v \in {a, b, c, d} PROVE S * v[f] = k * U(v) + l * V(v) + m * W(v)
      OBVIOUS
    <3>1. v[f] * S = k * U(v) + l * V(v) + m * W(v)
      BY <1>3, InterpolatedAt
    <3>2. v[f] * S = S * v[f]
      BY <2>1, <2>3
    <3>. QED
      BY <3>1, <3>2
  <2>7. k \in Int /\ l \in Int /\ m \in Int
    BY <2>3
  <2>. HIDE DEF I, J, K, L, S, U, V, W, k, l, m
  <2>8. /\ U(a) \in Int /\ U(b) \in Int /\ U(c) \in Int /\ U(d) \in Int
        /\ V(a) \in Int /\ V(b) \in Int /\ V(c) \in Int /\ V(d) \in Int
        /\ W(a) \in Int /\ W(b) \in Int /\ W(c) \in Int /\ W(d) \in Int
    BY <2>2
  <2>9. /\ Balanced(k * U(a), k * U(b), k * U(c), k * U(d), I, J, K, L)
        /\ Balanced(l * V(a), l * V(b), l * V(c), l * V(d), I, J, K, L)
        /\ Balanced(m * W(a), m * W(b), m * W(c), m * W(d), I, J, K, L)
    BY <2>1, <2>4, <2>7, <2>8, BalanceTimes
  <2>10. /\ k * U(a) \in Int /\ k * U(b) \in Int /\ k * U(c) \in Int /\ k * U(d) \in Int
         /\ l * V(a) \in Int /\ l * V(b) \in Int /\ l * V(c) \in Int /\ l * V(d) \in Int
         /\ m * W(a) \in Int /\ m * W(b) \in Int /\ m * W(c) \in Int /\ m * W(d) \in Int
    BY <2>7, <2>8
  <2>11. Balanced(k * U(a) + l * V(a), k * U(b) + l * V(b), k * U(c) + l * V(c), k * U(d) + l * V(d), I, J, K, L)
    BY <2>1, <2>9, <2>10, BalanceSum
  <2>12. /\ k * U(a) + l * V(a) \in Int /\ k * U(b) + l * V(b) \in Int
         /\ k * U(c) + l * V(c) \in Int /\ k * U(d) + l * V(d) \in Int
    BY <2>10
  <2>13. Balanced(k * U(a) + l * V(a) + m * W(a), k * U(b) + l * V(b) + m * W(b),
                  k * U(c) + l * V(c) + m * W(c), k * U(d) + l * V(d) + m * W(d), I, J, K, L)
    BY <2>1, <2>9, <2>10, <2>11, <2>12, BalanceSum
  <2>14. Balanced(S * a[f], S * b[f], S * c[f], S * d[f], I, J, K, L)
    BY <2>6, <2>13
  <2>15. Balanced(a[f], b[f], c[f], d[f], I, J, K, L)
    BY <2>1, <2>3, <2>5, <2>14, BalanceTimes
  <2>. QED
    BY <2>15 DEF Relates, I, J, K, L
<1>. QED
  BY <1>2, <1>3 DEF Field

\* and how far inside of a plane they are.
LEMMA FourInside ==
  ASSUME NEW q, Base(q), NEW a \in Flat(q), NEW b \in Flat(q), NEW c \in Flat(q), NEW d \in Flat(q),
         NEW p \in 0 .. 5
  PROVE  Relates(Inside(a, p), Inside(b, p), Inside(c, p), Inside(d, p), a, b, c, d)
<1>1. a \in Coords /\ b \in Coords /\ c \in Coords /\ d \in Coords
  BY DEF Flat
<1>. DEFINE I == Side(b, c, d)
            J == Side(a, c, d)
            K == Side(a, b, d)
            L == Side(a, b, c)
<1>2. I \in Int /\ J \in Int /\ K \in Int /\ L \in Int
  BY <1>1, SideIs
<1>3. p \in {0, 1, 2, 3, 4, 5}
  OBVIOUS
<1>4. \A f \in {"x", "y", "z", "w"} :
        /\ Balanced(a[f], b[f], c[f], d[f], I, J, K, L)
        /\ a[f] \in Int /\ b[f] \in Int /\ c[f] \in Int /\ d[f] \in Int
  BY <1>1, FourFields, CoordsAre DEF Relates, Field
<1>. HIDE DEF I, J, K, L
<1>5. \A f \in {"x", "y", "z"} :
        /\ Balanced(a["w"] + a[f], b["w"] + b[f], c["w"] + c[f], d["w"] + d[f], I, J, K, L)
        /\ Balanced(a["w"] - a[f], b["w"] - b[f], c["w"] - c[f], d["w"] - d[f], I, J, K, L)
  BY <1>2, <1>4, BalanceSum
<1>6. Balanced(Inside(a, p), Inside(b, p), Inside(c, p), Inside(d, p), I, J, K, L)
  BY <1>3, <1>5, InsideIs
<1>. QED
  BY <1>6 DEF Relates, I, J, K, L

\* What lies on an edge between two points of the plane lies on the plane.
LEMMA FlatMix ==
  ASSUME NEW q, Base(q), NEW v \in Flat(q), NEW w \in Flat(q), NEW m \in Coords,
         NEW g \in Int, NEW k \in Int, NEW l \in Int, g # 0, Mixes(m, g, v, k, w, l)
  PROVE  m \in Flat(q)
<1>1. v \in Coords /\ w \in Coords /\ q[1] \in Coords /\ q[2] \in Coords /\ q[3] \in Coords
  BY ClipSpaceIs DEF Flat, Base
<1>. SUFFICES ASSUME NEW f \in {"z", "a", "one"}
              PROVE  m[f] * Side(q[1], q[2], q[3])
                       = q[1][f] * Side(m, q[2], q[3]) + q[2][f] * Side(q[1], m, q[3])
                           + q[3][f] * Side(q[1], q[2], m)
  BY DEF Flat, Interpolated
<1>. DEFINE S == Side(q[1], q[2], q[3])
            U(u) == Side(q[2], q[3], u)
            V(u) == Side(q[3], q[1], u)
            W(u) == Side(q[1], q[2], u)
            A == q[1][f]
            B == q[2][f]
            C == q[3][f]
            R(u) == A * U(u) + B * V(u) + C * W(u)
            i == m[f]
            j == v[f]
            n == w[f]
<1>2. S \in Int /\ A \in Int /\ B \in Int /\ C \in Int /\ i \in Int /\ j \in Int /\ n \in Int
  BY <1>1, SideIs, CoordsAre
<1>3. \A u \in {m, v, w} : U(u) \in Int /\ V(u) \in Int /\ W(u) \in Int
  BY <1>1, SideIs
<1>4. /\ Mixed(U(m), g, U(v), k, U(w), l) /\ Mixed(V(m), g, V(v), k, V(w), l)
      /\ Mixed(W(m), g, W(v), k, W(w), l)
  BY <1>1, MixSide
<1>5. Mixed(i, g, j, k, n, l)
  BY DEF Mixes, Field
<1>6. j * S = R(v) /\ n * S = R(w)
  BY InterpolatedAt
<1>7. U(m) = Side(m, q[2], q[3]) /\ V(m) = Side(q[1], m, q[3])
  BY <1>1, SideIs
<1>8. S # 0
  BY DEF Base
<1>9. i * S = R(m)
  <2>. HIDE DEF S, U, V, W, A, B, C, i, j, n
  <2>1. /\ U(m) \in Int /\ V(m) \in Int /\ W(m) \in Int /\ U(v) \in Int /\ V(v) \in Int /\ W(v) \in Int
        /\ U(w) \in Int /\ V(w) \in Int /\ W(w) \in Int
    BY <1>3
  <2>2. /\ Mixed(A * U(m), g, A * U(v), k, A * U(w), l) /\ Mixed(B * V(m), g, B * V(v), k, B * V(w), l)
        /\ Mixed(C * W(m), g, C * W(v), k, C * W(w), l)
    BY <1>2, <1>4, <2>1, MixTimes
  <2>3. /\ A * U(m) \in Int /\ B * V(m) \in Int /\ C * W(m) \in Int
        /\ A * U(v) \in Int /\ B * V(v) \in Int /\ C * W(v) \in Int
        /\ A * U(w) \in Int /\ B * V(w) \in Int /\ C * W(w) \in Int
    BY <1>2, <2>1
  <2>4. Mixed(A * U(m) + B * V(m), g, A * U(v) + B * V(v), k, A * U(w) + B * V(w), l)
    BY <2>2, <2>3, MixSum
  <2>5. A * U(m) + B * V(m) \in Int /\ A * U(v) + B * V(v) \in Int /\ A * U(w) + B * V(w) \in Int
    BY <2>3
  <2>6. Mixed(R(m), g, R(v), k, R(w), l)
    BY <2>2, <2>3, <2>4, <2>5, MixSum
  <2>7. Mixed(S * i, g, S * j, k, S * n, l)
    BY <1>2, <1>5, MixTimes
  <2>8. S * j = R(v) /\ S * n = R(w) /\ S * i = i * S /\ S * i \in Int
    BY <1>2, <1>6
  <2>9. R(m) \in Int
    BY <2>3
  <2>. HIDE DEF R
  <2>10. g * R(m) = g * (S * i)
    BY <2>6, <2>7, <2>8 DEF Mixed
  <2>11. R(m) = S * i
    <3>. DEFINE x == R(m)
                y == S * i
    <3>1. x \in Int /\ y \in Int /\ g * x = g * y
      BY <2>8, <2>9, <2>10
    <3>. HIDE DEF x, y
    <3>2. x = y
      BY <3>1
    <3>. QED
      BY <3>2 DEF x, y
  <2>. QED
    BY <2>8, <2>11
<1>. QED
  BY <1>7, <1>9

\* The corners are on the plane of the polygon.
LEMMA BaseFlat ==
  ASSUME NEW q, Base(q)
  PROVE  q[1] \in Flat(q) /\ q[2] \in Flat(q) /\ q[3] \in Flat(q)
<1>1. q[1] \in Coords /\ q[2] \in Coords /\ q[3] \in Coords
  BY ClipSpaceIs DEF Base
<1>. DEFINE S == Side(q[1], q[2], q[3])
<1>2. S \in Int
  BY <1>1, SideIs
<1>3. /\ Side(q[2], q[2], q[3]) = 0 /\ Side(q[3], q[2], q[3]) = 0 /\ Side(q[1], q[1], q[3]) = 0
      /\ Side(q[1], q[3], q[3]) = 0 /\ Side(q[1], q[2], q[1]) = 0 /\ Side(q[1], q[2], q[2]) = 0
  BY <1>1, SideOfTwo
<1>4. \A f \in {"z", "a", "one"} : q[1][f] \in Int /\ q[2][f] \in Int /\ q[3][f] \in Int
  BY <1>1, CoordsAre
<1>. QED
  BY <1>1, <1>2, <1>3, <1>4 DEF Flat, Interpolated

-----------------------------------------------------------------------------
(* Where an edge meets a plane.                                             *)

\* In smaller numbers, a vertex is in the same place.
LEMMA ReducedIs ==
  ASSUME NEW v \in ClipSpace
  PROVE  /\ Reduced(v) \in ClipSpace
         /\ \E g \in Int : g > 0 /\ \A f \in Field : g * Reduced(v)[f] = v[f]
<1>. DEFINE n == v["one"]
            D == {d \in 1 .. n : \A f \in Field : v[f] % d = 0}
            g == Max(D)
<1>1. n \in Int /\ n > 0 /\ \A f \in Field : v[f] \in Int
  BY DEF ClipSpace, Field
<1>2. 1 \in D
  <2>1. \A i \in Int : i % 1 = 0
    OBVIOUS
  <2>. QED
    BY <1>1, <2>1
<1>3. D \in SUBSET Int /\ D # {} /\ \A d \in D : d <= n
  BY <1>1, <1>2
<1>4. g \in D
  <2>. HIDE DEF D
  <2>. QED
    BY <1>1, <1>3, GreatestOf
<1>5. g \in Int /\ g > 0 /\ \A f \in Field : v[f] % g = 0
  <2>. HIDE DEF g
  <2>. QED
    BY <1>1, <1>4
<1>6. Reduced(v) = [f \in Field |-> v[f] \div g]
  BY DEF Reduced
<1>. HIDE DEF g
<1>7. ASSUME NEW i \in Int, i % g = 0 PROVE i \div g \in Int /\ g * (i \div g) = i
  BY <1>5, <1>7
<1>8. \A f \in Field : Reduced(v)[f] \in Int /\ g * Reduced(v)[f] = v[f]
  BY <1>1, <1>5, <1>6, <1>7
<1>9. Reduced(v)["one"] > 0
  <2>. DEFINE r == Reduced(v)["one"]
  <2>1. r \in Int /\ g * r = n
    BY <1>8 DEF Field
  <2>. HIDE DEF r, n
  <2>2. r > 0
    BY <1>1, <1>5, <2>1
  <2>. QED
    BY <2>2 DEF r
<1>10. Reduced(v) \in ClipSpace
  BY <1>6, <1>8, <1>9 DEF ClipSpace
<1>. QED
  BY <1>5, <1>8, <1>10

\* The vertex m between v and w is on the plane p.
Crosses(m, v, w, p) ==
  /\ m \in ClipSpace /\ Inside(m, p) = 0
  /\ \E g, k, l \in Int :
       g > 0 /\ k >= 0 /\ l >= 0 /\ k + l > 0 /\ Mixes(m, g, v, k, w, l)

\* The vertex that intersect_frustum makes is on the edge and on the plane.
LEMMA MeetIs ==
  ASSUME NEW v \in ClipSpace, NEW w \in ClipSpace, NEW p \in 0 .. 5,
         (Inside(v, p) >= 0) # (Inside(w, p) >= 0)
  PROVE  Crosses(Meet(v, w, p), v, w, p)
<1>. DEFINE d == Inside(v, p)
            e == Inside(w, p)
            s == IF d >= 0 THEN 1 ELSE -1
            k == s * (0 - e)
            l == s * d
            c == [f \in Field |-> s * (w[f] * d - v[f] * e)]
            m == Reduced(c)
<1>1. v \in Coords /\ w \in Coords /\ d \in Int /\ e \in Int
  BY ClipSpaceIs, InsideInt
<1>2. /\ s \in Int /\ k \in Int /\ l \in Int /\ k >= 0 /\ l >= 0 /\ k + l > 0 /\ k * d + l * e = 0
  <2>. HIDE DEF d, e
  <2>1. CASE d >= 0 /\ e < 0
    BY <1>1, <2>1
  <2>2. CASE d < 0 /\ e >= 0
    BY <1>1, <2>2
  <2>. QED
    BY <1>1, <2>1, <2>2 DEF d, e
<1>3. \A f \in Field : c[f] \in Int /\ c[f] = k * v[f] + l * w[f]
  <2>. SUFFICES ASSUME NEW f \in Field PROVE c[f] \in Int /\ c[f] = k * v[f] + l * w[f]
    OBVIOUS
  <2>. DEFINE i == v[f]
              j == w[f]
  <2>1. i \in Int /\ j \in Int
    BY <1>1 DEF Coords
  <2>2. c[f] = s * (j * d - i * e)
    OBVIOUS
  <2>. HIDE DEF i, j, d, e, s, c
  <2>3. s * (j * d - i * e) \in Int /\ s * (j * d - i * e) = k * i + l * j
    BY <1>1, <1>2, <2>1
  <2>. QED
    BY <2>2, <2>3 DEF i, j
<1>4. c["one"] > 0
  <2>. DEFINE i == v["one"]
              j == w["one"]
  <2>1. i \in Int /\ i > 0 /\ j \in Int /\ j > 0
    BY ClipSpaceIs
  <2>. HIDE DEF k, l, i, j
  <2>2. k * i >= k /\ l * j >= l
    <3>1. ASSUME NEW x \in Int, NEW y \in Int, x >= 0, y > 0 PROVE x * y >= x
      BY <3>1
    <3>. QED
      BY <1>2, <2>1, <3>1
  <2>3. k * i + l * j > 0
    BY <1>2, <2>1, <2>2
  <2>. QED
    BY <1>3, <2>3 DEF Field, i, j
<1>5. c \in ClipSpace
  BY <1>3, <1>4 DEF ClipSpace
<1>6. m \in ClipSpace /\ Meet(v, w, p) = m
  <2>1. Meet(v, w, p) = m
    BY DEF Meet
  <2>. HIDE DEF c
  <2>. QED
    BY <1>5, <2>1, ReducedIs
<1>7. PICK g \in Int : g > 0 /\ \A f \in Field : g * m[f] = c[f]
  <2>. HIDE DEF c
  <2>. QED
    BY <1>5, ReducedIs
<1>8. Mixes(m, g, v, k, w, l)
  <2>. HIDE DEF c, k, l, m
  <2>. QED
    BY <1>3, <1>7 DEF Mixes, Mixed
<1>9. Inside(m, p) = 0
  <2>. HIDE DEF k, l, m
  <2>1. m \in Coords
    BY <1>6, ClipSpaceIs
  <2>2. Mixed(Inside(m, p), g, d, k, e, l) /\ Inside(m, p) \in Int
    BY <1>1, <1>2, <1>7, <1>8, <2>1, MixInside, InsideInt
  <2>3. g * Inside(m, p) = 0
    BY <1>2, <2>2 DEF Mixed
  <2>. QED
    BY <1>7, <2>2, <2>3
<1>. QED
  <2>. HIDE DEF k, l, m
  <2>1. Crosses(m, v, w, p)
    BY <1>2, <1>6, <1>7, <1>8, <1>9 DEF Crosses
  <2>. QED
    BY <1>6, <2>1

-----------------------------------------------------------------------------
(* Edges.                                                                   *)

\* The eye sees v and w at one place.
Same(q, v, w) == \A y \in Flat(q) : Side(v, w, y) = 0

\* The edge from v to w has the points Y at its side, and the points U off it,
\* unless it has no length.
Edge(q, t, Y, U, v, w) ==
  /\ \A y \in Y : t * Side(v, w, y) >= 0
  /\ \A u \in U : t * Side(v, w, u) > 0 \/ Same(q, v, w)

\* Each part of an edge that is cut has the sides of the edge.
LEMMA CutSides ==
  ASSUME NEW v \in Coords, NEW w \in Coords, NEW m \in Coords, NEW y \in Coords,
         NEW g \in Int, NEW k \in Int, NEW l \in Int, Mixes(m, g, v, k, w, l)
  PROVE  g * Side(v, m, y) = l * Side(v, w, y) /\ g * Side(m, w, y) = k * Side(v, w, y)
<1>1. Mixed(Side(y, v, m), g, Side(y, v, v), k, Side(y, v, w), l)
  BY MixSide
<1>2. Mixed(Side(w, y, m), g, Side(w, y, v), k, Side(w, y, w), l)
  BY MixSide
<1>3. /\ Side(y, v, m) = Side(v, m, y) /\ Side(y, v, w) = Side(v, w, y) /\ Side(y, v, v) = 0
      /\ Side(w, y, m) = Side(m, w, y) /\ Side(w, y, v) = Side(v, w, y) /\ Side(w, y, w) = 0
      /\ Side(v, m, y) \in Int /\ Side(v, w, y) \in Int /\ Side(m, w, y) \in Int
  BY SideIs, SideOfTwo
<1>4. g * Side(v, m, y) = k * 0 + l * Side(v, w, y) /\ g * Side(m, w, y) = k * Side(v, w, y) + l * 0
  BY <1>1, <1>2, <1>3 DEF Mixed
<1>. DEFINE i == Side(v, w, y)
<1>. HIDE DEF i
<1>5. k * 0 + l * i = l * i /\ k * i + l * 0 = k * i
  BY <1>3 DEF i
<1>. QED
  BY <1>4, <1>5 DEF i

\* A number has the sign of one that it is a share of.
Share(i, g, k, j) == g * i = k * j

\* Such a share has the sign of the whole, or is nought.
LEMMA Shares ==
  ASSUME NEW g \in Int, NEW k \in Int, NEW i \in Int, NEW j \in Int, NEW t \in {1, -1},
         g > 0, k >= 0, Share(i, g, k, j)
  PROVE  /\ t * j >= 0 => t * i >= 0
         /\ t * j > 0 => t * i > 0 \/ k = 0
         /\ j = 0 \/ k = 0 => i = 0
<1>1. g * i = k * j
  BY DEF Share
<1>2. CASE t = 1
  BY <1>1, <1>2
<1>3. CASE t = -1
  BY <1>1, <1>3
<1>. QED
  BY <1>2, <1>3

\* Both parts of an edge are edges.
LEMMA CutEdge ==
  ASSUME NEW q, NEW t \in {1, -1}, NEW Y, NEW U, Y \subseteq Flat(q), U \subseteq Flat(q), NEW p,
         NEW v \in ClipSpace, NEW w \in ClipSpace, NEW m, Crosses(m, v, w, p), Edge(q, t, Y, U, v, w)
  PROVE  Edge(q, t, Y, U, v, m) /\ Edge(q, t, Y, U, m, w)
<1>1. v \in Coords /\ w \in Coords /\ m \in Coords /\ \A y \in Flat(q) : y \in Coords
  BY ClipSpaceIs DEF Crosses, Flat
<1>2. PICK g \in Int, k \in Int, l \in Int : g > 0 /\ k >= 0 /\ l >= 0 /\ Mixes(m, g, v, k, w, l)
  BY DEF Crosses
<1>3. \A y \in Flat(q) : /\ Side(v, m, y) \in Int /\ Side(v, w, y) \in Int /\ Side(m, w, y) \in Int
                         /\ Share(Side(v, m, y), g, l, Side(v, w, y))
                         /\ Share(Side(m, w, y), g, k, Side(v, w, y))
  BY <1>1, <1>2, CutSides, SideIs DEF Share
<1>4. \A y \in Flat(q) : /\ t * Side(v, w, y) >= 0 => t * Side(v, m, y) >= 0 /\ t * Side(m, w, y) >= 0
                         /\ t * Side(v, w, y) > 0 => /\ t * Side(v, m, y) > 0 \/ l = 0
                                                     /\ t * Side(m, w, y) > 0 \/ k = 0
                         /\ Side(v, w, y) = 0 \/ l = 0 => Side(v, m, y) = 0
                         /\ Side(v, w, y) = 0 \/ k = 0 => Side(m, w, y) = 0
  BY <1>2, <1>3, Shares
<1>5. Same(q, v, w) => Same(q, v, m) /\ Same(q, m, w)
  BY <1>4 DEF Same
<1>6. (l = 0 => Same(q, v, m)) /\ (k = 0 => Same(q, m, w))
  BY <1>4 DEF Same
<1>. QED
  BY <1>4, <1>5, <1>6 DEF Edge

\* Two points on a plane, and a third one outside of it: what is inside is at the
\* other side of them.
LEMMA PlaneEdge ==
  ASSUME NEW q, Base(q), NEW t \in {1, -1}, NEW p \in 0 .. 5,
         NEW x \in Flat(q), NEW m \in Flat(q), NEW n \in Flat(q),
         Inside(x, p) < 0, Inside(m, p) = 0, Inside(n, p) = 0, t * Side(x, m, n) <= 0,
         NEW Y, NEW U, Y \subseteq Flat(q), U \subseteq Flat(q),
         \A y \in Y : Inside(y, p) >= 0, \A u \in U : Inside(u, p) > 0
  PROVE  Edge(q, t, Y, U, m, n)
<1>. DEFINE A == Side(x, m, n)
            G == Inside(x, p)
<1>1. x \in Coords /\ m \in Coords /\ n \in Coords /\ \A y \in Flat(q) : y \in Coords
  BY DEF Flat
<1>2. A \in Int /\ G \in Int /\ \A y \in Flat(q) : Inside(y, p) \in Int /\ Side(m, n, y) \in Int
  BY <1>1, SideIs, InsideInt
<1>3. \A y \in Flat(q) : G * Side(m, n, y) = Inside(y, p) * A
  <2>. SUFFICES ASSUME NEW y \in Flat(q) PROVE G * Side(m, n, y) = Inside(y, p) * A
    OBVIOUS
  <2>. DEFINE i == Side(m, n, y)
              j == Side(x, n, y)
              k == Side(x, m, y)
              h == Inside(y, p)
  <2>1. Balanced(G, 0, 0, h, i, j, k, A)
    BY FourInside DEF Relates
  <2>2. i \in Int /\ j \in Int /\ k \in Int /\ h \in Int
    BY <1>1, <1>2, SideIs
  <2>3. G * i = h * A
    <3>. HIDE DEF G, A, h, i, j, k
    <3>. QED
      BY <1>2, <2>1, <2>2 DEF Balanced
  <2>. QED
    BY <2>3
<1>4. ASSUME NEW h \in Int, NEW i \in Int, G * i = h * A
      PROVE  /\ h >= 0 => t * i >= 0
             /\ h > 0 => t * i > 0 \/ A = 0
             /\ A = 0 => i = 0
  <2>. HIDE DEF A, G
  <2>1. G < 0 /\ t * A <= 0
    BY DEF G, A
  <2>2. CASE t = 1
    <3>1. A <= 0
      BY <1>2, <2>1, <2>2
    <3>. QED
      BY <1>2, <1>4, <2>1, <2>2, <3>1
  <2>3. CASE t = -1
    <3>1. A >= 0
      BY <1>2, <2>1, <2>3
    <3>. QED
      BY <1>2, <1>4, <2>1, <2>3, <3>1
  <2>. QED
    BY <2>2, <2>3
<1>5. \A y \in Flat(q) : /\ Inside(y, p) >= 0 => t * Side(m, n, y) >= 0
                         /\ Inside(y, p) > 0 => t * Side(m, n, y) > 0 \/ A = 0
                         /\ A = 0 => Side(m, n, y) = 0
  BY <1>2, <1>3, <1>4
<1>. QED
  BY <1>5 DEF Edge, Same

\* What lies between two numbers has a sign of theirs.
LEMMA MixSigns ==
  ASSUME NEW m \in Int, NEW v \in Int, NEW w \in Int, NEW g \in Int, NEW k \in Int, NEW l \in Int,
         g > 0, k >= 0, l >= 0, k + l > 0, Mixed(m, g, v, k, w, l)
  PROVE  /\ v >= 0 /\ w >= 0 => m >= 0
         /\ v <= 0 /\ w <= 0 => m <= 0
         /\ v < 0 /\ w < 0 => m < 0
<1>1. g * m = k * v + l * w
  BY DEF Mixed
<1>2. ASSUME v >= 0, w >= 0 PROVE m >= 0
  <2>1. k * v >= 0 /\ l * w >= 0
    BY <1>2
  <2>2. g * m >= 0
    BY <1>1, <2>1
  <2>. QED
    BY <2>2
<1>3. ASSUME v <= 0, w <= 0 PROVE m <= 0
  <2>1. k * v <= 0 /\ l * w <= 0
    BY <1>3
  <2>2. g * m <= 0
    BY <1>1, <2>1
  <2>. QED
    BY <2>2
<1>4. ASSUME v < 0, w < 0 PROVE m < 0
  <2>1. k * v <= 0 /\ l * w <= 0 /\ (k > 0 => k * v < 0) /\ (l > 0 => l * w < 0)
    BY <1>4
  <2>2. g * m < 0
    BY <1>1, <2>1
  <2>. QED
    BY <2>2
<1>. QED
  BY <1>2, <1>3, <1>4

\* A meeting point has its edge's ends on one side of it, if they are on one side of anything.
LEMMA MeetSide ==
  ASSUME NEW v \in ClipSpace, NEW w \in ClipSpace, NEW p, NEW m, Crosses(m, v, w, p),
         NEW a \in Coords, NEW b \in Coords, NEW t \in {1, -1},
         t * Side(a, b, v) >= 0, t * Side(a, b, w) >= 0
  PROVE  t * Side(a, b, m) >= 0
<1>1. v \in Coords /\ w \in Coords /\ m \in Coords
  BY ClipSpaceIs DEF Crosses
<1>2. PICK g \in Int, k \in Int, l \in Int : g > 0 /\ k >= 0 /\ l >= 0 /\ k + l > 0 /\ Mixes(m, g, v, k, w, l)
  BY DEF Crosses
<1>3. /\ Side(a, b, m) \in Int /\ Side(a, b, v) \in Int /\ Side(a, b, w) \in Int
      /\ Mixed(Side(a, b, m), g, Side(a, b, v), k, Side(a, b, w), l)
  BY <1>1, <1>2, MixSide, SideIs
<1>4. /\ Side(a, b, v) >= 0 /\ Side(a, b, w) >= 0 => Side(a, b, m) >= 0
      /\ Side(a, b, v) <= 0 /\ Side(a, b, w) <= 0 => Side(a, b, m) <= 0
  BY <1>2, <1>3, MixSigns
<1>5. CASE t = 1
  BY <1>3, <1>4, <1>5
<1>6. CASE t = -1
  BY <1>3, <1>4, <1>6
<1>. QED
  BY <1>5, <1>6

\* A vertex on an edge is inside where both ends are, and outside where both ends are.
LEMMA MeetInside ==
  ASSUME NEW v \in ClipSpace, NEW w \in ClipSpace, NEW p, NEW m, Crosses(m, v, w, p), NEW r \in 0 .. 5
  PROVE  /\ Inside(m, r) \in Int
         /\ Inside(v, r) >= 0 /\ Inside(w, r) >= 0 => Inside(m, r) >= 0
         /\ Inside(v, r) < 0 /\ Inside(w, r) < 0 => Inside(m, r) < 0
<1>1. v \in Coords /\ w \in Coords /\ m \in Coords
  BY ClipSpaceIs DEF Crosses
<1>2. PICK g \in Int, k \in Int, l \in Int : g > 0 /\ k >= 0 /\ l >= 0 /\ k + l > 0 /\ Mixes(m, g, v, k, w, l)
  BY DEF Crosses
<1>3. /\ Inside(m, r) \in Int /\ Inside(v, r) \in Int /\ Inside(w, r) \in Int
      /\ Mixed(Inside(m, r), g, Inside(v, r), k, Inside(w, r), l)
  BY <1>1, <1>2, MixInside, InsideInt
<1>. QED
  BY <1>2, <1>3, MixSigns

\* It is on the plane of the polygon.
LEMMA MeetFlat ==
  ASSUME NEW q, Base(q), NEW v \in ClipSpace, NEW w \in ClipSpace, v \in Flat(q), w \in Flat(q),
         NEW p, NEW m, Crosses(m, v, w, p)
  PROVE  m \in Flat(q)
<1>1. m \in Coords
  BY ClipSpaceIs DEF Crosses
<1>2. PICK g \in Int, k \in Int, l \in Int : g > 0 /\ Mixes(m, g, v, k, w, l)
  BY DEF Crosses
<1>. QED
  BY <1>1, <1>2, FlatMix

\* The edge from where a convex polygon goes out to where it comes in again.
LEMMA NewEdge ==
  ASSUME NEW q, Base(q), NEW t \in {1, -1}, NEW p \in 0 .. 5,
         NEW v \in ClipSpace, NEW w \in ClipSpace, NEW a \in ClipSpace, NEW b \in ClipSpace,
         v \in Flat(q), w \in Flat(q), a \in Flat(q), b \in Flat(q),
         NEW m, Crosses(m, v, w, p), NEW n, Crosses(n, a, b, p), Inside(w, p) < 0,
         t * Side(v, w, a) >= 0, t * Side(v, w, b) >= 0,
         NEW Y, NEW U, Y \subseteq Flat(q), U \subseteq Flat(q),
         \A y \in Y : Inside(y, p) >= 0, \A u \in U : Inside(u, p) > 0
  PROVE  Edge(q, t, Y, U, m, n)
<1>1. v \in Coords /\ w \in Coords /\ m \in Coords /\ n \in Coords
  BY ClipSpaceIs DEF Crosses
<1>2. m \in Flat(q) /\ n \in Flat(q) /\ Inside(m, p) = 0 /\ Inside(n, p) = 0
  BY MeetFlat DEF Crosses
<1>3. t * Side(v, w, n) >= 0
  BY <1>1, MeetSide
<1>4. PICK g \in Int, k \in Int, l \in Int : g > 0 /\ k >= 0 /\ Mixes(m, g, v, k, w, l)
  BY DEF Crosses
<1>5. /\ Side(v, w, n) \in Int /\ Side(m, w, n) \in Int /\ Side(w, m, n) = -Side(m, w, n)
      /\ Share(Side(m, w, n), g, k, Side(v, w, n))
  BY <1>1, <1>4, CutSides, SideIs DEF Share
<1>6. t * Side(m, w, n) >= 0
  BY <1>3, <1>4, <1>5, Shares
<1>7. t * Side(w, m, n) <= 0
  <2>. DEFINE i == Side(m, w, n)
  <2>. HIDE DEF i
  <2>1. t * (-i) <= 0
    BY <1>5, <1>6 DEF i
  <2>. QED
    BY <1>5, <2>1 DEF i
<1>. QED
  BY <1>2, <1>7, PlaneEdge

-----------------------------------------------------------------------------
(* A polygon that has a point at the sides of all of its edges, one of them *)
(* off the point, reaches wherever the point is.                            *)

\* Negative where v is outside of the plane and u is inside.
Behind(v, u, p) == u["one"] * Inside(v, p) - Inside(u, p) * v["one"]

\* To be behind is balanced like its parts.
LEMMA FourBehind ==
  ASSUME NEW q, Base(q), NEW a \in Flat(q), NEW b \in Flat(q), NEW c \in Flat(q), NEW u \in Flat(q),
         NEW p \in 0 .. 5
  PROVE  Relates(Behind(a, u, p), Behind(b, u, p), Behind(c, u, p), Behind(u, u, p), a, b, c, u)
<1>1. a \in Coords /\ b \in Coords /\ c \in Coords /\ u \in Coords
  BY DEF Flat
<1>. DEFINE I == Side(b, c, u)
            J == Side(a, c, u)
            K == Side(a, b, u)
            L == Side(a, b, c)
            o == u["one"]
            h == Inside(u, p)
            G(v) == Inside(v, p)
            H(v) == v["one"]
<1>2. I \in Int /\ J \in Int /\ K \in Int /\ L \in Int /\ o \in Int /\ h \in Int
  BY <1>1, SideIs, CoordsAre, InsideInt
<1>3. /\ Balanced(G(a), G(b), G(c), G(u), I, J, K, L)
      /\ Balanced(H(a), H(b), H(c), H(u), I, J, K, L)
  BY FourInside, FourFields DEF Relates, Field
<1>4. /\ G(a) \in Int /\ G(b) \in Int /\ G(c) \in Int /\ G(u) \in Int
      /\ H(a) \in Int /\ H(b) \in Int /\ H(c) \in Int /\ H(u) \in Int
  BY <1>1, InsideInt, CoordsAre
<1>5. \A v : Behind(v, u, p) = o * G(v) - h * H(v)
  BY DEF Behind
<1>. HIDE DEF I, J, K, L, o, h, G, H
<1>6. /\ Balanced(o * G(a), o * G(b), o * G(c), o * G(u), I, J, K, L)
      /\ Balanced(h * H(a), h * H(b), h * H(c), h * H(u), I, J, K, L)
  BY <1>2, <1>3, <1>4, BalanceTimes
<1>7. /\ o * G(a) \in Int /\ o * G(b) \in Int /\ o * G(c) \in Int /\ o * G(u) \in Int
      /\ h * H(a) \in Int /\ h * H(b) \in Int /\ h * H(c) \in Int /\ h * H(u) \in Int
  BY <1>2, <1>4
<1>8. Balanced(o * G(a) - h * H(a), o * G(b) - h * H(b), o * G(c) - h * H(c), o * G(u) - h * H(u), I, J, K, L)
  BY <1>2, <1>6, <1>7, BalanceSum
<1>. QED
  BY <1>5, <1>8 DEF Relates, I, J, K, L

\* Behind the point, to be further around it carries over.
LEMMA Transit ==
  ASSUME NEW q, Base(q), NEW t \in {1, -1}, NEW p \in 0 .. 5,
         NEW a \in Flat(q), NEW b \in Flat(q), NEW c \in Flat(q), NEW u \in Flat(q),
         Behind(a, u, p) < 0, Behind(b, u, p) < 0, Behind(c, u, p) < 0,
         t * Side(a, b, u) >= 0, t * Side(b, c, u) >= 0
  PROVE  /\ t * Side(a, c, u) >= 0
         /\ t * Side(a, b, u) > 0 \/ t * Side(b, c, u) > 0 => t * Side(a, c, u) > 0
<1>1. a \in Coords /\ b \in Coords /\ c \in Coords /\ u \in Coords
  BY DEF Flat
<1>. DEFINE I == Side(b, c, u)
            J == Side(a, c, u)
            K == Side(a, b, u)
            L == Side(a, b, c)
            x == Behind(a, u, p)
            y == Behind(b, u, p)
            z == Behind(c, u, p)
            e == Behind(u, u, p)
<1>2. I \in Int /\ J \in Int /\ K \in Int /\ L \in Int
  BY <1>1, SideIs
<1>3. x \in Int /\ y \in Int /\ z \in Int /\ e = 0
  <2>1. /\ Inside(a, p) \in Int /\ Inside(b, p) \in Int /\ Inside(c, p) \in Int /\ Inside(u, p) \in Int
        /\ a["one"] \in Int /\ b["one"] \in Int /\ c["one"] \in Int /\ u["one"] \in Int
    BY <1>1, InsideInt, CoordsAre
  <2>. QED
    BY <2>1 DEF Behind
<1>4. Balanced(x, y, z, e, I, J, K, L)
  BY FourBehind DEF Relates
<1>5. x < 0 /\ y < 0 /\ z < 0 /\ t * I >= 0 /\ t * K >= 0
  OBVIOUS
<1>6. /\ t * J >= 0
      /\ t * K > 0 \/ t * I > 0 => t * J > 0
  <2>. HIDE DEF I, J, K, L, x, y, z, e
  <2>1. x * I + z * K = y * J
    BY <1>2, <1>3, <1>4 DEF Balanced
  <2>2. CASE t = 1
    <3>1. I >= 0 /\ K >= 0 /\ x * I <= 0 /\ z * K <= 0 /\ (I > 0 => x * I < 0) /\ (K > 0 => z * K < 0)
      BY <1>2, <1>3, <1>5, <2>2
    <3>2. y * J <= 0 /\ (I > 0 \/ K > 0 => y * J < 0)
      BY <1>2, <1>3, <2>1, <3>1
    <3>3. J >= 0 /\ (I > 0 \/ K > 0 => J > 0)
      BY <1>2, <1>3, <1>5, <3>2
    <3>. QED
      BY <1>2, <2>2, <3>3
  <2>3. CASE t = -1
    <3>1. I <= 0 /\ K <= 0 /\ x * I >= 0 /\ z * K >= 0 /\ (I < 0 => x * I > 0) /\ (K < 0 => z * K > 0)
      BY <1>2, <1>3, <1>5, <2>3
    <3>2. y * J >= 0 /\ (I < 0 \/ K < 0 => y * J > 0)
      BY <1>2, <1>3, <2>1, <3>1
    <3>3. J <= 0 /\ (I < 0 \/ K < 0 => J < 0)
      BY <1>2, <1>3, <1>5, <3>2
    <3>. QED
      BY <1>2, <2>3, <3>3
  <2>. QED
    BY <2>2, <2>3
<1>. QED
  BY <1>6

\* What is outside is behind what is inside.
LEMMA BehindWhenOutside ==
  ASSUME NEW v \in ClipSpace, NEW u \in ClipSpace, NEW p \in 0 .. 5, Inside(v, p) <= 0, Inside(u, p) > 0
  PROVE  Behind(v, u, p) < 0
<1>. DEFINE x == Inside(v, p)
            y == Inside(u, p)
            h == v["one"]
            k == u["one"]
<1>1. x \in Int /\ y \in Int /\ h \in Int /\ k \in Int /\ h > 0 /\ k > 0 /\ x <= 0 /\ y > 0
  BY ClipSpaceIs, InsideInt
<1>2. Behind(v, u, p) = k * x - y * h
  BY DEF Behind
<1>. HIDE DEF x, y, h, k
<1>3. k * x <= 0 /\ y * h > 0 /\ k * x \in Int /\ y * h \in Int
  BY <1>1
<1>4. k * x - y * h < 0
  BY <1>3
<1>. QED
  BY <1>2, <1>4

\* What follows a vertex.
LEMMA SuccessorIs ==
  ASSUME NEW V, NEW P \in Seq(V), NEW i \in 1 .. Len(P)
  PROVE  /\ i < Len(P) => Successor(P, i) = P[i + 1]
         /\ i = Len(P) => Successor(P, i) = P[1]
         /\ P[i] \in V /\ Successor(P, i) \in V
<1>1. Len(P) \in Nat /\ \A j \in 1 .. Len(P) : P[j] \in V
  OBVIOUS
<1>. DEFINE n == Len(P)
<1>. HIDE DEF n
<1>2. n \in Nat /\ i \in 1 .. n /\ 1 \in 1 .. n /\ (i < n => i + 1 \in 1 .. n) /\ (i < n \/ i = n) /\ ~ (i < n /\ i = n)
  BY <1>1 DEF n
<1>3. Successor(P, i) = IF i = n THEN P[1] ELSE P[i + 1]
  BY DEF Successor, n
<1>4. P[i] \in V /\ P[1] \in V /\ (i < n => P[i + 1] \in V)
  BY <1>1, <1>2 DEF n
<1>. QED
  BY <1>2, <1>3, <1>4 DEF n

\* Were all of it behind the point, each corner would be further around than the one
\* before, and the first further than itself.
LEMMA ReachesInside ==
  ASSUME NEW q, Base(q), NEW t \in {1, -1}, NEW p \in 0 .. 5,
         NEW P \in Seq(ClipSpace), \A i \in 1 .. Len(P) : P[i] \in Flat(q),
         NEW u \in ClipSpace, u \in Flat(q), Inside(u, p) > 0,
         \A i \in 1 .. Len(P) : t * Side(P[i], Successor(P, i), u) >= 0,
         NEW e \in 1 .. Len(P), t * Side(P[e], Successor(P, e), u) > 0
  PROVE  \E i \in 1 .. Len(P) : Inside(P[i], p) > 0
<1>. DEFINE n == Len(P)
            f(i) == t * Side(P[1], P[i + 1], u)
<1>1. n \in Nat /\ n >= 1 /\ \A i \in 1 .. n : P[i] \in ClipSpace
  OBVIOUS
<1>2. \A i \in 1 .. n : P[i] \in Coords /\ Inside(P[i], p) \in Int
  BY <1>1, ClipSpaceIs, InsideInt
<1>. SUFFICES ASSUME \A i \in 1 .. n : Inside(P[i], p) <= 0 PROVE FALSE
  BY <1>2
<1>3. \A i \in 1 .. n : Behind(P[i], u, p) < 0
  BY <1>1, BehindWhenOutside
<1>4. u \in Coords
  BY DEF Flat
<1>5. ASSUME NEW i \in 0 .. n - 1, i < n - 1, f(i) >= 0
      PROVE  /\ f(i + 1) >= 0
             /\ f(i) > 0 \/ t * Side(P[i + 1], P[i + 2], u) > 0 => f(i + 1) > 0
  <2>1. 1 \in 1 .. n /\ i + 1 \in 1 .. n /\ i + 2 \in 1 .. n /\ i + 1 < n /\ (i + 1) + 1 = i + 2
    BY <1>1, <1>5
  <2>2. Successor(P, i + 1) = P[i + 2]
    BY <2>1, SuccessorIs
  <2>3. t * Side(P[i + 1], P[i + 2], u) >= 0
    BY <2>1, <2>2
  <2>. HIDE DEF n
  <2>. QED
    BY <1>3, <1>5, <2>1, <2>3, Transit DEF n
<1>6. 0 .. n - 1 \subseteq {i \in 0 .. n - 1 : f(i) >= 0}
  <2>. DEFINE S == {i \in 0 .. n - 1 : f(i) >= 0}
  <2>1. 0 \in S
    <3>1. Side(P[1], P[0 + 1], u) = 0
      BY <1>1, <1>2, <1>4, SideOfTwo
    <3>. QED
      BY <1>1, <3>1
  <2>2. \A i \in 0 .. n - 1 : i < n - 1 /\ i \in S => i + 1 \in S
    <3>. SUFFICES ASSUME NEW i \in 0 .. n - 1, i < n - 1, f(i) >= 0 PROVE i + 1 \in 0 .. n - 1 /\ f(i + 1) >= 0
      OBVIOUS
    <3>1. i + 1 \in 0 .. n - 1
      BY <1>1
    <3>. HIDE DEF f, n
    <3>. QED
      BY <1>5, <3>1
  <2>3. n - 1 \in Nat
    BY <1>1
  <2>. HIDE DEF S, n
  <2>4. 0 .. n - 1 \subseteq S
    BY <2>1, <2>2, <2>3, UpTo
  <2>. QED
    BY <2>4 DEF S, n
<1>7. \A i \in 0 .. n - 1 : f(i) >= 0
  <2>. HIDE DEF f, n
  <2>. QED
    BY <1>6
<1>8. t * Side(P[1], P[n], u) >= 0 /\ t * Side(P[n], P[1], u) >= 0
  <2>1. n - 1 \in 0 .. n - 1 /\ (n - 1) + 1 = n /\ n \in 1 .. n
    BY <1>1
  <2>2. f(n - 1) >= 0
    BY <1>7, <2>1
  <2>3. Successor(P, n) = P[1]
    BY <2>1, SuccessorIs
  <2>. QED
    BY <2>1, <2>2, <2>3
<1>9. Side(P[n], P[1], u) = -Side(P[1], P[n], u) /\ Side(P[1], P[n], u) \in Int
  <2>1. P[1] \in Coords /\ P[n] \in Coords
    BY <1>1, <1>2
  <2>. QED
    BY <1>4, <2>1, SideIs
<1>10. Side(P[1], P[n], u) = 0 /\ Side(P[n], P[1], u) = 0
  BY <1>8, <1>9
<1>11. e # n
  <2>1. e = n => Successor(P, e) = P[1]
    BY SuccessorIs
  <2>. QED
    BY <1>10, <2>1
<1>12. e < n /\ Successor(P, e) = P[e + 1] /\ e \in 0 .. n - 1 /\ e - 1 \in 0 .. n - 1
  BY <1>1, <1>11, SuccessorIs
<1>13. f(e) > 0
  <2>1. (e - 1) + 1 = e /\ (e - 1) + 2 = e + 1 /\ e - 1 < n - 1
    BY <1>1, <1>12
  <2>2. f(e - 1) >= 0
    BY <1>7, <1>12
  <2>. HIDE DEF n
  <2>3. f((e - 1) + 1) > 0
    <3>1. t * Side(P[(e - 1) + 1], P[(e - 1) + 2], u) > 0
      BY <1>12, <2>1
    <3>. HIDE DEF f
    <3>. QED
      BY <1>5, <1>12, <2>1, <2>2, <3>1
  <2>. QED
    BY <2>1, <2>3
<1>14. f(n - 1) > 0
  <2>. DEFINE S == {i \in 0 .. n - 1 : i >= e => f(i) > 0}
  <2>1. 0 \in S
    BY <1>1
  <2>2. \A i \in 0 .. n - 1 : i < n - 1 /\ i \in S => i + 1 \in S
    <3>. SUFFICES ASSUME NEW i \in 0 .. n - 1, i < n - 1, i >= e => f(i) > 0, i + 1 >= e
                  PROVE  i + 1 \in 0 .. n - 1 /\ f(i + 1) > 0
      BY <1>1
    <3>1. i + 1 \in 0 .. n - 1
      BY <1>1
    <3>2. CASE i + 1 = e
      BY <1>13, <3>1, <3>2
    <3>3. CASE i >= e
      <4>. HIDE DEF f, n
      <4>. QED
        BY <1>5, <1>7, <3>1, <3>3
    <3>. QED
      BY <1>1, <3>2, <3>3
  <2>3. n - 1 \in Nat
    BY <1>1
  <2>. HIDE DEF S, n
  <2>4. 0 .. n - 1 \subseteq S
    BY <2>1, <2>2, <2>3, UpTo
  <2>5. n - 1 \in 0 .. n - 1 /\ n - 1 >= e
    BY <1>1, <1>12
  <2>6. n - 1 \in S
    BY <2>4, <2>5
  <2>. QED
    BY <2>5, <2>6 DEF S
<1>. QED
  <2>1. (n - 1) + 1 = n
    BY <1>1
  <2>2. t * Side(P[1], P[n], u) > 0
    BY <1>14, <2>1
  <2>. QED
    BY <1>10, <2>2

\* What is seen at one place is on one side of a plane.
LEMMA SameSign ==
  ASSUME NEW q, Base(q), NEW v \in ClipSpace, NEW w \in ClipSpace, v \in Flat(q), w \in Flat(q),
         Same(q, v, w), NEW p \in 0 .. 5
  PROVE  Inside(v, p) > 0 <=> Inside(w, p) > 0
<1>1. v \in Coords /\ w \in Coords /\ q[1] \in Coords /\ q[2] \in Coords /\ q[3] \in Coords
  BY ClipSpaceIs DEF Base
<1>2. \E y, z \in Flat(q) : Side(y, z, w) # 0
  <2>. SUFFICES ASSUME \A y, z \in Flat(q) : Side(y, z, w) = 0 PROVE FALSE
    OBVIOUS
  <2>1. Side(q[2], q[3], w) = 0 /\ Side(q[3], q[1], w) = 0 /\ Side(q[1], q[2], w) = 0
    BY BaseFlat
  <2>2. w["one"] * Side(q[1], q[2], q[3]) = q[1]["one"] * 0 + q[2]["one"] * 0 + q[3]["one"] * 0
    BY <2>1, InterpolatedAt
  <2>3. /\ q[1]["one"] \in Int /\ q[2]["one"] \in Int /\ q[3]["one"] \in Int /\ w["one"] \in Int
        /\ Side(q[1], q[2], q[3]) \in Int
    BY <1>1, CoordsAre, SideIs
  <2>. DEFINE S == Side(q[1], q[2], q[3])
  <2>4. S # 0 /\ w["one"] > 0
    BY ClipSpaceIs DEF Base
  <2>5. w["one"] * S = 0
    BY <2>2, <2>3
  <2>. HIDE DEF S
  <2>. QED
    BY <2>3, <2>4, <2>5 DEF S
<1>3. PICK y \in Flat(q), z \in Flat(q) : Side(y, z, w) # 0
  BY <1>2
<1>. DEFINE A == Side(w, y, z)
            B == Side(v, y, z)
            G == Inside(v, p)
            H == Inside(w, p)
            i == v["one"]
            j == w["one"]
<1>4. y \in Coords /\ z \in Coords
  BY DEF Flat
<1>5. Side(v, w, y) = 0 /\ Side(v, w, z) = 0
  BY DEF Same
<1>6. /\ Relates(G, H, Inside(y, p), Inside(z, p), v, w, y, z)
      /\ Relates(i, j, y["one"], z["one"], v, w, y, z)
  BY FourInside, FourFields DEF Field
<1>7. /\ A \in Int /\ B \in Int /\ G \in Int /\ H \in Int /\ i \in Int /\ j \in Int /\ i > 0 /\ j > 0
      /\ Inside(y, p) \in Int /\ Inside(z, p) \in Int /\ y["one"] \in Int /\ z["one"] \in Int
      /\ A # 0
  <2>1. Side(w, y, z) = Side(y, z, w)
    BY <1>1, <1>4, SideIs
  <2>. QED
    BY <1>1, <1>3, <1>4, <2>1, SideIs, InsideInt, CoordsAre, ClipSpaceIs
<1>8. /\ Balanced(G, H, Inside(y, p), Inside(z, p), A, B, 0, 0)
      /\ Balanced(i, j, y["one"], z["one"], A, B, 0, 0)
  BY <1>5, <1>6 DEF Relates
<1>9. ASSUME NEW a \in Int, NEW b \in Int, NEW c \in Int, NEW d \in Int, Balanced(a, b, c, d, A, B, 0, 0)
      PROVE  a * A = b * B
  <2>. HIDE DEF A, B
  <2>. QED
    BY <1>7, <1>9 DEF Balanced
<1>. HIDE DEF A, B, G, H, i, j
<1>10. G * A = H * B /\ i * A = j * B
  BY <1>7, <1>8, <1>9
<1>11. (A > 0 /\ B > 0) \/ (A < 0 /\ B < 0)
  BY <1>7, <1>10
<1>12. G > 0 <=> H > 0
  <2>1. CASE A > 0 /\ B > 0
    <3>1. (G > 0 <=> G * A > 0) /\ (H > 0 <=> H * B > 0)
      BY <1>7, <2>1
    <3>. QED
      BY <1>10, <3>1
  <2>2. CASE A < 0 /\ B < 0
    <3>1. (G > 0 <=> G * A < 0) /\ (H > 0 <=> H * B < 0)
      BY <1>7, <2>2
    <3>. QED
      BY <1>10, <3>1
  <2>. QED
    BY <1>11, <2>1, <2>2
<1>. QED
  BY <1>12 DEF G, H

-----------------------------------------------------------------------------
(* One pass around a polygon.                                               *)

\* f solves the equation of FlattenSeq up to the place n.
IsFlattened(f, n, es) ==
  f = [i \in 1 .. n |-> IF i = 1 THEN es[i] ELSE f[i - 1] \o es[i]]

\* The pieces es are put together from left to right.
Joins(g, n, es) == g[0] = <<>> /\ \A i \in 1 .. n : g[i] = g[i - 1] \o es[i]

\* Pieces are joined by adding one at a time.
LEMMA FlattenIs ==
  ASSUME NEW V, NEW es, NEW n \in Nat, n >= 1, Len(es) = n, \A i \in 1 .. n : es[i] \in Seq(V)
  PROVE  \E g : /\ Joins(g, n, es) /\ FlattenSeq(es) = g[n]
                /\ \A i \in 0 .. n : g[i] \in Seq(V)
<1>. DEFINE S == {k \in Nat : \E f : IsFlattened(f, k, es)}
<1>1. 0 \in S
  <2>1. IsFlattened([i \in 1 .. 0 |-> <<>>], 0, es)
    BY DEF IsFlattened
  <2>. QED
    BY <2>1
<1>2. ASSUME NEW k \in Nat, k \in S PROVE k + 1 \in S
  <2>1. PICK f : IsFlattened(f, k, es)
    BY <1>2
  <2>. DEFINE h == [i \in 1 .. k + 1 |->
                      IF i <= k THEN f[i] ELSE IF i = 1 THEN es[i] ELSE f[i - 1] \o es[i]]
  <2>2. \A i \in 1 .. k + 1 : h[i] = IF i = 1 THEN es[i] ELSE h[i - 1] \o es[i]
    <3>. TAKE i \in 1 .. k + 1
    <3>1. CASE i = 1
      <4>1. k >= 1 => f[1] = es[1]
        BY <2>1 DEF IsFlattened
      <4>. QED
        BY <3>1, <4>1
    <3>2. CASE i # 1
      <4>1. i - 1 \in 1 .. k + 1 /\ i - 1 <= k /\ (i <= k => i \in 1 .. k)
        BY <3>2
      <4>2. i <= k => f[i] = f[i - 1] \o es[i]
        BY <2>1, <3>2, <4>1 DEF IsFlattened
      <4>3. h[i - 1] = f[i - 1]
        BY <4>1
      <4>. QED
        BY <3>2, <4>2, <4>3
    <3>. QED
      BY <3>1, <3>2
  <2>3. IsFlattened(h, k + 1, es)
    <3>1. h = [i \in 1 .. k + 1 |-> h[i]]
      OBVIOUS
    <3>. HIDE DEF h
    <3>. QED
      BY <2>2, <3>1 DEF IsFlattened
  <2>. HIDE DEF h
  <2>. QED
    BY <2>3
<1>3. n \in S
  <2>. HIDE DEF S
  <2>1. \A k \in 0 .. n : k < n /\ k \in S => k + 1 \in S
    BY <1>2
  <2>2. 0 .. n \subseteq S
    BY <1>1, <2>1, UpTo
  <2>. QED
    BY <2>2
<1>. DEFINE f == CHOOSE h : IsFlattened(h, n, es)
            g == [i \in 0 .. n |-> IF i = 0 THEN <<>> ELSE f[i]]
<1>4. IsFlattened(f, n, es)
  BY <1>3
<1>5. FlattenSeq(es) = f[n]
  BY DEF FlattenSeq, IsFlattened
<1>. HIDE DEF f
<1>6. g[0] = <<>> /\ g[n] = f[n]
  OBVIOUS
<1>7. \A i \in 1 .. n : g[i] = g[i - 1] \o es[i]
  <2>. SUFFICES ASSUME NEW i \in 1 .. n PROVE g[i] = g[i - 1] \o es[i]
    OBVIOUS
  <2>1. f[i] = IF i = 1 THEN es[i] ELSE f[i - 1] \o es[i]
    BY <1>4 DEF IsFlattened
  <2>2. g[i] = f[i] /\ g[i - 1] = IF i = 1 THEN <<>> ELSE f[i - 1]
    OBVIOUS
  <2>3. es[i] \in Seq(V)
    OBVIOUS
  <2>4. <<>> \o es[i] = es[i]
    BY <2>3
  <2>. QED
    BY <2>1, <2>2, <2>4
<1>. HIDE DEF g
<1>8. \A i \in 0 .. n : g[i] \in Seq(V)
  <2>. DEFINE R == {i \in 0 .. n : g[i] \in Seq(V)}
  <2>1. 0 \in R
    <3>1. <<>> \in Seq(V) /\ 0 \in 0 .. n
      OBVIOUS
    <3>. QED
      BY <1>6, <3>1
  <2>2. \A i \in 0 .. n : i < n /\ i \in R => i + 1 \in R
    <3>. SUFFICES ASSUME NEW i \in 0 .. n, i < n, g[i] \in Seq(V) PROVE g[i + 1] \in Seq(V)
      OBVIOUS
    <3>1. i + 1 \in 1 .. n /\ (i + 1) - 1 = i
      OBVIOUS
    <3>2. g[i + 1] = g[i] \o es[i + 1] /\ es[i + 1] \in Seq(V)
      BY <1>7, <3>1
    <3>. QED
      BY <3>2
  <2>. HIDE DEF R
  <2>3. 0 .. n \subseteq R
    BY <2>1, <2>2, UpTo
  <2>. QED
    BY <2>3 DEF R
<1>. QED
  BY <1>5, <1>6, <1>7, <1>8 DEF Joins

\* What holds from the number before holds of all.
LEMMA FromLast ==
  ASSUME NEW n \in Nat, NEW S, 0 \in S, \A i \in 1 .. n : i - 1 \in S => i \in S
  PROVE  \A i \in 0 .. n : i \in S
<1>1. \A k \in 0 .. n : k < n /\ k \in S => k + 1 \in S
  <2>. SUFFICES ASSUME NEW k \in 0 .. n, k < n, k \in S PROVE k + 1 \in S
    OBVIOUS
  <2>1. k + 1 \in 1 .. n /\ (k + 1) - 1 = k
    OBVIOUS
  <2>. QED
    BY <2>1
<1>2. 0 .. n \subseteq S
  BY <1>1, UpTo
<1>. QED
  BY <1>2

\* Corner i of a polygon is inside or not, and an edge stays, goes out or comes in.
Exits(i, I)  == i \in I /\ i + 1 \notin I
Enters(i, I) == i \notin I /\ i + 1 \in I
Stays(i, I)  == i \in I /\ i + 1 \in I

\* g[i] is what the first i edges leave of the corners c and the meeting points m.
Passes(g, n, c, m, I) ==
  /\ g[0] = <<>>
  /\ \A i \in 1 .. n :
       /\ Stays(i, I)  => g[i] = Append(g[i - 1], c[i + 1])
       /\ Exits(i, I)  => g[i] = Append(g[i - 1], m[i])
       /\ Enters(i, I) => g[i] = Append(Append(g[i - 1], m[i]), c[i + 1])
       /\ i \notin I /\ i + 1 \notin I => g[i] = g[i - 1]

\* Every vertex of T but the last one makes a pair of E with the next one.
Adjacent(T, E) == \A j \in 1 .. Len(T) : j < Len(T) => <<T[j], T[j + 1]>> \in E
LastOf(T) == T[Len(T)]

\* One vertex more makes one pair more.
LEMMA AppendAdjacent ==
  ASSUME NEW V, NEW E, NEW T \in Seq(V), NEW x \in V, Adjacent(T, E),
         T # <<>> => <<LastOf(T), x>> \in E
  PROVE  /\ Append(T, x) \in Seq(V) /\ Append(T, x) # <<>> /\ Len(Append(T, x)) = Len(T) + 1
         /\ Adjacent(Append(T, x), E) /\ LastOf(Append(T, x)) = x
         /\ Append(T, x)[1] = IF T = <<>> THEN x ELSE T[1]
<1>. DEFINE R == Append(T, x)
            n == Len(T)
<1>1. n \in Nat /\ Len(R) = n + 1 /\ R \in Seq(V) /\ R[n + 1] = x /\ \A j \in 1 .. n : R[j] = T[j]
  OBVIOUS
<1>2. T = <<>> <=> n = 0
  BY EmptySeq
<1>3. R # <<>>
  <2>. HIDE DEF R, n
  <2>. QED
    BY <1>1, EmptySeq
<1>4. LastOf(R) = x
  BY <1>1 DEF LastOf
<1>5. R[1] = IF T = <<>> THEN x ELSE T[1]
  BY <1>1, <1>2
<1>6. Adjacent(R, E)
  <2>. SUFFICES ASSUME NEW j \in 1 .. n + 1, j < n + 1 PROVE <<R[j], R[j + 1]>> \in E
    BY <1>1 DEF Adjacent
  <2>1. CASE j < n
    <3>1. <<T[j], T[j + 1]>> \in E /\ R[j] = T[j] /\ R[j + 1] = T[j + 1]
      BY <1>1, <2>1 DEF Adjacent
    <3>. QED
      BY <3>1
  <2>2. CASE j = n
    <3>1. R[j] = LastOf(T) /\ R[j + 1] = x /\ T # <<>>
      BY <1>1, <1>2, <2>2 DEF LastOf
    <3>. QED
      BY <3>1
  <2>. QED
    BY <1>1, <2>1, <2>2
<1>. QED
  BY <1>1, <1>3, <1>4, <1>5, <1>6

\* What is known of the first i edges.
ChainOK(T, i, V, E, n, c, m, I) ==
  /\ T \in Seq(V) /\ Adjacent(T, E)
  /\ i >= 1 /\ i + 1 \in I => T # <<>> /\ LastOf(T) = c[i + 1]
  /\ i + 1 \notin I /\ T # <<>> => \E a \in 1 .. n : Exits(a, I) /\ LastOf(T) = m[a]
  /\ 1 \in I /\ T # <<>> => <<c[1], T[1]>> \in E
  /\ 1 \notin I /\ T # <<>> => \E b \in 1 .. n : Enters(b, I) /\ T[1] = m[b]
  /\ 1 \in I /\ i >= 1 => T # <<>>

\* The edges that a pass may leave.
Allowed(V, E, n, c, m, I) ==
  /\ \A i \in 1 .. n + 1 : c[i] \in V
  /\ \A i \in 1 .. n : /\ Stays(i, I) => <<c[i], c[i + 1]>> \in E
                       /\ Exits(i, I) => m[i] \in V /\ <<c[i], m[i]>> \in E
                       /\ Enters(i, I) => m[i] \in V /\ <<m[i], c[i + 1]>> \in E
  /\ \A a, b \in 1 .. n : Exits(a, I) /\ Enters(b, I) => <<m[a], m[b]>> \in E

\* An edge carries that on.
LEMMA ChainStep ==
  ASSUME NEW V, NEW E, NEW n \in Nat, NEW c, NEW m, NEW I, NEW g,
         Passes(g, n, c, m, I), Allowed(V, E, n, c, m, I),
         NEW i \in 1 .. n, ChainOK(g[i - 1], i - 1, V, E, n, c, m, I)
  PROVE  ChainOK(g[i], i, V, E, n, c, m, I)
<1>. DEFINE T == g[i - 1]
            R == g[i]
<1>1. i - 1 + 1 = i /\ (i - 1) + 1 = i /\ i + 1 \in 1 .. n + 1 /\ c[i + 1] \in V /\ i >= 1 /\ i \in Int
  BY DEF Allowed
<1>2. /\ T \in Seq(V) /\ Adjacent(T, E)
      /\ i # 1 /\ i \in I => T # <<>> /\ LastOf(T) = c[i]
      /\ i \notin I /\ T # <<>> => \E a \in 1 .. n : Exits(a, I) /\ LastOf(T) = m[a]
      /\ 1 \in I /\ T # <<>> => <<c[1], T[1]>> \in E
      /\ 1 \notin I /\ T # <<>> => \E b \in 1 .. n : Enters(b, I) /\ T[1] = m[b]
      /\ 1 \in I /\ i # 1 => T # <<>>
  BY <1>1 DEF ChainOK
<1>3. i = 1 => T = <<>>
  BY DEF Passes
<1>4. CASE Stays(i, I)
  <2>1. R = Append(T, c[i + 1]) /\ i \in I /\ i + 1 \in I
    BY <1>4 DEF Passes, Stays
  <2>2. <<c[i], c[i + 1]>> \in E
    BY <1>4 DEF Allowed
  <2>3. T # <<>> => <<LastOf(T), c[i + 1]>> \in E
    BY <1>2, <1>3, <2>1, <2>2
  <2>. HIDE DEF T, R
  <2>4. /\ R \in Seq(V) /\ R # <<>> /\ Adjacent(R, E) /\ LastOf(R) = c[i + 1]
        /\ R[1] = IF T = <<>> THEN c[i + 1] ELSE T[1]
    BY <1>1, <1>2, <2>1, <2>3, AppendAdjacent
  <2>5. 1 \in I => <<c[1], R[1]>> \in E
    BY <1>2, <2>1, <2>2, <2>4
  <2>6. 1 \notin I => \E b \in 1 .. n : Enters(b, I) /\ R[1] = m[b]
    BY <1>2, <2>1, <2>4
  <2>. QED
    BY <2>1, <2>4, <2>5, <2>6 DEF ChainOK, R
<1>5. CASE Exits(i, I)
  <2>1. R = Append(T, m[i]) /\ i \in I /\ i + 1 \notin I
    BY <1>5 DEF Passes, Exits
  <2>2. <<c[i], m[i]>> \in E /\ m[i] \in V
    BY <1>5 DEF Allowed
  <2>3. T # <<>> => <<LastOf(T), m[i]>> \in E
    BY <1>2, <1>3, <2>1, <2>2
  <2>. HIDE DEF T, R
  <2>4. /\ R \in Seq(V) /\ R # <<>> /\ Adjacent(R, E) /\ LastOf(R) = m[i]
        /\ R[1] = IF T = <<>> THEN m[i] ELSE T[1]
    BY <1>2, <2>1, <2>2, <2>3, AppendAdjacent
  <2>5. 1 \in I => <<c[1], R[1]>> \in E
    BY <1>2, <2>1, <2>2, <2>4
  <2>6. 1 \notin I => \E b \in 1 .. n : Enters(b, I) /\ R[1] = m[b]
    BY <1>2, <2>1, <2>4
  <2>7. \E a \in 1 .. n : Exits(a, I) /\ LastOf(R) = m[a]
    BY <1>5, <2>4
  <2>. QED
    BY <2>1, <2>4, <2>5, <2>6, <2>7 DEF ChainOK, R
<1>6. CASE Enters(i, I)
  <2>1. R = Append(Append(T, m[i]), c[i + 1]) /\ i \notin I /\ i + 1 \in I
    BY <1>6 DEF Passes, Enters
  <2>2. <<m[i], c[i + 1]>> \in E /\ m[i] \in V
    BY <1>6 DEF Allowed
  <2>3. T # <<>> => <<LastOf(T), m[i]>> \in E
    BY <1>2, <1>6, <2>1 DEF Allowed
  <2>. DEFINE Q == Append(T, m[i])
  <2>. HIDE DEF T, R
  <2>4. /\ Q \in Seq(V) /\ Q # <<>> /\ Adjacent(Q, E) /\ LastOf(Q) = m[i]
        /\ Q[1] = IF T = <<>> THEN m[i] ELSE T[1]
    BY <1>2, <2>2, <2>3, AppendAdjacent
  <2>5. R = Append(Q, c[i + 1]) /\ <<LastOf(Q), c[i + 1]>> \in E
    BY <2>1, <2>2, <2>4
  <2>. HIDE DEF Q
  <2>6. /\ R \in Seq(V) /\ R # <<>> /\ Adjacent(R, E) /\ LastOf(R) = c[i + 1]
        /\ R[1] = Q[1]
    BY <1>1, <2>4, <2>5, AppendAdjacent
  <2>7. 1 \in I => T # <<>>
    BY <1>2, <2>1
  <2>8. 1 \in I => <<c[1], R[1]>> \in E
    BY <1>2, <2>4, <2>6, <2>7
  <2>9. 1 \notin I => \E b \in 1 .. n : Enters(b, I) /\ R[1] = m[b]
    BY <1>2, <1>6, <2>4, <2>6
  <2>. QED
    BY <2>1, <2>6, <2>8, <2>9 DEF ChainOK, R
<1>7. CASE i \notin I /\ i + 1 \notin I
  <2>1. R = T
    BY <1>7 DEF Passes
  <2>2. 1 \in I => i # 1
    BY <1>7
  <2>. HIDE DEF T, R
  <2>. QED
    BY <1>2, <1>7, <2>1, <2>2 DEF ChainOK, R
<1>. QED
  BY <1>4, <1>5, <1>6, <1>7 DEF Stays, Exits, Enters

\* After the last edge the rest is closed.
LEMMA ChainCloses ==
  ASSUME NEW V, NEW E, NEW n \in Nat, n >= 1, NEW c, NEW m, NEW I, NEW g,
         Passes(g, n, c, m, I), Allowed(V, E, n, c, m, I),
         c[n + 1] = c[1], n + 1 \in I <=> 1 \in I
  PROVE  g[n] \in Seq(V) /\ \A j \in 1 .. Len(g[n]) : <<g[n][j], Successor(g[n], j)>> \in E
<1>. DEFINE S == {i \in 0 .. n : ChainOK(g[i], i, V, E, n, c, m, I)}
<1>1. 0 \in S
  <2>1. ChainOK(<<>>, 0, V, E, n, c, m, I)
    BY DEF ChainOK, Adjacent
  <2>. QED
    BY <2>1 DEF Passes
<1>2. \A i \in 1 .. n : i - 1 \in S => i \in S
  BY ChainStep
<1>3. n \in S
  <2>. HIDE DEF S
  <2>. QED
    BY <1>1, <1>2, FromLast
<1>. DEFINE T == g[n]
<1>4. ChainOK(T, n, V, E, n, c, m, I)
  BY <1>3
<1>. HIDE DEF T
<1>5. T \in Seq(V) /\ Adjacent(T, E)
  BY <1>4 DEF ChainOK
<1>6. T # <<>> => <<LastOf(T), T[1]>> \in E
  <2>1. CASE 1 \in I
    BY <1>4, <2>1 DEF ChainOK
  <2>2. CASE 1 \notin I
    BY <1>4, <2>2 DEF ChainOK, Allowed
  <2>. QED
    BY <2>1, <2>2
<1>7. \A j \in 1 .. Len(T) : <<T[j], Successor(T, j)>> \in E
  <2>. SUFFICES ASSUME NEW j \in 1 .. Len(T) PROVE <<T[j], Successor(T, j)>> \in E
    OBVIOUS
  <2>1. T # <<>>
    OBVIOUS
  <2>2. CASE j = Len(T)
    BY <1>5, <1>6, <2>1, <2>2, SuccessorIs DEF LastOf
  <2>3. CASE j < Len(T)
    <3>1. <<T[j], T[j + 1]>> \in E
      BY <1>5, <2>3 DEF Adjacent
    <3>. QED
      BY <1>5, <2>3, <3>1, SuccessorIs
  <2>. QED
    BY <1>5, <2>2, <2>3
<1>. QED
  BY <1>5, <1>7 DEF T

\* The number of vertices grows with every place where the polygon comes in.
Came(i, I) == \E b \in 1 .. i : Enters(b, I)
Went(i, I) == \E b \in 1 .. i : Exits(b, I)

LenOK(T, i, I) ==
  /\ Len(T) \in Nat
  /\ Len(T) <= i + (IF Came(i, I) THEN 1 ELSE 0)
  /\ Came(i, I) => Len(T) >= 2
  /\ Came(i, I) /\ Went(i, I) => Len(T) >= 3
  /\ Went(i, I) => Len(T) >= 1
  /\ (\A j \in 1 .. i : Stays(j, I)) => Len(T) = i
  /\ (\A j \in 1 .. i + 1 : j \notin I) => T = <<>>

\* What comes in once leaves one vertex more at the most.
LEMMA PassLength ==
  ASSUME NEW V, NEW n \in Nat, NEW c, NEW m, NEW I, NEW g, Passes(g, n, c, m, I),
         \A i \in 0 .. n : g[i] \in Seq(V), \A a, b \in 1 .. n : Enters(a, I) /\ Enters(b, I) => a = b
  PROVE  LenOK(g[n], n, I)
<1>. DEFINE S == {i \in 0 .. n : LenOK(g[i], i, I)}
<1>1. 0 \in S
  <2>1. ~ Came(0, I) /\ ~ Went(0, I)
    BY DEF Came, Went
  <2>2. LenOK(<<>>, 0, I)
    BY <2>1 DEF LenOK
  <2>. QED
    BY <2>2 DEF Passes
<1>2. ASSUME NEW i \in 1 .. n, i - 1 \in S PROVE i \in S
  <2>. DEFINE T == g[i - 1]
              R == g[i]
              k == Len(T)
  <2>1. i - 1 \in 0 .. n /\ i \in Int /\ i >= 1 /\ (i - 1) + 1 = i /\ T \in Seq(V) /\ R \in Seq(V)
    OBVIOUS
  <2>2. LenOK(T, i - 1, I)
    BY <1>2
  <2>3. (Came(i, I) <=> Came(i - 1, I) \/ Enters(i, I)) /\ (Went(i, I) <=> Went(i - 1, I) \/ Exits(i, I))
    <3>1. \A b : b \in 1 .. i <=> b \in 1 .. i - 1 \/ b = i
      BY <2>1
    <3>. QED
      BY <3>1 DEF Came, Went
  <2>4. Enters(i, I) => ~ Came(i - 1, I)
    <3>. SUFFICES ASSUME Enters(i, I), NEW b \in 1 .. i - 1, Enters(b, I) PROVE FALSE
      BY DEF Came
    <3>1. b \in 1 .. n /\ b # i
      BY <2>1
    <3>. QED
      BY <3>1
  <2>5. /\ (\A j \in 1 .. i : Stays(j, I)) => Stays(i, I) /\ \A j \in 1 .. i - 1 : Stays(j, I)
        /\ (\A j \in 1 .. i + 1 : j \notin I) => i \notin I /\ i + 1 \notin I /\ \A j \in 1 .. (i - 1) + 1 : j \notin I
    BY <2>1
  <2>6. /\ k \in Nat /\ k <= (i - 1) + (IF Came(i - 1, I) THEN 1 ELSE 0)
        /\ Came(i - 1, I) => k >= 2
        /\ Came(i - 1, I) /\ Went(i - 1, I) => k >= 3
        /\ Went(i - 1, I) => k >= 1
        /\ (\A j \in 1 .. i - 1 : Stays(j, I)) => k = i - 1
        /\ (\A j \in 1 .. (i - 1) + 1 : j \notin I) => T = <<>>
    BY <2>2 DEF LenOK
  <2>7. /\ \A x : Len(Append(T, x)) = k + 1
        /\ \A x, y : Len(Append(Append(T, x), y)) = k + 2
    <3>1. \A x : Len(Append(T, x)) = k + 1 /\ Append(T, x) \in Seq(V \cup {x})
      BY <2>1
    <3>2. ASSUME NEW x, NEW y PROVE Len(Append(Append(T, x), y)) = k + 2
      BY <3>1, <2>6
    <3>. QED
      BY <3>1, <3>2
  <2>. HIDE DEF k
  <2>8. CASE Stays(i, I)
    <3>1. Len(R) = k + 1 /\ ~ Enters(i, I) /\ ~ Exits(i, I) /\ i \in I
      BY <2>7, <2>8 DEF Passes, Stays, Enters, Exits
    <3>2. LenOK(R, i, I)
      BY <2>1, <2>3, <2>5, <2>6, <3>1 DEF LenOK
    <3>. QED
      BY <3>2
  <2>9. CASE Exits(i, I)
    <3>1. Len(R) = k + 1 /\ ~ Enters(i, I) /\ ~ Stays(i, I) /\ i \in I
      BY <2>7, <2>9 DEF Passes, Stays, Enters, Exits
    <3>2. LenOK(R, i, I)
      BY <2>1, <2>3, <2>5, <2>6, <2>9, <3>1 DEF LenOK
    <3>. QED
      BY <3>2
  <2>10. CASE Enters(i, I)
    <3>1. Len(R) = k + 2 /\ ~ Exits(i, I) /\ ~ Stays(i, I) /\ i + 1 \in I
      BY <2>7, <2>10 DEF Passes, Stays, Enters, Exits
    <3>2. LenOK(R, i, I)
      BY <2>1, <2>3, <2>4, <2>5, <2>6, <2>10, <3>1 DEF LenOK
    <3>. QED
      BY <3>2
  <2>11. CASE i \notin I /\ i + 1 \notin I
    <3>1. R = T /\ ~ Exits(i, I) /\ ~ Stays(i, I) /\ ~ Enters(i, I)
      BY <2>11 DEF Passes, Stays, Enters, Exits
    <3>2. LenOK(R, i, I)
      BY <2>1, <2>3, <2>5, <2>6, <3>1 DEF LenOK, k
    <3>. QED
      BY <3>2
  <2>. QED
    BY <2>8, <2>9, <2>10, <2>11 DEF Stays, Exits, Enters
<1>3. n \in S
  <2>. HIDE DEF S
  <2>1. \A i \in 1 .. n : i - 1 \in S => i \in S
    BY <1>2
  <2>2. \A i \in 0 .. n : i \in S
    BY <1>1, <2>1, FromLast
  <2>. QED
    BY <2>2
<1>. QED
  BY <1>3

\* What carries over to the next corner holds all around or nowhere.
LEMMA AllAround ==
  ASSUME NEW n \in Nat, n >= 1, NEW J, \A i \in 1 .. n : i \in J => i + 1 \in J,
         n + 1 \in J => 1 \in J, NEW k \in 1 .. n, k \in J
  PROVE  \A i \in 1 .. n : i \in J
<1>1. ASSUME NEW a \in 1 .. n, a \in J PROVE \A i \in 1 .. n + 1 : i >= a => i \in J
  <2>. DEFINE S == {i \in 0 .. n : i + 1 >= a => i + 1 \in J}
  <2>1. 0 \in S
    BY <1>1
  <2>2. ASSUME NEW i \in 1 .. n, i - 1 \in S PROVE i \in S
    <3>1. i >= a => i \in J
      BY <2>2
    <3>2. i + 1 >= a => i + 1 \in J
      <4>1. CASE i >= a
        BY <3>1, <4>1
      <4>2. CASE i + 1 = a
        BY <1>1, <4>2
      <4>. QED
        BY <4>1, <4>2
    <3>. QED
      BY <3>2
  <2>3. \A i \in 0 .. n : i \in S
    <3>. HIDE DEF S
    <3>. QED
      BY <2>1, <2>2, FromLast
  <2>. SUFFICES ASSUME NEW i \in 1 .. n + 1, i >= a PROVE i \in J
    OBVIOUS
  <2>4. i - 1 \in 0 .. n /\ (i - 1) + 1 = i
    OBVIOUS
  <2>5. i - 1 \in S
    BY <2>3, <2>4
  <2>. QED
    BY <2>4, <2>5
<1>2. n + 1 \in J
  BY <1>1
<1>3. 1 \in J /\ 1 \in 1 .. n
  BY <1>2
<1>4. \A i \in 1 .. n + 1 : i >= 1 => i \in J
  BY <1>1, <1>3
<1>. QED
  BY <1>4

\* Where one corner is inside and another outside, an edge comes in and an edge goes out.
LEMMA ComesAndGoes ==
  ASSUME NEW n \in Nat, n >= 1, NEW I, n + 1 \in I <=> 1 \in I,
         NEW i \in 1 .. n, i \in I, NEW j \in 1 .. n, j \notin I
  PROVE  Came(n, I) /\ Went(n, I)
<1>1. Went(n, I)
  <2>. SUFFICES ASSUME ~ Went(n, I) PROVE FALSE
    OBVIOUS
  <2>1. \A k \in 1 .. n : k \in I => k + 1 \in I
    BY DEF Went, Exits
  <2>. QED
    BY <2>1, AllAround
<1>2. Came(n, I)
  <2>. SUFFICES ASSUME ~ Came(n, I) PROVE FALSE
    OBVIOUS
  <2>. DEFINE J == {k \in 1 .. n + 1 : k \notin I}
  <2>1. \A k \in 1 .. n : k \in J => k + 1 \in J
    BY DEF Came, Enters
  <2>2. (n + 1 \in J => 1 \in J) /\ j \in J /\ i \notin J
    OBVIOUS
  <2>. HIDE DEF J
  <2>. QED
    BY <2>1, <2>2, AllAround
<1>. QED
  BY <1>1, <1>2

\* The vertices of T are in Z like corners 1 to r of c, in their order.
Follows(T, r, c, Z) ==
  \E h \in [1 .. Len(T) -> 1 .. r] :
     /\ \A a, b \in 1 .. Len(T) : a < b => h[a] <= h[b]
     /\ \A a \in 1 .. Len(T) : T[a] \in Z <=> c[h[a]] \in Z

\* One vertex more follows too,
LEMMA AppendFollows ==
  ASSUME NEW V, NEW T \in Seq(V), NEW r \in Nat, NEW c, NEW Z, Follows(T, r, c, Z),
         NEW k \in Nat, k >= 1, r <= k, NEW x, x \in Z <=> c[k] \in Z
  PROVE  Follows(Append(T, x), k, c, Z)
<1>. DEFINE R == Append(T, x)
            n == Len(T)
<1>1. n \in Nat /\ Len(R) = n + 1 /\ R[n + 1] = x /\ \A a \in 1 .. n : R[a] = T[a]
  OBVIOUS
<1>2. PICK h \in [1 .. n -> 1 .. r] :
         /\ \A a, b \in 1 .. n : a < b => h[a] <= h[b]
         /\ \A a \in 1 .. n : T[a] \in Z <=> c[h[a]] \in Z
  BY DEF Follows
<1>. DEFINE j == [a \in 1 .. n + 1 |-> IF a = n + 1 THEN k ELSE h[a]]
<1>. HIDE DEF n, R
<1>3. \A a \in 1 .. n : a \in 1 .. n + 1 /\ a # n + 1 /\ h[a] \in 1 .. r
  BY <1>1, <1>2
<1>4. \A a \in 1 .. n + 1 : a = n + 1 \/ a \in 1 .. n
  BY <1>1
<1>5. j[n + 1] = k /\ \A a \in 1 .. n : j[a] = h[a]
  BY <1>1, <1>3
<1>6. j \in [1 .. n + 1 -> 1 .. k]
  BY <1>2, <1>3, <1>4
<1>7. ASSUME NEW a \in 1 .. n + 1, NEW b \in 1 .. n + 1, a < b PROVE j[a] <= j[b]
  <2>1. a \in 1 .. n
    BY <1>1, <1>7
  <2>2. CASE b = n + 1
    BY <1>3, <1>5, <2>1, <2>2
  <2>3. CASE b \in 1 .. n
    BY <1>2, <1>5, <1>7, <2>1, <2>3
  <2>. QED
    BY <1>4, <2>2, <2>3
<1>. HIDE DEF j
<1>8. \A a \in 1 .. n + 1 : R[a] \in Z <=> c[j[a]] \in Z
  <2>. SUFFICES ASSUME NEW a \in 1 .. n + 1 PROVE R[a] \in Z <=> c[j[a]] \in Z
    OBVIOUS
  <2>1. CASE a = n + 1
    BY <1>1, <1>5, <2>1
  <2>2. CASE a \in 1 .. n
    BY <1>1, <1>2, <1>5, <2>2
  <2>. QED
    BY <1>4, <2>1, <2>2
<1>9. Follows(R, k, c, Z)
  <2>. SUFFICES Len(R) = n + 1 /\ j \in [1 .. n + 1 -> 1 .. k]
                /\ (\A a, b \in 1 .. n + 1 : a < b => j[a] <= j[b])
                /\ (\A a \in 1 .. n + 1 : R[a] \in Z <=> c[j[a]] \in Z)
    BY DEF Follows
  <2>. QED
    BY <1>1, <1>6, <1>7, <1>8
<1>. QED
  BY <1>9 DEF R

\* and no vertex more.
LEMMA FollowsFurther ==
  ASSUME NEW T, NEW r \in Nat, NEW k \in Nat, r <= k, NEW c, NEW Z, Follows(T, r, c, Z)
  PROVE  Follows(T, k, c, Z)
<1>1. PICK h \in [1 .. Len(T) -> 1 .. r] :
         /\ \A a, b \in 1 .. Len(T) : a < b => h[a] <= h[b]
         /\ \A a \in 1 .. Len(T) : T[a] \in Z <=> c[h[a]] \in Z
  BY DEF Follows
<1>2. h \in [1 .. Len(T) -> 1 .. k]
  BY <1>1
<1>. QED
  BY <1>1, <1>2 DEF Follows

\* So all that is left follows the corners.
LEMMA PassFollows ==
  ASSUME NEW V, NEW n \in Nat, NEW c, NEW m, NEW I, NEW g, NEW Z, Passes(g, n, c, m, I),
         \A i \in 0 .. n : g[i] \in Seq(V), \A i \in 1 .. n : c[i + 1] \in V,
         \A i \in 1 .. n : Exits(i, I) \/ Enters(i, I) =>
            m[i] \in V /\ ((m[i] \in Z <=> c[i] \in Z) \/ (m[i] \in Z <=> c[i + 1] \in Z))
  PROVE  Follows(g[n], n + 1, c, Z)
<1>. DEFINE S == {i \in 0 .. n : Follows(g[i], i + 1, c, Z)}
<1>1. 0 \in S
  <2>1. Follows(<<>>, 0 + 1, c, Z)
    <3>1. Len(<<>>) = 0 /\ [a \in 1 .. 0 |-> 1] \in [1 .. 0 -> 1 .. 0 + 1]
      OBVIOUS
    <3>2. \A a : a \notin 1 .. 0
      OBVIOUS
    <3>. QED
      BY <3>1, <3>2 DEF Follows
  <2>. QED
    BY <2>1 DEF Passes
<1>2. ASSUME NEW i \in 1 .. n, i - 1 \in S PROVE i \in S
  <2>. SUFFICES Follows(g[i], i + 1, c, Z)
    OBVIOUS
  <2>. DEFINE T == g[i - 1]
  <2>1. i \in Nat /\ i + 1 \in Nat /\ i >= 1 /\ i + 1 >= 1 /\ i <= i /\ i <= i + 1 /\ i + 1 <= i + 1 /\ (i - 1) + 1 = i
    OBVIOUS
  <2>2. Follows(T, i, c, Z) /\ T \in Seq(V)
    <3>1. i - 1 \in 0 .. n /\ Follows(T, (i - 1) + 1, c, Z)
      BY <1>2
    <3>. QED
      BY <2>1, <3>1
  <2>. HIDE DEF T
  <2>3. CASE Stays(i, I)
    <3>1. g[i] = Append(T, c[i + 1])
      BY <2>3 DEF Passes, T
    <3>2. Follows(Append(T, c[i + 1]), i + 1, c, Z)
      BY <2>1, <2>2, AppendFollows
    <3>. QED
      BY <3>1, <3>2
  <2>4. ASSUME Exits(i, I) \/ Enters(i, I)
        PROVE  Follows(Append(T, m[i]), i + 1, c, Z) /\ Append(T, m[i]) \in Seq(V)
    <3>1. m[i] \in V /\ ((m[i] \in Z <=> c[i] \in Z) \/ (m[i] \in Z <=> c[i + 1] \in Z))
      BY <2>4
    <3>2. CASE m[i] \in Z <=> c[i] \in Z
      <4>1. Follows(Append(T, m[i]), i, c, Z)
        BY <2>1, <2>2, <3>2, AppendFollows
      <4>. QED
        BY <2>1, <2>2, <3>1, <4>1, FollowsFurther
    <3>3. CASE m[i] \in Z <=> c[i + 1] \in Z
      BY <2>1, <2>2, <3>1, <3>3, AppendFollows
    <3>. QED
      BY <3>1, <3>2, <3>3
  <2>5. CASE Exits(i, I)
    <3>1. g[i] = Append(T, m[i])
      BY <2>5 DEF Passes, T
    <3>. QED
      BY <2>4, <2>5, <3>1
  <2>6. CASE Enters(i, I)
    <3>. DEFINE R == Append(T, m[i])
    <3>1. g[i] = Append(R, c[i + 1])
      BY <2>6 DEF Passes, T
    <3>2. Follows(R, i + 1, c, Z) /\ R \in Seq(V)
      BY <2>4, <2>6
    <3>. HIDE DEF R
    <3>3. Follows(Append(R, c[i + 1]), i + 1, c, Z)
      BY <2>1, <3>2, AppendFollows
    <3>. QED
      BY <3>1, <3>3
  <2>7. CASE i \notin I /\ i + 1 \notin I
    <3>1. g[i] = T
      BY <2>7 DEF Passes, T
    <3>2. Follows(T, i + 1, c, Z)
      BY <2>1, <2>2, FollowsFurther
    <3>. QED
      BY <3>1, <3>2
  <2>. QED
    BY <2>3, <2>5, <2>6, <2>7 DEF Stays, Exits, Enters
<1>3. n \in S
  <2>. HIDE DEF S
  <2>1. \A i \in 1 .. n : i - 1 \in S => i \in S
    BY <1>2
  <2>2. \A i \in 0 .. n : i \in S
    BY <1>1, <2>1, FromLast
  <2>. QED
    BY <2>2
<1>. QED
  BY <1>3

\* Around a polygon, the vertices in Z follow each other.
Alternate(a, b, c, d, Z) ==
  /\ a \in Z <=> b \notin Z
  /\ b \in Z <=> c \notin Z
  /\ c \in Z <=> d \notin Z
OneArc(T, Z) ==
  \A i, j, k, l \in 1 .. Len(T) : i < j /\ j < k /\ k < l => ~ Alternate(T[i], T[j], T[k], T[l], Z)

\* The corners of P, and the first one again.
IsRound(c, P) == c[Len(P) + 1] = P[1] /\ \A i \in 1 .. Len(P) : c[i] = P[i]

\* And what follows the corners comes into Z no more often than they do.
LEMMA FollowsArc ==
  ASSUME NEW T, NEW P, NEW n \in Nat, n >= 1, Len(P) = n, Len(T) \in Nat, NEW c, IsRound(c, P), NEW Z,
         Follows(T, n + 1, c, Z), OneArc(P, Z)
  PROVE  OneArc(T, Z)
<1>1. PICK h \in [1 .. Len(T) -> 1 .. n + 1] :
         /\ \A a, b \in 1 .. Len(T) : a < b => h[a] <= h[b]
         /\ \A a \in 1 .. Len(T) : T[a] \in Z <=> c[h[a]] \in Z
  BY DEF Follows
<1>. SUFFICES ASSUME NEW i \in 1 .. Len(T), NEW j \in 1 .. Len(T), NEW k \in 1 .. Len(T), NEW l \in 1 .. Len(T),
                     i < j, j < k, k < l, Alternate(T[i], T[j], T[k], T[l], Z)
              PROVE  FALSE
  BY DEF OneArc
<1>. DEFINE x == h[i]
            y == h[j]
            z == h[k]
            w == h[l]
<1>2. x \in 1 .. n + 1 /\ y \in 1 .. n + 1 /\ z \in 1 .. n + 1 /\ w \in 1 .. n + 1
  BY <1>1
<1>3. x <= y /\ y <= z /\ z <= w
  BY <1>1
<1>4. Alternate(c[x], c[y], c[z], c[w], Z)
  BY <1>1 DEF Alternate
<1>. HIDE DEF x, y, z, w
<1>5. x # y /\ y # z /\ z # w /\ c[x] # c[w]
  BY <1>4 DEF Alternate
<1>6. x < y /\ y < z /\ z < w
  BY <1>2, <1>3, <1>5
<1>7. CASE w <= n
  <2>1. x \in 1 .. n /\ y \in 1 .. n /\ z \in 1 .. n /\ w \in 1 .. n
    BY <1>2, <1>6, <1>7
  <2>2. Alternate(P[x], P[y], P[z], P[w], Z)
    BY <1>4, <2>1 DEF IsRound
  <2>. QED
    BY <1>6, <2>1, <2>2 DEF OneArc
<1>8. CASE w = n + 1
  <2>1. x \in 1 .. n /\ y \in 1 .. n /\ z \in 1 .. n /\ 1 \in 1 .. n
    BY <1>2, <1>6, <1>8
  <2>2. c[w] = P[1] /\ c[x] = P[x] /\ c[y] = P[y] /\ c[z] = P[z]
    BY <1>8, <2>1 DEF IsRound
  <2>3. x # 1
    BY <1>5, <2>2
  <2>4. Alternate(P[1], P[x], P[y], P[z], Z)
    BY <1>4, <2>2 DEF Alternate
  <2>5. 1 < x
    BY <1>2, <2>3
  <2>. QED
    BY <1>6, <2>1, <2>4, <2>5 DEF OneArc
<1>. QED
  BY <1>2, <1>7, <1>8

\* Where Z is one arc, only one edge comes in.
LEMMA OneEntry ==
  ASSUME NEW P, NEW n \in Nat, n >= 1, Len(P) = n, NEW c, IsRound(c, P), NEW Z, OneArc(P, Z),
         NEW I, \A i \in 1 .. n + 1 : i \in I <=> c[i] \in Z,
         NEW a \in 1 .. n, NEW b \in 1 .. n, Enters(a, I), Enters(b, I), a < b
  PROVE  FALSE
<1>1. a + 1 \in 1 .. n + 1 /\ b + 1 \in 1 .. n + 1 /\ a \in 1 .. n + 1 /\ b \in 1 .. n + 1
  OBVIOUS
<1>2. c[a] \notin Z /\ c[a + 1] \in Z /\ c[b] \notin Z /\ c[b + 1] \in Z
  BY <1>1 DEF Enters
<1>3. a + 1 # b
  BY <1>2
<1>4. a + 1 < b /\ a < a + 1 /\ b < b + 1 /\ a + 1 \in 1 .. n
  BY <1>3
<1>5. P[a] \notin Z /\ P[a + 1] \in Z /\ P[b] \notin Z
  BY <1>2, <1>4 DEF IsRound
<1>6. CASE b < n
  <2>1. b + 1 \in 1 .. n
    BY <1>6
  <2>2. P[b + 1] \in Z
    BY <1>2, <2>1 DEF IsRound
  <2>3. Alternate(P[a], P[a + 1], P[b], P[b + 1], Z)
    BY <1>5, <2>2 DEF Alternate
  <2>. QED
    BY <1>4, <2>1, <2>3 DEF OneArc
<1>7. CASE b = n
  <2>1. P[1] \in Z /\ 1 \in 1 .. n
    BY <1>2, <1>7 DEF IsRound
  <2>2. a # 1 /\ 1 < a
    BY <1>5, <2>1
  <2>3. Alternate(P[1], P[a], P[a + 1], P[b], Z)
    BY <1>5, <2>1 DEF Alternate
  <2>. QED
    BY <1>4, <2>1, <2>2, <2>3 DEF OneArc
<1>. QED
  BY <1>6, <1>7

\* A polygon that is inside stays as it is, and begins at its second vertex.
LEMMA AllStay ==
  ASSUME NEW V, NEW n \in Nat, n >= 1, NEW c, NEW m, NEW I, NEW g, Passes(g, n, c, m, I),
         \A i \in 0 .. n : g[i] \in Seq(V), \A i \in 1 .. n : Stays(i, I)
  PROVE  Len(g[n]) = n /\ \A j \in 1 .. n : g[n][j] = c[j + 1]
<1>. DEFINE S == {i \in 0 .. n : Len(g[i]) = i /\ \A j \in 1 .. i : g[i][j] = c[j + 1]}
<1>1. 0 \in S
  BY DEF Passes
<1>2. ASSUME NEW i \in 1 .. n, i - 1 \in S PROVE i \in S
  <2>. SUFFICES Len(g[i]) = i /\ \A j \in 1 .. i : g[i][j] = c[j + 1]
    OBVIOUS
  <2>. DEFINE T == g[i - 1]
  <2>1. i - 1 \in 0 .. n /\ T \in Seq(V) /\ Len(T) = i - 1 /\ \A j \in 1 .. i - 1 : T[j] = c[j + 1]
    BY <1>2
  <2>2. g[i] = Append(T, c[i + 1])
    BY DEF Passes
  <2>. HIDE DEF T
  <2>3. Len(Append(T, c[i + 1])) = i /\ \A j \in 1 .. i : Append(T, c[i + 1])[j] = c[j + 1]
    <3>1. /\ Len(Append(T, c[i + 1])) = Len(T) + 1 /\ Append(T, c[i + 1])[Len(T) + 1] = c[i + 1]
          /\ \A j \in 1 .. Len(T) : Append(T, c[i + 1])[j] = T[j]
      BY <2>1
    <3>2. Len(T) + 1 = i /\ \A j \in 1 .. i : j = i \/ j \in 1 .. i - 1
      BY <2>1
    <3>. QED
      BY <2>1, <3>1, <3>2
  <2>. QED
    BY <2>2, <2>3
<1>3. n \in S
  <2>. HIDE DEF S
  <2>1. \A i \in 1 .. n : i - 1 \in S => i \in S
    BY <1>2
  <2>2. \A i \in 0 .. n : i \in S
    BY <1>1, <2>1, FromLast
  <2>. QED
    BY <2>2
<1>. QED
  BY <1>3

\* What is inside is kept, and where the polygon goes out there is a vertex.
Has(T, x) == \E j \in 1 .. Len(T) : T[j] = x

\* What a sequence has, and the next, a longer one has.
LEMMA AppendHas ==
  ASSUME NEW V, NEW T \in Seq(V), NEW x
  PROVE  Has(Append(T, x), x) /\ \A y : Has(T, y) => Has(Append(T, x), y)
<1>. DEFINE R == Append(T, x)
<1>1. Len(T) \in Nat /\ Len(R) = Len(T) + 1 /\ R[Len(T) + 1] = x /\ \A j \in 1 .. Len(T) : R[j] = T[j]
  OBVIOUS
<1>. HIDE DEF R
<1>2. Len(T) + 1 \in 1 .. Len(R) /\ \A j \in 1 .. Len(T) : j \in 1 .. Len(R)
  BY <1>1
<1>3. Has(R, x) /\ \A y : Has(T, y) => Has(R, y)
  BY <1>1, <1>2 DEF Has
<1>. QED
  BY <1>3 DEF R

\* Corners inside are left, and the places where an edge goes out.
LEMMA PassHas ==
  ASSUME NEW V, NEW n \in Nat, NEW c, NEW m, NEW I, NEW g, Passes(g, n, c, m, I),
         \A i \in 0 .. n : g[i] \in Seq(V), \A i \in 1 .. n : Enters(i, I) => m[i] \in V,
         NEW e \in 1 .. n
  PROVE  /\ e + 1 \in I => Has(g[n], c[e + 1])
         /\ Exits(e, I) => Has(g[n], m[e])
<1>1. ASSUME NEW i \in 1 .. n
      PROVE  /\ \A y : Has(g[i - 1], y) => Has(g[i], y)
             /\ i + 1 \in I => Has(g[i], c[i + 1])
             /\ Exits(i, I) => Has(g[i], m[i])
  <2>. DEFINE T == g[i - 1]
              R == Append(T, m[i])
  <2>1. i - 1 \in 0 .. n /\ T \in Seq(V)
    OBVIOUS
  <2>2. /\ Stays(i, I)  => g[i] = Append(T, c[i + 1])
        /\ Exits(i, I)  => g[i] = R
        /\ Enters(i, I) => g[i] = Append(R, c[i + 1]) /\ R \in Seq(V)
        /\ i \notin I /\ i + 1 \notin I => g[i] = T
    <3>1. Enters(i, I) => R \in Seq(V)
      BY <2>1
    <3>. QED
      BY <3>1 DEF Passes
  <2>. HIDE DEF T
  <2>3. \A y : Has(T, y) => Has(R, y)
    BY <2>1, AppendHas
  <2>4. Has(R, m[i])
    BY <2>1, AppendHas
  <2>5. Has(Append(T, c[i + 1]), c[i + 1]) /\ \A y : Has(T, y) => Has(Append(T, c[i + 1]), y)
    BY <2>1, AppendHas
  <2>. HIDE DEF R
  <2>6. R \in Seq(V) => Has(Append(R, c[i + 1]), c[i + 1]) /\ \A y : Has(R, y) => Has(Append(R, c[i + 1]), y)
    BY AppendHas
  <2>7. \A y : Has(T, y) => Has(g[i], y)
    BY <2>2, <2>3, <2>5, <2>6 DEF Stays, Exits, Enters
  <2>. QED
    BY <2>2, <2>4, <2>5, <2>6, <2>7 DEF Stays, Exits, Enters, T
<1>2. ASSUME NEW x, Has(g[e], x) PROVE Has(g[n], x)
  <2>. DEFINE S == {i \in 0 .. n : i >= e => Has(g[i], x)}
  <2>1. 0 \in S
    OBVIOUS
  <2>2. \A i \in 1 .. n : i - 1 \in S => i \in S
    <3>. SUFFICES ASSUME NEW i \in 1 .. n, i - 1 >= e => Has(g[i - 1], x), i >= e PROVE Has(g[i], x)
      OBVIOUS
    <3>1. CASE i = e
      BY <1>2, <3>1
    <3>2. CASE i - 1 >= e
      BY <1>1, <3>2
    <3>. QED
      BY <3>1, <3>2
  <2>3. n \in 0 .. n /\ n >= e
    OBVIOUS
  <2>. HIDE DEF S
  <2>4. n \in S
    BY <2>1, <2>2, <2>3, FromLast
  <2>. QED
    BY <2>3, <2>4 DEF S
<1>. QED
  BY <1>1, <1>2

-----------------------------------------------------------------------------
(* A plane and a polygon.                                                   *)

Corners(P)  == [i \in 1 .. Len(P) + 1 |-> IF i = Len(P) + 1 THEN P[1] ELSE P[i]]
Cuts(P, p) == [i \in 1 .. Len(P) |-> Meet(P[i], Successor(P, i), p)]
InnerOf(P, p) == {i \in 1 .. Len(P) + 1 : Inside(Corners(P)[i], p) >= 0}

\* The corners go around.
LEMMA RoundIs ==
  ASSUME NEW V, NEW P \in Seq(V), Len(P) >= 1
  PROVE  /\ IsRound(Corners(P), P)
         /\ \A i \in 1 .. Len(P) + 1 : Corners(P)[i] \in V
         /\ \A i \in 1 .. Len(P) : Corners(P)[i] = P[i] /\ Corners(P)[i + 1] = Successor(P, i)
<1>. DEFINE n == Len(P)
            c == Corners(P)
<1>1. n \in Nat /\ n >= 1 /\ \A i \in 1 .. n : P[i] \in V
  OBVIOUS
<1>2. c[n + 1] = P[1] /\ \A i \in 1 .. n : c[i] = P[i]
  BY <1>1 DEF Corners
<1>. HIDE DEF c
<1>3. IsRound(c, P)
  BY <1>2 DEF IsRound
<1>4. \A i \in 1 .. n + 1 : c[i] \in V
  <2>. SUFFICES ASSUME NEW i \in 1 .. n + 1 PROVE c[i] \in V
    OBVIOUS
  <2>1. i = n + 1 \/ i \in 1 .. n
    BY <1>1
  <2>2. 1 \in 1 .. n
    BY <1>1
  <2>. QED
    BY <1>1, <1>2, <2>1, <2>2
<1>5. \A i \in 1 .. n : c[i] = P[i] /\ c[i + 1] = Successor(P, i)
  <2>. SUFFICES ASSUME NEW i \in 1 .. n PROVE c[i + 1] = Successor(P, i)
    BY <1>2
  <2>1. CASE i = n
    BY <1>2, <2>1, SuccessorIs
  <2>2. CASE i < n
    <3>1. i + 1 \in 1 .. n
      BY <1>1, <2>2
    <3>. QED
      BY <1>2, <2>2, <3>1, SuccessorIs
  <2>. QED
    BY <1>1, <2>1, <2>2
<1>. QED
  BY <1>3, <1>4, <1>5 DEF c, n

\* Where the corners are inside.
LEMMA InnerIs ==
  ASSUME NEW V, NEW P \in Seq(V), Len(P) >= 1, NEW p
  PROVE  /\ Len(P) + 1 \in InnerOf(P, p) <=> 1 \in InnerOf(P, p)
         /\ \A i \in 1 .. Len(P) :
              /\ i \in InnerOf(P, p) <=> Inside(P[i], p) >= 0
              /\ i + 1 \in InnerOf(P, p) <=> Inside(Successor(P, i), p) >= 0
<1>1. Len(P) \in Nat /\ 1 \in 1 .. Len(P)
  OBVIOUS
<1>2. Corners(P)[Len(P) + 1] = P[1] /\ Corners(P)[1] = P[1]
  BY <1>1, RoundIs DEF IsRound
<1>3. \A i \in 1 .. Len(P) : i \in 1 .. Len(P) + 1 /\ i + 1 \in 1 .. Len(P) + 1
  BY <1>1
<1>4. \A i \in 1 .. Len(P) : Corners(P)[i] = P[i] /\ Corners(P)[i + 1] = Successor(P, i)
  BY RoundIs
<1>. QED
  BY <1>1, <1>2, <1>3, <1>4 DEF InnerOf

\* The loop of clip_frustum adds to what is left with one edge after the other.
LEMMA FrustumPasses ==
  ASSUME NEW P \in Seq(ClipSpace), Len(P) >= 3, NEW p \in 0 .. 5
  PROVE  \E g : /\ Passes(g, Len(P), Corners(P), Cuts(P, p), InnerOf(P, p))
                /\ ClipFrustum(P, p) = g[Len(P)]
                /\ \A i \in 0 .. Len(P) : g[i] \in Seq(ClipSpace)
<1>. DEFINE n == Len(P)
            c == Corners(P)
            m == Cuts(P, p)
            I == InnerOf(P, p)
            es == [i \in 1 .. n |-> EdgeClipped(P[i], Successor(P, i), p)]
<1>1. n \in Nat /\ n >= 1 /\ n # 1 /\ n # 2 /\ DOMAIN P = 1 .. n
  <2>1. Len(P) \in Nat /\ DOMAIN P = 1 .. Len(P)
    BY LenProperties
  <2>. QED
    BY <2>1
<1>2. \A i \in 1 .. n : P[i] \in ClipSpace /\ Successor(P, i) \in ClipSpace
  BY SuccessorIs
<1>3. \A i \in 1 .. n : m[i] = Meet(P[i], Successor(P, i), p)
  BY DEF Cuts
<1>4. \A i \in 1 .. n : Exits(i, I) \/ Enters(i, I) => m[i] \in ClipSpace
  <2>. SUFFICES ASSUME NEW i \in 1 .. n, Exits(i, I) \/ Enters(i, I) PROVE m[i] \in ClipSpace
    OBVIOUS
  <2>1. (Inside(P[i], p) >= 0) # (Inside(Successor(P, i), p) >= 0)
    BY <1>1, InnerIs DEF Exits, Enters
  <2>. QED
    BY <1>2, <1>3, <2>1, MeetIs DEF Crosses
<1>5. \A i \in 1 .. n : c[i + 1] = Successor(P, i)
  BY <1>1, RoundIs
<1>6. \A i \in 1 .. n : EdgeClipped(P[i], Successor(P, i), p)
                          = (IF (i \in I) # (i + 1 \in I) THEN <<m[i]>> ELSE <<>>)
                              \o (IF i + 1 \in I THEN <<c[i + 1]>> ELSE <<>>)
  <2>. SUFFICES ASSUME NEW i \in 1 .. n
                PROVE  EdgeClipped(P[i], Successor(P, i), p)
                         = (IF (i \in I) # (i + 1 \in I) THEN <<m[i]>> ELSE <<>>)
                             \o (IF i + 1 \in I THEN <<c[i + 1]>> ELSE <<>>)
    OBVIOUS
  <2>1. /\ i \in I <=> Inside(P[i], p) >= 0
        /\ i + 1 \in I <=> Inside(Successor(P, i), p) >= 0
    BY <1>1, InnerIs
  <2>2. m[i] = Meet(P[i], Successor(P, i), p) /\ c[i + 1] = Successor(P, i)
    BY <1>3, <1>5
  <2>. HIDE DEF I, m, c
  <2>. DEFINE a == i \in I
              b == i + 1 \in I
              w == Successor(P, i)
  <2>3. (Inside(P[i], p) >= 0) = a /\ (Inside(w, p) >= 0) = b
    BY <2>1
  <2>4. EdgeClipped(P[i], w, p)
          = (IF a # b THEN <<Meet(P[i], w, p)>> ELSE <<>>) \o (IF b THEN <<w>> ELSE <<>>)
    BY <2>3 DEF EdgeClipped
  <2>. QED
    BY <2>2, <2>4
<1>. HIDE DEF c, m, I, n
<1>7. ASSUME NEW i \in 1 .. n
      PROVE  /\ es[i] \in Seq(ClipSpace)
             /\ \A T \in Seq(ClipSpace) :
                  /\ Stays(i, I)  => T \o es[i] = Append(T, c[i + 1])
                  /\ Exits(i, I)  => T \o es[i] = Append(T, m[i])
                  /\ Enters(i, I) => T \o es[i] = Append(Append(T, m[i]), c[i + 1])
                  /\ i \notin I /\ i + 1 \notin I => T \o es[i] = T
  <2>1. es[i] = (IF (i \in I) # (i + 1 \in I) THEN <<m[i]>> ELSE <<>>)
                  \o (IF i + 1 \in I THEN <<c[i + 1]>> ELSE <<>>)
    BY <1>6
  <2>2. c[i + 1] \in ClipSpace
    BY <1>2, <1>5
  <2>. HIDE DEF es
  <2>3. CASE Stays(i, I)
    <3>1. es[i] = <<>> \o <<c[i + 1]>> /\ i \in I /\ i + 1 \in I
      BY <2>1, <2>3 DEF Stays
    <3>2. es[i] = <<c[i + 1]>>
      BY <2>2, <3>1
    <3>. QED
      BY <2>2, <3>1, <3>2 DEF Exits, Enters
  <2>4. CASE Exits(i, I)
    <3>1. es[i] = <<m[i]>> \o <<>> /\ i \in I /\ i + 1 \notin I
      BY <2>1, <2>4 DEF Exits
    <3>2. es[i] = <<m[i]>> /\ m[i] \in ClipSpace
      BY <1>4, <2>4, <3>1
    <3>. QED
      BY <3>1, <3>2 DEF Stays, Enters
  <2>5. CASE Enters(i, I)
    <3>1. es[i] = <<m[i]>> \o <<c[i + 1]>> /\ i \notin I /\ i + 1 \in I
      BY <2>1, <2>5 DEF Enters
    <3>2. m[i] \in ClipSpace
      BY <1>4, <2>5
    <3>3. ASSUME NEW x \in ClipSpace, NEW y \in ClipSpace
          PROVE  /\ <<x>> \o <<y>> \in Seq(ClipSpace)
                 /\ \A T \in Seq(ClipSpace) : T \o (<<x>> \o <<y>>) = Append(Append(T, x), y)
      <4>. DEFINE X == <<x>>
                  Y == <<y>>
      <4>1. X \in Seq(ClipSpace) /\ Y \in Seq(ClipSpace)
        OBVIOUS
      <4>2. \A T \in Seq(ClipSpace) : /\ T \o X = Append(T, x) /\ T \o X \in Seq(ClipSpace)
                                     /\ (T \o X) \o Y = Append(T \o X, y)
        <5>1. \A T \in Seq(ClipSpace) : T \o X = Append(T, x) /\ T \o Y = Append(T, y) /\ T \o X \in Seq(ClipSpace)
          OBVIOUS
        <5>. HIDE DEF X, Y
        <5>. QED
          BY <5>1
      <4>. HIDE DEF X, Y
      <4>3. X \o Y \in Seq(ClipSpace) /\ \A T \in Seq(ClipSpace) : T \o (X \o Y) = (T \o X) \o Y
        <5>1. X \o Y \in Seq(ClipSpace)
          BY <4>1, ConcatProperties
        <5>2. ASSUME NEW T \in Seq(ClipSpace) PROVE T \o (X \o Y) = (T \o X) \o Y
          <6>1. (T \o X) \o Y = T \o (X \o Y)
            BY <4>1, ConcatAssociative, SMTT(20)
          <6>. QED
            BY <6>1
        <5>. QED
          BY <5>1, <5>2
      <4>4. \A T \in Seq(ClipSpace) : T \o (X \o Y) = Append(Append(T, x), y)
        BY <4>2, <4>3
      <4>. QED
        BY <4>3, <4>4 DEF X, Y
    <3>. QED
      BY <2>2, <3>1, <3>2, <3>3 DEF Stays, Exits
  <2>6. CASE i \notin I /\ i + 1 \notin I
    <3>1. es[i] = <<>> \o <<>>
      BY <2>1, <2>6
    <3>2. es[i] = <<>>
      BY <3>1
    <3>. QED
      BY <2>6, <3>2 DEF Stays, Exits, Enters
  <2>. QED
    BY <2>3, <2>4, <2>5, <2>6 DEF Stays, Exits, Enters
<1>8. Len(es) = n
  BY <1>1
<1>9. ClipFrustum(P, p) = FlattenSeq(es)
  BY <1>1 DEF ClipFrustum, n
<1>. HIDE DEF es
<1>10. PICK g : /\ Joins(g, n, es) /\ FlattenSeq(es) = g[n]
                /\ \A i \in 0 .. n : g[i] \in Seq(ClipSpace)
  BY <1>1, <1>7, <1>8, FlattenIs
<1>11. Passes(g, n, c, m, I)
  <2>1. \A i \in 1 .. n : i - 1 \in 0 .. n
    BY <1>1
  <2>. QED
    BY <1>7, <1>10, <2>1 DEF Joins, Passes
<1>. QED
  BY <1>9, <1>10, <1>11 DEF n, c, m, I

\* The eye sees v on the polygon P, or on its edge.
Within(P, t, v) == \A i \in 1 .. Len(P) : t * Side(P[i], Successor(P, i), v) >= 0

\* Where there may be vertices after r planes.
Rest(q, t, r) ==
  {v \in ClipSpace : v \in Flat(q) /\ Within(q, t, v) /\ \A k \in 0 .. 5 : k < r => Inside(v, k) >= 0}

Inward(k) == {v \in ClipSpace : Inside(v, k) >= 0}

\* What is left of q after r planes is a convex polygon.
Shape(P, r, q, t) ==
  /\ P \in Seq(ClipSpace) /\ Len(P) >= 3
  /\ \A i \in 1 .. Len(P) : P[i] \in Rest(q, t, r) /\ Within(P, t, P[i])
  /\ \A k \in 0 .. 5 : OneArc(P, Inward(k))

\* The points U are off its edges, and if there are any it has an edge.
Looks(P, q, t, U) ==
  /\ \A i \in 1 .. Len(P) : \A u \in U : t * Side(P[i], Successor(P, i), u) > 0 \/ Same(q, P[i], Successor(P, i))
  /\ U # {} => \E e \in 1 .. Len(P) : ~ Same(q, P[e], Successor(P, e))

\* What the next plane p may leave: vertices, the points that stay in sight, and edges.
HullOf(P, q, t, p) == {v \in Rest(q, t, p) : Within(P, t, v)}
SeenOf(P, q, t, p) == {y \in Flat(q) : Inside(y, p) >= 0 /\ Within(P, t, y)}
EdgesOf(P, q, t, p, U) ==
  {e \in HullOf(P, q, t, p) \X HullOf(P, q, t, p) :
     Inside(e[1], p) >= 0 /\ Edge(q, t, SeenOf(P, q, t, p), U, e[1], e[2])}

\* A vertex between two within a polygon is within it.
LEMMA MeetWithin ==
  ASSUME NEW P \in Seq(ClipSpace), NEW t \in {1, -1}, NEW p,
         NEW v \in ClipSpace, NEW w \in ClipSpace, NEW m, Crosses(m, v, w, p), Within(P, t, v), Within(P, t, w)
  PROVE  Within(P, t, m)
<1>. SUFFICES ASSUME NEW i \in 1 .. Len(P) PROVE t * Side(P[i], Successor(P, i), m) >= 0
  BY DEF Within
<1>1. P[i] \in Coords /\ Successor(P, i) \in Coords
  BY SuccessorIs, ClipSpaceIs
<1>. QED
  BY <1>1, MeetSide DEF Within

\* So it may be left by the plane.
LEMMA MeetInHull ==
  ASSUME NEW q \in Seq(ClipSpace), Base(q), NEW t \in {1, -1}, NEW p \in 0 .. 5, NEW P \in Seq(ClipSpace),
         NEW v \in HullOf(P, q, t, p), NEW w \in HullOf(P, q, t, p), NEW m, Crosses(m, v, w, p)
  PROVE  m \in HullOf(P, q, t, p)
<1>1. /\ v \in ClipSpace /\ v \in Flat(q) /\ Within(q, t, v) /\ Within(P, t, v)
      /\ w \in ClipSpace /\ w \in Flat(q) /\ Within(q, t, w) /\ Within(P, t, w)
      /\ \A k \in 0 .. 5 : k < p => Inside(v, k) >= 0 /\ Inside(w, k) >= 0
  BY DEF HullOf, Rest
<1>2. m \in ClipSpace /\ m \in Flat(q)
  BY <1>1, MeetFlat DEF Crosses
<1>3. Within(q, t, m) /\ Within(P, t, m)
  BY <1>1, MeetWithin
<1>4. \A k \in 0 .. 5 : k < p => Inside(m, k) >= 0
  BY <1>1, MeetInside
<1>. QED
  BY <1>2, <1>3, <1>4 DEF HullOf, Rest

\* An edge of P, or a part of it, is as P is.
LEMMA EdgesAllowed ==
  ASSUME NEW q \in Seq(ClipSpace), Base(q), NEW t \in {1, -1}, NEW p \in 0 .. 5, NEW P, Shape(P, p, q, t),
         NEW U, U \subseteq Flat(q), \A u \in U : Inside(u, p) > 0, Looks(P, q, t, U)
  PROVE  Allowed(HullOf(P, q, t, p), EdgesOf(P, q, t, p, U), Len(P), Corners(P), Cuts(P, p), InnerOf(P, p))
<1>. DEFINE n == Len(P)
            c == Corners(P)
            m == Cuts(P, p)
            I == InnerOf(P, p)
            V == HullOf(P, q, t, p)
            Y == SeenOf(P, q, t, p)
            E == EdgesOf(P, q, t, p, U)
<1>1. P \in Seq(ClipSpace) /\ n \in Nat /\ n >= 1
  BY DEF Shape
<1>2. \A i \in 1 .. n : P[i] \in V
  BY DEF Shape, HullOf
<1>3. P \in Seq(V)
  <2>. HIDE DEF V
  <2>. QED
    BY <1>1, <1>2
<1>4. /\ \A i \in 1 .. n + 1 : c[i] \in V
      /\ \A i \in 1 .. n : c[i] = P[i] /\ c[i + 1] = Successor(P, i)
  <2>. HIDE DEF V
  <2>. QED
    BY <1>1, <1>3, RoundIs
<1>5. \A v \in V : v \in ClipSpace /\ v \in Flat(q) /\ Within(P, t, v)
  BY DEF HullOf, Rest
<1>6. \A i \in 1 .. n : /\ c[i] \in V /\ c[i + 1] \in V
                        /\ i \in I <=> Inside(c[i], p) >= 0
                        /\ i + 1 \in I <=> Inside(c[i + 1], p) >= 0
                        /\ m[i] = Meet(c[i], c[i + 1], p)
  <2>1. \A i \in 1 .. n : i \in 1 .. n + 1 /\ i + 1 \in 1 .. n + 1 /\ m[i] = Meet(P[i], Successor(P, i), p)
    BY <1>1 DEF Cuts
  <2>. QED
    BY <1>1, <1>4, <2>1, InnerIs
<1>7. \A i \in 1 .. n : Edge(q, t, Y, U, c[i], c[i + 1])
  <2>. SUFFICES ASSUME NEW i \in 1 .. n PROVE Edge(q, t, Y, U, P[i], Successor(P, i))
    BY <1>4
  <2>. QED
    BY DEF Edge, SeenOf, Within, Looks
<1>8. Y \subseteq Flat(q) /\ \A y \in Y : Inside(y, p) >= 0
  BY DEF SeenOf
<1>9. \A v, w \in V : <<v, w>> \in E <=> Inside(v, p) >= 0 /\ Edge(q, t, Y, U, v, w)
  BY DEF EdgesOf
<1>10. \A i \in 1 .. n : \A v \in V : t * Side(c[i], c[i + 1], v) >= 0
  BY <1>4, <1>5 DEF Within
<1>11. \A i \in 1 .. n : Exits(i, I) \/ Enters(i, I) => Crosses(m[i], c[i], c[i + 1], p)
  <2>. SUFFICES ASSUME NEW i \in 1 .. n, Exits(i, I) \/ Enters(i, I) PROVE Crosses(m[i], c[i], c[i + 1], p)
    OBVIOUS
  <2>1. (Inside(c[i], p) >= 0) # (Inside(c[i + 1], p) >= 0)
    BY <1>6 DEF Exits, Enters
  <2>2. c[i] \in ClipSpace /\ c[i + 1] \in ClipSpace
    BY <1>5, <1>6
  <2>3. Crosses(Meet(c[i], c[i + 1], p), c[i], c[i + 1], p)
    BY <2>1, <2>2, MeetIs
  <2>. QED
    BY <1>6, <2>3
<1>. HIDE DEF V, Y, E, c, m, I, n
<1>12. \A i \in 1 .. n : Exits(i, I) \/ Enters(i, I) => m[i] \in V /\ Inside(m[i], p) >= 0
  <2>1. \A i \in 1 .. n : Exits(i, I) \/ Enters(i, I) => m[i] \in V
    BY <1>1, <1>6, <1>11, MeetInHull DEF V
  <2>2. \A i \in 1 .. n : Exits(i, I) \/ Enters(i, I) => Inside(m[i], p) = 0
    BY <1>11 DEF Crosses
  <2>. QED
    BY <2>1, <2>2
<1>13. ASSUME NEW i \in 1 .. n, Stays(i, I) PROVE <<c[i], c[i + 1]>> \in E
  BY <1>6, <1>7, <1>9, <1>13 DEF Stays
<1>14. \A i \in 1 .. n : Exits(i, I) \/ Enters(i, I) =>
          Edge(q, t, Y, U, c[i], m[i]) /\ Edge(q, t, Y, U, m[i], c[i + 1])
  BY <1>5, <1>6, <1>7, <1>8, <1>11, CutEdge
<1>15. ASSUME NEW i \in 1 .. n, Exits(i, I) PROVE <<c[i], m[i]>> \in E
  BY <1>6, <1>9, <1>12, <1>14, <1>15 DEF Exits
<1>16. ASSUME NEW i \in 1 .. n, Enters(i, I) PROVE <<m[i], c[i + 1]>> \in E
  BY <1>6, <1>9, <1>12, <1>14, <1>16 DEF Enters
<1>17. ASSUME NEW a \in 1 .. n, NEW b \in 1 .. n, Exits(a, I), Enters(b, I) PROVE <<m[a], m[b]>> \in E
  <2>1. m[a] \in V /\ m[b] \in V /\ Inside(m[a], p) >= 0
    BY <1>12, <1>17
  <2>2. Inside(c[a + 1], p) < 0
    <3>1. c[a + 1] \in Coords /\ ~ (Inside(c[a + 1], p) >= 0)
      BY <1>5, <1>6, <1>17, ClipSpaceIs DEF Exits
    <3>. QED
      BY <3>1, InsideInt
  <2>3. /\ Crosses(m[a], c[a], c[a + 1], p) /\ Crosses(m[b], c[b], c[b + 1], p)
        /\ t * Side(c[a], c[a + 1], c[b]) >= 0 /\ t * Side(c[a], c[a + 1], c[b + 1]) >= 0
    BY <1>6, <1>10, <1>11, <1>17
  <2>4. /\ c[a] \in ClipSpace /\ c[a + 1] \in ClipSpace /\ c[b] \in ClipSpace /\ c[b + 1] \in ClipSpace
        /\ c[a] \in Flat(q) /\ c[a + 1] \in Flat(q) /\ c[b] \in Flat(q) /\ c[b + 1] \in Flat(q)
    BY <1>5, <1>6
  <2>5. Edge(q, t, Y, U, m[a], m[b])
    BY <1>8, <2>2, <2>3, <2>4, NewEdge
  <2>. QED
    BY <1>9, <2>1, <2>5
<1>18. Allowed(V, E, n, c, m, I)
  BY <1>4, <1>12, <1>13, <1>15, <1>16, <1>17 DEF Allowed
<1>. QED
  BY <1>18 DEF V, E, n, c, m, I

\* The points are within, and off every edge that has a length.
LEMMA SideFromLooks ==
  ASSUME NEW q, Base(q), NEW t \in {1, -1}, NEW P \in Seq(ClipSpace), NEW U, U \subseteq Flat(q), Looks(P, q, t, U),
         NEW u \in U
  PROVE  Within(P, t, u) /\ \A i \in 1 .. Len(P) : ~ Same(q, P[i], Successor(P, i))
                                                     => t * Side(P[i], Successor(P, i), u) > 0
<1>1. \A i \in 1 .. Len(P) : t * Side(P[i], Successor(P, i), u) > 0 \/ Same(q, P[i], Successor(P, i))
  BY DEF Looks
<1>2. \A i \in 1 .. Len(P) : t * Side(P[i], Successor(P, i), u) >= 0
  <2>. SUFFICES ASSUME NEW i \in 1 .. Len(P) PROVE t * Side(P[i], Successor(P, i), u) >= 0
    OBVIOUS
  <2>1. CASE Same(q, P[i], Successor(P, i))
    BY <2>1 DEF Same
  <2>2. P[i] \in Coords /\ Successor(P, i) \in Coords /\ u \in Coords
    BY SuccessorIs, ClipSpaceIs DEF Flat
  <2>3. CASE t * Side(P[i], Successor(P, i), u) > 0
    BY <2>2, <2>3, SideIs
  <2>. QED
    BY <1>1, <2>1, <2>3
<1>. QED
  BY <1>1, <1>2 DEF Within

\* The vertices that a plane leaves, and their edges.
LEMMA FrustumEdges ==
  ASSUME NEW q \in Seq(ClipSpace), Base(q), NEW t \in {1, -1}, NEW p \in 0 .. 5, NEW P, Shape(P, p, q, t),
         NEW U, U \subseteq Flat(q), \A u \in U : Inside(u, p) > 0, Looks(P, q, t, U)
  PROVE  /\ ClipFrustum(P, p) \in Seq(ClipSpace)
         /\ \A j \in 1 .. Len(ClipFrustum(P, p)) :
              <<ClipFrustum(P, p)[j], Successor(ClipFrustum(P, p), j)>> \in EdgesOf(P, q, t, p, U)
<1>. DEFINE n == Len(P)
<1>1. P \in Seq(ClipSpace) /\ n \in Nat /\ n >= 3 /\ n >= 1
  BY DEF Shape
<1>2. PICK g : /\ Passes(g, n, Corners(P), Cuts(P, p), InnerOf(P, p))
               /\ ClipFrustum(P, p) = g[n]
               /\ \A i \in 0 .. n : g[i] \in Seq(ClipSpace)
  BY <1>1, FrustumPasses
<1>3. Allowed(HullOf(P, q, t, p), EdgesOf(P, q, t, p, U), n, Corners(P), Cuts(P, p), InnerOf(P, p))
  BY EdgesAllowed
<1>4. Corners(P)[n + 1] = Corners(P)[1]
  <2>1. 1 \in 1 .. n
    BY <1>1
  <2>. QED
    BY <1>1, <2>1, RoundIs DEF IsRound
<1>5. n + 1 \in InnerOf(P, p) <=> 1 \in InnerOf(P, p)
  BY <1>1, InnerIs
<1>6. n \in 0 .. n
  BY <1>1
<1>. HIDE DEF n
<1>. QED
  BY <1>1, <1>2, <1>3, <1>4, <1>5, <1>6, ChainCloses

\* How many vertices there are then.
LEMMA FrustumLength ==
  ASSUME NEW P \in Seq(ClipSpace), Len(P) >= 3, NEW p \in 0 .. 5, OneArc(P, Inward(p))
  PROVE  /\ Len(ClipFrustum(P, p)) \in Nat
         /\ Len(ClipFrustum(P, p)) <= Len(P) + 1
         /\ Len(ClipFrustum(P, p)) >= 3 \/ (ClipFrustum(P, p) = <<>> /\ \A i \in 1 .. Len(P) : Inside(P[i], p) < 0)
<1>. DEFINE n == Len(P)
            I == InnerOf(P, p)
            R == ClipFrustum(P, p)
<1>1. n \in Nat /\ n >= 3 /\ n >= 1
  OBVIOUS
<1>2. PICK g : /\ Passes(g, n, Corners(P), Cuts(P, p), I) /\ R = g[n]
               /\ \A i \in 0 .. n : g[i] \in Seq(ClipSpace)
  BY FrustumPasses
<1>3. \A i \in 1 .. n : i \in I <=> Inside(P[i], p) >= 0
  BY <1>1, InnerIs
<1>4. n + 1 \in I <=> 1 \in I
  BY <1>1, InnerIs
<1>5. IsRound(Corners(P), P)
  BY <1>1, RoundIs
<1>6. \A i \in 1 .. n + 1 : i \in I <=> Corners(P)[i] \in Inward(p)
  <2>1. \A i \in 1 .. n + 1 : Corners(P)[i] \in ClipSpace
    BY <1>1, RoundIs
  <2>. QED
    BY <2>1 DEF InnerOf, Inward
<1>. HIDE DEF I, n, R
<1>7. \A a, b \in 1 .. n : Enters(a, I) /\ Enters(b, I) => a = b
  <2>. SUFFICES ASSUME NEW a \in 1 .. n, NEW b \in 1 .. n, Enters(a, I), Enters(b, I), a < b PROVE FALSE
    <3>1. \A a, b \in 1 .. n : a < b \/ b < a \/ a = b
      BY <1>1
    <3>. QED
      BY <3>1
  <2>. QED
    BY <1>1, <1>5, <1>6, OneEntry DEF n
<1>8. LenOK(R, n, I)
  BY <1>1, <1>2, <1>7, PassLength
<1>9. Len(R) \in Nat /\ Len(R) <= n + 1
  BY <1>1, <1>8 DEF LenOK
<1>10. CASE \A i \in 1 .. n : i \in I
  <2>1. \A i \in 1 .. n : i + 1 \in 1 .. n \/ i = n
    BY <1>1
  <2>2. 1 \in 1 .. n
    BY <1>1
  <2>3. \A i \in 1 .. n : Stays(i, I)
    BY <1>4, <1>10, <2>1, <2>2 DEF Stays
  <2>4. Len(R) = n
    BY <1>8, <2>3 DEF LenOK
  <2>. QED
    BY <1>1, <1>9, <2>4 DEF n, R
<1>11. CASE \A i \in 1 .. n : i \notin I
  <2>1. \A i \in 1 .. n + 1 : i \in 1 .. n \/ i = n + 1
    BY <1>1
  <2>2. 1 \in 1 .. n
    BY <1>1
  <2>3. \A i \in 1 .. n + 1 : i \notin I
    BY <1>4, <1>11, <2>1, <2>2
  <2>4. R = <<>>
    BY <1>8, <2>3 DEF LenOK
  <2>5. \A i \in 1 .. n : Inside(P[i], p) < 0
    <3>. SUFFICES ASSUME NEW i \in 1 .. n PROVE Inside(P[i], p) < 0
      OBVIOUS
    <3>1. P[i] \in Coords
      BY ClipSpaceIs DEF n
    <3>2. ~ (Inside(P[i], p) >= 0)
      BY <1>3, <1>11
    <3>. QED
      BY <3>1, <3>2, InsideInt
  <2>. QED
    BY <1>9, <2>4, <2>5 DEF n, R
<1>12. CASE (\E i \in 1 .. n : i \in I) /\ (\E j \in 1 .. n : j \notin I)
  <2>1. Came(n, I) /\ Went(n, I)
    BY <1>1, <1>4, <1>12, ComesAndGoes
  <2>2. Len(R) >= 3
    BY <1>8, <2>1 DEF LenOK
  <2>. QED
    BY <1>9, <2>2 DEF n, R
<1>. QED
  BY <1>10, <1>11, <1>12

\* Nor does it come in twice through any plane.
LEMMA FrustumArcs ==
  ASSUME NEW P \in Seq(ClipSpace), Len(P) >= 3, NEW p \in 0 .. 5, NEW k \in 0 .. 5, OneArc(P, Inward(k)),
         ClipFrustum(P, p) \in Seq(ClipSpace)
  PROVE  OneArc(ClipFrustum(P, p), Inward(k))
<1>. DEFINE n == Len(P)
            c == Corners(P)
            m == Cuts(P, p)
            I == InnerOf(P, p)
            R == ClipFrustum(P, p)
<1>1. n \in Nat /\ n >= 3 /\ n >= 1
  OBVIOUS
<1>2. PICK g : /\ Passes(g, n, c, m, I) /\ R = g[n]
               /\ \A i \in 0 .. n : g[i] \in Seq(ClipSpace)
  BY FrustumPasses
<1>3. \A i \in 1 .. n : /\ c[i] = P[i] /\ c[i + 1] = Successor(P, i)
                        /\ c[i] \in ClipSpace /\ c[i + 1] \in ClipSpace
                        /\ m[i] = Meet(c[i], c[i + 1], p)
                        /\ i \in I <=> Inside(c[i], p) >= 0
                        /\ i + 1 \in I <=> Inside(c[i + 1], p) >= 0
  <2>1. \A i \in 1 .. n : c[i] = P[i] /\ c[i + 1] = Successor(P, i)
    BY <1>1, RoundIs
  <2>2. \A i \in 1 .. n : P[i] \in ClipSpace /\ Successor(P, i) \in ClipSpace
    BY SuccessorIs
  <2>3. \A i \in 1 .. n : m[i] = Meet(P[i], Successor(P, i), p)
    BY DEF Cuts
  <2>4. \A i \in 1 .. n : /\ i \in I <=> Inside(P[i], p) >= 0
                          /\ i + 1 \in I <=> Inside(Successor(P, i), p) >= 0
    BY <1>1, InnerIs
  <2>. HIDE DEF c, m, I
  <2>. QED
    BY <2>1, <2>2, <2>3, <2>4
<1>4. IsRound(c, P)
  BY <1>1, RoundIs
<1>. HIDE DEF c, m, I, R
<1>5. \A i \in 1 .. n : Exits(i, I) \/ Enters(i, I) =>
         /\ m[i] \in ClipSpace
         /\ (m[i] \in Inward(k) <=> c[i] \in Inward(k)) \/ (m[i] \in Inward(k) <=> c[i + 1] \in Inward(k))
  <2>. SUFFICES ASSUME NEW i \in 1 .. n, Exits(i, I) \/ Enters(i, I)
                PROVE  /\ m[i] \in ClipSpace
                       /\ (m[i] \in Inward(k) <=> c[i] \in Inward(k)) \/ (m[i] \in Inward(k) <=> c[i + 1] \in Inward(k))
    OBVIOUS
  <2>1. c[i] \in ClipSpace /\ c[i + 1] \in ClipSpace /\ (Inside(c[i], p) >= 0) # (Inside(c[i + 1], p) >= 0)
    BY <1>3 DEF Exits, Enters
  <2>2. Crosses(m[i], c[i], c[i + 1], p)
    BY <1>3, <2>1, MeetIs
  <2>3. m[i] \in ClipSpace
    BY <2>2 DEF Crosses
  <2>4. /\ Inside(m[i], k) \in Int
        /\ Inside(c[i], k) >= 0 /\ Inside(c[i + 1], k) >= 0 => Inside(m[i], k) >= 0
        /\ Inside(c[i], k) < 0 /\ Inside(c[i + 1], k) < 0 => Inside(m[i], k) < 0
    BY <2>1, <2>2, MeetInside
  <2>5. Inside(c[i], k) \in Int /\ Inside(c[i + 1], k) \in Int
    BY <2>1, ClipSpaceIs, InsideInt
  <2>6. /\ m[i] \in Inward(k) <=> Inside(m[i], k) >= 0
        /\ c[i] \in Inward(k) <=> Inside(c[i], k) >= 0
        /\ c[i + 1] \in Inward(k) <=> Inside(c[i + 1], k) >= 0
    BY <2>1, <2>3 DEF Inward
  <2>. QED
    BY <2>3, <2>4, <2>5, <2>6
<1>6. Follows(g[n], n + 1, c, Inward(k))
  BY <1>1, <1>2, <1>3, <1>5, PassFollows
<1>7. Len(R) \in Nat
  BY DEF R
<1>8. OneArc(R, Inward(k))
  BY <1>1, <1>2, <1>4, <1>6, <1>7, FollowsArc
<1>. QED
  BY <1>8 DEF R

\* If a point is to be seen, then there is something left to see it on.
LEMMA FrustumReaches ==
  ASSUME NEW q \in Seq(ClipSpace), Base(q), NEW t \in {1, -1}, NEW p \in 0 .. 5, NEW P, Shape(P, p, q, t),
         NEW U, U \subseteq Flat(q), U \subseteq ClipSpace, \A u \in U : Inside(u, p) > 0, Looks(P, q, t, U), U # {}
  PROVE  \E i \in 1 .. Len(P) : Inside(P[i], p) > 0
<1>1. P \in Seq(ClipSpace) /\ \A i \in 1 .. Len(P) : P[i] \in Flat(q)
  BY DEF Shape, Rest
<1>2. PICK u \in U : TRUE
  OBVIOUS
<1>3. PICK e \in 1 .. Len(P) : ~ Same(q, P[e], Successor(P, e))
  BY DEF Looks
<1>4. Within(P, t, u) /\ t * Side(P[e], Successor(P, e), u) > 0
  BY <1>1, <1>3, SideFromLooks
<1>5. \A i \in 1 .. Len(P) : t * Side(P[i], Successor(P, i), u) >= 0
  BY <1>4 DEF Within
<1>. QED
  BY <1>1, <1>4, <1>5, ReachesInside

\* Where a corner is really inside, an edge with a length remains: either all of them do, or the
\* one that goes out ends on the plane, and not all that is left is there.
LEMMA FrustumKeepsEdge ==
  ASSUME NEW q \in Seq(ClipSpace), Base(q), NEW t \in {1, -1}, NEW p \in 0 .. 5, NEW P, Shape(P, p, q, t),
         NEW e \in 1 .. Len(P), ~ Same(q, P[e], Successor(P, e)),
         NEW b \in 1 .. Len(P), Inside(P[b], p) > 0,
         NEW R, R = ClipFrustum(P, p), R \in Seq(ClipSpace), \A j \in 1 .. Len(R) : R[j] \in Flat(q)
  PROVE  \E j \in 1 .. Len(R) : ~ Same(q, R[j], Successor(R, j))
<1>. DEFINE n == Len(P)
            c == Corners(P)
            m == Cuts(P, p)
            I == InnerOf(P, p)
<1>1. P \in Seq(ClipSpace) /\ n \in Nat /\ n >= 3 /\ n >= 1 /\ n \in 1 .. n /\ 1 \in 1 .. n
  BY DEF Shape
<1>2. PICK g : /\ Passes(g, n, c, m, I) /\ R = g[n]
               /\ \A i \in 0 .. n : g[i] \in Seq(ClipSpace)
  BY <1>1, FrustumPasses
<1>3. /\ c[n + 1] = P[1]
      /\ \A i \in 1 .. n : /\ c[i] = P[i] /\ c[i + 1] = Successor(P, i)
                           /\ c[i] \in ClipSpace /\ c[i + 1] \in ClipSpace
                           /\ m[i] = Meet(c[i], c[i + 1], p)
                           /\ i \in I <=> Inside(c[i], p) >= 0
                           /\ i + 1 \in I <=> Inside(c[i + 1], p) >= 0
  <2>1. c[n + 1] = P[1] /\ \A i \in 1 .. n : c[i] = P[i] /\ c[i + 1] = Successor(P, i)
    BY <1>1, RoundIs DEF IsRound
  <2>2. \A i \in 1 .. n : P[i] \in ClipSpace /\ Successor(P, i) \in ClipSpace
    BY <1>1, SuccessorIs
  <2>3. \A i \in 1 .. n : m[i] = Meet(P[i], Successor(P, i), p)
    BY DEF Cuts
  <2>4. \A i \in 1 .. n : /\ i \in I <=> Inside(P[i], p) >= 0
                          /\ i + 1 \in I <=> Inside(Successor(P, i), p) >= 0
    BY <1>1, InnerIs
  <2>. HIDE DEF c, m, I
  <2>. QED
    BY <2>1, <2>2, <2>3, <2>4
<1>4. n + 1 \in I <=> 1 \in I
  BY <1>1, InnerIs
<1>. HIDE DEF c, m, I
<1>5. \A i \in 1 .. n : Exits(i, I) \/ Enters(i, I) => Crosses(m[i], c[i], c[i + 1], p)
  <2>. SUFFICES ASSUME NEW i \in 1 .. n, Exits(i, I) \/ Enters(i, I) PROVE Crosses(m[i], c[i], c[i + 1], p)
    OBVIOUS
  <2>1. (Inside(c[i], p) >= 0) # (Inside(c[i + 1], p) >= 0)
    BY <1>3 DEF Exits, Enters
  <2>2. c[i] \in ClipSpace /\ c[i + 1] \in ClipSpace /\ m[i] = Meet(c[i], c[i + 1], p)
    BY <1>3
  <2>. QED
    BY <2>1, <2>2, MeetIs
<1>6. \A i \in 1 .. n : Enters(i, I) => m[i] \in ClipSpace
  BY <1>5 DEF Crosses
<1>7. Len(R) \in Nat
  OBVIOUS
<1>8. CASE \A i \in 1 .. n : i \in I
  <2>1. \A i \in 1 .. n : i + 1 \in 1 .. n \/ i = n
    BY <1>1
  <2>2. \A i \in 1 .. n : Stays(i, I)
    BY <1>1, <1>4, <1>8, <2>1 DEF Stays
  <2>. HIDE DEF n
  <2>3. Len(R) = n /\ \A j \in 1 .. n : R[j] = c[j + 1]
    <3>1. \A i \in 1 .. n : c[i + 1] \in ClipSpace
      BY <1>3
    <3>2. Len(g[n]) = n /\ \A j \in 1 .. n : g[n][j] = c[j + 1]
      BY <1>1, <1>2, <2>2, <3>1, AllStay
    <3>. QED
      BY <1>2, <3>2
  <2>4. CASE e = 1
    <3>1. R[n] = P[1] /\ Successor(R, n) = R[1] /\ R[1] = Successor(P, 1)
      BY <1>1, <1>3, <2>3, SuccessorIs
    <3>. QED
      BY <1>1, <2>3, <2>4, <3>1
  <2>5. CASE e # 1
    <3>1. e \in 1 .. n /\ e - 1 \in 1 .. n /\ e - 1 < n /\ (e - 1) + 1 = e
      BY <1>1, <2>5 DEF n
    <3>2. R[e - 1] = c[e] /\ Successor(R, e - 1) = R[e] /\ R[e] = c[e + 1]
      <4>1. R[e - 1] = c[(e - 1) + 1] /\ R[e] = c[e + 1]
        BY <2>3, <3>1
      <4>2. Successor(R, e - 1) = R[(e - 1) + 1]
        BY <2>3, <3>1, SuccessorIs
      <4>. QED
        BY <3>1, <4>1, <4>2
    <3>. QED
      BY <1>3, <2>3, <3>1, <3>2
  <2>. QED
    BY <2>4, <2>5
<1>9. CASE \E i \in 1 .. n : i \notin I
  <2>. SUFFICES ASSUME \A j \in 1 .. Len(R) : Same(q, R[j], Successor(R, j)) PROVE FALSE
    OBVIOUS
  <2>1. b \in I /\ b \in 1 .. n
    <3>1. P[b] \in Coords
      BY <1>1, ClipSpaceIs
    <3>2. Inside(P[b], p) \in Int
      BY <3>1, InsideInt
    <3>3. b \in 1 .. n /\ Inside(P[b], p) >= 0
      BY <3>2 DEF n
    <3>. HIDE DEF n
    <3>. QED
      BY <1>3, <3>3
  <2>. HIDE DEF n
  <2>2. PICK a \in 1 .. n : Exits(a, I)
    BY <1>1, <1>4, <1>9, <2>1, ComesAndGoes DEF Went
  <2>3. Has(R, m[a]) /\ Inside(m[a], p) = 0
    BY <1>1, <1>2, <1>5, <1>6, <2>2, PassHas DEF Crosses
  <2>4. Has(R, P[b])
    <3>1. CASE b = 1
      <4>1. n + 1 \in I /\ c[n + 1] = P[b]
        BY <1>3, <1>4, <2>1, <3>1
      <4>. QED
        BY <1>1, <1>2, <1>6, <4>1, PassHas
    <3>2. CASE b # 1
      <4>1. b - 1 \in 1 .. n /\ (b - 1) + 1 = b
        BY <1>1, <2>1, <3>2
      <4>2. \A i \in 1 .. n : i + 1 \in I => Has(g[n], c[i + 1])
        BY <1>1, <1>2, <1>6, PassHas
      <4>3. (b - 1) + 1 \in I => Has(R, c[(b - 1) + 1])
        BY <1>2, <4>1, <4>2
      <4>. QED
        BY <1>3, <2>1, <4>1, <4>3
    <3>. QED
      BY <3>1, <3>2
  <2>. DEFINE N == Len(R)
              d == Corners(R)
              J == {i \in 1 .. N + 1 : Inside(d[i], p) > 0}
  <2>5. PICK x \in 1 .. N, y \in 1 .. N : R[x] = m[a] /\ R[y] = P[b]
    BY <2>3, <2>4 DEF Has
  <2>6. N \in Nat /\ N >= 1 /\ 1 \in 1 .. N + 1
    BY <1>7, <2>5
  <2>7. d[N + 1] = R[1] /\ \A i \in 1 .. N : d[i] = R[i] /\ d[i + 1] = Successor(R, i)
    BY <2>6, RoundIs DEF IsRound
  <2>8. \A i \in 1 .. N : i \in 1 .. N + 1 /\ i + 1 \in 1 .. N + 1
    <3>1. \A k \in Nat : \A i \in 1 .. k : i \in 1 .. k + 1 /\ i + 1 \in 1 .. k + 1
      OBVIOUS
    <3>. QED
      BY <2>6, <3>1
  <2>9. y \in J /\ x \notin J
    <3>1. y \in 1 .. N + 1 /\ d[y] = P[b] /\ d[x] = m[a]
      BY <2>5, <2>7, <2>8
    <3>2. Inside(d[y], p) > 0 /\ Inside(d[x], p) = 0
      BY <2>3, <3>1
    <3>. HIDE DEF d, N
    <3>. QED
      BY <3>1, <3>2
  <2>10. \A i \in 1 .. N : R[i] \in ClipSpace /\ Successor(R, i) \in ClipSpace /\ Successor(R, i) \in Flat(q)
    <3>1. R \in Seq({v \in ClipSpace : v \in Flat(q)})
      <4>1. \A i \in 1 .. N : R[i] \in {v \in ClipSpace : v \in Flat(q)}
        OBVIOUS
      <4>. QED
        BY <4>1
    <3>. QED
      BY <3>1, SuccessorIs
  <2>11. \A i \in 1 .. N : Inside(R[i], p) > 0 <=> Inside(Successor(R, i), p) > 0
    BY <2>10, SameSign
  <2>12. (\A i \in 1 .. N : i \in J => i + 1 \in J) /\ (N + 1 \in J => 1 \in J)
    <3>1. \A i \in 1 .. N : i \in J => i + 1 \in J
      BY <2>7, <2>8, <2>11
    <3>2. d[1] = R[1]
      BY <2>6, <2>7
    <3>. QED
      BY <2>6, <2>7, <3>1, <3>2
  <2>. HIDE DEF J, N, d
  <2>. QED
    BY <2>6, <2>9, <2>12, AllAround
<1>. QED
  BY <1>8, <1>9

\* A plane leaves a convex polygon, in which every point is seen that was.
LEMMA FrustumShape ==
  ASSUME NEW q \in Seq(ClipSpace), Base(q), NEW t \in {1, -1}, NEW p \in 0 .. 5, NEW P, Shape(P, p, q, t),
         NEW U, U \subseteq Flat(q), U \subseteq ClipSpace, \A u \in U : Inside(u, p) > 0, Looks(P, q, t, U)
  PROVE  /\ Len(ClipFrustum(P, p)) <= Len(P) + 1
         /\ \/ ClipFrustum(P, p) = <<>> /\ U = {}
            \/ Shape(ClipFrustum(P, p), p + 1, q, t) /\ Looks(ClipFrustum(P, p), q, t, U)
<1>. DEFINE R == ClipFrustum(P, p)
            Y == SeenOf(P, q, t, p)
            V == HullOf(P, q, t, p)
<1>1. P \in Seq(ClipSpace) /\ Len(P) >= 3 /\ \A k \in 0 .. 5 : OneArc(P, Inward(k))
  BY DEF Shape
<1>2. /\ R \in Seq(ClipSpace)
      /\ \A j \in 1 .. Len(R) : <<R[j], Successor(R, j)>> \in EdgesOf(P, q, t, p, U)
  BY FrustumEdges
<1>3. /\ Len(R) <= Len(P) + 1
      /\ Len(R) >= 3 \/ (R = <<>> /\ \A i \in 1 .. Len(P) : Inside(P[i], p) < 0)
  BY <1>1, FrustumLength
<1>. HIDE DEF R
<1>4. \A j \in 1 .. Len(R) : R[j] \in V /\ Inside(R[j], p) >= 0 /\ Edge(q, t, Y, U, R[j], Successor(R, j))
  BY <1>2 DEF EdgesOf
<1>5. CASE R = <<>> /\ \A i \in 1 .. Len(P) : Inside(P[i], p) < 0
  <2>. SUFFICES ASSUME U # {} PROVE FALSE
    BY <1>3, <1>5 DEF R
  <2>1. PICK i \in 1 .. Len(P) : Inside(P[i], p) > 0
    BY FrustumReaches
  <2>2. P[i] \in Coords
    BY <1>1, ClipSpaceIs
  <2>. QED
    BY <1>5, <2>1, <2>2, InsideInt
<1>6. CASE Len(R) >= 3
  <2>1. \A j \in 1 .. Len(R) : R[j] \in Rest(q, t, p + 1)
    <3>. SUFFICES ASSUME NEW j \in 1 .. Len(R) PROVE R[j] \in Rest(q, t, p + 1)
      OBVIOUS
    <3>1. \A k \in 0 .. 5 : k < p + 1 => k < p \/ k = p
      OBVIOUS
    <3>. QED
      BY <1>4, <3>1 DEF HullOf, Rest
  <2>2. \A j \in 1 .. Len(R) : R[j] \in Y
    BY <1>4 DEF HullOf, SeenOf, Rest
  <2>3. \A j \in 1 .. Len(R) : Within(R, t, R[j])
    BY <1>4, <2>2 DEF Within, Edge
  <2>4. \A k \in 0 .. 5 : OneArc(R, Inward(k))
    BY <1>1, <1>2, FrustumArcs DEF R
  <2>5. Shape(R, p + 1, q, t)
    BY <1>2, <1>6, <2>1, <2>3, <2>4 DEF Shape
  <2>6. \A j \in 1 .. Len(R) : R[j] \in Flat(q)
    BY <1>4 DEF HullOf, Rest
  <2>7. U # {} => \E j \in 1 .. Len(R) : ~ Same(q, R[j], Successor(R, j))
    <3>. SUFFICES ASSUME U # {} PROVE \E j \in 1 .. Len(R) : ~ Same(q, R[j], Successor(R, j))
      OBVIOUS
    <3>1. PICK b \in 1 .. Len(P) : Inside(P[b], p) > 0
      BY FrustumReaches
    <3>2. PICK e \in 1 .. Len(P) : ~ Same(q, P[e], Successor(P, e))
      BY DEF Looks
    <3>. QED
      BY <1>2, <2>6, <3>1, <3>2, FrustumKeepsEdge DEF R
  <2>8. Looks(R, q, t, U)
    BY <1>4, <2>7 DEF Looks, Edge
  <2>. QED
    BY <1>3, <2>5, <2>8 DEF R
<1>. QED
  BY <1>3, <1>5, <1>6

-----------------------------------------------------------------------------
(* The polygons that are drawn.                                             *)

\* A polygon of three or four corners that turns to the side t.
Turning(q, t) ==
  /\ q \in Seq(ClipSpace) /\ Len(q) \in {3, 4} /\ Base(q) /\ t \in {1, -1}
  /\ t * Side(q[1], q[2], q[3]) > 0
  /\ \A i \in 1 .. Len(q) : q[i] \in Flat(q) /\ Within(q, t, q[i])

\* What the eye sees in a polygon is within it.
LEMMA CoversIs ==
  ASSUME NEW P \in Seq(ClipSpace), NEW t, NEW v
  PROVE  Covers(P, t, v) <=> P # <<>> /\ Within(P, t, v)
<1>1. DOMAIN P = 1 .. Len(P)
  BY LenProperties
<1>. QED
  BY <1>1 DEF Covers, Within

\* So are the polygons that are drawn.
LEMMA TurningIs ==
  ASSUME NEW q \in Polygons
  PROVE  Turning(q, Turn3(q)) /\ DOMAIN q = 1 .. Len(q)
<1>1. q \in Seq(ClipSpace) /\ Len(q) \in {3, 4} /\ Side(q[1], q[2], q[3]) # 0
  BY ClipAssumption
<1>2. DOMAIN q = 1 .. Len(q)
  BY <1>1, LenProperties
<1>3. 1 \in 1 .. Len(q) /\ 2 \in 1 .. Len(q) /\ 3 \in 1 .. Len(q)
  BY <1>1
<1>4. \A i \in 1 .. Len(q) : q[i] \in ClipSpace
  BY <1>1
<1>5. Base(q)
  BY <1>1, <1>3, <1>4 DEF Base
<1>6. Turn3(q) \in {1, -1} /\ Turn3(q) * Side(q[1], q[2], q[3]) > 0
  <2>. DEFINE s == Side(q[1], q[2], q[3])
  <2>1. s \in Int /\ s # 0
    BY <1>1, <1>3, <1>4, ClipSpaceIs, SideIs
  <2>. HIDE DEF s
  <2>2. (IF s > 0 THEN 1 ELSE -1) \in {1, -1} /\ (IF s > 0 THEN 1 ELSE -1) * s > 0
    BY <2>1
  <2>. QED
    BY <2>2 DEF Turn3, s
<1>7. \A i \in 1 .. Len(q) : q[i] \in Flat(q) /\ Within(q, Turn3(q), q[i])
  <2>. SUFFICES ASSUME NEW i \in 1 .. Len(q) PROVE q[i] \in Flat(q) /\ Within(q, Turn3(q), q[i])
    OBVIOUS
  <2>1. Covers(q, Turn3(q), q[i]) /\ Interpolated(q, q[i])
    BY <1>2, ClipAssumption
  <2>2. q[i] \in Coords
    BY <1>4, ClipSpaceIs
  <2>. QED
    BY <1>1, <2>1, <2>2, CoversIs DEF Flat
<1>. QED
  BY <1>1, <1>2, <1>5, <1>6, <1>7 DEF Turning

\* The sides of the corners of a quadrangle.
LEMMA QuadSides ==
  ASSUME NEW q, NEW t, Turning(q, t), Len(q) = 4
  PROVE  /\ q[1] \in Coords /\ q[2] \in Coords /\ q[3] \in Coords /\ q[4] \in Coords
         /\ t * Side(q[2], q[3], q[4]) >= 0 /\ t * Side(q[1], q[3], q[4]) >= 0
         /\ t * Side(q[1], q[2], q[4]) >= 0 /\ t * Side(q[1], q[2], q[3]) > 0
<1>1. \A i \in 1 .. 4 : q[i] \in Coords /\ Within(q, t, q[i])
  BY DEF Turning, Flat
<1>2. 1 \in 1 .. 4 /\ 2 \in 1 .. 4 /\ 3 \in 1 .. 4 /\ 4 \in 1 .. 4
  OBVIOUS
<1>3. Successor(q, 1) = q[2] /\ Successor(q, 2) = q[3] /\ Successor(q, 3) = q[4]
  BY DEF Successor
<1>4. \A i \in 1 .. 4 : t * Side(q[1], q[2], q[i]) >= 0 /\ t * Side(q[2], q[3], q[i]) >= 0 /\ t * Side(q[3], q[4], q[i]) >= 0
  BY <1>1, <1>2, <1>3 DEF Within
<1>5. Side(q[3], q[4], q[1]) = Side(q[1], q[3], q[4])
  BY <1>1, <1>2, SideIs
<1>. QED
  BY <1>1, <1>2, <1>4, <1>5 DEF Turning

\* The products of numbers whose signs are known.
LEMMA Signs ==
  ASSUME NEW x \in Int, NEW y \in Int
  PROVE  /\ x * y \in Int
         /\ x >= 0 /\ y >= 0 => x * y >= 0
         /\ x <= 0 /\ y >= 0 => x * y <= 0
         /\ x > 0 /\ y > 0 => x * y > 0
         /\ x < 0 /\ y > 0 => x * y < 0
         /\ x < 0 /\ x * y = 0 => y = 0
<1>1. x >= 0 /\ y >= 0 => x * y >= 0
  OBVIOUS
<1>2. x <= 0 /\ y >= 0 => x * y <= 0
  OBVIOUS
<1>3. x > 0 /\ y > 0 => x * y > 0
  OBVIOUS
<1>4. x < 0 /\ y > 0 => x * y < 0
  OBVIOUS
<1>5. x < 0 /\ x * y = 0 => y = 0
  OBVIOUS
<1>. QED
  BY <1>1, <1>2, <1>3, <1>4, <1>5

\* Two opposite corners are not on one side with the other two on the other.
LEMMA NotOpposite ==
  ASSUME NEW f \in Int, NEW g \in Int, NEW h \in Int, NEW i \in Int,
         NEW k \in Int, NEW l \in Int, NEW m \in Int, NEW n \in Int, l > 0, n > 0,
         NEW a \in Int, NEW b \in Int, NEW c \in Int, NEW s \in Int, a >= 0, b >= 0, c >= 0, s > 0,
         f * a + h * c = g * b + i * s, k * a + m * c = l * b + n * s
  PROVE  /\ ~ (f >= 0 /\ g < 0 /\ h >= 0 /\ i < 0)
         /\ ~ (f < 0 /\ g >= 0 /\ h < 0 /\ i >= 0)
<1>. DEFINE fa == f * a
            gb == g * b
            hc == h * c
            is == i * s
<1>1. CASE f >= 0 /\ g < 0 /\ h >= 0 /\ i < 0
  <2>1. fa \in Int /\ gb \in Int /\ hc \in Int /\ is \in Int /\ fa >= 0 /\ hc >= 0 /\ gb <= 0 /\ is < 0
    BY <1>1, Signs
  <2>2. fa + hc = gb + is
    OBVIOUS
  <2>. HIDE DEF fa, gb, hc, is
  <2>. QED
    BY <2>1, <2>2
<1>2. CASE f < 0 /\ g >= 0 /\ h < 0 /\ i >= 0
  <2>1. fa \in Int /\ gb \in Int /\ hc \in Int /\ is \in Int /\ fa <= 0 /\ hc <= 0 /\ gb >= 0 /\ is >= 0
    BY <1>2, Signs
  <2>2. fa + hc = gb + is
    OBVIOUS
  <2>3. fa = 0 /\ hc = 0
    <3>. HIDE DEF fa, gb, hc, is
    <3>. QED
      BY <2>1, <2>2
  <2>4. a = 0 /\ c = 0
    BY <1>2, <2>3, Signs
  <2>5. k * a = 0 /\ m * c = 0
    BY <2>4
  <2>6. l * b >= 0 /\ n * s > 0 /\ l * b \in Int /\ n * s \in Int
    BY Signs
  <2>7. 0 = l * b + n * s
    BY <2>5
  <2>. QED
    BY <2>6, <2>7
<1>. QED
  BY <1>1, <1>2

\* A plane does not cut off two opposite corners, and nothing else.
LEMMA PolygonArcs ==
  ASSUME NEW q, NEW t, Turning(q, t), NEW k \in 0 .. 5
  PROVE  OneArc(q, Inward(k))
<1>. SUFFICES ASSUME NEW i1 \in 1 .. Len(q), NEW i2 \in 1 .. Len(q), NEW i3 \in 1 .. Len(q), NEW i4 \in 1 .. Len(q),
                     i1 < i2, i2 < i3, i3 < i4, Alternate(q[i1], q[i2], q[i3], q[i4], Inward(k))
              PROVE  FALSE
  BY DEF OneArc
<1>1. Len(q) \in {3, 4}
  BY DEF Turning
<1>2. Len(q) = 4 /\ i1 = 1 /\ i2 = 2 /\ i3 = 3 /\ i4 = 4
  BY <1>1
<1>. DEFINE A == Side(q[2], q[3], q[4])
            B == Side(q[1], q[3], q[4])
            C == Side(q[1], q[2], q[4])
            S == Side(q[1], q[2], q[3])
            f == Inside(q[1], k)
            g == Inside(q[2], k)
            h == Inside(q[3], k)
            i == Inside(q[4], k)
            o == q[1]["one"]
            l == q[2]["one"]
            m == q[3]["one"]
            n == q[4]["one"]
<1>3. t \in {1, -1} /\ t * A >= 0 /\ t * B >= 0 /\ t * C >= 0 /\ t * S > 0
  BY <1>2, QuadSides DEF Turning
<1>4. A \in Int /\ B \in Int /\ C \in Int /\ S \in Int
  BY <1>2, QuadSides, SideIs
<1>5. /\ q[1] \in ClipSpace /\ q[2] \in ClipSpace /\ q[3] \in ClipSpace /\ q[4] \in ClipSpace
      /\ q[1] \in Flat(q) /\ q[2] \in Flat(q) /\ q[3] \in Flat(q) /\ q[4] \in Flat(q)
  <2>1. 1 \in 1 .. Len(q) /\ 2 \in 1 .. Len(q) /\ 3 \in 1 .. Len(q) /\ 4 \in 1 .. Len(q)
    BY <1>2
  <2>. QED
    BY <2>1 DEF Turning
<1>6. Balanced(f, g, h, i, A, B, C, S)
  BY <1>5, FourInside DEF Turning, Relates
<1>7. Balanced(o, l, m, n, A, B, C, S)
  BY <1>5, FourFields DEF Turning, Relates, Field
<1>8. /\ f \in Int /\ g \in Int /\ h \in Int /\ i \in Int
      /\ o \in Int /\ l \in Int /\ m \in Int /\ n \in Int /\ l > 0 /\ n > 0
  BY <1>5, ClipSpaceIs, InsideInt
<1>9. \/ f >= 0 /\ g < 0 /\ h >= 0 /\ i < 0
      \/ f < 0 /\ g >= 0 /\ h < 0 /\ i >= 0
  <2>1. (f >= 0 <=> ~ (g >= 0)) /\ (g >= 0 <=> ~ (h >= 0)) /\ (h >= 0 <=> ~ (i >= 0))
    BY <1>2, <1>5 DEF Alternate, Inward
  <2>. HIDE DEF f, g, h, i
  <2>. QED
    BY <1>8, <2>1
<1>. HIDE DEF A, B, C, S, f, g, h, i, o, l, m, n
<1>. DEFINE a == t * A
            b == t * B
            c == t * C
            s == t * S
<1>10. a \in Int /\ b \in Int /\ c \in Int /\ s \in Int /\ a >= 0 /\ b >= 0 /\ c >= 0 /\ s > 0
  BY <1>3, <1>4
<1>11. ASSUME NEW x \in Int, NEW y \in Int, NEW z \in Int, NEW u \in Int, Balanced(x, y, z, u, A, B, C, S)
       PROVE  x * a + z * c = y * b + u * s
  <2>1. x * A + z * C = y * B + u * S
    BY <1>4, <1>11 DEF Balanced
  <2>2. CASE t = 1
    BY <1>4, <2>1, <2>2
  <2>3. CASE t = -1
    BY <1>4, <2>1, <2>3
  <2>. QED
    BY <1>3, <2>2, <2>3
<1>. HIDE DEF a, b, c, s
<1>12. f * a + h * c = g * b + i * s
  BY <1>6, <1>8, <1>11
<1>13. o * a + m * c = l * b + n * s
  BY <1>7, <1>8, <1>11
<1>. QED
  BY <1>8, <1>9, <1>10, <1>12, <1>13, NotOpposite

\* Before the first plane, all is left.
LEMMA PolygonShape ==
  ASSUME NEW q, NEW t, Turning(q, t)
  PROVE  Shape(q, 0, q, t)
<1>1. \A i \in 1 .. Len(q) : q[i] \in Rest(q, t, 0) /\ Within(q, t, q[i])
  <2>1. \A k \in 0 .. 5 : ~ (k < 0)
    OBVIOUS
  <2>2. \A i \in 1 .. Len(q) : q[i] \in ClipSpace
    BY DEF Turning
  <2>. QED
    BY <2>1, <2>2 DEF Turning, Rest
<1>2. q \in Seq(ClipSpace) /\ Len(q) >= 3
  BY DEF Turning
<1>. QED
  BY <1>1, <1>2, PolygonArcs DEF Shape

\* A point between v and w on a line of the plane.
Blend(v, k, w, l) == [f \in Field |-> k * v[f] + l * w[f]]

\* It is mixed of v and w,
LEMMA BlendMixes ==
  ASSUME NEW v \in Coords, NEW w \in Coords, NEW k \in Int, NEW l \in Int
  PROVE  /\ Blend(v, k, w, l) \in Coords /\ Mixes(Blend(v, k, w, l), 1, v, k, w, l)
         /\ \A f \in Field : Blend(v, k, w, l)[f] = k * v[f] + l * w[f]
<1>1. \A f \in Field : k * v[f] + l * w[f] \in Int
  BY DEF Coords
<1>2. \A f \in Field : Blend(v, k, w, l)[f] = k * v[f] + l * w[f]
  BY DEF Blend
<1>3. Blend(v, k, w, l) \in Coords
  BY <1>1 DEF Blend, Coords
<1>4. \A f \in Field : 1 * Blend(v, k, w, l)[f] = k * v[f] + l * w[f]
  <2>1. \A f \in Field : Blend(v, k, w, l)[f] \in Int
    BY <1>1, <1>2
  <2>2. \A x \in Int : 1 * x = x
    OBVIOUS
  <2>. QED
    BY <1>2, <2>1, <2>2
<1>. QED
  BY <1>2, <1>3, <1>4 DEF Mixes, Mixed

\* and on the plane, and its sides are the sums of theirs.
LEMMA BlendIs ==
  ASSUME NEW q, Base(q), NEW v \in Flat(q), NEW w \in Flat(q), v \in ClipSpace, w \in ClipSpace,
         NEW k \in Int, NEW l \in Int, k > 0, l > 0
  PROVE  /\ Blend(v, k, w, l) \in ClipSpace /\ Blend(v, k, w, l) \in Flat(q)
         /\ \A a, b \in Coords : Side(a, b, Blend(v, k, w, l)) = k * Side(a, b, v) + l * Side(a, b, w)
<1>. DEFINE m == Blend(v, k, w, l)
<1>1. v \in Coords /\ w \in Coords
  BY ClipSpaceIs
<1>2. m \in Coords /\ Mixes(m, 1, v, k, w, l) /\ m["one"] = k * v["one"] + l * w["one"]
  BY <1>1, BlendMixes DEF Field
<1>. HIDE DEF m
<1>3. m \in Flat(q)
  BY <1>2, FlatMix
<1>4. m["one"] > 0
  <2>1. v["one"] \in Int /\ w["one"] \in Int /\ v["one"] > 0 /\ w["one"] > 0
    BY ClipSpaceIs
  <2>2. k * v["one"] > 0 /\ l * w["one"] > 0 /\ k * v["one"] \in Int /\ l * w["one"] \in Int
    BY <2>1, Signs
  <2>. QED
    BY <1>2, <2>2
<1>5. m \in ClipSpace
  BY <1>2, <1>4 DEF ClipSpace, Coords
<1>6. ASSUME NEW a \in Coords, NEW b \in Coords
      PROVE  Side(a, b, m) = k * Side(a, b, v) + l * Side(a, b, w)
  <2>1. Mixed(Side(a, b, m), 1, Side(a, b, v), k, Side(a, b, w), l)
    BY <1>1, <1>2, MixSide
  <2>2. Side(a, b, m) \in Int
    BY <1>2, SideIs
  <2>3. 1 * Side(a, b, m) = Side(a, b, m)
    BY <2>2
  <2>. QED
    BY <2>1, <2>3 DEF Mixed
<1>. QED
  BY <1>3, <1>5, <1>6 DEF m

\* The mean of the corners is such a point, more than once.
LEMMA MeanOfThree ==
  ASSUME NEW q, NEW t, Turning(q, t), Len(q) = 3, DOMAIN q = 1 .. 3,
         NEW n, n[1] \in Int, n[2] \in Int, n[3] \in Int
  PROVE  Mean(q, n) = Blend(Blend(q[1], n[1], q[2], n[2]), 1, q[3], n[3])
<1>1. 1 \in DOMAIN q /\ 2 \in DOMAIN q /\ 3 \in DOMAIN q /\ 4 \notin DOMAIN q
  OBVIOUS
<1>2. q[1] \in Coords /\ q[2] \in Coords /\ q[3] \in Coords
  <2>1. \A i \in DOMAIN q : q[i] \in Flat(q)
    BY DEF Turning
  <2>. QED
    BY <1>1, <2>1 DEF Flat
<1>3. \A f \in Field : q[1][f] \in Int /\ q[2][f] \in Int /\ q[3][f] \in Int
  BY <1>2 DEF Coords
<1>4. \A f \in Field : n[1] * q[1][f] \in Int /\ n[2] * q[2][f] \in Int /\ n[3] * q[3][f] \in Int
  BY <1>3
<1>5. \A x, y, z \in Int : x + y + z + 0 = 1 * (x + y) + z
  OBVIOUS
<1>6. \A f \in Field : n[1] * q[1][f] + n[2] * q[2][f] + n[3] * q[3][f] + 0
                         = 1 * (n[1] * q[1][f] + n[2] * q[2][f]) + n[3] * q[3][f]
  BY <1>4, <1>5
<1>7. Mean(q, n) = [f \in Field |-> n[1] * q[1][f] + n[2] * q[2][f] + n[3] * q[3][f] + 0]
  BY <1>1 DEF Mean
<1>8. \A f \in Field : Blend(q[1], n[1], q[2], n[2])[f] = n[1] * q[1][f] + n[2] * q[2][f]
  BY DEF Blend
<1>. QED
  BY <1>6, <1>7, <1>8 DEF Blend

\* And of four, once more.
LEMMA MeanOfFour ==
  ASSUME NEW q, NEW t, Turning(q, t), Len(q) = 4, DOMAIN q = 1 .. 4,
         NEW n, n[1] \in Int, n[2] \in Int, n[3] \in Int, n[4] \in Int
  PROVE  Mean(q, n) = Blend(Blend(Blend(q[1], n[1], q[2], n[2]), 1, q[3], n[3]), 1, q[4], n[4])
<1>1. 1 \in DOMAIN q /\ 2 \in DOMAIN q /\ 3 \in DOMAIN q /\ 4 \in DOMAIN q
  OBVIOUS
<1>2. q[1] \in Coords /\ q[2] \in Coords /\ q[3] \in Coords /\ q[4] \in Coords
  <2>1. \A i \in DOMAIN q : q[i] \in Flat(q)
    BY DEF Turning
  <2>. QED
    BY <1>1, <2>1 DEF Flat
<1>3. \A f \in Field : q[1][f] \in Int /\ q[2][f] \in Int /\ q[3][f] \in Int /\ q[4][f] \in Int
  BY <1>2 DEF Coords
<1>4. \A f \in Field : n[1] * q[1][f] \in Int /\ n[2] * q[2][f] \in Int /\ n[3] * q[3][f] \in Int /\ n[4] * q[4][f] \in Int
  BY <1>3
<1>5. \A x, y, z, u \in Int : x + y + z + u = 1 * (1 * (x + y) + z) + u
  OBVIOUS
<1>6. \A f \in Field : n[1] * q[1][f] + n[2] * q[2][f] + n[3] * q[3][f] + n[4] * q[4][f]
                         = 1 * (1 * (n[1] * q[1][f] + n[2] * q[2][f]) + n[3] * q[3][f]) + n[4] * q[4][f]
  BY <1>4, <1>5
<1>7. Mean(q, n) = [f \in Field |-> n[1] * q[1][f] + n[2] * q[2][f] + n[3] * q[3][f] + n[4] * q[4][f]]
  BY <1>1 DEF Mean
<1>. DEFINE X == Blend(q[1], n[1], q[2], n[2])
            Y == Blend(X, 1, q[3], n[3])
<1>8. \A f \in Field : X[f] = n[1] * q[1][f] + n[2] * q[2][f]
  BY DEF Blend
<1>9. \A f \in Field : Y[f] = 1 * X[f] + n[3] * q[3][f]
  BY DEF Blend
<1>. HIDE DEF X
<1>10. \A f \in Field : Y[f] = 1 * (n[1] * q[1][f] + n[2] * q[2][f]) + n[3] * q[3][f]
  BY <1>8, <1>9
<1>11. Blend(Y, 1, q[4], n[4]) = [f \in Field |-> 1 * Y[f] + n[4] * q[4][f]]
  BY DEF Blend
<1>. HIDE DEF Y
<1>12. Blend(Y, 1, q[4], n[4])
         = [f \in Field |-> 1 * (1 * (n[1] * q[1][f] + n[2] * q[2][f]) + n[3] * q[3][f]) + n[4] * q[4][f]]
  BY <1>10, <1>11
<1>. QED
  BY <1>6, <1>7, <1>12 DEF X, Y

\* A mean of the corners is on the plane, and its sides are the means of theirs.
LEMMA MeanSees ==
  ASSUME NEW q, NEW t, Turning(q, t), DOMAIN q = 1 .. Len(q), NEW n \in [DOMAIN q -> Weights]
  PROVE  /\ Mean(q, n) \in ClipSpace /\ Mean(q, n) \in Flat(q)
         /\ \A i \in DOMAIN q : n[i] \in Int /\ n[i] > 0
         /\ \A a, b \in Coords :
              /\ Len(q) = 3 => Side(a, b, Mean(q, n))
                                 = 1 * (n[1] * Side(a, b, q[1]) + n[2] * Side(a, b, q[2])) + n[3] * Side(a, b, q[3])
              /\ Len(q) = 4 => Side(a, b, Mean(q, n))
                                 = 1 * (1 * (n[1] * Side(a, b, q[1]) + n[2] * Side(a, b, q[2]))
                                          + n[3] * Side(a, b, q[3])) + n[4] * Side(a, b, q[4])
<1>1. \A i \in DOMAIN q : n[i] \in Int /\ n[i] > 0
  <2>1. \A i \in DOMAIN q : n[i] \in Weights
    OBVIOUS
  <2>2. \A m \in Weights : m \in Int /\ m > 0
    BY ClipAssumption
  <2>. QED
    BY <2>1, <2>2
<1>2. Base(q) /\ Len(q) \in {3, 4} /\ \A i \in DOMAIN q : q[i] \in Flat(q) /\ q[i] \in ClipSpace
  BY DEF Turning
<1>3. 1 \in DOMAIN q /\ 2 \in DOMAIN q /\ 3 \in DOMAIN q
  BY <1>2
<1>. DEFINE X == Blend(q[1], n[1], q[2], n[2])
            Y == Blend(X, 1, q[3], n[3])
            Z == Blend(Y, 1, q[4], n[4])
<1>4. /\ X \in ClipSpace /\ X \in Flat(q)
      /\ \A a, b \in Coords : Side(a, b, X) = n[1] * Side(a, b, q[1]) + n[2] * Side(a, b, q[2])
  BY <1>1, <1>2, <1>3, BlendIs
<1>5. /\ Y \in ClipSpace /\ Y \in Flat(q)
      /\ \A a, b \in Coords : Side(a, b, Y) = 1 * Side(a, b, X) + n[3] * Side(a, b, q[3])
  <2>. HIDE DEF X
  <2>. QED
    BY <1>1, <1>2, <1>3, <1>4, BlendIs
<1>6. CASE Len(q) = 3
  <2>1. Mean(q, n) = Y
    BY <1>1, <1>3, <1>6, MeanOfThree
  <2>. HIDE DEF X, Y
  <2>. QED
    BY <1>1, <1>4, <1>5, <1>6, <2>1
<1>7. CASE Len(q) = 4
  <2>1. 4 \in DOMAIN q
    BY <1>7
  <2>2. Mean(q, n) = Z
    BY <1>1, <1>3, <1>7, <2>1, MeanOfFour
  <2>3. /\ Z \in ClipSpace /\ Z \in Flat(q)
        /\ \A a, b \in Coords : Side(a, b, Z) = 1 * Side(a, b, Y) + n[4] * Side(a, b, q[4])
    <3>. HIDE DEF X, Y
    <3>. QED
      BY <1>1, <1>2, <1>5, <2>1, BlendIs
  <2>. HIDE DEF X, Y, Z
  <2>. QED
    BY <1>1, <1>4, <1>5, <1>7, <2>2, <2>3
<1>. QED
  BY <1>2, <1>6, <1>7

\* An edge to which the corners have no side has no length.
LEMMA SameFrom ==
  ASSUME NEW q, Base(q), NEW a \in Coords, NEW b \in Coords,
         Side(a, b, q[1]) = 0, Side(a, b, q[2]) = 0, Side(a, b, q[3]) = 0
  PROVE  Same(q, a, b)
<1>. SUFFICES ASSUME NEW y \in Flat(q) PROVE Side(a, b, y) = 0
  BY DEF Same
<1>1. q[1] \in Coords /\ q[2] \in Coords /\ q[3] \in Coords /\ y \in Coords
  BY BaseFlat DEF Flat
<1>2. PICK A, B, C \in Int : \A u \in Coords : Side(a, b, u) = SideAt(A, B, C, u)
  BY SideLinear
<1>3. Relates(Side(a, b, q[1]), Side(a, b, q[2]), Side(a, b, q[3]), Side(a, b, y), q[1], q[2], q[3], y)
  BY <1>1, <1>2, FourSideAt
<1>. DEFINE I == Side(q[2], q[3], y)
            J == Side(q[1], q[3], y)
            K == Side(q[1], q[2], y)
            S == Side(q[1], q[2], q[3])
            h == Side(a, b, y)
<1>4. I \in Int /\ J \in Int /\ K \in Int /\ S \in Int /\ h \in Int /\ S # 0
  BY <1>1, SideIs DEF Base
<1>5. 0 * I - 0 * J + 0 * K - h * S = 0
  BY <1>3 DEF Relates, Balanced
<1>. HIDE DEF I, J, K, S, h
<1>6. h * S = 0
  BY <1>4, <1>5
<1>7. h = 0
  BY <1>4, <1>6
<1>. QED
  BY <1>7 DEF h

\* The points in view at which the result is looked.
Views(q) == {Mean(q, n) : n \in {m \in [DOMAIN q -> Weights] : InView(Mean(q, m), 1)}}

\* Where two sides lean, and one of them does, there their sum does.
LEMMA Leans ==
  ASSUME NEW t \in {1, -1}, NEW k \in Int, NEW l \in Int, NEW x \in Int, NEW y \in Int,
         k > 0, l > 0, t * x >= 0, t * y >= 0, x # 0 \/ y # 0
  PROVE  t * (k * x + l * y) > 0
<1>. DEFINE a == t * x
            b == t * y
<1>1. a \in Int /\ b \in Int /\ a >= 0 /\ b >= 0 /\ (a > 0 \/ b > 0)
  OBVIOUS
<1>2. t * (k * x + l * y) = k * a + l * b
  OBVIOUS
<1>. HIDE DEF a, b
<1>3. /\ k * a \in Int /\ l * b \in Int /\ k * a >= 0 /\ l * b >= 0
      /\ a > 0 => k * a > 0
      /\ b > 0 => l * b > 0
  BY <1>1, Signs
<1>. QED
  BY <1>1, <1>2, <1>3

\* A mean of its corners is off every edge of a triangle,
LEMMA TriangleSides ==
  ASSUME NEW q, NEW t, Turning(q, t), Len(q) = 3, DOMAIN q = 1 .. Len(q), NEW n \in [DOMAIN q -> Weights]
  PROVE  /\ t * Side(q[1], q[2], Mean(q, n)) > 0 /\ t * Side(q[2], q[3], Mean(q, n)) > 0
         /\ t * Side(q[3], q[1], Mean(q, n)) > 0
<1>. DEFINE S == Side(q[1], q[2], q[3])
            u == Mean(q, n)
<1>1. Base(q) /\ t \in {1, -1} /\ t * S > 0
  BY DEF Turning
<1>2. q[1] \in Coords /\ q[2] \in Coords /\ q[3] \in Coords
  BY <1>1, BaseFlat DEF Flat
<1>3. /\ Side(q[1], q[2], q[1]) = 0 /\ Side(q[1], q[2], q[2]) = 0
      /\ Side(q[2], q[3], q[1]) = S /\ Side(q[2], q[3], q[2]) = 0 /\ Side(q[2], q[3], q[3]) = 0
      /\ Side(q[3], q[1], q[1]) = 0 /\ Side(q[3], q[1], q[2]) = S /\ Side(q[3], q[1], q[3]) = 0
      /\ S \in Int
  BY <1>2, SideIs, SideOfTwo
<1>4. n[1] \in Int /\ n[2] \in Int /\ n[3] \in Int /\ n[1] > 0 /\ n[2] > 0 /\ n[3] > 0
  BY MeanSees
<1>5. \A a, b \in Coords : Side(a, b, u) = 1 * (n[1] * Side(a, b, q[1]) + n[2] * Side(a, b, q[2])) + n[3] * Side(a, b, q[3])
  BY MeanSees
<1>6. /\ Side(q[1], q[2], u) = 1 * (n[1] * 0 + n[2] * 0) + n[3] * S
      /\ Side(q[2], q[3], u) = 1 * (n[1] * S + n[2] * 0) + n[3] * 0
      /\ Side(q[3], q[1], u) = 1 * (n[1] * 0 + n[2] * S) + n[3] * 0
  BY <1>2, <1>3, <1>5
<1>. HIDE DEF S
<1>7. /\ 1 * (n[1] * 0 + n[2] * 0) + n[3] * S = n[3] * S
      /\ 1 * (n[1] * S + n[2] * 0) + n[3] * 0 = n[1] * S
      /\ 1 * (n[1] * 0 + n[2] * S) + n[3] * 0 = n[2] * S
  BY <1>3, <1>4
<1>8. \A k \in Int : k > 0 => t * (k * S) > 0
  <2>. SUFFICES ASSUME NEW k \in Int, k > 0 PROVE t * (k * S) > 0
    OBVIOUS
  <2>1. t * (k * S) = k * (t * S) /\ t * S \in Int
    BY <1>1, <1>3
  <2>. QED
    BY <1>1, <2>1, Signs
<1>. QED
  BY <1>4, <1>6, <1>7, <1>8

\* and of a quadrangle, unless two corners are in one place.
LEMMA QuadrangleSides ==
  ASSUME NEW q, NEW t, Turning(q, t), Len(q) = 4, DOMAIN q = 1 .. Len(q), NEW n \in [DOMAIN q -> Weights]
  PROVE  /\ t * Side(q[1], q[2], Mean(q, n)) > 0 /\ t * Side(q[2], q[3], Mean(q, n)) > 0
         /\ t * Side(q[3], q[4], Mean(q, n)) > 0 \/ Same(q, q[3], q[4])
         /\ t * Side(q[4], q[1], Mean(q, n)) > 0 \/ Same(q, q[4], q[1])
<1>. DEFINE A == Side(q[2], q[3], q[4])
            B == Side(q[1], q[3], q[4])
            C == Side(q[1], q[2], q[4])
            S == Side(q[1], q[2], q[3])
            u == Mean(q, n)
<1>1. Base(q) /\ t \in {1, -1}
  BY DEF Turning
<1>2. q[1] \in Coords /\ q[2] \in Coords /\ q[3] \in Coords /\ q[4] \in Coords
  BY QuadSides
<1>3. t * A >= 0 /\ t * B >= 0 /\ t * C >= 0 /\ t * S > 0 /\ t * S >= 0 /\ S # 0
  <2>1. t * A >= 0 /\ t * B >= 0 /\ t * C >= 0 /\ t * S > 0
    BY QuadSides
  <2>2. S \in Int /\ S # 0
    BY <1>1, <1>2, SideIs DEF Base
  <2>. HIDE DEF A, B, C, S
  <2>. QED
    BY <1>1, <2>1, <2>2
<1>4. /\ Side(q[1], q[2], q[1]) = 0 /\ Side(q[1], q[2], q[2]) = 0
      /\ Side(q[2], q[3], q[1]) = S /\ Side(q[2], q[3], q[2]) = 0 /\ Side(q[2], q[3], q[3]) = 0
      /\ Side(q[3], q[4], q[1]) = B /\ Side(q[3], q[4], q[2]) = A
      /\ Side(q[3], q[4], q[3]) = 0 /\ Side(q[3], q[4], q[4]) = 0
      /\ Side(q[4], q[1], q[1]) = 0 /\ Side(q[4], q[1], q[2]) = C
      /\ Side(q[4], q[1], q[3]) = B /\ Side(q[4], q[1], q[4]) = 0
  BY <1>2, SideIs, SideOfTwo
<1>5. A \in Int /\ B \in Int /\ C \in Int /\ S \in Int
  BY <1>2, SideIs
<1>6. /\ n[1] \in Int /\ n[2] \in Int /\ n[3] \in Int /\ n[4] \in Int
      /\ n[1] > 0 /\ n[2] > 0 /\ n[3] > 0 /\ n[4] > 0
  BY MeanSees
<1>7. \A a, b \in Coords :
        Side(a, b, u) = 1 * (1 * (n[1] * Side(a, b, q[1]) + n[2] * Side(a, b, q[2])) + n[3] * Side(a, b, q[3]))
                          + n[4] * Side(a, b, q[4])
  BY MeanSees
<1>8. /\ Side(q[1], q[2], u) = 1 * (1 * (n[1] * 0 + n[2] * 0) + n[3] * S) + n[4] * C
      /\ Side(q[2], q[3], u) = 1 * (1 * (n[1] * S + n[2] * 0) + n[3] * 0) + n[4] * A
      /\ Side(q[3], q[4], u) = 1 * (1 * (n[1] * B + n[2] * A) + n[3] * 0) + n[4] * 0
      /\ Side(q[4], q[1], u) = 1 * (1 * (n[1] * 0 + n[2] * C) + n[3] * B) + n[4] * 0
  BY <1>2, <1>4, <1>7
<1>9. B # 0 \/ A # 0 \/ Same(q, q[3], q[4])
  BY <1>1, <1>2, <1>4, SameFrom
<1>10. C # 0 \/ B # 0 \/ Same(q, q[4], q[1])
  BY <1>1, <1>2, <1>4, SameFrom
<1>. HIDE DEF A, B, C, S
<1>11. /\ 1 * (1 * (n[1] * 0 + n[2] * 0) + n[3] * S) + n[4] * C = n[3] * S + n[4] * C
       /\ 1 * (1 * (n[1] * S + n[2] * 0) + n[3] * 0) + n[4] * A = n[1] * S + n[4] * A
       /\ 1 * (1 * (n[1] * B + n[2] * A) + n[3] * 0) + n[4] * 0 = n[1] * B + n[2] * A
       /\ 1 * (1 * (n[1] * 0 + n[2] * C) + n[3] * B) + n[4] * 0 = n[2] * C + n[3] * B
  BY <1>5, <1>6
<1>12. /\ t * (n[3] * S + n[4] * C) > 0 /\ t * (n[1] * S + n[4] * A) > 0
       /\ B # 0 \/ A # 0 => t * (n[1] * B + n[2] * A) > 0
       /\ C # 0 \/ B # 0 => t * (n[2] * C + n[3] * B) > 0
  BY <1>1, <1>3, <1>5, <1>6, Leans
<1>. QED
  BY <1>8, <1>9, <1>10, <1>11, <1>12

\* Off the edges of a polygon lie its inner points.
LEMMA PolygonLooks ==
  ASSUME NEW q, NEW t, Turning(q, t), DOMAIN q = 1 .. Len(q)
  PROVE  /\ Views(q) \subseteq Flat(q) /\ Views(q) \subseteq ClipSpace
         /\ \A u \in Views(q), p \in 0 .. 5 : Inside(u, p) > 0
         /\ Looks(q, q, t, Views(q))
<1>1. Views(q) \subseteq Flat(q) /\ Views(q) \subseteq ClipSpace
  BY MeanSees DEF Views
<1>2. \A u \in Views(q), p \in 0 .. 5 : Inside(u, p) > 0
  <2>. SUFFICES ASSUME NEW u \in Views(q), NEW p \in 0 .. 5 PROVE Inside(u, p) > 0
    OBVIOUS
  <2>1. Inside(u, p) >= 1
    BY DEF Views, InView
  <2>2. Inside(u, p) \in Int
    BY <1>1, ClipSpaceIs, InsideInt
  <2>. QED
    BY <2>1, <2>2
<1>3. q \in Seq(ClipSpace) /\ Len(q) \in {3, 4} /\ Base(q) /\ t \in {1, -1}
  BY DEF Turning
<1>4. \E e \in 1 .. Len(q) : ~ Same(q, q[e], Successor(q, e))
  <2>1. 1 \in 1 .. Len(q) /\ Successor(q, 1) = q[2] /\ q[3] \in Flat(q)
    BY <1>3, BaseFlat DEF Successor
  <2>2. ~ Same(q, q[1], q[2])
    BY <1>3, <2>1 DEF Same, Base
  <2>. QED
    BY <2>1, <2>2
<1>5. ASSUME NEW i \in 1 .. Len(q), NEW u \in Views(q)
      PROVE  t * Side(q[i], Successor(q, i), u) > 0 \/ Same(q, q[i], Successor(q, i))
  <2>1. PICK n \in [DOMAIN q -> Weights] : u = Mean(q, n)
    BY DEF Views
  <2>2. CASE Len(q) = 3
    <3>1. Successor(q, 1) = q[2] /\ Successor(q, 2) = q[3] /\ Successor(q, 3) = q[1]
      BY <2>2 DEF Successor
    <3>2. i \in {1, 2, 3}
      BY <2>2
    <3>. QED
      BY <2>1, <2>2, <3>1, <3>2, TriangleSides
  <2>3. CASE Len(q) = 4
    <3>1. Successor(q, 1) = q[2] /\ Successor(q, 2) = q[3] /\ Successor(q, 3) = q[4] /\ Successor(q, 4) = q[1]
      BY <2>3 DEF Successor
    <3>2. i \in {1, 2, 3, 4}
      BY <2>3
    <3>. QED
      BY <2>1, <2>3, <3>1, <3>2, QuadrangleSides
  <2>. QED
    BY <1>3, <2>2, <2>3
<1>. QED
  BY <1>1, <1>2, <1>4, <1>5 DEF Looks

-----------------------------------------------------------------------------
(* What a plane leaves of a line.                                           *)

\* From attribute 0 to 1.
Segment(q) ==
  /\ q \in Seq(ClipSpace) /\ Len(q) = 2
  /\ q[1]["one"] = 1 /\ q[2]["one"] = 1 /\ q[1]["a"] = 0 /\ q[2]["a"] = 1

\* The points on it and beyond its ends, and of those on it all that can be seen.
Straight(q) == {v \in ClipSpace : OnLine(q, v)}
LineViews(q) == {u \in Straight(q) : InView(u, 0) /\ 0 <= u["a"] /\ u["a"] <= u["one"]}

\* The point v comes no later than w.
Ahead(v, w) == v["a"] * w["one"] <= w["a"] * v["one"]

\* What is left of the line after r planes: two ends, and between them all that can be seen.
LineShape(P, r, q) ==
  /\ P \in Seq(ClipSpace) /\ Len(P) = 2
  /\ \A i \in 1 .. 2 : P[i] \in Straight(q) /\ \A k \in 0 .. 5 : k < r => Inside(P[i], k) >= 0
  /\ Ahead(P[1], P[2])
  /\ \A u \in LineViews(q) : Ahead(P[1], u) /\ Ahead(u, P[2])

\* So are the lines that are drawn.
LEMMA SegmentIs ==
  ASSUME NEW q \in Lines
  PROVE  Segment(q) /\ DOMAIN q = 1 .. 2
<1>1. q \in Seq(ClipSpace) /\ Len(q) = 2
  BY ClipAssumption
<1>2. DOMAIN q = 1 .. Len(q)
  BY <1>1, LenProperties
<1>. QED
  BY <1>1, <1>2, ClipAssumption DEF Segment

\* Its ends are vertices.
LEMMA SegmentEnds ==
  ASSUME NEW q, Segment(q)
  PROVE  /\ q[1] \in ClipSpace /\ q[2] \in ClipSpace /\ q[1] \in Coords /\ q[2] \in Coords
<1>1. 1 \in 1 .. Len(q) /\ 2 \in 1 .. Len(q) /\ q \in Seq(ClipSpace)
  BY DEF Segment
<1>2. q[1] \in ClipSpace /\ q[2] \in ClipSpace
  BY <1>1
<1>. QED
  BY <1>2, ClipSpaceIs

\* On a line, to be inside depends on the attribute alone.
LEMMA LineInside ==
  ASSUME NEW q, Segment(q), NEW v \in Coords, OnLine(q, v), NEW p \in 0 .. 5
  PROVE  Inside(v, p) = Inside(q[1], p) * (v["one"] - v["a"]) + Inside(q[2], p) * v["a"]
<1>1. p \in {0, 1, 2, 3, 4, 5}
  OBVIOUS
<1>. DEFINE n == v["one"] - v["a"]
            a == v["a"]
<1>2. /\ n \in Int /\ a \in Int
      /\ q[1]["x"] \in Int /\ q[1]["y"] \in Int /\ q[1]["z"] \in Int /\ q[1]["w"] \in Int
      /\ q[2]["x"] \in Int /\ q[2]["y"] \in Int /\ q[2]["z"] \in Int /\ q[2]["w"] \in Int
  BY SegmentEnds, CoordsAre
<1>3. /\ v["x"] = q[1]["x"] * n + q[2]["x"] * a /\ v["y"] = q[1]["y"] * n + q[2]["y"] * a
      /\ v["z"] = q[1]["z"] * n + q[2]["z"] * a /\ v["w"] = q[1]["w"] * n + q[2]["w"] * a
  BY DEF OnLine
<1>. HIDE DEF n, a
<1>4. \A w1, w2, c1, c2 \in Int :
        /\ (w1 * n + w2 * a) + (c1 * n + c2 * a) = (w1 + c1) * n + (w2 + c2) * a
        /\ (w1 * n + w2 * a) - (c1 * n + c2 * a) = (w1 - c1) * n + (w2 - c2) * a
  BY <1>2
<1>5. \A f \in {"x", "y", "z"} :
        /\ v["w"] + v[f] = (q[1]["w"] + q[1][f]) * n + (q[2]["w"] + q[2][f]) * a
        /\ v["w"] - v[f] = (q[1]["w"] - q[1][f]) * n + (q[2]["w"] - q[2][f]) * a
  <2>. SUFFICES ASSUME NEW f \in {"x", "y", "z"}
                PROVE  /\ v["w"] + v[f] = (q[1]["w"] + q[1][f]) * n + (q[2]["w"] + q[2][f]) * a
                       /\ v["w"] - v[f] = (q[1]["w"] - q[1][f]) * n + (q[2]["w"] - q[2][f]) * a
    OBVIOUS
  <2>1. /\ v[f] = q[1][f] * n + q[2][f] * a /\ v["w"] = q[1]["w"] * n + q[2]["w"] * a
        /\ q[1][f] \in Int /\ q[2][f] \in Int
    BY <1>2, <1>3
  <2>. QED
    BY <1>2, <1>4, <2>1
<1>6. Inside(v, p) = Inside(q[1], p) * n + Inside(q[2], p) * a
  <2>1. \A u : /\ Inside(u, 0) = u["w"] + u["x"] /\ Inside(u, 1) = u["w"] - u["x"]
               /\ Inside(u, 2) = u["w"] + u["y"] /\ Inside(u, 3) = u["w"] - u["y"]
               /\ Inside(u, 4) = u["w"] + u["z"] /\ Inside(u, 5) = u["w"] - u["z"]
    BY InsideIs
  <2>2. CASE p \in {0, 1}
    BY <1>5, <2>1, <2>2
  <2>3. CASE p \in {2, 3}
    BY <1>5, <2>1, <2>3
  <2>4. CASE p \in {4, 5}
    BY <1>5, <2>1, <2>4
  <2>. QED
    BY <1>1, <2>2, <2>3, <2>4
<1>. QED
  BY <1>6 DEF n, a

\* Two points on a line are on their sides of a plane as they come.
LEMMA LineBehind ==
  ASSUME NEW q, Segment(q), NEW u \in Straight(q), NEW v \in Straight(q), NEW p \in 0 .. 5
  PROVE  Behind(u, v, p) = (Inside(q[2], p) - Inside(q[1], p)) * (u["a"] * v["one"] - v["a"] * u["one"])
<1>1. u \in Coords /\ v \in Coords
  BY ClipSpaceIs DEF Straight
<1>. DEFINE A == Inside(q[1], p)
            B == Inside(q[2], p)
            c == u["a"]
            d == v["a"]
            m == u["one"]
            n == v["one"]
<1>2. A \in Int /\ B \in Int /\ c \in Int /\ d \in Int /\ m \in Int /\ n \in Int
  BY <1>1, SegmentEnds, InsideInt, CoordsAre
<1>3. Inside(u, p) = A * (m - c) + B * c /\ Inside(v, p) = A * (n - d) + B * d
  BY <1>1, LineInside DEF Straight
<1>. HIDE DEF A, B, c, d, m, n
<1>4. n * (A * (m - c) + B * c) - (A * (n - d) + B * d) * m = (B - A) * (c * n - d * m)
  BY <1>2
<1>. QED
  BY <1>3, <1>4 DEF Behind, A, B, c, d, m, n

\* A vertex between two on the line is on it.
LEMMA LineMix ==
  ASSUME NEW q, Segment(q), NEW v \in Straight(q), NEW w \in Straight(q), NEW p, NEW m, Crosses(m, v, w, p)
  PROVE  m \in Straight(q)
<1>1. v \in Coords /\ w \in Coords /\ m \in Coords /\ m \in ClipSpace
  BY ClipSpaceIs DEF Straight, Crosses
<1>2. PICK g \in Int, k \in Int, l \in Int : g > 0 /\ Mixes(m, g, v, k, w, l)
  BY DEF Crosses
<1>3. /\ Mixed(m["a"], g, v["a"], k, w["a"], l) /\ Mixed(m["one"], g, v["one"], k, w["one"], l)
  BY <1>2, MixOf
<1>4. \A f \in Field : v[f] \in Int /\ w[f] \in Int /\ m[f] \in Int /\ q[1][f] \in Int /\ q[2][f] \in Int
  BY <1>1, SegmentEnds DEF Coords
<1>5. ASSUME NEW f \in {"x", "y", "z", "w", "one"}
      PROVE  m[f] = q[1][f] * (m["one"] - m["a"]) + q[2][f] * m["a"]
  <2>. DEFINE c == v["a"]
              d == w["a"]
              e == m["a"]
              i == v["one"]
              j == w["one"]
              o == m["one"]
              A == q[1][f]
              B == q[2][f]
              y == m[f]
  <2>1. /\ c \in Int /\ d \in Int /\ e \in Int /\ i \in Int /\ j \in Int /\ o \in Int
        /\ A \in Int /\ B \in Int /\ y \in Int
    BY <1>4 DEF Field
  <2>2. v[f] = A * (i - c) + B * c /\ w[f] = A * (j - d) + B * d
    BY DEF Straight, OnLine
  <2>3. g * y = k * v[f] + l * w[f]
    BY <1>2 DEF Mixes, Mixed, Field
  <2>4. g * e = k * c + l * d /\ g * o = k * i + l * j
    BY <1>3 DEF Mixed
  <2>. HIDE DEF A, B, c, d, e, i, j, o, y
  <2>5. k * (A * (i - c) + B * c) + l * (A * (j - d) + B * d)
          = A * ((k * i + l * j) - (k * c + l * d)) + B * (k * c + l * d)
    BY <1>2, <2>1
  <2>6. A * (g * o - g * e) + B * (g * e) = g * (A * (o - e) + B * e)
    BY <1>2, <2>1
  <2>7. g * y = g * (A * (o - e) + B * e)
    BY <2>2, <2>3, <2>4, <2>5, <2>6
  <2>. DEFINE z == A * (o - e) + B * e
  <2>8. z \in Int /\ g * y = g * z
    BY <2>1, <2>7
  <2>. HIDE DEF z
  <2>9. y = z
    BY <1>2, <2>1, <2>8
  <2>. QED
    BY <2>9 DEF z, A, B, e, o, y
<1>. QED
  BY <1>1, <1>5 DEF Straight, OnLine

\* Where one of two points on the line is inside of a plane and the other is not.
LEMMA LineLeaves ==
  ASSUME NEW q, Segment(q), NEW p \in 0 .. 5, NEW v \in Straight(q), NEW w \in Straight(q), Ahead(v, w)
  PROVE  /\ Inside(q[2], p) - Inside(q[1], p) \in Int
         /\ Inside(v, p) >= 0 /\ Inside(w, p) < 0 => Inside(q[2], p) - Inside(q[1], p) < 0
         /\ Inside(v, p) < 0 /\ Inside(w, p) >= 0 => Inside(q[2], p) - Inside(q[1], p) > 0
<1>1. v \in Coords /\ w \in Coords /\ v["one"] > 0 /\ w["one"] > 0 /\ v["one"] \in Int /\ w["one"] \in Int
  BY ClipSpaceIs DEF Straight
<1>. DEFINE D == Inside(q[2], p) - Inside(q[1], p)
            m == v["one"]
            n == w["one"]
            g == Inside(v, p)
            k == Inside(w, p)
            e == w["a"] * v["one"] - v["a"] * w["one"]
<1>2. D \in Int /\ m \in Int /\ n \in Int /\ m > 0 /\ n > 0 /\ g \in Int /\ k \in Int /\ e \in Int
  BY <1>1, SegmentEnds, InsideInt, CoordsAre
<1>3. e >= 0
  <2>1. v["a"] * w["one"] \in Int /\ w["a"] * v["one"] \in Int
    BY <1>1, CoordsAre
  <2>. QED
    BY <2>1 DEF Ahead
<1>4. m * k - g * n = D * e
  BY LineBehind DEF Behind
<1>. HIDE DEF D, m, n, g, k, e
<1>5. /\ m * k \in Int /\ g * n \in Int
      /\ g >= 0 /\ k < 0 => m * k < 0 /\ g * n >= 0
      /\ g < 0 /\ k >= 0 => m * k >= 0 /\ g * n < 0
  <2>1. k * m = m * k
    BY <1>2
  <2>2. /\ m * k \in Int /\ g * n \in Int /\ k * m \in Int
        /\ g >= 0 => g * n >= 0
        /\ k >= 0 => k * m >= 0
        /\ g < 0 => g * n < 0
        /\ k < 0 => k * m < 0
    BY <1>2, Signs
  <2>. QED
    BY <2>1, <2>2
<1>6. D >= 0 => D * e >= 0
  BY <1>2, <1>3, Signs
<1>7. D <= 0 => D * e <= 0
  BY <1>2, <1>3, Signs
<1>8. /\ g >= 0 /\ k < 0 => D < 0
      /\ g < 0 /\ k >= 0 => D > 0
  BY <1>2, <1>4, <1>5, <1>6, <1>7
<1>. QED
  BY <1>2, <1>8 DEF D, g, k

\* The place where a line leaves the inner side comes after all that is inside, and
\* the one where it gets there before it.
LEMMA LineMeets ==
  ASSUME NEW q, Segment(q), NEW p \in 0 .. 5, NEW m \in Straight(q), Inside(m, p) = 0,
         NEW u \in Straight(q), Inside(u, p) >= 0
  PROVE  /\ Inside(q[2], p) - Inside(q[1], p) < 0 => Ahead(u, m)
         /\ Inside(q[2], p) - Inside(q[1], p) > 0 => Ahead(m, u)
<1>1. u \in Coords /\ m \in Coords /\ u["one"] \in Int /\ m["one"] \in Int /\ u["one"] > 0 /\ m["one"] > 0
  BY ClipSpaceIs DEF Straight
<1>. DEFINE D == Inside(q[2], p) - Inside(q[1], p)
            g == Inside(u, p)
            k == u["a"] * m["one"]
            l == m["a"] * u["one"]
<1>2. D \in Int /\ g \in Int /\ k \in Int /\ l \in Int /\ g >= 0
  BY <1>1, SegmentEnds, InsideInt, CoordsAre
<1>3. m["one"] * g - 0 * u["one"] = D * (k - l)
  BY LineBehind DEF Behind
<1>4. m["one"] * g >= 0 /\ m["one"] * g \in Int /\ 0 * u["one"] = 0
  BY <1>1, <1>2, Signs
<1>. HIDE DEF D, g, k, l
<1>5. D * (k - l) >= 0 /\ D * (k - l) \in Int
  BY <1>2, <1>3, <1>4
<1>6. D < 0 => k - l <= 0
  <2>. DEFINE e == k - l
  <2>1. e \in Int /\ D * e >= 0
    BY <1>2, <1>5
  <2>. HIDE DEF e
  <2>2. D < 0 /\ e > 0 => D * e < 0
    BY <1>2, <2>1, Signs
  <2>. QED
    BY <1>2, <2>1, <2>2 DEF e
<1>7. D > 0 => k - l >= 0
  <2>. DEFINE e == k - l
  <2>1. e \in Int /\ D * e >= 0
    BY <1>2, <1>5
  <2>. HIDE DEF e
  <2>2. D > 0 /\ e < 0 => e * D < 0 /\ e * D = D * e
    BY <1>2, <2>1, Signs
  <2>. QED
    BY <1>2, <2>1, <2>2 DEF e
<1>8. /\ D < 0 => k <= l
      /\ D > 0 => l <= k
  BY <1>2, <1>6, <1>7
<1>. QED
  BY <1>8 DEF Ahead, D, k, l

\* What is left of the ends, and of the edge.
LEMMA TwoPieces ==
  ASSUME NEW V, NEW x \in V, NEW y \in V
  PROVE  /\ <<x>> \o (<<>> \o <<y>>) = <<x, y>> /\ <<x>> \o (<<y>> \o <<>>) = <<x, y>>
         /\ <<>> \o (<<x>> \o <<y>>) = <<x, y>> /\ <<>> \o (<<>> \o <<>>) = <<>>
<1>1. <<x>> \in Seq(V) /\ <<y>> \in Seq(V) /\ <<>> \in Seq(V)
  OBVIOUS
<1>2. Append(<<x>>, y) = <<x>> \o <<y>>
  BY <1>1, AppendIsConcat
<1>3. Append(<<x>>, y) = <<x, y>>
  <2>1. Append(<<x>>, y) \in Seq(V) /\ <<x, y>> \in Seq(V)
    BY <1>1, AppendProperties
  <2>2. Len(Append(<<x>>, y)) = 2 /\ Len(<<x, y>>) = 2
    BY <1>1, AppendProperties
  <2>3. Append(<<x>>, y)[1] = x /\ Append(<<x>>, y)[2] = y
    BY <1>1, AppendProperties
  <2>4. \A i \in 1 .. Len(<<x, y>>) : Append(<<x>>, y)[i] = <<x, y>>[i]
    BY <2>2, <2>3
  <2>. QED
    BY <2>1, <2>2, <2>4, SeqEqual
<1>4. <<>> \o <<y>> = <<y>> /\ <<y>> \o <<>> = <<y>> /\ <<>> \o <<>> = <<>>
  BY <1>1, ConcatEmptySeq
<1>5. <<x, y>> \in Seq(V)
  OBVIOUS
<1>6. <<>> \o <<x, y>> = <<x, y>>
  BY <1>5, ConcatEmptySeq
<1>. QED
  BY <1>2, <1>3, <1>4, <1>6

\* clip_frustum and clip_edge_frustum, on a line: which of the ends are inside.
LEMMA LineClipped ==
  ASSUME NEW P \in Seq(ClipSpace), Len(P) = 2, NEW p \in 0 .. 5
  PROVE  /\ Inside(P[1], p) >= 0 /\ Inside(P[2], p) >= 0 => ClipFrustum(P, p) = <<P[1], P[2]>>
         /\ Inside(P[1], p) >= 0 /\ ~ (Inside(P[2], p) >= 0) =>
              Crosses(Meet(P[1], P[2], p), P[1], P[2], p) /\ ClipFrustum(P, p) = <<P[1], Meet(P[1], P[2], p)>>
         /\ ~ (Inside(P[1], p) >= 0) /\ Inside(P[2], p) >= 0 =>
              Crosses(Meet(P[1], P[2], p), P[1], P[2], p) /\ ClipFrustum(P, p) = <<Meet(P[1], P[2], p), P[2]>>
         /\ ~ (Inside(P[1], p) >= 0) /\ ~ (Inside(P[2], p) >= 0) => ClipFrustum(P, p) = <<>>
<1>. DEFINE v == P[1]
            w == P[2]
            m == Meet(v, w, p)
            i == Inside(v, p) >= 0
            j == Inside(w, p) >= 0
<1>1. v \in ClipSpace /\ w \in ClipSpace
  BY SegmentEnds
<1>2. ClipFrustum(P, p)
        = (IF i THEN <<v>> ELSE <<>>) \o ((IF i # j THEN <<m>> ELSE <<>>) \o (IF j THEN <<w>> ELSE <<>>))
  BY DEF ClipFrustum, EdgeClipped
<1>3. i # j => Crosses(m, v, w, p) /\ m \in ClipSpace
  <2>. SUFFICES ASSUME i # j PROVE Crosses(m, v, w, p) /\ m \in ClipSpace
    OBVIOUS
  <2>1. Crosses(m, v, w, p)
    BY <1>1, MeetIs
  <2>. QED
    BY <2>1 DEF Crosses
<1>4. i \in BOOLEAN /\ j \in BOOLEAN
  OBVIOUS
<1>. HIDE DEF v, w, m, i, j
<1>5. i /\ j => ClipFrustum(P, p) = <<v, w>>
  <2>1. i /\ j => ClipFrustum(P, p) = <<v>> \o (<<>> \o <<w>>)
    BY <1>2
  <2>. QED
    BY <1>1, <2>1, TwoPieces
<1>6. i /\ ~ j => Crosses(m, v, w, p) /\ ClipFrustum(P, p) = <<v, m>>
  <2>1. i /\ ~ j => ClipFrustum(P, p) = <<v>> \o (<<m>> \o <<>>)
    BY <1>2
  <2>. QED
    BY <1>1, <1>3, <2>1, TwoPieces
<1>7. ~ i /\ j => Crosses(m, v, w, p) /\ ClipFrustum(P, p) = <<m, w>>
  <2>1. ~ i /\ j => ClipFrustum(P, p) = <<>> \o (<<m>> \o <<w>>)
    BY <1>2
  <2>. QED
    BY <1>1, <1>3, <2>1, TwoPieces
<1>8. ~ i /\ ~ j => ClipFrustum(P, p) = <<>>
  <2>1. ~ i /\ ~ j => (IF i THEN <<v>> ELSE <<>>) = <<>> /\ (IF i # j THEN <<m>> ELSE <<>>) = <<>>
                        /\ (IF j THEN <<w>> ELSE <<>>) = <<>>
    BY <1>4
  <2>2. ~ i /\ ~ j => ClipFrustum(P, p) = <<>> \o (<<>> \o <<>>)
    BY <1>2, <2>1
  <2>. QED
    BY <1>1, <2>2, TwoPieces
<1>. QED
  BY <1>5, <1>6, <1>7, <1>8 DEF v, w, m, i, j

\* A plane leaves a line, with all on it that can be seen.
LEMMA LineStep ==
  ASSUME NEW q, Segment(q), NEW p \in 0 .. 5, NEW P, LineShape(P, p, q)
  PROVE  \/ ClipFrustum(P, p) = <<>> /\ LineViews(q) = {}
         \/ LineShape(ClipFrustum(P, p), p + 1, q)
<1>. DEFINE v == P[1]
            w == P[2]
            m == Meet(v, w, p)
            U == LineViews(q)
            D == Inside(q[2], p) - Inside(q[1], p)
            Fits(x) == x \in Straight(q) /\ \A k \in 0 .. 5 : k < p + 1 => Inside(x, k) >= 0
<1>1. /\ P \in Seq(ClipSpace) /\ Len(P) = 2 /\ v \in Straight(q) /\ w \in Straight(q) /\ Ahead(v, w)
      /\ \A k \in 0 .. 5 : k < p => Inside(v, k) >= 0 /\ Inside(w, k) >= 0
      /\ \A u \in U : Ahead(v, u) /\ Ahead(u, w)
  BY DEF LineShape
<1>2. v \in ClipSpace /\ w \in ClipSpace
  BY <1>1 DEF Straight
<1>3. \A u \in U : u \in Straight(q) /\ Inside(u, p) >= 0
  BY DEF LineViews, InView
<1>4. /\ D \in Int
      /\ Inside(v, p) >= 0 /\ Inside(w, p) < 0 => D < 0
      /\ Inside(v, p) < 0 /\ Inside(w, p) >= 0 => D > 0
  BY <1>1, LineLeaves
<1>5. \A x : x \in Straight(q) /\ (\A k \in 0 .. 5 : k < p => Inside(x, k) >= 0) /\ Inside(x, p) >= 0 => Fits(x)
  BY \A k \in 0 .. 5 : k < p + 1 => k < p \/ k = p
<1>6. ASSUME Crosses(m, v, w, p)
      PROVE  Fits(m) /\ Inside(m, p) = 0
  <2>1. m \in Straight(q) /\ Inside(m, p) = 0
    BY <1>1, <1>6, LineMix DEF Crosses
  <2>2. \A k \in 0 .. 5 : k < p => Inside(m, k) >= 0
    BY <1>1, <1>2, <1>6, MeetInside
  <2>. QED
    BY <1>5, <2>1, <2>2
<1>7. ASSUME NEW x, NEW y, Fits(x), Fits(y), Ahead(x, y), \A u \in U : Ahead(x, u) /\ Ahead(u, y)
      PROVE  LineShape(<<x, y>>, p + 1, q)
  <2>1. x \in ClipSpace /\ y \in ClipSpace
    BY <1>7 DEF Straight
  <2>2. <<x, y>> \in Seq(ClipSpace) /\ Len(<<x, y>>) = 2 /\ <<x, y>>[1] = x /\ <<x, y>>[2] = y
    BY <2>1
  <2>. DEFINE T == <<x, y>>
  <2>3. T \in Seq(ClipSpace) /\ Len(T) = 2 /\ T[1] = x /\ T[2] = y
    BY <2>2
  <2>. HIDE DEF T
  <2>4. \A i \in 1 .. 2 : i = 1 \/ i = 2
    OBVIOUS
  <2>5. LineShape(T, p + 1, q)
    BY <1>7, <2>3, <2>4 DEF LineShape
  <2>. QED
    BY <2>5 DEF T
<1>8. Inside(v, p) \in Int /\ Inside(w, p) \in Int
  BY <1>2, ClipSpaceIs, InsideInt
<1>9. CASE Inside(v, p) >= 0 /\ Inside(w, p) >= 0
  <2>1. ClipFrustum(P, p) = <<v, w>>
    BY <1>1, <1>9, LineClipped
  <2>2. Fits(v) /\ Fits(w)
    BY <1>1, <1>5, <1>9
  <2>. HIDE DEF v, w, Fits, U
  <2>. QED
    BY <1>1, <1>7, <2>1, <2>2
<1>10. CASE Inside(v, p) >= 0 /\ ~ (Inside(w, p) >= 0)
  <2>1. ClipFrustum(P, p) = <<v, m>> /\ Crosses(m, v, w, p)
    BY <1>1, <1>10, LineClipped
  <2>2. D < 0
    BY <1>4, <1>8, <1>10
  <2>3. Fits(v) /\ Fits(m) /\ Inside(m, p) = 0
    BY <1>1, <1>5, <1>6, <1>10, <2>1
  <2>4. \A u \in Straight(q) : Inside(u, p) >= 0 => Ahead(u, m)
    BY <2>2, <2>3, LineMeets
  <2>. HIDE DEF v, w, m, Fits, U
  <2>. QED
    BY <1>1, <1>3, <1>7, <1>10, <2>1, <2>3, <2>4
<1>11. CASE ~ (Inside(v, p) >= 0) /\ Inside(w, p) >= 0
  <2>1. ClipFrustum(P, p) = <<m, w>> /\ Crosses(m, v, w, p)
    BY <1>1, <1>11, LineClipped
  <2>2. D > 0
    BY <1>4, <1>8, <1>11
  <2>3. Fits(w) /\ Fits(m) /\ Inside(m, p) = 0
    BY <1>1, <1>5, <1>6, <1>11, <2>1
  <2>4. \A u \in Straight(q) : Inside(u, p) >= 0 => Ahead(m, u)
    BY <2>2, <2>3, LineMeets
  <2>. HIDE DEF v, w, m, Fits, U
  <2>. QED
    BY <1>1, <1>3, <1>7, <1>11, <2>1, <2>3, <2>4
<1>12. CASE ~ (Inside(v, p) >= 0) /\ ~ (Inside(w, p) >= 0)
  <2>1. ClipFrustum(P, p) = <<>>
    BY <1>1, <1>12, LineClipped
  <2>. SUFFICES ASSUME NEW u \in U PROVE FALSE
    BY <2>1
  <2>2. u \in Straight(q) /\ Inside(u, p) >= 0 /\ Ahead(v, u) /\ Ahead(u, w)
    BY <1>1, <1>3
  <2>3. D > 0
    BY <1>1, <1>8, <1>12, <2>2, LineLeaves
  <2>4. D < 0
    BY <1>1, <1>8, <1>12, <2>2, LineLeaves
  <2>. QED
    BY <1>4, <2>3, <2>4
<1>. QED
  BY <1>9, <1>10, <1>11, <1>12

\* Before the first plane, all of the line is left.
LEMMA LineStart ==
  ASSUME NEW q, Segment(q)
  PROVE  LineShape(q, 0, q)
<1>1. q[1] \in ClipSpace /\ q[2] \in ClipSpace /\ q[1] \in Coords /\ q[2] \in Coords
  BY SegmentEnds
<1>2. \A f \in Field : q[1][f] \in Int /\ q[2][f] \in Int
  BY <1>1 DEF Coords
<1>3. q[1]["one"] = 1 /\ q[2]["one"] = 1 /\ q[1]["a"] = 0 /\ q[2]["a"] = 1 /\ q \in Seq(ClipSpace) /\ Len(q) = 2
  BY DEF Segment
<1>4. \A x, y \in Int : x * (1 - 0) + y * 0 = x /\ x * (1 - 1) + y * 1 = y
  OBVIOUS
<1>5. OnLine(q, q[1]) /\ OnLine(q, q[2])
  <2>1. ASSUME NEW f \in {"x", "y", "z", "w", "one"}
        PROVE  /\ q[1][f] = q[1][f] * (q[1]["one"] - q[1]["a"]) + q[2][f] * q[1]["a"]
               /\ q[2][f] = q[1][f] * (q[2]["one"] - q[2]["a"]) + q[2][f] * q[2]["a"]
    <3>. DEFINE x == q[1][f]
                y == q[2][f]
    <3>1. x \in Int /\ y \in Int
      BY <1>2 DEF Field
    <3>. HIDE DEF x, y
    <3>2. x = x * (1 - 0) + y * 0 /\ y = x * (1 - 1) + y * 1
      BY <1>4, <3>1
    <3>. QED
      BY <1>3, <3>2 DEF x, y
  <2>. QED
    BY <2>1 DEF OnLine
<1>6. \A i \in 1 .. 2 : i = 1 \/ i = 2
  OBVIOUS
<1>7. \A i \in 1 .. 2 : q[i] \in Straight(q)
  BY <1>1, <1>5, <1>6 DEF Straight
<1>8. Ahead(q[1], q[2])
  BY <1>3 DEF Ahead
<1>9. ASSUME NEW u \in LineViews(q) PROVE Ahead(q[1], u) /\ Ahead(u, q[2])
  <2>1. u["a"] \in Int /\ u["one"] \in Int /\ 0 <= u["a"] /\ u["a"] <= u["one"]
    BY ClipSpaceIs, CoordsAre DEF LineViews, Straight
  <2>2. \A x, y \in Int : 0 <= x /\ x <= y => 0 * y <= x * 1 /\ x * 1 <= 1 * y
    OBVIOUS
  <2>. QED
    BY <1>3, <2>1, <2>2 DEF Ahead
<1>10. \A k \in 0 .. 5 : ~ (k < 0)
  OBVIOUS
<1>. QED
  BY <1>3, <1>7, <1>8, <1>9, <1>10 DEF LineShape

-----------------------------------------------------------------------------
(* What is left of a primitive.                                             *)

PolygonLeft(q, P, r) ==
  \/ P = <<>> /\ r = 6 /\ Views(q) = {}
  \/ /\ r \in 0 .. 6 /\ Shape(P, r, q, Turn3(q)) /\ Looks(P, q, Turn3(q), Views(q))
     /\ Len(P) <= Len(q) + r
LineLeft(q, P, r) ==
  \/ P = <<>> /\ r = 6 /\ LineViews(q) = {}
  \/ r \in 0 .. 6 /\ LineShape(P, r, q)

ClipInv ==
  \/ prim = NoPrim /\ poly = <<>> /\ plane = 0
  \/ prim \in Polygons /\ PolygonLeft(prim, poly, plane)
  \/ prim \in Lines /\ LineLeft(prim, poly, plane)

\* One turn of the loop over the planes.
Clipped(P, r) == IF ClipFrustum(P, r) = <<>> THEN 6 ELSE r + 1

\* A plane leaves of a polygon what it should,
LEMMA PolygonStep ==
  ASSUME NEW q \in Polygons, NEW P, NEW r, PolygonLeft(q, P, r), r < 6
  PROVE  PolygonLeft(q, ClipFrustum(P, r), Clipped(P, r))
<1>. DEFINE t == Turn3(q)
            U == Views(q)
            R == ClipFrustum(P, r)
<1>1. Turning(q, t) /\ DOMAIN q = 1 .. Len(q)
  BY TurningIs
<1>2. q \in Seq(ClipSpace) /\ Base(q) /\ t \in {1, -1} /\ Len(q) \in Nat
  BY <1>1 DEF Turning
<1>3. r \in 0 .. 5 /\ Shape(P, r, q, t) /\ Looks(P, q, t, U) /\ Len(P) <= Len(q) + r
  BY DEF PolygonLeft
<1>4. U \subseteq Flat(q) /\ U \subseteq ClipSpace /\ \A u \in U : Inside(u, r) > 0
  BY <1>1, <1>3, PolygonLooks
<1>. HIDE DEF t, U
<1>5. /\ Len(R) <= Len(P) + 1
      /\ \/ R = <<>> /\ U = {}
         \/ Shape(R, r + 1, q, t) /\ Looks(R, q, t, U)
  BY <1>2, <1>3, <1>4, FrustumShape
<1>. HIDE DEF R
<1>6. CASE R = <<>> /\ U = {}
  BY <1>6 DEF PolygonLeft, Clipped, R, t, U
<1>7. CASE Shape(R, r + 1, q, t) /\ Looks(R, q, t, U)
  <2>1. R \in Seq(ClipSpace) /\ Len(R) >= 3 /\ P \in Seq(ClipSpace)
    BY <1>3, <1>7 DEF Shape
  <2>2. R # <<>> /\ Len(R) \in Nat /\ Len(P) \in Nat
    BY <2>1
  <2>3. Len(R) <= Len(q) + (r + 1) /\ r + 1 \in 0 .. 6
    BY <1>2, <1>3, <1>5, <2>2
  <2>4. Clipped(P, r) = r + 1
    BY <2>2 DEF Clipped, R
  <2>. QED
    BY <1>7, <2>3, <2>4 DEF PolygonLeft, R, t, U
<1>. QED
  BY <1>5, <1>6, <1>7

\* and of a line.
LEMMA LineLeftStep ==
  ASSUME NEW q \in Lines, NEW P, NEW r, LineLeft(q, P, r), r < 6
  PROVE  LineLeft(q, ClipFrustum(P, r), Clipped(P, r))
<1>. DEFINE R == ClipFrustum(P, r)
<1>1. Segment(q) /\ r \in 0 .. 5 /\ LineShape(P, r, q)
  BY SegmentIs DEF LineLeft
<1>2. \/ R = <<>> /\ LineViews(q) = {}
      \/ LineShape(R, r + 1, q)
  BY <1>1, LineStep
<1>. HIDE DEF R
<1>3. CASE R = <<>> /\ LineViews(q) = {}
  BY <1>3 DEF LineLeft, Clipped, R
<1>4. CASE LineShape(R, r + 1, q)
  <2>1. R \in Seq(ClipSpace) /\ Len(R) = 2
    BY <1>4 DEF LineShape
  <2>2. R # <<>>
    <3>1. R = <<>> <=> Len(R) = 0
      BY <2>1, EmptySeq
    <3>. QED
      BY <2>1, <3>1
  <2>3. Clipped(P, r) = r + 1 /\ r + 1 \in 0 .. 6
    BY <1>1, <2>2 DEF Clipped, R
  <2>. QED
    BY <1>4, <2>3 DEF LineLeft, R
<1>. QED
  BY <1>2, <1>3, <1>4

\* After the last plane, what is left of a polygon is right.
LEMMA PolygonRight ==
  ASSUME NEW q \in Polygons, NEW P, PolygonLeft(q, P, 6)
  PROVE  /\ \A v \in Range(P) : /\ v["one"] > 0 /\ InView(v, 0)
                                /\ Covers(q, Turn3(q), v) /\ Interpolated(q, v)
         /\ \A n \in [DOMAIN q -> Weights] : InView(Mean(q, n), 1) => Covers(P, Turn3(q), Mean(q, n))
<1>. DEFINE t == Turn3(q)
<1>1. Turning(q, t)
  BY TurningIs
<1>2. CASE P = <<>> /\ Views(q) = {}
  <2>1. Range(P) = {}
    BY <1>2 DEF Range
  <2>2. ASSUME NEW n \in [DOMAIN q -> Weights], InView(Mean(q, n), 1) PROVE FALSE
    <3>1. Mean(q, n) \in Views(q)
      BY <2>2 DEF Views
    <3>. QED
      BY <1>2, <3>1
  <2>. QED
    BY <2>1, <2>2
<1>3. CASE Shape(P, 6, q, t) /\ Looks(P, q, t, Views(q))
  <2>1. P \in Seq(ClipSpace) /\ Len(P) >= 3
    BY <1>3 DEF Shape
  <2>2. P # <<>> /\ DOMAIN P = 1 .. Len(P)
    BY <2>1, LenProperties
  <2>3. q \in Seq(ClipSpace) /\ q # <<>> /\ Base(q) /\ t \in {1, -1}
    BY <1>1 DEF Turning
  <2>4. ASSUME NEW i \in 1 .. Len(P)
        PROVE  /\ P[i]["one"] > 0 /\ InView(P[i], 0) /\ Covers(q, t, P[i]) /\ Interpolated(q, P[i])
    <3>1. P[i] \in Rest(q, t, 6)
      BY <1>3 DEF Shape
    <3>2. P[i] \in ClipSpace /\ P[i] \in Flat(q) /\ Within(q, t, P[i])
      BY <3>1 DEF Rest
    <3>3. \A k \in 0 .. 5 : k < 6
      OBVIOUS
    <3>4. InView(P[i], 0)
      BY <3>1, <3>3 DEF Rest, InView
    <3>. QED
      BY <2>3, <3>2, <3>4, CoversIs, ClipSpaceIs DEF Flat
  <2>5. ASSUME NEW n \in [DOMAIN q -> Weights], InView(Mean(q, n), 1)
        PROVE  Covers(P, t, Mean(q, n))
    <3>1. Mean(q, n) \in Views(q)
      BY <2>5 DEF Views
    <3>2. Views(q) \subseteq Flat(q)
      BY <1>1, TurningIs, PolygonLooks
    <3>3. Within(P, t, Mean(q, n))
      BY <1>3, <2>1, <2>3, <3>1, <3>2, SideFromLooks
    <3>. QED
      BY <2>1, <2>2, <3>3, CoversIs
  <2>6. \A v \in Range(P) : \E i \in 1 .. Len(P) : v = P[i]
    BY <2>2 DEF Range
  <2>. QED
    BY <2>4, <2>5, <2>6
<1>. QED
  BY <1>2, <1>3 DEF PolygonLeft

\* And so is what is left of a line.
LEMMA LineRight ==
  ASSUME NEW q \in Lines, NEW P, LineLeft(q, P, 6)
  PROVE  /\ \A v \in Range(P) : v["one"] > 0 /\ InView(v, 0) /\ OnLine(q, v)
         /\ \A m, k \in Weights \cup {0} :
              m + k > 0 /\ InView(Mean(q, <<k, m>>), 0) => Kept(P, m, k)
<1>1. Segment(q) /\ DOMAIN q = 1 .. 2
  BY SegmentIs
<1>2. ASSUME NEW m \in Weights \cup {0}, NEW k \in Weights \cup {0}, m + k > 0, InView(Mean(q, <<k, m>>), 0)
      PROVE  Mean(q, <<k, m>>) \in LineViews(q) /\ Mean(q, <<k, m>>)["a"] = m /\ Mean(q, <<k, m>>)["one"] = m + k
  <2>. DEFINE u == Mean(q, <<k, m>>)
  <2>1. m \in Nat /\ k \in Nat
    BY ClipAssumption
  <2>2. 1 \in DOMAIN q /\ 2 \in DOMAIN q /\ 3 \notin DOMAIN q /\ 4 \notin DOMAIN q
    BY <1>1
  <2>3. u = [f \in Field |-> k * q[1][f] + m * q[2][f] + 0 + 0]
    BY <2>2 DEF Mean
  <2>4. \A f \in Field : q[1][f] \in Int /\ q[2][f] \in Int
    BY <1>1, SegmentEnds DEF Coords
  <2>5. \A f \in Field : u[f] = k * q[1][f] + m * q[2][f] /\ u[f] \in Int
    BY <2>1, <2>3, <2>4
  <2>6. u \in Coords
    BY <2>3, <2>5 DEF Coords
  <2>7. u["a"] = m /\ u["one"] = m + k
    <3>1. u["a"] = k * q[1]["a"] + m * q[2]["a"] /\ u["one"] = k * q[1]["one"] + m * q[2]["one"]
      BY <2>5 DEF Field
    <3>2. k * 0 + m * 1 = m /\ k * 1 + m * 1 = m + k
      BY <2>1
    <3>. QED
      BY <1>1, <3>1, <3>2 DEF Segment
  <2>. HIDE DEF u
  <2>8. u \in ClipSpace
    BY <1>2, <2>6, <2>7 DEF ClipSpace, Coords
  <2>9. OnLine(q, u)
    <3>1. \A f \in {"x", "y", "z", "w", "one"} : u[f] = q[1][f] * k + q[2][f] * m
      BY <2>1, <2>4, <2>5 DEF Field
    <3>2. u["one"] - u["a"] = k
      BY <2>1, <2>7
    <3>. QED
      BY <2>7, <3>1, <3>2 DEF OnLine
  <2>10. 0 <= u["a"] /\ u["a"] <= u["one"]
    BY <2>1, <2>7
  <2>. QED
    BY <1>2, <2>7, <2>8, <2>9, <2>10 DEF LineViews, Straight, u
<1>3. CASE P = <<>> /\ LineViews(q) = {}
  <2>1. Range(P) = {}
    BY <1>3 DEF Range
  <2>. QED
    BY <1>2, <1>3, <2>1
<1>4. CASE LineShape(P, 6, q)
  <2>1. /\ P \in Seq(ClipSpace) /\ Len(P) = 2 /\ \A i \in 1 .. 2 : P[i] \in Straight(q)
        /\ \A i \in 1 .. 2, k \in 0 .. 5 : k < 6 => Inside(P[i], k) >= 0
        /\ \A u \in LineViews(q) : Ahead(P[1], u) /\ Ahead(u, P[2])
    BY <1>4 DEF LineShape
  <2>2. P # <<>> /\ DOMAIN P = 1 .. 2
    <3>1. P # <<>>
      BY <2>1, EmptySeq
    <3>2. DOMAIN P = 1 .. Len(P)
      BY <2>1, LenProperties
    <3>. QED
      BY <2>1, <3>1, <3>2
  <2>3. \A i \in 1 .. 2 : P[i]["one"] > 0 /\ InView(P[i], 0) /\ OnLine(q, P[i])
    <3>1. \A k \in 0 .. 5 : k < 6
      OBVIOUS
    <3>. QED
      BY <2>1, <3>1, ClipSpaceIs DEF InView, Straight
  <2>4. ASSUME NEW m \in Weights \cup {0}, NEW k \in Weights \cup {0}, m + k > 0, InView(Mean(q, <<k, m>>), 0)
        PROVE  Kept(P, m, k)
    BY <1>2, <2>1, <2>2, <2>4 DEF Kept, Ahead
  <2>5. \A v \in Range(P) : \E i \in 1 .. 2 : v = P[i]
    BY <2>2 DEF Range
  <2>. QED
    BY <2>3, <2>4, <2>5
<1>. QED
  BY <1>3, <1>4 DEF LineLeft

\* For all lines and convex polygons: every vertex that the six planes of
\* gaw_draw_indexed leave is in the view volume and on the primitive, with the depth and
\* the attribute it has there; no point in view is cut off, whatever its weights; and
\* after every plane the buffers of 16 and 6 (n - 1) vertices are large enough.
THEOREM ClippingIsRight == ClipSpec => []ClipsToView
<1>1. ClipInit => ClipInv
  BY DEF ClipInit, ClipInv
<1>2. ClipInv /\ [ClipNext]_clipVars => ClipInv'
  <2>. SUFFICES ASSUME ClipInv, [ClipNext]_clipVars PROVE ClipInv'
    OBVIOUS
  <2>1. ASSUME NEW q \in Lines \cup Polygons, Transformed(q) PROVE ClipInv'
    <3>1. prim' = q /\ poly' = q /\ plane' = 0
      BY <2>1 DEF Transformed
    <3>2. CASE q \in Polygons
      <4>1. Turning(q, Turn3(q)) /\ DOMAIN q = 1 .. Len(q)
        BY <3>2, TurningIs
      <4>2. Shape(q, 0, q, Turn3(q)) /\ Looks(q, q, Turn3(q), Views(q))
        BY <4>1, PolygonShape, PolygonLooks
      <4>3. Len(q) \in Nat /\ Len(q) <= Len(q) + 0 /\ 0 \in 0 .. 6
        BY <4>1 DEF Turning
      <4>4. PolygonLeft(q, q, 0)
        BY <4>2, <4>3 DEF PolygonLeft
      <4>. QED
        BY <3>1, <3>2, <4>4 DEF ClipInv
    <3>3. CASE q \in Lines
      <4>1. LineShape(q, 0, q) /\ 0 \in 0 .. 6
        BY <3>3, SegmentIs, LineStart
      <4>2. LineLeft(q, q, 0)
        BY <4>1 DEF LineLeft
      <4>. QED
        BY <3>1, <3>3, <4>2 DEF ClipInv
    <3>. QED
      BY <3>2, <3>3
  <2>2. CASE ClipPlane
    <3>1. /\ prim # NoPrim /\ plane < 6 /\ prim' = prim
          /\ poly' = ClipFrustum(poly, plane) /\ plane' = Clipped(poly, plane)
      BY <2>2 DEF ClipPlane, Clipped
    <3>2. CASE prim \in Polygons /\ PolygonLeft(prim, poly, plane)
      <4>1. PolygonLeft(prim, ClipFrustum(poly, plane), Clipped(poly, plane))
        BY <3>1, <3>2, PolygonStep
      <4>. QED
        BY <3>1, <3>2, <4>1 DEF ClipInv
    <3>3. CASE prim \in Lines /\ LineLeft(prim, poly, plane)
      <4>1. LineLeft(prim, ClipFrustum(poly, plane), Clipped(poly, plane))
        BY <3>1, <3>3, LineLeftStep
      <4>. QED
        BY <3>1, <3>3, <4>1 DEF ClipInv
    <3>. QED
      BY <3>1, <3>2, <3>3 DEF ClipInv
  <2>3. CASE NextPrim
    BY <2>3 DEF NextPrim, ClipInv
  <2>4. CASE UNCHANGED clipVars
    BY <2>4 DEF clipVars, ClipInv
  <2>. QED
    BY <2>1, <2>2, <2>3, <2>4 DEF ClipNext
<1>3. ClipInv => ClipsToView
  <2>. SUFFICES ASSUME ClipInv PROVE ClipsToView
    OBVIOUS
  <2>1. CASE prim = NoPrim /\ poly = <<>> /\ plane = 0
    BY <2>1 DEF ClipsToView, FitsBuffers
  <2>2. CASE prim \in Polygons /\ PolygonLeft(prim, poly, plane)
    <3>1. Len(prim) \in {3, 4} /\ prim \notin Lines
      BY <2>2, ClipAssumption
    <3>2. FitsBuffers
      <4>. SUFFICES ASSUME poly # <<>> PROVE Len(poly) <= 16 /\ Len(poly) <= 6 * (Len(prim) - 1)
        BY DEF FitsBuffers
      <4>1. poly \in Seq(ClipSpace) /\ plane \in 0 .. 6 /\ Len(poly) <= Len(prim) + plane
        BY <2>2 DEF PolygonLeft, Shape
      <4>2. Len(poly) \in Nat
        BY <4>1
      <4>3. CASE Len(prim) = 3
        BY <4>1, <4>2, <4>3
      <4>4. CASE Len(prim) = 4
        BY <4>1, <4>2, <4>4
      <4>. QED
        BY <3>1, <4>3, <4>4
    <3>. QED
      BY <2>2, <3>1, <3>2, PolygonRight DEF ClipsToView
  <2>3. CASE prim \in Lines /\ LineLeft(prim, poly, plane)
    <3>1. Len(prim) = 2 /\ prim \notin Polygons
      BY <2>3, ClipAssumption
    <3>2. FitsBuffers
      <4>1. poly # <<>> => Len(poly) = 2
        BY <2>3 DEF LineLeft, LineShape
      <4>2. 2 <= 16 /\ 2 <= 6 * (2 - 1)
        OBVIOUS
      <4>3. poly # <<>> => Len(poly) <= 16 /\ Len(poly) <= 6 * (Len(prim) - 1)
        BY <3>1, <4>1, <4>2
      <4>. QED
        BY <4>3 DEF FitsBuffers
    <3>. QED
      BY <2>3, <3>1, <3>2, LineRight DEF ClipsToView
  <2>. QED
    BY <2>1, <2>2, <2>3 DEF ClipInv
<1>. QED
  BY <1>1, <1>2, <1>3, PTL DEF ClipSpec

=============================================================================
