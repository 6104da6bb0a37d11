---------------------------- MODULE ColorPicker -----------------------------
(***************************************************************************)
(* The numbers of the colour dialog (mtlui.c, gfxutil.c): a colour becomes *)
(* hue, saturation and value when the dialog opens, the bar and the box    *)
(* change these, and Ok turns them back.  All of it is integer arithmetic  *)
(* that rounds, in both directions.  (The division by 255.0 that stores a  *)
(* component and the multiplication that loads it undo each other.)        *)
(***************************************************************************)
EXTENDS CArith

CONSTANTS
  Starts,       \* colours that a scene can bring
  Xs, Ys,       \* places of the pointer, relative to the bar or the box
  MaxChoices    \* bound on the colours that are chosen and confirmed

Huebox_sz == 128
Huebar_height == 20

ASSUME ColorAssumption ==
  /\ Starts \subseteq [1 .. 3 -> 0 .. 255]
  /\ Xs \subseteq Int /\ Ys \subseteq Int /\ MaxChoices \in Nat

VARIABLES
  rgb,          \* *destcol
  hsv,          \* colorw.hsv
  opened,       \* the dialog is visible
  on,           \* the widget that the pointer drags on
  touched,      \* the bar or the box was used since the dialog opened
  choices       \* colours chosen and confirmed

colVars == <<rgb, hsv, opened, on, touched, choices>>

-----------------------------------------------------------------------------
(* gfxutil.c.  C divides towards zero; >> is the division that TLA+ has.   *)

Max3(c) == CHOOSE m \in {c[1], c[2], c[3]} : \A i \in 1 .. 3 : c[i] <= m
Min3(c)    == CHOOSE m \in {c[1], c[2], c[3]} : \A i \in 1 .. 3 : c[i] >= m

\* Hue of a channel: `first' - `second', turned by `sextants'.
HueFrom(first, second, chroma, sextants) ==
  (60 * (Quot((first - second) * 256, chroma) + sextants * 256)) \div 256

Hue(c, v, chroma) ==
  CASE chroma = 0 -> 0
    [] chroma # 0 /\ v = c[1] -> HueFrom(c[2], c[3], chroma, 6) % 360
    [] chroma # 0 /\ v # c[1] /\ v = c[2] -> HueFrom(c[3], c[1], chroma, 2)
    [] OTHER -> HueFrom(c[1], c[2], chroma, 4)

RgbToHsv(c) ==
  LET v == Max3(c)
      chroma == v - Min3(c)
  IN [h |-> Hue(c, v, chroma), s |-> IF v = 0 THEN 0 ELSE Quot(chroma * 256, v), v |-> v]

\* Mutant: the ramp of the middle channel has the width of one sextant.
Ramp_Saw(c, hp) == (c * (hp % 256)) \div 256

\* The middle channel, up in one sextant and down in the next.
Ramp(c, hp) == (c * (256 - Abs((hp % 512) - 256))) \div 256

\* What is added to every channel.
Lift(v, c) == v - c

HsvToRgb(t) ==
  LET c  == (t.v * t.s) \div 256
      hp == Quot(t.h * 256, 60)
      x  == Ramp(c, hp)
      channels == CASE hp \div 256 = 0 -> <<c, x, 0>>
                    [] hp \div 256 = 1 -> <<x, c, 0>>
                    [] hp \div 256 = 2 -> <<0, c, x>>
                    [] hp \div 256 = 3 -> <<0, x, c>>
                    [] hp \div 256 = 4 -> <<x, 0, c>>
                    [] OTHER -> <<c, 0, x>>
      lifted(i) == channels[i] + Lift(t.v, c)
  IN [i \in 1 .. 3 |-> IF lifted(i) > 255 THEN 255 ELSE lifted(i)]

-----------------------------------------------------------------------------
(* mtlui.c.                                                                *)

\* start_color_picker.
OpenPicker ==
  /\ ~opened
  /\ hsv' = RgbToHsv(rgb)
  /\ opened' = TRUE /\ touched' = FALSE
  /\ UNCHANGED <<rgb, on, choices>>

\* The bar chooses the hue, the box saturation and value.
Choose(w, x, y) ==
  IF w = "huebar"
  THEN [hsv EXCEPT !.h = Quot(x * 360, Huebox_sz)]
  ELSE [hsv EXCEPT !.s = Quot(x * 256, Huebox_sz), !.v = 255 - Quot(y * 256, Huebox_sz)]

Height(w) == IF w = "huebar" THEN Huebar_height ELSE Huebox_sz

\* colbox_mbutton: the pointer is inside of the widget.
PressPicker(w, x, y) ==
  /\ opened /\ on = "none"
  /\ choices < MaxChoices
  /\ x \in 0 .. Huebox_sz - 1 /\ y \in 0 .. Height(w) - 1
  /\ hsv' = Choose(w, x, y)
  /\ on' = w /\ touched' = TRUE
  /\ UNCHANGED <<rgb, opened, choices>>

\* colbox_drag: the pointer can be anywhere, and below the box it counts.
DragPicker(x, y) ==
  /\ opened /\ on # "none"
  /\ x \in 0 .. Huebox_sz - 1 /\ y >= 0
  /\ on = "huebar" => y < Huebar_height
  /\ hsv' = Choose(on, x, y)
  /\ UNCHANGED <<rgb, opened, on, touched, choices>>

ReleasePicker ==
  /\ on # "none"
  /\ on' = "none"
  /\ UNCHANGED <<rgb, hsv, opened, touched, choices>>

\* colbn_handler.
OkPicker ==
  /\ opened /\ on = "none"
  /\ rgb' = HsvToRgb(hsv)
  /\ opened' = FALSE
  /\ choices' = choices + (IF touched THEN 1 ELSE 0)
  /\ UNCHANGED <<hsv, on, touched>>

CancelPicker ==
  /\ opened /\ on = "none"
  /\ opened' = FALSE
  /\ UNCHANGED <<rgb, hsv, on, touched, choices>>

ColInit ==
  /\ rgb \in Starts
  /\ hsv = [h |-> 0, s |-> 0, v |-> 0]
  /\ opened = FALSE /\ on = "none" /\ touched = FALSE /\ choices = 0

ColNext ==
  \/ OpenPicker \/ ReleasePicker \/ OkPicker \/ CancelPicker
  \/ \E w \in {"huebar", "huebox"}, x \in Xs, y \in Ys : PressPicker(w, x, y)
  \/ \E x \in Xs, y \in Ys : DragPicker(x, y)

ColSpec == ColInit /\ [][ColNext]_colVars

-----------------------------------------------------------------------------
(* Properties.                                                             *)

\* A chosen colour is a colour, and the dialog shows it again when it is opened
\* for it: the same value and, away from the greys, the hue within four degrees
\* (gfxutil.c:20-85).  This needs a value that is not negative: colbox_drag has
\* no lower limit on the box, and hsv_to_rgb only an upper one on components.
ChoiceIsShownAgain ==
  LET back == RgbToHsv(HsvToRgb(hsv))
      d == Abs(back.h - hsv.h)
      away == IF d > 180 THEN 360 - d ELSE d
  IN opened /\ touched /\ hsv.v >= 0 /\ hsv.s >= 0 =>
       /\ HsvToRgb(hsv) \in [1 .. 3 -> 0 .. 255]
       /\ back.v = hsv.v
       /\ (hsv.v * hsv.s) \div 256 >= 16 => away <= 4
=============================================================================
