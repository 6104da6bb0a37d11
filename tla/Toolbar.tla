------------------------------ MODULE Toolbar -------------------------------
(***************************************************************************)
(* The two choices of the modeller's toolbar (modui.c, scr_mod.c): the     *)
(* tool, a row of toggle buttons of which one is meant to be pressed, and  *)
(* the axes along which objects move, a drop-down menu of toggle buttons,  *)
(* an icon, a bit mask, and the keys x, y and z that set the mask while    *)
(* they are held.                                                          *)
(*                                                                         *)
(* A key arrives as a character.  The GLUT that comes with the program     *)
(* makes it a lower-case one whatever the modifiers, and reports keys at   *)
(* once and their release too.  The DOS keyboard makes it an upper-case    *)
(* one under shift, which is no key of the modeller, queues it, reports no *)
(* releases, and reads the modifiers once per round of its loop.           *)
(***************************************************************************)
EXTENDS Integers, Sequences

CONSTANTS
  Tools,     \* tools with a button
  Sel,       \* TOOL_SEL
  Dbg,       \* TOOL_DBG, which has none
  GLUT, DOS, \* the front ends
  NoKey,
  MaxTyped   \* bound on the keys that wait in the DOS ring

ASSUME ToolbarAssumption ==
  /\ Sel \in Tools /\ Dbg \notin Tools
  /\ GLUT # DOS
  /\ MaxTyped \in Nat
  /\ NoKey \notin {"x", "y", "z", "menu"}

VARIABLES
  tool,      \* cur_tool
  pressed,   \* tools whose buttons are pressed (value 1)
  mask,      \* axismask
  icon,      \* index of the constraint whose icon the xyz button shows
  chosen,    \* constraints whose menu buttons are pressed
  menu,      \* xyzmenu is open
  taken,     \* another modal window or a text box takes the keys
  keys,      \* axis keys that are held
  shift,     \* a shift key is held
  modkeys,   \* the shift bit of modkeys
  typed,     \* DOS: characters that wait in the ring
  by,        \* the key that set the mask, unless something else did
  stuck,     \* a release of that key was ignored
  front      \* which front end this is

tools  == <<tool, pressed>>
axes   == <<mask, icon, chosen, by, stuck>>
user   == <<keys, shift, typed>>
barVars   == <<tools, axes, menu, taken, user, modkeys, front>>

Axes  == {"x", "y", "z"}
Bit   == [x |-> 1, y |-> 2, z |-> 4]
All   == 255
MenuItems == 0 .. 6       \* of the menu: xyz, x, y, z, yz, xz, xy

-----------------------------------------------------------------------------
(* Tools.                                                                  *)

\* act_settool, with these buttons pressed.
SetTool(t, down) ==
  /\ tool' = t
  /\ pressed' = IF t = tool THEN down ELSE {t} \cap Tools

\* A click toggles the button before its callback sees it.
Toggle(b, down) == IF b \in down THEN down \ {b} ELSE down \cup {b}

ClickTool(t) ==
  /\ ~ menu /\ t \in Tools
  /\ SetTool(t, Toggle(t, pressed))
  /\ UNCHANGED <<axes, menu, taken, user, modkeys, front>>

\* The keys of the tools, ESC among them, and New and Open.
ChooseTool(t) ==
  /\ ~ menu /\ ~ taken
  /\ SetTool(t, pressed)
  /\ UNCHANGED <<axes, menu, taken, user, modkeys, front>>

-----------------------------------------------------------------------------
(* The mask.                                                               *)

MaskIdx == [m \in 1 .. 7 |-> <<1, 2, 6, 3, 5, 4, 0>>[m]]

Normal(m) == IF m = 0 \/ m >= 8 THEN All ELSE m

\* Mutant: the planes in the order of the axes that they leave out.
BnIdx_Planes(m) == IF Normal(m) = All THEN 0 ELSE <<1, 2, 4, 3, 5, 6, 0>>[m]

BnIdx(m) == IF Normal(m) = All THEN 0 ELSE MaskIdx[m]

\* set_axismask, with these buttons of the menu pressed.
SetMask(m, down) ==
  /\ mask' = Normal(m)
  /\ icon' = BnIdx(m)
  /\ chosen' = down \cap {BnIdx(m)}

ItemMask == [i \in MenuItems |-> <<All, 1, 2, 4, 6, 5, 3>>[i + 1]]

OpenMenu ==
  /\ ~ menu /\ ~ taken
  /\ menu' = TRUE
  /\ UNCHANGED <<tools, axes, taken, user, modkeys, front>>

\* ESC, or a click beside the menu.
CloseMenu ==
  /\ menu
  /\ menu' = FALSE
  /\ UNCHANGED <<tools, axes, taken, user, modkeys, front>>

\* xyz_handler.
ClickItem(i) ==
  /\ menu
  /\ menu' = FALSE
  /\ SetMask(ItemMask[i], Toggle(i, chosen))
  /\ by' = "menu" /\ stuck' = FALSE
  /\ UNCHANGED <<tools, taken, user, modkeys, front>>

\* Other windows and the text box come and go.
Take(b) ==
  /\ ~ menu /\ b # taken
  /\ taken' = b
  /\ UNCHANGED <<tools, axes, menu, user, modkeys, front>>

-----------------------------------------------------------------------------
(* mdl_keyb for the character of axis a: an axis key does something when   *)
(* no window takes it and the character is lower-case.                     *)

\* GLUT takes the first symbol of the key (X11) or adds 32 to its upper-case
\* code (Windows); the DOS interrupt looks in the shifted table.
SmallInGlut == TRUE
SmallInDos  == ~ shift

Heard(small) == small /\ ~ menu /\ ~ taken

\* Shift turns the word over: ~1, ~2 and ~4.  (The low 16 bits of the word
\* stand for it; any width beyond the three axes gives the same masks.)
KeyMask(a, mods) == IF mods THEN 65535 - Bit[a] ELSE Bit[a]

KeyPressed(a, small, mods) ==
  IF Heard(small)
  THEN /\ SetMask(KeyMask(a, mods), chosen)
       /\ by' = IF mods THEN NoKey ELSE a
       /\ stuck' = (a \notin keys')
  ELSE UNCHANGED axes

\* Mutant: the release sets the mask as the press does.
KeyReleased_AsPress(a, small) ==
  IF Heard(small)
  THEN SetMask(Bit[a], chosen) /\ by' = a /\ stuck' = FALSE
  ELSE UNCHANGED <<mask, icon, chosen, by>> /\ stuck' = (stuck \/ a = by)

\* The release of any of the three keys ends the constraint.
KeyReleased(a, small) ==
  IF Heard(small)
  THEN SetMask(All, chosen) /\ by' = NoKey /\ stuck' = FALSE
  ELSE UNCHANGED <<mask, icon, chosen, by>> /\ stuck' = (stuck \/ a = by)

-----------------------------------------------------------------------------
(* The GLUT front end: every event is delivered at once.                   *)

GlutDown(a) ==
  /\ front = GLUT
  /\ keys' = keys \cup {a}
  /\ modkeys' = shift
  /\ KeyPressed(a, SmallInGlut, shift)
  /\ UNCHANGED <<tools, menu, taken, shift, typed, front>>

GlutUp(a) ==
  /\ front = GLUT
  /\ a \in keys
  /\ keys' = keys \ {a}
  /\ KeyReleased(a, SmallInGlut)
  /\ UNCHANGED <<tools, menu, taken, shift, typed, modkeys, front>>

-----------------------------------------------------------------------------
(* The DOS front end: the interrupt queues a character, the main loop reads *)
(* the modifiers and then the queue.                                       *)

DosDown(a) ==
  /\ front = DOS
  /\ a \notin keys /\ Len(typed) < MaxTyped
  /\ keys' = keys \cup {a}
  /\ typed' = Append(typed, <<a, SmallInDos>>)
  /\ UNCHANGED <<tools, axes, menu, taken, shift, modkeys, front>>

DosUp(a) ==
  /\ front = DOS
  /\ a \in keys
  /\ keys' = keys \ {a}
  /\ stuck' = (stuck \/ a = by)
  /\ UNCHANGED <<tools, mask, icon, chosen, by, menu, taken, shift, typed, modkeys, front>>

ReadModifiers ==
  /\ front = DOS
  /\ modkeys # shift
  /\ modkeys' = shift
  /\ UNCHANGED <<tools, axes, menu, taken, user, front>>

DosKey ==
  /\ typed # <<>>
  /\ typed' = Tail(typed)
  /\ UNCHANGED <<keys, shift>>
  /\ LET k == Head(typed) IN KeyPressed(k[1], k[2], modkeys)
  /\ UNCHANGED <<tools, menu, taken, modkeys, front>>

Shift ==
  /\ shift' = ~ shift
  /\ UNCHANGED <<tools, axes, menu, taken, keys, typed, modkeys, front>>

-----------------------------------------------------------------------------
BarInit ==
  /\ tool = Sel /\ pressed = {Sel}
  /\ mask = All /\ icon = 0 /\ chosen = {0} /\ by = NoKey /\ stuck = FALSE
  /\ menu = FALSE /\ taken = FALSE
  /\ keys = {} /\ shift = FALSE /\ typed = <<>>
  /\ modkeys = FALSE
  /\ front \in {GLUT, DOS}

BarNext ==
  \/ \E t \in Tools : ClickTool(t)
  \/ \E t \in Tools \cup {Dbg} : ChooseTool(t)
  \/ OpenMenu \/ CloseMenu
  \/ \E i \in MenuItems : ClickItem(i)
  \/ \E b \in BOOLEAN : Take(b)
  \/ \E a \in Axes : GlutDown(a) \/ GlutUp(a) \/ DosDown(a) \/ DosUp(a)
  \/ ReadModifiers \/ DosKey
  \/ Shift

BarSpec == BarInit /\ [][BarNext]_barVars

-----------------------------------------------------------------------------
(* Properties.                                                             *)

\* The types of the toolbar's state, which the proofs need.
BarTypeOK ==
  /\ tool \in Tools \cup {Dbg} /\ pressed \subseteq Tools
  /\ mask \in 1 .. 6 \cup {All}
  /\ icon \in MenuItems /\ chosen \subseteq MenuItems
  /\ menu \in BOOLEAN /\ taken \in BOOLEAN
  /\ keys \subseteq Axes
  /\ shift \in BOOLEAN /\ modkeys \in BOOLEAN
  /\ typed \in Seq(Axes \X BOOLEAN)
  /\ by \in Axes \cup {"menu", NoKey}
  /\ stuck \in BOOLEAN
  /\ front \in {GLUT, DOS}

\* No button shows another choice than the one in force, whichever mixture of
\* clicks and keys led there.  (There may be no pressed button: a click on the
\* pressed one releases it, and act_settool then returns at once.)
\* And the icon is that of the mask: the tables of set_axismask (by mask) and
\* of xyz_handler (by menu item) are inverse to each other.
ToolbarIsTrue ==
  /\ pressed \subseteq {tool} /\ chosen \subseteq {icon}
  /\ mask = ItemMask[icon]

\* Objects move along all axes, unless the menu said otherwise, or an axis key
\* is held, or its release was ignored: a window took it, or DOS did not
\* report it.
ConstraintHasCause ==
  mask # All =>
    \/ by = "menu"
    \/ by \in Axes /\ mask = Bit[by] /\ (by \in keys \/ stuck)

\* Shift with an axis key that reaches the modeller constrains to the plane
\* of the other two (doc/manual.md:40).  It does not: the word ~1 that mdl_keyb
\* passes is not below 8, and set_axismask takes it for all axes.
ShiftChoosesPlane ==
  [][\A a \in Axes : GlutDown(a) /\ shift /\ ~ menu /\ ~ taken
                       => mask' = 7 - Bit[a]]_barVars
=============================================================================
