------------------------------ MODULE RtkInput ------------------------------
(***************************************************************************)
(* Who gets an input event: the widgets of the toolkit (rtk.c) or the 3D   *)
(* viewport behind them (scr_mod.c).  Both keep their own record of the    *)
(* button that is held - `press' here, `vpdrag' there - and neither tells  *)
(* the other.  A menu or dialog is modal: while it is open it must own     *)
(* every event.                                                            *)
(*                                                                         *)
(* Where things are on the screen is left open: windows move, so any       *)
(* widget of a window that is searched may be under the pointer, and any   *)
(* point may be covered by it.  Left out is what only changes how widgets  *)
(* are drawn: the hover and press flags, and which window has the focus.   *)
(***************************************************************************)
EXTENDS Integers, FiniteSets

CONSTANTS
  Windows,    \* top-level windows of the screen
  Controls,   \* the widgets inside of them
  None,       \* the null pointer
  Toolbar,    \* the window that is always shown
  Editor,     \* the material editor, hidden by every cancel_op
  Parent,     \* the window of each control
  Role,       \* what a click on a control does (see Click)
  Opens,      \* the window that a menu, a picker or a toggle button opens
  Buttons,    \* mouse buttons, 0 is the left one
  Points,     \* positions of the pointer that differ for the viewport
  Objects     \* objects that can be hit by a pick

Roles == {"menu", "picker", "dismiss", "toggle", "reset", "tool", "textbox", "plain"}

\* The windows that are only ever shown modally.
ModalWindows ==
  {Opens[c] : c \in {d \in Controls : Role[d] \in {"menu", "picker"}}}

ASSUME RtkAssumption ==
  /\ None \notin Windows \cup Controls \cup Objects
  /\ Windows \cap Controls = {}
  /\ Toolbar \in Windows /\ Editor \in Windows
  /\ Parent \in [Controls -> Windows]
  /\ Role \in [Controls -> Roles]
  /\ Opens \in [Controls -> Windows]
  /\ 0 \in Buttons
  /\ Toolbar \notin ModalWindows /\ Editor \notin ModalWindows
  /\ \A c \in Controls : Role[c] = "toggle" => Opens[c] \notin ModalWindows
  \* no menu and no dialog opens another one
  /\ \A c \in Controls : Role[c] \in {"menu", "picker"} => Parent[c] \notin ModalWindows

Widgets == Windows \cup Controls
ToolNames == {"sel", "area", "move"}

VARIABLES
  visible,    \* windows with the VISIBLE flag
  modal,      \* scr->modal
  press,      \* scr->press
  focus,      \* scr->focus
  focused,    \* widgets drawn with the focus (FOCUS flag)
  down,       \* the buttons the user really holds
  vpdrag,     \* buttons whose press went to the viewport
  vpnav,      \* those of them that were pressed to navigate
  origin,     \* rband.x, rband.y
  rbandValid, \* a rubber band is shown
  pick,       \* the object under the last click of the viewport (scn_pick);
              \* module Modeller has what is done with it
  curTool,    \* cur_tool
  asked       \* the last event was ESC, with nothing but the toolbar shown

toolkit  == <<visible, modal, press, focus, focused>>
viewport == <<vpdrag, vpnav, origin, rbandValid, pick>>
vars     == <<toolkit, viewport, down, curTool, asked>>

-----------------------------------------------------------------------------
(* The toolkit.                                                            *)

WindowOf(w) == IF w \in Windows THEN w ELSE Parent[w]

\* What may be under the pointer: with a modal window open only that window
\* is searched, and hidden windows never are.
Searched   == (IF modal = None THEN Windows ELSE {modal}) \cap visible

UnderMouse == {w \in Widgets : WindowOf(w) \in Searched} \cup {None}

Hide(win) ==
  /\ visible' = visible \ {win}
  /\ modal' = IF modal = win THEN None ELSE modal

ShowModal(win) ==
  /\ visible' = visible \cup {win}
  /\ modal' = win

\* What a click on widget w does: the callbacks of modui.c and mtlui.c.  A
\* colour button opens the picker only if a material is current.
Click(w) ==
  IF w \in Windows THEN UNCHANGED <<visible, modal, curTool>>
  ELSE
    \/ Role[w] \in {"menu", "picker"} /\ ShowModal(Opens[w]) /\ UNCHANGED curTool
    \/ Role[w] = "dismiss" /\ Hide(Parent[w]) /\ UNCHANGED curTool
    \/ Role[w] = "toggle" /\ Opens[w] \in visible /\ Hide(Opens[w]) /\ UNCHANGED curTool
    \/ Role[w] = "toggle" /\ Opens[w] \notin visible
       /\ visible' = visible \cup {Opens[w]} /\ UNCHANGED <<modal, curTool>>
    \/ Role[w] = "reset" /\ Hide(Editor) /\ curTool' = "sel"
    \/ Role[w] = "tool" /\ curTool' \in ToolNames /\ UNCHANGED <<visible, modal>>
    \/ Role[w] \in {"textbox", "plain", "picker"} /\ UNCHANGED <<visible, modal, curTool>>

\* The flags always follow the click; the pointer only moves to a text box,
\* and nothing ever resets it.
SetFocus(w) ==
  LET box == {c \in Controls \cap {w} : Role[c] = "textbox"} IN
  /\ focused' = box \cup (IF w = None THEN {} ELSE {WindowOf(w)})
  /\ focus' = IF box # {} THEN w ELSE focus

\* Mutant: the modal window lets through what happens beside it.
Handles_OnlyWidgets(w) == w # None

Handles(w) == w # None \/ modal # None

\* rtk_input_mbutton, press: the left button remembers what it was pressed on.
WidgetPress(bn, w) ==
  /\ press' = IF bn = 0 THEN w ELSE press
  /\ UNCHANGED <<visible, modal, focus, focused, curTool>>

\* rtk_input_mbutton, release beside a modal window: it closes, and that is all.
ReleaseBeside(w) ==
  /\ w = None /\ modal # None
  /\ Hide(modal)
  /\ UNCHANGED <<press, focus, focused, curTool>>

\* rtk_input_mbutton, release of the left button: a click if it was pressed on
\* the same widget, a drop (which no widget handles) otherwise.
ReleaseLeft(w) ==
  /\ ~ (w = None /\ modal # None)
  /\ IF w # None /\ press = w
       THEN Click(w) /\ SetFocus(w)
       ELSE SetFocus(None) /\ UNCHANGED <<visible, modal, curTool>>
  /\ press' = None

-----------------------------------------------------------------------------
(* The viewport.                                                           *)

ViewportPress(bn, pt, navigate) ==
  /\ rbandValid' = FALSE
  /\ origin' = pt
  /\ vpdrag' = vpdrag \cup {bn}
  /\ vpnav' = IF navigate THEN vpnav \cup {bn} ELSE vpnav
  /\ UNCHANGED pick

\* Mutant: the button is forgotten only if it navigates.
ViewportRelease_Nav(bn, pt) ==
  /\ vpdrag' = vpdrag \ ({bn} \cap vpnav)
  /\ vpnav' = vpnav \ {bn}
  /\ rbandValid' = FALSE
  /\ UNCHANGED <<origin, pick>>

\* A release ends the rubber band; without one, the left button picks.
ViewportRelease(bn, pt) ==
  /\ vpdrag' = vpdrag \ {bn}
  /\ vpnav' = vpnav \ {bn}
  /\ rbandValid' = FALSE
  /\ UNCHANGED origin
  /\ IF ~ rbandValid /\ bn = 0 /\ pt = origin
       THEN pick' \in Objects \cup {None}
       ELSE UNCHANGED pick

-----------------------------------------------------------------------------
(* The handlers of the modeller's screen.                                  *)

\* Mutant: the toolkit is asked in the middle of a viewport drag as well.
ToolkitFirst_Always == TRUE

\* mdl_mouse and mdl_motion offer an event to the toolkit, unless the viewport
\* is being dragged, and go on to the viewport when it was not handled there.
ToolkitFirst == vpdrag = {}

MousePress(bn, w, pt, navigate) ==
  /\ bn \notin down
  /\ w \in UnderMouse
  /\ down' = down \cup {bn}
  /\ asked' = FALSE
  /\ IF ToolkitFirst
       THEN /\ WidgetPress(bn, w)
            /\ IF Handles(w) THEN UNCHANGED viewport
                             ELSE ViewportPress(bn, pt, navigate)
       ELSE ViewportPress(bn, pt, navigate) /\ UNCHANGED <<toolkit, curTool>>

MouseRelease(bn, w, pt) ==
  /\ bn \in down
  /\ w \in UnderMouse
  /\ down' = down \ {bn}
  /\ asked' = FALSE
  /\ IF ~ ToolkitFirst THEN ViewportRelease(bn, pt) /\ UNCHANGED <<toolkit, curTool>>
     ELSE
       \/ ReleaseBeside(w) /\ UNCHANGED viewport
       \/ /\ bn = 0
          /\ ReleaseLeft(w)
          /\ IF w # None \/ modal' # None THEN UNCHANGED viewport
                                          ELSE ViewportRelease(bn, pt)
       \/ /\ bn # 0 /\ ~ (w = None /\ modal # None)
          /\ IF modal # None THEN UNCHANGED viewport ELSE ViewportRelease(bn, pt)
          /\ UNCHANGED <<toolkit, curTool>>

\* A motion drags the pressed widget, or is for the window under the pointer,
\* or else stretches the rubber band or moves the selected object.
MouseMotion(w, pt) ==
  /\ w \in UnderMouse
  /\ ~ ToolkitFirst \/ ~ (press # None \/ Handles(w))
  /\ vpnav = {} /\ 0 \in down /\ curTool \in {"sel", "area"} /\ pt # origin
  /\ rbandValid' = TRUE
  /\ asked' = FALSE
  /\ UNCHANGED <<toolkit, down, vpdrag, vpnav, origin, pick, curTool>>

\* The text box gets the key, wherever it is and whether or not it is shown.
KeyToTextbox == focus # None /\ (modal = None \/ Parent[focus] = modal)

Escape ==
  /\ asked' = (modal = None /\ visible = {Toolbar})
  /\ IF KeyToTextbox THEN UNCHANGED <<visible, modal, curTool>>
     ELSE IF modal # None THEN Hide(modal) /\ UNCHANGED curTool
     ELSE Hide(Editor) /\ curTool' = "sel"
  /\ UNCHANGED <<press, focus, focused, viewport, down>>

\* The keys g, r, s and F6.
ToolKey(t) ==
  /\ ~ KeyToTextbox /\ modal = None
  /\ curTool' = t
  /\ asked' = FALSE
  /\ UNCHANGED <<toolkit, viewport, down>>

-----------------------------------------------------------------------------
InitAt(pt) ==
  /\ visible = {Toolbar}
  /\ modal = None /\ press = None /\ focus = None
  /\ focused = {} /\ down = {}
  /\ vpdrag = {} /\ vpnav = {}
  /\ origin = pt
  /\ rbandValid = FALSE
  /\ pick = None
  /\ curTool = "sel"
  /\ asked = FALSE

Init == \E pt \in Points : InitAt(pt)

Next ==
  \/ \E bn \in Buttons, w \in Widgets \cup {None}, pt \in Points, nav \in BOOLEAN :
       MousePress(bn, w, pt, nav)
  \/ \E bn \in Buttons, w \in Widgets \cup {None}, pt \in Points : MouseRelease(bn, w, pt)
  \/ \E w \in Widgets \cup {None}, pt \in Points : MouseMotion(w, pt)
  \/ Escape
  \/ \E t \in ToolNames : ToolKey(t)

Spec == Init /\ [][Next]_vars

-----------------------------------------------------------------------------
(* Properties.                                                             *)

\* The records of the toolkit and of the viewport keep their types; only a
\* text box is ever the focus of the keyboard.
TypeOK ==
  /\ visible \subseteq Windows
  /\ modal \in ModalWindows \cup {None}
  /\ press \in Widgets \cup {None}
  /\ focus \in {c \in Controls : Role[c] = "textbox"} \cup {None}
  /\ focused \subseteq Widgets
  /\ vpnav \subseteq Buttons
  /\ down \subseteq Buttons
  /\ origin \in Points
  /\ rbandValid \in BOOLEAN
  /\ pick \in Objects \cup {None}
  /\ curTool \in ToolNames
  /\ asked \in BOOLEAN

\* A viewport drag ends with the button that began it, in whatever order
\* the buttons of a chord go down and up and over whatever window: a bit that
\* stays behind in vpdrag would cut the toolkit off from the mouse for good.
DragsAreHeld == vpnav \subseteq vpdrag /\ vpdrag \subseteq down

\* A menu or dialog never opens in the middle of a viewport drag: if it did,
\* mdl_mouse would send the clicks meant for it to the viewport.
ModalNotUnderDrag == modal # None => vpdrag = {}

\* A menu or dialog is on the screen exactly when it is the modal one: none is
\* left behind unclosable, and no hidden one swallows the input.
ModalIsShown == visible \cap ModalWindows = {modal} \ {None}

\* The text box drawn with the cursor is the one that gets the keys.
CursorShowsFocus == focused \cap {c \in Controls : Role[c] = "textbox"} \subseteq {focus}

\* While a menu or dialog is open no mouse event picks an object, starts a
\* drag or draws a rubber band behind it.
ModalOwnsMouse == [][modal # None => UNCHANGED viewport]_vars

\* The manual: ESC cancels any current operation and selects the select curTool;
\* at the least it should when no window is open that could want the key.
EscapeCancels == asked => curTool = "sel"
=============================================================================
