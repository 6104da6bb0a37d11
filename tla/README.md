# Models of retroray in TLA+

retroray is a small modeller and ray tracer for DOS and for modern systems
(GLUT/OpenGL).  It is a single-threaded, event-driven C program.  What is hard
about it is not parallelism but *records of the same thing in several places*:
arrays, indices and raw pointers to their elements; a window toolkit and a 3D
viewport that both remember which mouse button is held; a progressive renderer
that works between events while everything it reads may change; a screen that
is copied in parts while cursor and rubber band are drawn on it; a keyboard
interrupt that appends to a ring while the main loop reads it; names in a file
that stand for pointers in memory.  These modules model that, TLC checks them on
small instances, and TLAPS proves the properties of sixteen of them for every
value of their constants.

Sources are named relative to the repository; `scene.c` means `src/scene.c`.

## 1. Inventory

| component | state it keeps | operations | what makes it correct | modules |
|---|---|---|---|---|
| scene (`scene.c`, `material.c`) | arrays of objects, lights, materials; an object points to a material | add and remove objects and lights, clear, load, save | every object owned once; pointers live; lights known to the renderer | Modeller, SceneFile |
| modeller screen (`scr_mod.c`, `modui.c`) | selection (an index), tool, axis mask, `vpdirty`, viewport drags, rubber band, the shown render | toolbar, keys, picking, navigation, tools, redraw | index stays with its object; whatever changes the picture redraws it; drags end with their buttons; buttons show the choice in force | Modeller, RtkInput, Render, Toolbar |
| material editor (`mtlui.c`) | current material as index *and* pointer, sliders, color dialog, preview | previous, next, add, duplicate, assign, rename, slide, pick color | index and pointer agree and are live; what it shows is the current material; a color chosen is the color stored | Modeller, MtlEditor, ColorPicker, SceneFile (names) |
| toolkit (`rtk.c`, `rtk_draw.c`) | widget tree, visible and modal window, hover, press, focus, dirty flags | input routing, text editing, layout, drawing | modal windows own the input, focus is what is drawn as focus; edits stay in their buffer; what is stale is drawn again | RtkInput, TextBox, MtlEditor (what is drawn again) |
| renderer (`rend.c`) | one job: rectangle, steps, buffer | begin, one pass per redraw | ends sharp, in bounds, in its rectangle | Render |
| scene files (`scene.c`) | nodes on disk, name counters | save, open | a saved scene opens as it was | SceneFile |
| scene file syntax (treestor) | a tree, its text | write, scan, parse | a text says what was written; half a text is refused | TreeText |
| options (`options.c`) | options, `retroray.cfg` | load, save | options outlive a session | OptionFile |
| DOS keyboard (`sys_dos/keyb.c`) | ring of keys, key states, prefix flag | interrupt, `kb_getkey`, `kb_isdown` | the ring is a queue; key states are the keyboard's | KbdRing, KeyQueue |
| DOS main loop (`sys_dos/main.c`) | cursor, rubber band, update rectangle | poll input, copy to the screen | what is on the screen is the frame buffer with one cursor | DosScreen, KbdRing, Toolbar (modifiers) |
| software graphics (`gaw/`) | tables of row ends, matrix stacks, buffered vertices, compiled geometry | OpenGL-like calls, clipping, filling, lines | polygons with a common edge meet; lines are straight; what can be seen is left by clipping; buffering is not noticed | Raster (filling, lines), Clip, Gaw |
| containers (`darray.c`) | growable arrays | push, pop, resize, clear | size within capacity, nothing lost | DArray |
| application shell (`app.c`) | window, screens, mouse state | events, full screen, resizing | events reach one screen; the frame buffer is large enough | Render, RtkInput, SceneFile |
| DOS hardware (`vidsys.c`, `drv_*.c`, `cdpmi.c`, `mtrr.c`, `timer.c`, `mouse.asm`) | registers | set modes, map memory | the other side is hardware | not modelled |
| GLUT front end (`sys_glut/`) | window size before full screen | hands events on | - | environment of the others |
| meshes (`cmesh.c`, `meshgen.c`) | vertex and index arrays, a compiled copy | change, append, clone, draw, generate | a copy is that of the present mesh; what is generated is closed | CMesh, MeshGen |
| geometry, textures | - | intersect, sample | floating point | not modelled |
| log, utilities, fonts | output | - | straight-line code | not modelled |
| vendored libraries (`libs/`) but treestor | - | - | third-party | not modelled |

How they interact.  The front end (`sys_dos/main.c` or `sys_glut/main.c`) calls
`app_keyboard`, `app_mouse`, `app_motion`, `app_reshape` and the display
function of `app.c`, which passes them to the current screen; there is one,
the modeller (`scr_mod.c`).  It offers each event to the toolkit first, unless
the viewport is being dragged, and the toolkit's callbacks (`modui.c`,
`mtlui.c`) call back into the modeller and the scene.  The display function
draws the viewport if it is dirty, runs one pass of the renderer if one is
running, and lets the toolkit draw its windows; the DOS loop then copies what
changed to the screen.  All of this is synchronous; the only concurrency is the
keyboard interrupt of the DOS build.

Hard behaviours, with the line where each bites, are the `hazards` of
`PROJECT.json`.  By kind: indices and pointers that go stale; the order of
events that meet in two records (chords of buttons, modal windows, focus, keys
whose release nobody hears, two switches of one key);
caches (preview, matrices, compiled meshes, dirty flags) and what has to reset them;
a scene, tool and window that change between the passes of one render; rounding
that two polygons, or two conversions of a color, must agree on; the interrupt in
the middle of `kb_getkey`, and the ring at its limit; protocols of several
sessions (save, restart, open, add, save), and a disk that is full in between.

## 2. Modules

| module | role |
|---|---|
| `SceneSet` | abstract: a scene as sets, a selected object, a current material |
| `Modeller` | the arrays, indices, pointers and handlers; implements `SceneSet` |
| `Render` | the render job, the frame buffer and the handlers that touch them |
| `RtkInput` | who gets each mouse and key event |
| `Toolbar` | the tool buttons, and the axis constraint with its menu, icon and keys |
| `LineEditor` | abstract: a line, a place in it, an owner that knows it |
| `TextBox` | the buffer, the length and the keys of a text box; its keys implement `LineEditor` |
| `MtlEditor` | the material window and the color dialog, and what of them is on the screen |
| `ColorPicker` | the integer arithmetic of the color dialog |
| `SceneFile` | saving and opening, across sessions |
| `TreeText` | the text of scene files, its writer and its parser |
| `OptionFile` | the options and their file, which `TreeText` parses |
| `KeyQueue` | abstract: a bounded queue that forgets its oldest key |
| `KbdRing` | the interrupt handler and `kb_getkey`; implements `KeyQueue` |
| `DosScreen` | copies of the frame buffer, cursor and rubber band on the DOS screen |
| `DArray` | the dynamic array under every array of the scene |
| `Raster` | which pixels a polygon or a line sets in the software build |
| `Clip` | what is left of lines and polygons inside of the view volume |
| `Gaw` | immediate mode and compiled geometry of the software build |
| `CMesh` | meshes and the geometries compiled from them; extends `Gaw` |
| `MeshGen` | the meshes of sphere, torus, cylinder, cone and box |
| `CArith` | division of C |
| `*Proofs` | the theorems of `Modeller`, `Render`, `SceneFile`, of `RtkInput`, `Toolbar` and `TextBox` (`WidgetProofs`), of `MtlEditor` (`EditorProofs`), of `KbdRing` and `DosScreen` (`DosProofs`), of `DArray`, `Gaw`, `CMesh` and `MeshGen` (`GeometryProofs`), of `ColorPicker`, `Raster` and `Clip` (`RoundingProofs`) |
| `MC*` | instances for TLC; `MCParts` joins thirteen parts that do not interact |

The modules share the handlers of the modeller's screen but not their state:
`Modeller` takes a click as given and says what it does to the scene,
`RtkInput` says which click arrives where, `Render` lets the picture change at
any time and says what the renderer makes of it.  Each is an environment of the
others that allows more than they do: `Modeller` lets windows open and close in any
order that `RtkInput` permits, and more; `Render` lets the scene change in every
state, whoever changes it; `DosScreen` lets any rectangle be drawn at any time.

An operator named `X_Something` next to `X` is a *mutant*: `X` with a mistake
that would be plausible in the code.  `PROJECT.json` pairs each property with
one; with the mutant in the place of `X` the property fails in the same run, so
the run would notice that mistake.

### Modeller

One variable per array or variable of the code.  Objects and materials are
addresses, taken from constant sets.  `malloc` returns any address that no array
*owns*, which includes addresses that a stale pointer still names: reuse is
what turns a dangling pointer into a wrong one.  `kind` and `omtl` are the
fields `type` and `mtl` of every address.  `scn->objects` owns its elements,
`scn->lights` does not, as in the code.

Actions are the cases of `tbn_callback`, of `mdl_keyb`, of `mbn_callback`,
the handlers of the drop-down menus, picking, and the redraw.  A file is
any scene that `scn_load` can build (`IsFileScene`), which includes the part of
a file before a node that cannot be read.  Geometry and names are left
out: `ChangeView` is any change of the view, `Manipulate` any drag with the move,
rotate or scale tool.  Of a material its looks are kept (`look`: a color and a shininess, which
`setup_material` draws with), and the two ways to change them: the color dialog, whose window is shown and hidden
by the toolkit, which marks the viewport, and the slider, which marks nothing (`SlideShininess`).  Of a pose only this is kept: `flagged` are the objects with
`xform_valid = 0`, `outdated` those whose cached matrices are not of their pose.
(An object read from a file counts as outdated whatever its pose.)

Properties: each object is
owned once (`ObjectsOwned`); the editor's index and pointer agree
(`EditorTracksScene`); no object has a freed material (`MaterialsLive`); no
light of the scene is missing from the renderer's array (`LightsShine`);
every step that changes what the viewport shows (objects, selection, view, the looks of the objects'
materials) marks it dirty, but for one, the shininess slider, which changes shininess and nothing
else (`PictureIsRedrawn`); a viewport that is not
dirty has no outdated matrices (`MatricesFresh`), which the ray tracer relies on
because only `draw_object` computes them; and the arrays
implement the sets of `SceneSet` (`ImplementsSceneSet`), so that "the selected
object is removed, and no other" survives the last element moving into the gap.

### Render

`rect` and `step` are the job of `rend.c`.  A pass (`Pass`) shades the rectangle in
blocks and halves the steps; a pixel holds `<<version, x, y>>`, the version of the
scene and the pixel the ray was shot through.  Pixels are addressed by offset
in the frame buffer, because rows of the renderer's buffer and rows of the
window may differ in length, and because a rectangle that reaches out of the columns goes on in the
neighbouring rows: `OffsetOf` is the code's arithmetic, and of the pixels that meet at an offset the last one written
stays (`Turn`).  `build` is the program: GLUT with OpenGL (`build_gfx=gl`, the default), where the render is a layer over
the viewport; GLUT with the software renderer (`build_gfx=sw`), where the viewport is drawn into the same pixels; and
DOS, which has the latter too.  `Windows` are the sizes a GLUT window takes, in any order and number, `Modes` the
sizes of the DOS screen, which never change in a session.

An area is three actions, as in `mdl_mouse` and `mdl_motion`: `Press` keeps the corner, `Drag` the other one,
`Release` starts the job, and anything may happen between them.  The mouse is anywhere in `Points` under GLUT, outside
of the window too, and on the screen in DOS, which clamps it.  `shrunk` remembers that the frame
buffer was made smaller since the job began.

`renderbuf` itself is not modelled: it only collects what `framebuf` gets too,
and nothing reads it.  `shown` is the set of rectangles whose bounding box is
`totalrend`.  Clearing the rectangle's size is modelled as the empty set.

Properties: a finished render has every pixel of its area traced for itself,
and from one version of the scene (`FinishedIsSharp`, for areas no wider than the rows: of wider ones rows overwrite
each other); a pass writes nothing of the buffer beside its area (`PassStaysInside`: always in DOS, under GLUT for
areas within the columns; others are also written to the ends and starts of other rows, section 5); the frame buffer has the pixels of the window and of an area in it (`FrameInBounds`); the layer has the rows
of the window it is blended over (`OverlayAligned`); a render ends (`RenderEnds`).

### RtkInput

Windows, controls, what a click on each control does (`Role`, `Opens`) are
constants; the instance has one control for every kind.  Where things are on the
screen is left open: any widget that `rtk_find_widget_at` may return is a
possible one.  `press`, `focus`, `modal`, `visible` are the toolkit's, `vpdrag`,
`vpnav`, `origin`, `rbandValid` the viewport's; `down` is what the user holds.
Left out: the flags that only change how a widget is drawn, dragging of
windows, and what sliders do (`MtlEditor` has the last).

Properties: a viewport drag ends with its button, whatever chord it is part of
(`DragsAreHeld`); no modal window opens under a drag (`ModalNotUnderDrag`); while a modal window is open nothing outside of it is clicked
or dragged (`ModalOwnsMouse`).

### Toolbar

`tool` and the set of pressed buttons; `mask`, the icon and the chosen items of the
axis menu; the keys that are held, and for DOS those that wait in the ring (`typed`)
and the modifiers as the loop read them last (`modkeys`).  The GLUT that comes with the
program delivers letters in lower case whatever the modifiers (`SmallInGlut`: `XLookupKeysym` of index 0,
`miniglut.c:644`, or the virtual key plus 32, line 1923), the DOS interrupt looks in another table under shift
(`SmallInDos`).  `by` and `stuck` are history:
who set the mask last, and whether the release of that key can have passed unnoticed.

`ToolbarIsTrue`: only the tool in force is shown pressed, only the chosen item is
shown chosen, and the icon belongs to the mask: two tables, one by mask and one by
item, must be inverse to each other.  `ConstraintHasCause`: objects move along one
axis only because the menu said so, or a key is held, or its release was lost.
`ShiftChoosesPlane` is violated, section 5.

### TextBox and LineEditor

`text` is the buffer byte by byte, `len` and `cursor` what the keys believe, `told`
what the owner read in the last callback.  `EditsLikeALineEditor` maps the buffer to
the string in it: while the length is that of the string every key is an edit
of `LineEditor` or changes nothing, and the length stays right.  `EditsFit`: then no
key reaches outside of the buffer.  `rtk_set_text` (`Show`) makes the length wrong, since
it does not set it; the model has that, and both properties speak of boxes
where it has not (yet) happened or where the new text is as long as the old.

### MtlEditor and ColorPicker

`MtlEditor` holds the materials, the current one, what each widget's fields say
(label, slider position, cached preview, hue and color of the dialog), which widgets
and windows are marked, and `shown`, what is left on the screen.
Handlers mark what `rtk_invalidate`, a new layout or `inval_vport` mark; `Display`
draws what is marked as `rtk_draw_widget` and `mdl_display` do.  So a handler that changes
something and marks nothing leaves the old picture.  `EditorShowsCurrent` relates the
fields to the material, `PickerTargetsCurrent` the dialog's pointer to it, `StaleIsMarked`
the screen to the fields, and `ScreenCatchesUp` says that the screen shows
the fields again and again.

`ColorPicker` has the conversions between red, green, blue and hue, saturation, value,
in integers as the code computes them.  `ChoiceIsShownAgain`: a color that was chosen is shown again when the dialog opens for
it, with the same value and, away from the greys, a hue within four degrees.

### SceneFile, TreeText, OptionFile

`SceneFile` has a scene with its materials, objects and names, the name counters
of the session, and the file.  `Restart` ends the session and resets the
counters.  A file is a sequence of nodes; one written by hand can have an object
of unknown type, an object before its material, two materials of one name, or
two views.  Attributes that are written and read alike are left out.  Removing an
object is left to `Modeller`.  `SceneSurvives` says exactly what a scene is after it was saved and
opened: the view; the materials with their names, but with the shininess of a new
material; the objects in order, by name and with their materials; behind them the lights in order; and for each light an
invisible object more (kind `null`), besides those that earlier openings have left.  It speaks of scenes whose
materials have distinct names.  The manual has it otherwise, section 5.

`TreeText` has the text as a sequence of lexemes, runs of characters that the scanner
treats alike; the writer (`NodeText`), the scanner (`NextToken`) and the parser
(`ParseNode`) are those of `treestor`.  `SaveCut` is a disk that is full after any
number of lexemes.  `OpensAsSaved`: a whole text is read as the tree that was written, half a
text is refused and leaves an empty scene.  Not for exponents, section 5.

`OptionFile` writes an option with its default value as a comment, and reads the file
with the parser of scene files.  `OptionsSurvive`: a whole file is read as the options that were
saved; half a file is refused, or read as the same options if only the comment at
its end is missing.

### KbdRing

The interrupt handler is one atomic action, `kb_getkey` is three: it tests,
fetches and stores `buf_ridx`, and at each use it takes either the value read
before or the present one, because the variable is not volatile.  `wire` has
the bytes that the keyboard still has to deliver: a code with a prefix arrives
in two interrupts.  A *switch* of the keyboard has a code, with or without the prefix, and a *key* is a
name in the driver's tables (`Scantbl`, `ScantblExt`, constants).  Several switches may have one name: the minus of the
keypad and its slash are both `KEY_NUM_MINUS` (`scancode.h:29`, `:55`), and the driver has one key state for both.
`KeyDown`, `KeyRepeats`, `KeyUp`, `Switches` and `Bytes` are the PC
keyboard and are marked external; the Pause key, with six bytes that no other key has, is left out.

There are two environments.  In the calm one no press overflows the ring in the
middle of a call, and the ring is the queue of `KeyQueue` (`ImplementsQueue`).  In the rushed
one a press may, at most `RushedBurst` per call; then a key can be returned out of
order, but the call throws away no key but its own and those that the handler
dropped (`OnlyDropsAreLost`; `due` counts them).  `KnowsWhatIsDown`: when the wire is empty
the driver has for each key what its switches did last (`latest`), and no key is down without a switch that is; a
key with one switch is then down exactly while that is held.

### DosScreen

`dirty` is the update rectangle, `stale` the pixels drawn since the last copy,
`curInv` and `bandInv` the pixels of the screen that are inverted by the cursor and by
the band.  An area may reach over any edge, as that of a window does that was dragged there: what lies
beside the columns is copied in neighbouring rows, by the offsets of the copy loop.  `OneCursor`: exactly the
cross at the cursor's place is inverted, but for `Strays`, pixels of older crosses; only the copy of a rectangle that
reaches over the left or right edge leaves any, in what was copied, and a copy of the whole screen removes all.
`NothingForgotten`: what was drawn lies in the rectangle that will be copied.
`BandResidue`: a swap leaves no more of the band's outline behind than the copied pixels
that lie on an outline.

### DArray, Raster

`DArray` is `darr_push`, `darr_pop`, `darr_resize` and `darr_clear` on a buffer of cells;
`items` is what the user put in.  `HoldsItems`: the buffer has room for the elements and holds them.

`Raster` computes the pixels of convex quads, triangles and lines from their 24.8 vertices:
`ColumnAt` is the scan conversion of an edge with its truncating slopes, `Fill` the spans,
`LinePixels` the Bresenham loop.  The tables of row ends survive from one polygon to the
next, as in the code.  `PiecesMeet`: the two triangles of a quad leave no pixel of the quad
out and set none twice, though they trace their common edge in opposite
directions.  A line is written by offsets in the frame buffer (`Offset`, `LinePixels`), which nobody clamps: vertices on the
right or upper rim of the window are in column `FbW` or row -1 (`gaw_sw.c:323`), so that their pixels are in the row below, a row before
the buffer, or one pixel behind it.  `LineIsClosest`: a line begins and ends at the offsets of its ends; with both ends in
the frame, all that is written is in the buffer, and no pixel is further than half a pixel from the line along its shorter
axis; whatever the ends, nothing is written further outside of the buffer than that row and that pixel.

### Clip

`prim` is the primitive that is drawn, `poly` what the planes so far have left of it.  `ClipPlane` is
one round of the loop over the six planes; coordinates are rational numbers with one denominator
(`one`), so that a vertex on a plane lies on it exactly.  `ClipsToView`: what is left lies in the view
volume and in the primitive, with the depth and the color that the primitive has there; whatever of
the primitive can be seen is left; and the buffers of the loop hold it at every plane.  The
points of the primitive are the means of its corners with positive weights (`Mean`, `Weights`), so
the property is stated by areas, not by edges, and has nothing in common with the algorithm.

### Gaw and CMesh

`Gaw`: `vbuf` has the vertices since the last flush, `pcount` what the primitive lacks; `seen` is
history, the primitives that went to `gaw_draw_indexed`, and `given` the vertices that the
caller gave.  `BufferIsInvisible`: the buffer has room for the next vertex, and what is drawn are
the caller's primitives, whatever the portions.  `comp` has the compiled geometries by number.

`CMesh`: `data` is what is in a mesh, `dlist` the number of its copy.  One action stands for every
function that changes a mesh and ends by throwing the copy away (`Changed`); those that
differ from it (`ClearMesh`, `CloneMesh`) have their own.  `DrawsTheMesh`: a mesh is drawn as it
is now, although numbers are used again.  It speaks of the time before a mesh is cleared that has a
copy; the program clears no such mesh.

### MeshGen

Each generator is an action that makes vertices and triangles, with the numbering of the code
(columns, caps of a cylinder in turns, six planes appended).  A vertex has a symbolic place, so that
first and last column, poles and rims coincide as they should.  `SurfaceIsClosed`: the index array is
filled and leads to vertices, and every edge has a triangle on either side, wound alike.

## 3. What is checked

| run | question | bounds |
|---|---|---|
| `modeller` | do arrays, indices and pointers stay consistent and implement the scene of sets, and does every step that changes what is seen redraw the viewport? | 3 objects, 2 materials, 1 entry of `lights`, files of 1 object and 1 material; 2 colors and 2 values of shininess, once a material has another look with 3 objects and materials together |
| `modeller_lights` | is a light saved once? **violated** | 3 objects, 1 material |
| `render` | resizing, areas, tools, new renders and changes of the picture while a render runs; does it end, sharp and within its area? | GLUT: windows of 3x2, 1x2 and 2x2, bands from the upper left (or where a release left them) to 3 places, two of them outside, 1 version; DOS: a mode of 6x2, 3 places of the mouse, 3 versions; 2 renders |
| `render_save` | does F7 save the render? **violated** | 2x2 |
| `rtk_input` | do both records of the mouse agree with the user's fingers, and do modal windows own the input? | 3 buttons, 4 windows, 8 controls, 2 points |
| `rtk_escape` | does ESC cancel? **violated** | the same with one button |
| `kbd_ring` | is the ring a queue, are the keys known that are down, and what does an overflow in the middle of `kb_getkey` cost? | 4 slots, 3 switches, two of one name and two of one code but for the prefix, 3 presses in one call, or 1 that overflows |
| `editor` | does the material editor show the current material, in its fields and on the screen? | 2 hues and grey, 2 slider positions, 2 materials, 1 file |
| `parts` | thirteen parts that do not interact, in one instance | below |
| `axis_plane` | does shift with an axis key choose a plane? **violated** | 2 tools, 1 waiting key |
| `scene_file_mtl` | are the names that the program makes up unique in a file? **violated** | nobody types a name |
| `numbers` | is every number that is written read again? **violated** | names empty or "a", numbers with and without exponent |

The parts of `parts`, of which each behaviour runs one:

| part | bounds |
|---|---|
| text box | 2 characters; 4 texts of at most 3 that the owner shows; 4 characters typed |
| toolbar | 2 tools and the one without a button, all 7 items, both front ends, 1 waiting key |
| screen | 4x3 pixels, a cursor with arms of 1, 2 areas, one of them over the right edge, 3 places (two of them corners), 2 bands, one of them dragged to the upper left |
| array | 2 items, 5 elements |
| color | grey and a saturated color; pointer at 4 columns and 4 rows, one of them below the box; 1 color chosen and confirmed |
| scene file | 2 materials, 2 values of shininess, 2 objects, 2 names, 3 files written by hand |
| text | trees of at most 2 nodes; names empty, "a" and one with `#` and `{`; numbers 0, -1.5 and 1e-05 |
| options | 3 options, 3 values |
| raster | a frame buffer of 5x5; 11,700 convex quads over a grid of 20 points at uneven fractions of a pixel, 256 lines between 16 ends, 9 of them in the frame, the others in row -1 or column 5 |
| clip | 10 vertices, three of them beside or behind the eye, in all triples and parallelograms; the result is looked at in the means of the corners with weights 1, 2 and 5 |
| primitives | lines, triangles and quads, a buffer of 6, at most 7 vertices, 2 colors |
| meshes | 3 meshes of at most 2 triangles, 2 places for compiled geometry, 2 colors |
| shapes | subdivisions 0, 1, 2, 3 and 5 in each direction |

Why the bounds are enough.  Three objects are the smallest array where removing one
moves an element that is neither the removed one nor first; two materials let
the editor wrap both ways and a material of an old scene differ from one of the
new.  `MaxLights` is one in `modeller`, where it keeps the
number of states down, and two in `modeller_lights`, where an address must be used
by two lights.  Of the three windows the buffer grows and shrinks with each order: from 3x2 to 1x2 it is kept, and from there
to 2x2 reallocated smaller under a job of the first.  A render of 3x2
has passes with steps that reach one at different times and a size that is no
power of two; in 6x2 a band of 5 pixels makes blocks of 2 that do not fit.  Three versions let the
scene change before and during a render, two renders let one replace the other.  In a window the picture keeps its
version and in DOS the screen its size (`WithinBounds` of `MCRender`): what a pass writes depends on the version and
on the size apart.  The bound of `modeller` (`WithinBounds` of `MCModeller`) is there because looks matter only to what is drawn of objects
that have them, for which an object with either of two materials is enough.
Two points are enough for "the pointer moved"; three buttons make chords in which
one button belongs to the toolkit and two to the viewport.  Four slots
are a ring that wraps and overflows within a few keys.  Five elements make an
array grow four times and shrink where the number of elements is exactly a third of
the capacity.  Four characters grow the buffer of a text box twice, once while the cursor
is inside of the text.  In 4x3 pixels every cursor reaches over an edge, and an area of one row over the right edge goes on in the next.
A tree of two nodes has everything the syntax has: attributes, numbers, vectors, strings,
a child and a following sibling.  The vertices of the quads have
the fractions where truncation and rounding differ, and include rows above the window.
The limits of these choices
are named with the hazards in `PROJECT.json`.  Counters are bounded in guards:
`MaxLights`, `MaxLoaded`, `MaxVer`, `MaxJobs`, `MaxCount`, `CalmBurst`, `RushedBurst`, `MaxLen`,
`MaxTyped`, `MaxItems`, `MaxChoices`, `MaxMtl`, `MaxMtls`, `MaxObjs`, `MaxId`, `MaxGiven`.  `VbufSize` and `MaxComp`
are limits of the code (256 each), made small so that they are reached.  `MaxElems` is
no bound of the model but the code's (31 elements of an array are kept), and `Empty` of
`Raster` allows one quad or one line per picture.

Symmetry is used in `modeller` (addresses; no liveness is checked there) and
`rtk_input` (points).

Fairness.  `Render` assumes `WF(Display)`: the DOS loop calls the display function
in each round, and under GLUT `inval_vport` and every pass of a render
post a redisplay.  `RenderEnds` then says that a render ends unless the user goes
on starting new ones for ever; `MaxJobs` cuts that behaviour off.  `MtlEditor` assumes
the same, since under GLUT every mark posts a redisplay too; no bound cuts off
its behaviours: `ScreenCatchesUp` holds however long the user goes on.  `KbdRing`
assumes `WF(GetKey)`: the main loop calls `kb_getkey` until it returns -1.  All
other modules are checked for safety only and assume nothing.

## 4. What is proved

TLAPS checks the theorems of eight modules, for all values of the constants that
satisfy the assumptions named in the modules.  TLC evaluates the assumptions for the
instances.  They say that special values are distinct (`ModellerAssumption`: null and the
default material are none of the addresses; `CMeshAssumption`: no geometry is taken for none; `ColorAssumption`, `RasterAssumption`: colors are bytes, mouse
positions numbers, and vertices lie where clipping leaves them; `ClipAssumption`: weights are positive, a line has two vertices with the attributes 0 and 1, and a polygon is flat, convex and not seen edge-on; `SceneFileAssumption`: files
written by hand are of the nodes that the reader knows; `EditorAssumption`, `TextBoxAssumption`,
`DArrayAssumption`, `ToolbarAssumption`: "none" and the end of a string are no values), that sizes are
not zero (`RenderAssumption`; `KbdAssumption`: the slots are a power of two, the codes below 128 and none is that
of the prefix, the tables are functions, of any kind; `GawAssumption`: the vertex buffer has room for a quad and one
vertex more), and for `RtkAssumption` that the toolbar and the editor are
not modal, and no menu opens another.

**ModellerProofs**: types, all invariants, `PictureIsRedrawn`, and the refinement of
`SceneSet`.  The inductive invariant is the conjunction of the type invariant and of
`SelectionInRange`, `ObjectsOwned`, `EditorTracksScene`, `MaterialsLive` and
`LightsShine`; `SelectionInRange`, that the selection is an index of the array or -1, is
stated for the proof only.  They need each other: that removing an object keeps it
owned once needs the index in range and the array injective; that the removed object
takes no other with it in the refinement needs injectivity again.  Lemmas on
`Append`, on clearing and on moving the last element into a gap carry the
arguments about arrays; the steps are by action, then by conjunct.
`MatricesFresh` has an invariant of its own, `XformInv`: outdated matrices are
flagged, and flags are set only while the viewport is marked.

**RenderProofs**: types, `FinishedIsSharp`, `PassStaysInside`, `OverlayAligned` and `FrameInBounds`, for
windows of any number and size, any mouse positions and every build.  The invariant adds to `TypeOK` that a running job's rows
have the length of some window (`RowLength`: `rend_size` ran before), without which
offsets and pixels could not be converted.  A render only ends after a pass whose
steps, halved, are both zero; so both were one in it, each block was a single
pixel, and what earlier passes did does not matter, nor what changed between them.
That an offset has one pixel of the area, its own, is the uniqueness of row and column: for areas no
wider than a row two pixels of one offset would be in rows apart by a multiple of the row's length (`WrittenInside`,
`PassElsewhere`).  In DOS the band stays on the screen since the mouse does (`BandStays`), and so do the jobs (`DosInv`).
`OverlayInv` says that what is shown is near the window (as far out as the mouse goes) and, until F7 has brought
back an old render, the running job is one of the rectangles that are shown; that a bounding box contains
its rectangles needs the least and the greatest of the edges, which exist because they are bounded.
`FrameIsLargeEnough` needs no hypothesis on the sizes: the buffer has the pixels of the last window, whichever came before
(`FrameInv`).  It claims nothing for a job under which the buffer was made smaller (`shrunk`): `app_reshape` compares with
the last window, not with what is allocated (`app.c:169`), so a job that began in the largest of three can go on in a
buffer that was reallocated for the second, and writes past it.

**WidgetProofs**, the input: types and all properties of `rtk_input`, for any windows, controls and buttons,
and two more that are not checked on their own: a menu or dialog is visible exactly while it is modal
(`ModalIsShown`), and the flag that draws a text cursor is set in no other text box than that
with the focus (`CursorShowsFocus`).
The invariant is `TypeOK` with `DragsAreHeld`, `ModalNotUnderDrag`,
`ModalIsShown` and `CursorShowsFocus`: that no modal window opens under a drag rests
on the toolkit getting no click while `vpdrag` is not empty, and that a
modal window owns the mouse rests on `vpdrag` being empty while it is open.

The toolbar: `ToolbarIsTrue` and `ConstraintHasCause` for any tools and any number of
waiting keys.  `BarInv` has three parts, each kept by the actions that touch it: the tool with its
buttons, the axes with menu, icon and cause, and the rest, which holds the
types of the keys that wait, because a waiting key becomes a mask.

The text box: `EditsFit` and `EditsLikeALineEditor` for any characters and texts.  Each key
is first described byte by byte (what the buffer holds at each place after
the move), then compared with the line that `InsertAt` or `RemoveAt` makes of the string;
that the string ends where the length says follows from `Honest`.  What remains
unproved is the type of `told` when no length is right: the length of a string in an
arbitrary buffer is a least element, which needs induction.

**EditorProofs**: `EditorShowsCurrent`, `PickerTargetsCurrent`, `StaleIsMarked` for any colors,
positions and files.  `EditorInv` is `Core` (the scene, the fields, the cached preview, the
dialog's color, and the two properties), `PointerOK` and `ScreenOK`.  The strengthenings: a dialog that
is open has a color and a destination; what is held was pressed; and a slider is held only
while no dialog is open, without which a drag could change a slider that nothing redraws.

**DosProofs**, the keyboard: types, `KnowsWhatIsDown`, `OnlyDropsAreLost` and the refinement of
`KeyQueue`, for any tables of scan codes, names used twice among them, and any ring.  `WireInv` says that the
bytes on the wire announce exactly what the driver does not know yet: nothing, or the one switch
that went down or up, with or without its prefix (`LastByteIs`, `ExtIs`: code and prefix lead to its name).  `HeldInv` says
that a key whose last movement was downwards has a switch that is down.  `CallInv` says what a call of `kb_getkey` may rely on
when presses interrupt it: either no press dropped a key since it read the index (`Untouched`), or one did,
and then the ring is full (`Dropped`).  In the calm environment only the first is possible, and every
step is a step of `KeyQueue` or none (`RingIsQueue`): a press is an `Add`, the fetch is the `Take`, and
storing the index shows nothing.  That steps are taken at all (the fairness in `ImplementsQueue`) is left to
TLC.  `OnlyDropsLost` has the hypothesis `RushedBurst <= 1`, as the run has: with two presses in
one call while the ring is full, the index that is stored is behind the one the handler moved to, and the ring is taken
for empty.  The lemmas about the ring (`SlotIs`, `BetweenIs`, `PressAppends`, `AdvanceTakes`) say
which keys lie from an index up to another, without any induction.

The screen: `NothingForgotten`, `OneCursor` and `BandResidue`, for any screen, areas, bands and
places of the mouse; none of them is assumed to be within the columns.  `NothingForgotten` is inductive with the types.
`OneCursor`: a rectangle that does not meet the box around the old cursor, in the sense of `Meets`, has no offset in common with the cross, if it
stays within the columns (`ApartFromCross`, since a point of the screen has an offset of its own); if it does
not, the copy goes on in the next row, and what it wipes out of the cross is inverted back: the strays, which
are never more than the part of the old cross that was copied.  Above and below nothing is required.

**GeometryProofs**: `HoldsItems` of `DArray` for any items, without the bound's help: growth leaves room for
one more, and half of a capacity that is at least three times the elements is enough
for them.
`BufferIsInvisible` of `Gaw` for any size of the buffer: `BufInv` says that the vertices that left
the buffer are a whole number of primitives, so that cutting there changes nothing (`PrimitivesOfConcat`: in
groups of k, the groups of a concatenation are the groups of its parts, if the first divides by k),
and that the buffer has room for the rest of the primitive that was begun.
`DrawsTheMesh` of `CMesh` for any meshes, contents and number of copies: `CopyInv` says that a copy
was compiled from what its mesh is now, and that no two meshes have the same; the latter is why throwing one
away cannot hurt another.

`SurfaceIsClosed` of `MeshGen` for any numbers of subdivisions (only `Subs \subseteq Nat` is assumed).  The edges of a
surface need not be counted: a triangle gets a label, its cell and its half, and a surface that is a function of
labels is closed if no edge belongs to two triangles with an area and each has an opposed one (`ClosedIs`).  So what
remains is who the neighbours are.  There are three ways in which columns and rows close up: a spindle, whose first and
last row are points (`RoundIsClosed`: sphere, cylinder with caps and cone), a ring (`RingIsClosed`: torus) and six grids that share their
rims (`BoxIsClosed`).  `RoundShapeIsClosed` needs from a shape only that its rows are circles of different height or
radius (`RowsApart`).  That the code's numbers are the corners of the right cells is div and mod: which place a vertex
number stands for (`NumberIs`, `AtIs`, and `AtTwiceIs` for caps, where two vertices are made at a time), grid by grid where a shape is
appended from several (`PartAll`, `BoxAtIs`).  That the index array is filled and no triangle is written twice is
the count of the labels (`Counted`).

**RoundingProofs**: `ChoiceIsShownAgain` of `ColorPicker` for any colors to start from and any presses and drags.
`ColInv` bounds the dialog's numbers (a hue from 0 to 359, saturation and value at most 256 and 255, none
negative unless the value is) and the stored color (bytes, or nothing above black after a drag below the
box).  That the hue is near comes from two roundings: the middle channel loses less than a unit, of at least 16 in the
chroma, and the quotient on the way back less than one; from there each sextant is linear arithmetic
(`RampBack`, `FoundHueIsNear`).  The limit of 16 in the property is the one that this needs.

`LineIsClosest` of `Raster` for any ends that are delivered, in and around a frame buffer of any size: after i rounds the loop has gone
aside `Asides(i)`, the exact way rounded to the nearest (`RoundsAre`, by the least round where it would not), and
its error is what remains.  Offsets come last: steps of one and of a row's length lead to the offset of the pixel so many columns and
rows away (`PixelsAre`, `OffsetMoves`), which lies between the ends (`AsidesFit`, `StepsBetween`), and an offset of a pixel of the frame has
its row and column as quotient and remainder (`OffsetIs`).  The rounds are a recursive function over the integers, whose
equation the prover gets from the solution (`RoundsUnfold`).

`PiecesMeet` of `Raster` for any quads whose corners all turn the same way, a hypothesis: the
two triangles of a quad that is not may overlap.  A vertex is above a row or not, and everything follows from that: which
edges meet a row, that in a triangle one of these goes up and one down, and that in a convex quad no row separates the
diagonals (`DiagonalsMeet`, since both diagonals have the point where they cross as a mean of their ends).  The tables that
earlier polygons left do not matter, and nothing is used of the slope but that both
triangles compute it from the upper end of the edge (`MeetsIs`).

`ClipsToView` of `Clip` for any lines and polygons of `ClipAssumption` and any weights.  The invariant says of what the
planes so far have left that its vertices are inside of those planes and on the plane of the primitive with its depth
and attribute, that it is convex and turns as the primitive does, that it has at most one vertex more for each
plane, that around it "inside of a plane" alternates for none of the six planes (`OneArc`, needed for the planes to come), and
that no point in view is on or beyond an edge of it that has a length.  Points are compared by areas alone: for four points on
the plane of a polygon the areas that three of them span balance (`FourInside`).  Since `OneArc` holds,
a plane is crossed at most twice and adds at most one vertex (`FrustumLength`).  A point
in view stays on its side of the edges that are cut, and of the new edge that lies on the
plane (`PlaneEdge`, `Transit`, `ReachesInside`, `FrustumKeepsEdge`).  On a line, the order of the
attributes takes the place of the areas (`LineBehind`).

**SceneFileProofs**: types and `SceneSurvives`, for scenes of any size and any files that others wrote.  The
reader and the selection of the lights are recursive functions over the places of a sequence.  That they have the
values of their equation is proved by extending a solution one place at a time (`PickedIs`, `ReadingIs`), with induction
by the least counterexample, since the rules of induction cannot be instantiated.  What is read from a saved
file after any number of nodes follows in three stretches: the materials, the objects, each of which finds the
material of its name because the saved names differ and the materials come first (`FoundAgain`), and the lights.
The invariant is the type invariant with "an object has a material of the scene": an index beyond would be written as
no name.

Model-checked only: `TreeText` and, reading with it, `OptionFile`, since trees are written and read by operators that are
RECURSIVE, and call each other, which the prover does not take; and
liveness (`RenderEnds`, `ScreenCatchesUp`, the fairness part of `ImplementsQueue`), which TLAPS does not
prove.

## 5. Where the code and its documents disagree

Each of these is a run that is expected to end in a violation.

* `SavedLightsUnique`: `act_rmobj` removes a light with `scn_rm_object`,
  which leaves it in `scn->lights`.  A new light at the same address is then listed,
  and saved, twice; `doc/manual.md:108` asks for unique names.
* `SavesTheRender`: `doc/manual.md:58` says that F7 saves the render.  In the
  software build it saves the frame buffer, which any redraw of the viewport has
  overwritten.
* `EscapeCancels`: `doc/manual.md:61` says that ESC cancels any operation.  After one
  click into the name box of the material editor it never does again, since
  `setfocus` never resets `scr->focus`.
* `MaterialNamesUnique`: `doc/manual.md:75` says that names of materials are unique.
  `mtlidx` starts at zero in each session, so that names of a file come again.
* `ShiftChoosesPlane`: `doc/manual.md:40` says that shift with x, y or z chooses a plane.  The
  key arrives as x, with the modifier, but the mask `~1` is not less than 8, so that `set_axismask` takes it for all
  axes (`scr_mod.c:395`, `modui.c:193`) and nothing is constrained.  (The run has the GLUT front end.  In DOS the shifted
  character is X, which `mdl_keyb` does not know.)
* `NumbersAreRead`: `doc/manual.md:67` says that attributes can be numbers, any numbers.  `%g` prints 0.00001 as `1e-05`, which the scanner splits in two (`text.c:260`):
  such a scene cannot be opened.

Observed while modelling, without a run.  In the models as the code has it:

* Scene files: an object of unknown type ends the loading although the message
  says it is ignored (`scene.c:119`); of several views the last one counts, not the first
  (`scene.c:217`); open clears the scene before it reads the file, and `ts_save`
  truncates the old file before it writes (`scene.c:418`).
* `scn_save` writes the shininess as `shin`, as `doc/manual.md:81` has it (`scene.c:297`); `scn_load` reads `shininess`
  (`scene.c:96`), so that each material is opened with 50.  It writes a light as an untyped object and as a
  light (`scene.c:390`), and opening makes an invisible object of the one: saved again, the file has two objects of
  its name, though `doc/manual.md:93` asks for unique ones, and one more each time.  `SceneSurvives` states both.
* An area that is dragged out of the window has the mouse's coordinates as corners (`scr_mod.c:471`, `:592`); what lies
  left or right of the window is written to the ends and starts of other rows (`rend.c:86`), although
  `doc/manual.md:54` says that the area is rendered.
* A region that is added before the first is finished stops its refinement: there is one job
  (`rend.c`), although `doc/manual.md:54` says that regions add up.
* `scr->press` survives a release beside a modal window (`rtk.c:959`).  `num_pressed`
  counts repetitions (`keyb.c:220`).
* The tool in force can be left without a pressed button, by a click on it.  The DOS loop
  delivers no releases, so an axis key constrains until the menu resets it; it reads the
  modifiers once per round, before the keys that waited (`sys_dos/main.c:117`).
* `rtk_set_text` does not set the length of a text box (`rtk.c:216`).
* Material editor: the hue box shows the old hue after a press on the bar, until a drag; a
  slider can be dragged without a material, and keeps its label after New; the
  viewport shows the old shininess after the slider is dragged until something else draws it (`mtlui.c:423`); the preview
  is drawn again after such a drag only because the slider's text makes a new layout;
  a drag below the hue box makes value and color negative (`mtlui.c:602`).
* Where a pass of a render is copied over a rubber band, the next XOR leaves a residue.  A copy of a rectangle over the left or
  right edge (a window dragged there, `rtk.c:1096`) can leave pixels of the cursor, until the whole screen is copied.
* `draw_line` writes lines with an end on the rim of the viewport into row -1 or, from the column right of the frame, into the next row
  (`polyfill.c:442`).
* Of a key with two switches (`KEY_NUM_MINUS`) the state is up when one is released and the other still held.
* A polygon that lies above row 0 as a whole fills row 0 with row ends that another
  polygon left (`polytmpl.h:56`).  The last column is never filled, since spans are
  clamped to `w - 1` and end before it.

Outside of the models:

* `vid_blit32` copies nothing below 32 bits per pixel while the update rectangle is
  forgotten; windows dragged over the upper or lower edge make it copy outside of the
  rows.  The right mouse button is passed on as button 3 in DOS, which zooms.
* A quote in a name breaks a scene file.  `ts_save` returns 0, success, when `fopen`
  fails (`treestor.c:702`); `save_options` goes on with a null file (`options.c:84`).
* `draw_line_zbuf` takes the
  slope of the depth with the wrong sign for lines to the left, and its shift may overflow.
* Points never survive clipping: `clip_frustum` resets the number of vertices it
  reports.
* A copy keeps the color that was current when the mesh was first drawn, so the software build does
  not draw the selected sphere's wireframe in green (`cmesh.c:1588`, `gawswtnl.c:482`).
* `cmesh_clear` frees a copy and keeps its number (`cmesh.c:213`); this one is in `CMesh`.  Cached
  bounds of a mesh are reset by clear and append only, although `cmesh.h` promises that every function
  that changes vertices resets them; the clone of a submesh has the whole mesh's number of vertices;
  `cmesh_draw_range` adds its start to vertices and indices alike.  Nothing calls these.
* `gen_geosphere` hands a growing array down its recursion by value (`meshgen.c:131`).  Nothing calls it.
* `gaw_push_matrix` tests the depth before it adds one to it (`gawswtnl.c:147`), and writes one entry past the
  stack in the limit, which the program never reaches.

## 6. Not modelled

* Transformation, lighting and textures of the software build; the fields of a vertex but place and
  one color.  `gen_revol`, `gen_sweep` and `gen_heightmap` with a function, `gen_geosphere`, submeshes,
  cached bounds: nothing in the program calls them.
* Three hazards without a property, which no document decides: a click after a drag and before
  the redraw picks with the matrices of the older pose (`scr_mod.c:513`); a drag may begin with the left
  button going down beside a modal window that ESC closes (`scr_mod.c:591`); a press inside of a modal
  window outlives a release beside it (`rtk.c:959`).  `RtkInput` has the last two.  The flag and the pointer
  of the focus (`rtk.c:967`) have a theorem instead of a run.
* Floating-point geometry: ray tracing, intersections, poses, textures.  TLC has no reals,
  and the properties of interest (what is hit) are about values, not about steps.
* The matrix stacks of `gaw`: every push has its pop in straight-line code.
* Layout and the drawing of frames and text (`rtk_draw.c`): pixels only.
* GLUT front end: it hands events on and keeps the window's size; `miniglut.c`
  and OpenGL belong to it.  Of `miniglut.c` only the case of letters is modelled, in `Toolbar`.
* DOS hardware: VESA, video drivers, timer, mouse, memory.  The other side is a card.
* `rbtree.c`: used by `cmesh_load` only, which nothing calls.
* Log, utilities, fonts and icons, build files: straight-line code or data.
* Vendored libraries (`libs/` but `treestor`): imago with libpng, zlib and jpeg, drawtext,
  mesh and image loaders.  They are most of the repository's lines, and none of its
  own: of 107,000 lines about 17,500 are retroray's.

Allocation failures are
modelled only where a handler goes on with a consequence that differs from
doing nothing (a failed allocation leaves the scene as it was).

## 7. Plan

What is left, in order of importance.

1. `DirtyDraw` for all windows, as `MtlEditor` has it for two: toolbar, menus, object list.
2. `rbtree.c`, should `cmesh_load` come into use; its deletion looks doubtful.
