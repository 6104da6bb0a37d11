------------------------------ MODULE MCParts -------------------------------
(***************************************************************************)
(* Thirteen parts of the program in one instance: each behaviour runs one  *)
(* of them and leaves the rest as they began.                              *)
(***************************************************************************)
EXTENDS TextBox, Toolbar, DosScreen, DArray, ColorPicker, SceneFile, OptionFile, Raster,
        Clip, CMesh, MeshGen

CONSTANTS chA, chB, ptA, ptB, ptC

VARIABLE part    \* the one that runs

vars == <<part, boxVars, barVars, scrVars, arrVars, colVars, fileVars, textVars, optVars, rasVars,
          clipVars, gawVars, meshVars, genVars>>

Only(p) ==
  /\ part = p /\ UNCHANGED part
  /\ p # "text box"   => UNCHANGED boxVars
  /\ p # "toolbar"    => UNCHANGED barVars
  /\ p # "screen"     => UNCHANGED scrVars
  /\ p # "array"      => UNCHANGED arrVars
  /\ p # "color"      => UNCHANGED colVars
  /\ p # "scene file" => UNCHANGED fileVars
  /\ p # "text"       => UNCHANGED textVars
  /\ p # "options"    => UNCHANGED optVars
  /\ p # "raster"     => UNCHANGED rasVars
  /\ p # "clip"       => UNCHANGED clipVars
  /\ p \notin {"primitives", "meshes"} => UNCHANGED gawVars
  /\ p # "meshes"     => UNCHANGED meshVars
  /\ p # "shapes"     => UNCHANGED genVars

-----------------------------------------------------------------------------
(* Text box, screen, colours.                                              *)

Names == {<<>>, <<chA>>, <<chA, chB>>, <<chB, chA, chA>>}

TheAreas  == {R(1, 0, 1, 2), R(3, 0, 2, 1)}
ThePlaces == {<<0, 0>>, <<3, 2>>}
TheBands  == {R(0, 0, 3, 3), R(3, 2, -2, -1)}

\* A new material's grey, and a saturated colour.
Grey      == <<178, 178, 178>>
TheStarts == {Grey, <<254, 213, 26>>}

-----------------------------------------------------------------------------
(* Scene files that somebody wrote by hand, after the manual: with an      *)
(* object of a later version of the program, with an object before its     *)
(* material, and with two views and two materials of one name.             *)

Mtl       == [node |-> "material", name |-> 0, shin |-> 1]
Box       == [node |-> "object", type |-> "box", name |-> <<"box", 0>>, material |-> 0]
Cylinder  == [Box EXCEPT !.type = "unknown"]
ViewAt(v) == [node |-> "view", view |-> v]

HandWritten ==
  {<<Mtl, Cylinder, Box>>, <<Box, Mtl, Box>>, <<Mtl, Mtl, ViewAt(1), Box, ViewAt(2)>>}

-----------------------------------------------------------------------------
(* Scenes of up to two nodes, with all kinds of values; one of the names   *)
(* has what would be a comment and a brace, and one number an exponent.    *)

Named3(s, x) == Node(<<"material">>, <<Attr("name", StrVal(s)), Attr("kd", VecVal(<<x, <<"0">>, x>>)), Attr("shin", NumVal(x))>>, <<>>)
Theta(x)     == Node(<<"view">>, <<Attr("theta", NumVal(x))>>, <<>>)
Tree(kids)   == Node(<<"rrscene">>, <<>>, kids)

Numbers  == {<<"0">>, <<"-", "1", ".", "5">>, <<"1", "e", "-", "05">>}
Leaves   == {Named3(s, x) : s \in {<<>>, <<"a">>, <<"#", " ", "{">>}, x \in Numbers}
            \cup {Theta(x) : x \in Numbers}
TheTrees == {Tree(<<>>)} \cup {Tree(<<m>>) : m \in Leaves}
            \cup {Tree(<<m, Theta(<<"0">>)>>) : m \in Leaves}

TheVideo   == <<"xres", "vsync">>
TheInput   == <<"mousespeed">>
TheValues  == {<<"1">>, <<"50">>, <<"-", "640">>}
TheDefault == [xres |-> <<"-", "640">>, vsync |-> <<"1">>, mousespeed |-> <<"50">>]

-----------------------------------------------------------------------------
(* Quads whose edges are traced to the left and right where the program    *)
(* expects them, from rows above the window to its last.                   *)

Points == {[x |-> x, y |-> y] : x \in {0, 300, 700, 1280}, y \in {-256, -100, 130, 500, 1024}}

Turn(a, b, c) == (b.x - a.x) * (c.y - a.y) - (b.y - a.y) * (c.x - a.x)

TheQuads ==
  {q \in [1 .. 4 -> Points] :
     \A i \in 1 .. 4 : Turn(q[i], q[(i % 4) + 1], q[((i + 1) % 4) + 1]) < 0}

TheEnds == {[x |-> x, y |-> y] : x \in {0, 300, 700, 1280}, y \in {-256, 0, 300, 1024}}

-----------------------------------------------------------------------------
(* Lines, triangles and parallelograms around and across the view volume,  *)
(* some of their vertices behind the eye.                                  *)

Corner(x, y, w) ==
  [f \in Field |-> CASE f = "x" -> x [] f = "y" -> y [] f = "w" -> w
                     [] f = "z" -> 2 * x + y [] f = "a" -> x + 2 * y - w [] f = "one" -> 1]

TheCorners ==
  {Corner(0, 0, 1), Corner(1, 0, 1), Corner(1, 1, 1), Corner(3, -2, 1), Corner(-2, 3, 1),
   Corner(-4, -1, 1), Corner(1, -1, 2), Corner(0, 1, -1), Corner(2, 1, 0), Corner(-3, 0, 2)}

TheLines == {<<[v EXCEPT !["a"] = 0], [w EXCEPT !["a"] = 1]>> : v, w \in TheCorners}

TheTriangles ==
  {q \in {<<u, v, w>> : u, v, w \in TheCorners} : Side(q[1], q[2], q[3]) # 0}

ThePolygons ==
  TheTriangles \cup
    {Append(q, [f \in Field |-> q[1][f] + q[3][f] - q[2][f]]) : q \in TheTriangles}

TheWeights == {1, 2, 5}

-----------------------------------------------------------------------------
(* Meshes of up to two triangles.                                          *)

Triangle     == <<ptA, ptB, ptC>>
TheMeshData  == {<<>>, Triangle, Triangle \o Triangle}

-----------------------------------------------------------------------------

Init ==
  /\ part \in {"text box", "toolbar", "screen", "array", "color", "scene file", "text",
               "options", "raster", "clip", "primitives", "meshes", "shapes"}
  /\ BoxInit /\ BarInit /\ ScrInit /\ ArrInit /\ ColInit /\ FileInit /\ TextInit /\ OptInit /\ RasInit
  /\ ClipInit /\ GawInit /\ MeshInit /\ GenInit
  /\ part # "toolbar"    => front = GLUT
  /\ part # "color"      => rgb = Grey
  /\ part \notin {"primitives", "meshes"} => color = "white"
  /\ part # "scene file" => file = <<>> /\ view = 1

Next ==
  \/ Only("text box") /\ BoxNext
  \/ Only("toolbar") /\ BarNext
  \/ Only("screen") /\ ScrNext
  \/ Only("array") /\ ArrNext
  \/ Only("color") /\ ColNext
  \/ Only("scene file") /\ FileNext
  \/ Only("text") /\ TextNext
  \/ Only("options") /\ OptNext
  \/ Only("raster") /\ RasNext
  \/ Only("clip") /\ ClipNext
  \/ Only("primitives") /\ GawNext
  \/ Only("meshes") /\ MeshNext
  \/ Only("shapes") /\ GenNext

Spec == Init /\ [][Next]_vars
=============================================================================
