------------------------------ MODULE MCRender ------------------------------
(* Instances of Render for TLC. *)
EXTENDS Render

\* Three sizes: under a render of the first one the buffer shrinks when the
\* window takes the second and then the third.
ThreeWindows == {<<3, 2>>, <<1, 2>>, <<2, 2>>}
\* The fixed mode of the DOS build.  A rubber band in it is up to 5 pixels
\* wide, for which the blocks of the second pass do not fit and are clipped.
OneMode == {<<6, 2>>}
\* Corners in and around the windows: bands out of them at the left, right and
\* lower edge, some wider than the smaller windows.
AroundWindows == {<<0, 0>>, <<2, 2>>, <<-1, 1>>}
\* More corners for the DOS build, to which only those on its screen matter.
OnScreen == {<<5, 1>>, <<2, 0>>}
Corners == AroundWindows \cup OnScreen
Tiny == {<<2, 2>>}

\* Three bounds.  In a window the picture stays the same one while the window
\* is resized, the corners are AroundWindows, and a band begins at the upper
\* left pixel or at a corner that a release has left.  In the DOS build, which
\* is not resized, the picture changes during the renders.
WithinBounds ==
  build # "dos" =>
    /\ ver' = 0
    /\ band' # NoBand => /\ band'.from \notin Points \ {<<0, 0>>}
                        /\ band'.to \notin OnScreen
BoundedSpec == Init /\ [][Next /\ WithinBounds]_vars /\ WF_vars(Display)
=============================================================================
