----------------------------- MODULE MCTreeText -----------------------------
(* Scenes of one object, which was moved to or from a place near an axis. *)
EXTENDS TreeText

Coords == {<<"1">>, <<"0", ".", "5">>, <<"1", "e", "-", "05">>}

TheScenes ==
  {Node(<<"rrscene">>, <<>>,
     <<Node(<<"object">>, <<Attr("name", StrVal(<<"a">>)), Attr("pos", VecVal(<<x, y, x>>))>>, <<>>)>>)
   : x \in Coords, y \in Coords}
=============================================================================
