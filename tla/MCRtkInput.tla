----------------------------- MODULE MCRtkInput -----------------------------
(* The windows of modui.c and mtlui.c, with one control for each kind of    *)
(* click that they know.                                                    *)
EXTENDS RtkInput, TLC

CONSTANTS toolbar, objmenu, mtlwin, colordlg,
          bnTool, bnAdd, bnMtl, bnNew, item, name, bnKd, ok

AllWindows  == {toolbar, objmenu, mtlwin, colordlg}
AllControls == {bnTool, bnAdd, bnMtl, bnNew, item, name, bnKd, ok}

TheParent ==
  [c \in AllControls |-> CASE c \in {bnTool, bnAdd, bnMtl, bnNew} -> toolbar
                           [] c = item -> objmenu
                           [] c \in {name, bnKd} -> mtlwin
                           [] c = ok -> colordlg]
TheRole ==
  bnTool :> "tool" @@ bnAdd :> "menu" @@ bnMtl :> "toggle" @@ bnNew :> "reset" @@
  item :> "dismiss" @@ name :> "textbox" @@ bnKd :> "picker" @@ ok :> "dismiss"

TheOpens ==
  [c \in AllControls |-> CASE c = bnAdd -> objmenu
                           [] c = bnKd -> colordlg
                           [] OTHER -> mtlwin]

\* The two points are interchangeable, and no property names one.
Swap == Permutations(Points)
=============================================================================
