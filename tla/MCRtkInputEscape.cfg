CONSTANTS
  toolbar = toolbar
  objmenu = objmenu
  mtlwin = mtlwin
  colordlg = colordlg
  bnTool = bnTool
  bnAdd = bnAdd
  bnMtl = bnMtl
  bnNew = bnNew
  item = item
  name = name
  bnKd = bnKd
  ok = ok
  None = None
  Windows <- AllWindows
  Controls <- AllControls
  Toolbar = toolbar
  Editor = mtlwin
  Parent <- TheParent
  Role <- TheRole
  Opens <- TheOpens
  Buttons = {0}
  Points = {p, q}
  Objects = {o}
SPECIFICATION Spec
INVARIANT EscapeCancels
SYMMETRY Swap
