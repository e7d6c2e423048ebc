SPECIFICATION Spec
CONSTANTS
  t1 = t1
  t2 = t2
  home = home
  other = other
  d = d
  e = e
  g = g
  f = f
  pip = pip
  b = b
  x = x
  n1 = n1
  n2 = n2
  Thread = {t1, t2}
  Vnode = {d, e, g, f, pip, b, x, n1, n2}
  Vmnt = {home, other}
  Kind <- MCKind
  Mount <- MCMount
  Entry <- MCEntry
  Fresh <- MCFresh
  Home = home
  Load = {{"open"}, {"link", "make"}}
  BSF = BSF
  NULL = NULL
SYMMETRY Symmetry
CHECK_DEADLOCK FALSE
INVARIANTS NothingKept NoFault OrderedWaits FileLocks
