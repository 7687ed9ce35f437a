\* Up to three children with three keys, three frames.
CONSTANTS
  k1 = k1
  k2 = k2
  k3 = k3
  div = div
  span = span
  Key = {k1, k2, k3}
  NoKey = NoKey
  Tag = {div, span}
  Child <- Children
  MaxChildren = 3
  MaxRenders = 3
SPECIFICATION Spec
INVARIANTS
  TypeOK
  FrameShown
  HandlersAccounted
PROPERTIES
  IdentityKept
\* A page that is disposed stays so.
CHECK_DEADLOCK FALSE
SYMMETRY Symmetry
