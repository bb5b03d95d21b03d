CONSTANTS
  Harts = {h1, h2, h3}
  Objs = {o1, o2}
SPECIFICATION Spec
SYMMETRY Perms
INVARIANTS ReadersProtected
