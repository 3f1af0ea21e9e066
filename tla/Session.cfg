CONSTANTS
  Networks = {n1, n2, n3}
  Lengths = {0, 2047}
SYMMETRY Symmetry
SPECIFICATION Spec
INVARIANTS SelectionShown Owned FormFits
