SPECIFICATION Spec
CONSTANTS
  Nodes = {a, b}
  Worlds = {"calm", "rough"}
SYMMETRY Symmetry
INVARIANTS BothAsked BlockedIsUnserved CrossingSettles
