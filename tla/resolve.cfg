SPECIFICATION Spec
CONSTANTS
  Key = {a, b, c}
  Str = {}
  Nil = Nil
  IntMax = 0
  FloatMax = 0
  Bindings <- AnyBinding
SYMMETRY Symmetry
INVARIANTS CircularIffCycle EndsAtValue ListsResolveElementwise
