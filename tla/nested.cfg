SPECIFICATION Spec
CONSTANTS
  Key = {a, b, c}
  Str = {}
  Nil = Nil
  IntMax = 0
  FloatMax = 0
  Bindings <- AnyBinding
INVARIANT ListsResolveThroughout
