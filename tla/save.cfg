SPECIFICATION Spec
CONSTANTS
  Key = {a, b, Torn}
  Str = {x, Torn}
  Nil = Nil
  Null = Null
  Torn = Torn
  Lost = Lost
  SizeMax = 2
  StackMax = 4
  IntMax = 1
  FloatMax = 0
  Values <- SomeValues
INVARIANTS SaveTypeOK
PROPERTIES KeepsSaveSpec LoadEnds
