SPECIFICATION Spec
CONSTANTS
  q1 = q1
  q2 = q2
  x1 = x1
  x2 = x2
  a = a
  b = b
  c = c
  None = None
  Names = {q1, q2}
  Texts = {x1, x2}
  Paths = {a, b, c}
  Foreign <- MixedForeign
  Uses = {"explain", "all", "errors"}
INVARIANTS
  TypeOK
  PlansAgree
  StaleAnswersHaveCause
