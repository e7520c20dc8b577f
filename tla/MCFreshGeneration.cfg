CONSTANTS
  Handles = {h1, h2}
  Tries = {t1, t2}
  Contents = {Empty, c}
  Empty = Empty
  None = None
  MaxGenerations = 3
SPECIFICATION Spec
PROPERTY FreshGenerationIsolated
