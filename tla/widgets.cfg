SPECIFICATION Spec
CONSTANTS
  w1 = w1
  w2 = w2
  Widget = {w1, w2}
  Kinds <- MCKinds
  Areas = 2
  MouseButton = {1, 4}
  Wheeled <- MCWheeled
  None = None
INVARIANTS TypeOK PointersLive
PROPERTIES FreedUntouched DisabledInert
