\* Two writers, two calls, a reader's buffer of one byte.
SPECIFICATION Spec
CONSTANTS
  w1 = w1
  w2 = w2
  Writer = {w1, w2}
  Objects <- SmallObjects
  Base = 2
  MaxBufferLen = 1
  MaxSends = 2
  Unit = 2
  Half = 4
  Word = 64
INVARIANTS
  BufferHoldsPackage
  FramesSurvive
  TrafficAddsUp
SYMMETRY WriterSymmetry
CHECK_DEADLOCK FALSE
