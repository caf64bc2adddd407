SPECIFICATION MovingSpec
CONSTANTS
  WORDS = 8
  Inputs <- SomeInputs
INVARIANT TypeOK
PROPERTY PulsesDelayed
