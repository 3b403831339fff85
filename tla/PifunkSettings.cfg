SPECIFICATION SSpec
CONSTANTS
  Choices = {1, 2, 3}
  Numbers = {18, 33, 51, 81, 99}
  Frequencies = {100000000, NaN}
  Typed <- MCTyped
  MaxAnswered = 4
CONSTRAINT FewAnswers
INVARIANTS TypeOK STypeOK AnalogTuningMeansTypeOne TunedInBand CbFrequencyNamesChannel
PROPERTIES JamTakesNoAnswer JamKeepsSettings
CHECK_DEADLOCK FALSE
