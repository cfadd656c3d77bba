\* Every text of up to six symbols, for iio_math with one and two inputs and iio_math_gen
CONSTANTS
  Alphabet = {"x0", "x1", "2", "f", "g", "w", "+", "-", "*", "/", "**", "(", ")", "?"}
  MaxLength = 6
SPECIFICATION Spec
INVARIANTS MeansWhatItSays RefusesNonsense DeletedOnce InputsConnected
CHECK_DEADLOCK FALSE
