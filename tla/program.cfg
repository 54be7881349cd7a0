SPECIFICATION Spec
CONSTANTS
  Unset = Unset
  Failed = Failed
  Beyond = Beyond
  Broken <- BrokenTexts
  Garbled = {}
  UsizeMax = 511
  Paths <- SomePaths
  Defaults <- SomeDefaults
  ParamChoices <- SomeParamChoices
  p1 = p1
  p2 = p2
  InferChoices <- SomeInferChoices
  InferStarts <- NewAndDefault
  PlainInputs <- PlainPrompts
  OtherInputs <- SomeInputs
  Encodings <- SomeEncodings
  EmbeddingFiles <- SomeFiles
  Layers <- SomeLayers
  Ranges <- SomeRanges
  I32Max = 100
  MaxChoices = 2
  MaxInputs = 2
  MaxCalls = 2
INVARIANTS ProgramTypeOK ParamsAsAsked SeenIsAsked AnswersComplete ImagesFit SlicesInBuffer HooksAnswerWhole
SYMMETRY Symmetry
\* The program ends.
CHECK_DEADLOCK FALSE
