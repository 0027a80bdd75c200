CONSTANTS
  a = a
  b = b
  c = c
  Fields = {a, b, c}
  Schemas <- MCSchemas
  ChunkLengths <- MCChunkLengths
  LongChunk = 3000
  ComplexityThreshold = 2
  MaxRetries = 2
SPECIFICATION Spec
INVARIANTS CallsBounded AnswerSound
