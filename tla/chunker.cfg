CONSTANTS
  MaxParagraphs = 4
  Texts <- MCTexts
  MaxChunkSize = 6
  OverlapSize = 2
  MaxChunks = 3
SPECIFICATION Spec
INVARIANTS SequenceIsIndex NoGap NothingLost SizeBounded RepeatsAreOverlap EveryChunkAdds
