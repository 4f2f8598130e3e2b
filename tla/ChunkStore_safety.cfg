CONSTANTS
  c1 = c1
  c2 = c2
  c3 = c3
  Chunks <- MCChunks
  Transcripts <- MCTranscripts
  SmallChunks = 1
  Readers = {r1}
  None = None
SPECIFICATION FairSpec
INVARIANTS IndexComplete
PROPERTIES ReplacedWhole FailureMeansChange ImplementsCell ConversionCompletes
