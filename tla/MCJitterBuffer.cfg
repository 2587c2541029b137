SPECIFICATION JitterSpec
CONSTANTS
  SeqSpace = 9
  LossWindow = 2
  MaxBufferSize = 3
  JMod = 65536
  MinDelay = 5
  MaxDelay = 20
  InitialDelay = 0
  SampleRate = 44100
  FirstStamp = {0, 40000}
  TsStep = 3600
  Boot = 1000
  Gap <- VideoGaps
  Ahead = 3
  Behind = 2
  MaxInserted = 4
INVARIANTS
  JitterTypeOK
  ExpectedTracksLatest
  LossNotUndercounted
PROPERTY ArrivalOrderKept
CHECK_DEADLOCK FALSE
