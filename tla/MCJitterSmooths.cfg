SPECIFICATION JitterSpec
CONSTANTS
  SeqSpace = 32
  LossWindow = 8
  MaxBufferSize = 4
  JMod = 65536
  MinDelay = 20
  MaxDelay = 200
  InitialDelay = 60
  SampleRate = 44100
  FirstStamp = {0}
  TsStep = 882
  Boot = 1000
  Gap <- AudioGaps
  Ahead = 1
  Behind = 0
  MaxInserted = 4
PROPERTY JitterSmooths
CHECK_DEADLOCK FALSE
