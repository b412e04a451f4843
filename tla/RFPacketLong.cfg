\* A packet of 825 bytes, in frames of real size.
SPECIFICATION Spec
CONSTANTS
  lp = lp
  long = long
  NoLSF = NoLSF
  Garbage = Garbage
  Zeros = Zeros
  LSFs = {lp}
  PacketLSFs = {lp}
  StreamIDs = {1}
  FNMod = 1
  LichChunks = 1
  MaxMissed = 40
  Packets = {long}
  PacketChunks <- LongChunks
  LastLen <- LongLastLen
  ChunkLen = 25
  BufChunks = 33
  ByteMod = 256
  GarbageNums = {}
PROPERTIES WholePacketDelivered
