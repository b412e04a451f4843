\* The last-frame flag of a voice frame can come out inverted; nothing is lost but voice frames.
SPECIFICATION AirSpec
CONSTANTS
  la = la
  lb = lb
  lp = lp
  short = short
  long = long
  NoLSF = NoLSF
  Garbage = Garbage
  Zeros = Zeros
  LSFs = {la, lb}
  PacketLSFs = {}
  StreamIDs = {1, 2}
  FNMod = 8
  LichChunks = 2
  MaxMissed = 20
  Packets = {}
  PacketChunks <- NoPacket
  LastLen <- NoPacket
  ChunkLen = 2
  BufChunks = 8
  ByteMod = 16
  GarbageNums = {}
  Overs <- VoiceOnly
  MayLose = {"Stream"}
  MayGarble = {}
  MayFlip = TRUE
PROPERTIES FlagDoesNotMute
