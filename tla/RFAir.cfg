\* Two voice overs and two packets in turn; any unit can be lost or garbled and any last-frame flag inverted.
SPECIFICATION FairAirSpec
CONSTANTS
  la = la
  lb = lb
  lp = lp
  short = short
  long = long
  NoLSF = NoLSF
  Garbage = Garbage
  Zeros = Zeros
  LSFs = {la, lb, lp}
  PacketLSFs = {lp}
  StreamIDs = {1}
  FNMod = 3
  LichChunks = 2
  MaxMissed = 2
  Packets = {short, long}
  PacketChunks <- MCPacketChunks
  LastLen <- MCLastLen
  ChunkLen = 3
  BufChunks = 3
  ByteMod = 8
  GarbageNums = {}
  Overs <- MCOvers
  MayLose = {"LSF", "Stream", "Packet", "EOT"}
  MayGarble = {"LSF"}
  MayFlip = TRUE
INVARIANTS LSFKnown PacketInOrder
PROPERTIES ImplementsSession PacketHandled RightStation HeardIsForwarded EndsOnce MarkerTerminates SyncReleased
