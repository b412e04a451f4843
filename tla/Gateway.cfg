\* An over of every kind, resumed or cut short at will, and two goroutines that answer.
SPECIFICATION FairSpec
CONSTANTS
  net = net
  echo = echo
  info = info
  echoPkt = echoPkt
  netPkt = netPkt
  pkt = pkt
  LSFs <- MCLSFs
  NoLSF = NoLSF
  StreamIDs = {1}
  FNMod = 1
  Packets = {pkt}
  EchoLSFs <- MCEcho
  InfoLSFs = {info}
  PacketLSFs <- MCPacket
  MaxTasks = 2
INVARIANTS StateMatchesSession RecordingOfOneStation
PROPERTIES CommandsStayLocal BackToIdle
