SPECIFICATION NvsSpec
CONSTANTS
  Viewers = {c1}  HeartTicks = 1  MaxFrames = 1  MaxInputs = 3  MaxBeats = 1
INVARIANTS MessageAlive ProxyAlive
PROPERTY SenderDrained
CHECK_DEADLOCK FALSE
