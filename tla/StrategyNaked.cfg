CONSTANTS
  Lot = 2
  TouchCfg <- MCTouch
  GridCfg <- MCGrid
  RevertCfg <- MCRevert
  LatCfg <- MCLat
  WaveCfg <- MCWave
  ScalpCfg <- MCScalp
  Running = {"rsi_mr"}
  Books <- MCBooks
  Events <- MCEvents
  Faults = 1
  MaxFlight = 2
  LiqWindow = 3
SPECIFICATION Spec
CHECK_DEADLOCK FALSE
PROPERTY NoNakedSell
