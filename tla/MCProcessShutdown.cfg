SPECIFICATION ProcessFairSpec
CONSTANT
  MaxSignals = 3
  Program = {"gateway", "simulator", "pqc_doip", "https", "mqtt", "zonal_doip",
             "mbed_doip", "mbed_server", "pqc_server"}
INVARIANTS CleanExit ReturnsEmptyHanded
PROPERTY SignalsEnd
CHECK_DEADLOCK FALSE
