CONSTANTS
  MaxVersion <- MC_MaxVersionLive
  MaxReady <- MC_MaxReadyLive
  MaxRestarts <- MC_MaxRestarts
SPECIFICATION Spec
PROPERTIES
  Converges
  ReadyHostsRegistered
