CONSTANTS
  MaxVersion <- MC_MaxVersion
  MaxReady <- MC_MaxReady
  MaxRestarts <- MC_MaxRestarts
SPECIFICATION Spec
INVARIANTS
  TypeOK
  PrerequisitesNotOlder
  NilMeansConverged
  EventsMatchChanges
PROPERTY
  AbstractSpec
