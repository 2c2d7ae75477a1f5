SPECIFICATION FairSpec
CONSTANTS
  MaxVersion = 3
  Installations = {{}, {"cli"}, {"web"}, {"can"}, {"cli", "web"}, {"cli", "can"}, {"web", "can"}, {"cli", "web", "can"}}
  NoConfig = NoConfig
  Local = Local
  Torn = Torn
INVARIANTS
  TypeOK
  PortalTagIsSound
  EtagNeverAhead
PROPERTIES
  LocalEditKept
  ConfigRecovered
