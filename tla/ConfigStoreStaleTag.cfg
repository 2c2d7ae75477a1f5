SPECIFICATION Spec
CONSTANTS
  MaxVersion = 2
  Installations = {{"web"}}
  NoConfig = NoConfig
  Local = Local
  Torn = Torn
INVARIANTS
  NotModifiedIsSound
