CONSTANTS
  Texts <- Occurring
  Abbreviates <- Beginnings
  Units <- Files
  Inputs <- States
  Instances <- Described
  Peers <- Related
  Refused <- Cyclic
  Unreadable <- Dangling
  Configs <- Various
  MaxTracked = 2
  MaxSessions = 3
SPECIFICATION Spec
INVARIANTS TypeOK DrivesItsGeneration ReplaysTheGeneration LoadedIsInstalled ConfigObeyed
