SPECIFICATION LaunchSpec
CONSTANTS
  Tests = {t1, t2}
  Offered <- OfferedDef
  Spelled <- SpelledDef
  MaxHeld = 1
  Adapters <- AdaptersDef
  Contexts <- ContextsDef
  Options <- OptionsDef
  Foreign <- ForeignDef
  Settings <- SettingsDef
  Prompts <- PromptsDef
  MaxTurns = 3
SYMMETRY TestSymmetry
INVARIANTS
  OwnersKeepTheirs
  TurnIsReadAsMeant
  SystemPromptIsHeard
  ResumeIsHonest
  ExclusiveIsReal
  PlantedIsFound
  TwoPathsAgree
CHECK_DEADLOCK FALSE
