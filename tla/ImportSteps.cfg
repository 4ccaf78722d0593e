SPECIFICATION StepsSpec
CONSTANTS
  CmClients = {1, 2}
  CmUs = {2}
  CmTrucked = {1}
  CmMandatory <- MCMandatory
  CmFiles = {1, 2}
  CmColumns <- MCColumns
  CmBlank <- MCBlank
  CmTruckColumns <- MCTruckColumns
  CmTemplates = {1}
  CmTemplateMap <- MCTemplateMap
  CmByHand <- MCByHand
  CmTried = {"trucks"}
  CmPatient = TRUE
  FxClients = {1, 2}
  FxUs = {2}
  FxFiles = {1, 2}
  FxSheet <- MCSheets
  FxFold <- MCFold
  FxLists <- MCLists
  FxAliases <- MCAliases
  FxSuggests <- MCSuggests
  FxReliable = TRUE
  FxPatient = TRUE
INVARIANTS
  StepsTypeOK
  AliasesAreRewritten
PROPERTIES
  TruckWeightApart
  MappedStays
  RepliesPinTheirRows
  FixesStay
