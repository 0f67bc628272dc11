CONSTANTS
  e1 = e1
  e2 = e2
  e3 = e3
  Elements <- MCElements
  Null = Null
  Rankables <- MCRankables
  Rank <- MCRank
  Views <- MCViews
  UsedLists <- MCUsed
  IntWidth = 5
  MaskWidth = 6
  GsaRoom = 4
  GsvRoom = 4
  GenerateNmea = TRUE
  IntermediateFix = TRUE
  Urls <- MCUrls
  Refused <- MCRefused
  Answers <- MCAnswers
  Configured <- MCConfigured
  CertificateSlots = 1
  MaxPosted = 2
  MaxCrashes = 1
  Addresses = {1, 2}
  DmnMessages <- MCDmnMessages
  MaxPipe = 2
  MaxMessages = 2
  Table <- MCTable
  LogTable <- MCLogTable
  Lines <- MCLines
  MaxLines = 3
  Width = 8
  Platforms <- MCPlatforms
  Timeout = 2
  Unset = Unset
  Gestures = {"C"}
  MaxIntents = 2
  MaxDozes = 1
  MaxKills = 1
  Cameras = {0, 1}
  Switches = {"preview"}
  Texts <- MCTexts
  FileCaps <- MCFileCaps
  UpdateCaps <- MCUpdateCaps
  Csfb = FALSE
  MaxInbox = 2
  Targets = {"NONE", "MSM", "QCA1530"}
  AgpsTypes = {"SUPL", "WWAN_ANY"}
  ApnIpTypes = {"PPP"}
  Devices <- MCDevices
  PropertyMax = 6
  AgentMax = 60
  Colors <- MCColors
  MaxOpens = 3
  Characters = {" ", ",", "x", "1"}
  MaxText = 4
  Sizes <- MCSizes
  Halves = {0, 9, 10, 15}
  Letters = {1, 2, 3, 64}
SPECIFICATION MCSpec
INVARIANTS HeapSound SubsFollowOrder SentencesInv TextsHold AssistanceInv DaemonInv CfgInv InputInv WrappersInv HalInv
PROPERTIES HeapSteps WalkFinds
CHECK_DEADLOCK FALSE
