SPECIFICATION DeviceSpec
CONSTANTS
  MqttQueueLimit = 3
  MaxMessages = 6
  Tasks = {t1, t2}
  NoTask = NoTask
  WifiFields = {"ssid"}
  CoreFields = {"mqtt_url", "access_token"}
  Values = {0, 1, 2}
  Empty = 0
  Unset = Unset
  NvsMayFail = TRUE
  Networks = {home, office}
  NoNetwork = NoNetwork
  MaxEvents = 3
  ValidFrom = 50
  FirstBoot = 56
  Horizon = 59
  MaxHalfSaved = 1
  ImageBlocks = 2
  SlotBlocks = 3
  Temps = {0, 55}
  NoTemp = NoTemp
  PollPeriod = 4
  HoldFeedback = 6
  FactoryReset = 13
  Lifetime = 77
  Period = 2
  Cooldown = 2
  RequestTime = 1
  Failures = 1
INVARIANTS
  DeviceTypeOK
  NewestWithoutGap
  ReadyMeansOnline
  NeverAhead
  ResetMatchesPress
  
PROPERTIES
  LossyInOrder
  Rejoins
  TimeBecomesValid
  UpgradeEndsWell
