\* Finite parts end: messages, changes, writes and characteristics are used up.
CHECK_DEADLOCK FALSE
SPECIFICATION PartsSpec
CONSTANTS
  kBleQueueDepth = 2
  Polls = 1
  MaxWrites = 3
  MaxBleRestarts = 1
  Services = {"s1", "s2"}
  Characteristics <- BoardCharacteristics
  Peers = {p1, p2}
  MaxConnections = 2
  NoPeer = NoPeer
  NotServed = NotServed
  m_advertiseOnDisconnect = TRUE
  AdvData = {a1, a2}
  NoData = NoData
  MaxLinks = 2
  Resets = 2
  Changes = 1
  BLE_HS_ADV_MAX_SZ = 11
  Uuids <- BoardUuids
  Texts <- BoardTexts
  SparesLaterFields = TRUE
  LateEvents = FALSE
  Advertisers = {d1, d2}
  MaxResults = {0, 1, 255}
  Database <- BoardDatabase
  Root = "root"
  Absent = Absent
  Addresses = {p1, p2}
  KeepsObjects = FALSE
  CONFIG_BT_NIMBLE_MAX_EXT_ADV_DATA_LEN = 10
  ExtUuids <- BoardExtUuids
  ExtTexts <- BoardExtTexts
  FitsFirst = TRUE
  Instances = {i1, i2}
  NoInstance = NoInstance
  RetryCounter = 3
  MaxFragments = 4
  Written <- BoardWritten
  m_attr_max_len = 3
  InitLength = 1
  ble_base_uuid <- BoardBase
  Others <- BoardOthers
  Words <- BoardWords
  LongStayLong = TRUE
  Subscribers = {p1, p2}
  MaxSends = 1
  MaxSubscribes = 2
  ReportIds = {1, 2}
  MaxAdded = 1
  MaxHidChars = 7
INVARIANTS
  ServedIsKept
  
  
  
  
  
  AtMostOnceInOrder
  
  
  
PROPERTIES
  
  
  
  
  OneCharacteristicEach
