SPECIFICATION OneDeviceSpec
CONSTANTS
  KeyOrder <- BothKeys
  Samples <- BothSamples
  MethodOrder <- Methods
  DefaultMethod = "sensor-data"
  ErrorMethod = "sensor-error"
  RawParam = "IPv4"
  Empty = ""
  Numbers <- SomeNumbers
  Rule <- Rules
  None = None
  Open = Open
  Short = Short
  Ip = Ip
INVARIANTS NewestKept Accurate
PROPERTIES Quiet Drains
