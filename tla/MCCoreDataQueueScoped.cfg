SPECIFICATION Spec
CONSTANTS
  KeyOrder <- ScopedKeys
  Samples <- ScopedSamples
  MethodOrder <- Methods
  DefaultMethod = "sensor-data"
  ErrorMethod = "sensor-error"
  RawParam = "IPv4"
  Empty = ""
  Numbers <- SomeNumbers
  Rule <- Rules
  None = None
  Open = Open
  Short = Short
  Ip = Ip
PROPERTY Quiet
