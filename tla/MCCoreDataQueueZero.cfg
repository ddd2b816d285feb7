SPECIFICATION Spec
CONSTANTS
  KeyOrder <- ZeroKeys
  Samples <- ZeroSamples
  MethodOrder <- Methods
  DefaultMethod = "sensor-data"
  ErrorMethod = "sensor-error"
  RawParam = "IPv4"
  Empty = ""
  Numbers <- SomeNumbers
  Rule <- Rules
  None = None
  Open = Open
  Short = Short
  Ip = Ip
INVARIANT Accurate
