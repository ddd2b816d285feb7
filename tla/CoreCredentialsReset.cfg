SPECIFICATION Spec
CONSTANTS
  Tasks = {"maint", "recon", "ble", "cfg", "button"}
  NoTask = NoTask
  WifiFields = {}
  CoreFields = {"url", "device_code", "access_token", "refresh_token"}
  Values = {0, 1, 2}
  Empty = 0
  Unset = Unset
  NvsMayFail = FALSE
  MaxGrants = 2
PROPERTY ResetForgetsTokens
