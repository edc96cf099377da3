CONSTANTS
  Full = 2
  Temperatures = {40, 50}
  Rooms = {r1, r2}
  Entries = {e1, e2}
  Kinds = {"Gate", "Window", "Jalousie", "RoomV2", "RoomV2Single", "RoomV2Comfort", "RoomV1", "AcControl", "Light", "MasterLight",
           "Switch", "TimedSwitch", "Override", "Mute", "Alarm",
           "Dimmer", "TunableWhite", "RgbPicker", "Fan", "Zone", "Radio", "ValueSelector",
           "Nfc", "Doorbell", "Contact", "ClimateController", "MessageCenter"}
  Events = 3
  Calls = 1
SPECIFICATION Spec
CHECK_DEADLOCK FALSE
INVARIANTS
  ShowsWhatAStartWouldShow
  AskedIsShown
  EventsAreAccesses
