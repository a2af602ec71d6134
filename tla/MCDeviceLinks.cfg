SPECIFICATION FairLinkSpec
CONSTANTS
  switch = switch
  reading = reading
  dimming = dimming
  clearing = clearing
  lamp = lamp
  blind = blind
  knob = knob
  e1 = e1
  e2 = e2
  Callers = {switch, reading, dimming, clearing}
  Commands = {switch, dimming}
  Devices = {lamp, blind, knob}
  DeviceOf <- MCDeviceOf
  Entries = {e1, e2}
  MaxLimit = 2
  DefaultLimit = 2
  MaxTimers = 2
INVARIANTS SlotsAccountedFor NoSlotLeftIdle SlotsGoToWhoeverHasTheTurn
PROPERTIES AdmissionRespectsTheCap NobodyOvertakes CommandsAreLinked
