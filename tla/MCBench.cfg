SPECIFICATION Spec
CONSTANTS
    NoLock = NoLock
    Unreadable = Unreadable
    Absent = Absent
    Old = Old
    Sketch = Sketch
    a1 = a1
    a2 = a2
    bthome = bthome
    writable = writable
    ccm = ccm
    storageModule = storageModule
    e1 = e1
    e2 = e2
    pi = pi
    esphome = esphome
    lamp = lamp
    jolt = jolt
    Agents = {a1, a2}
    Entries = {e1, e2}
    Scanners = {pi, esphome}
    Switches = {lamp, jolt}
    Enabled = {pi}
    On = {lamp}
    UsualCap <- MCUsualCap
    StormCap = 6
    RowsTellOptions = FALSE
    Modules = {bthome, writable, ccm, storageModule}
    BuiltIn = {storageModule}
    Requires <- MCRequires
    Chunks = 2
    WriteAttempts = 2
    ConnectAttempts = 2
    Blocks <- MCBlocks
    Room = 2
SYMMETRY AgentsAreAlike
CONSTRAINT WorthGoingOn
INVARIANTS
    OneAgentAtATime
    TestsRunOnTheirOwnCode
    TheHostIsPutBack
    LoadedIsWhole
