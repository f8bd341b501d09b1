SPECIFICATION Spec
CONSTANTS
    Sessions = {s1}
    Devices = {d1, d2}
    NoDevice = NoDevice
    Dispatchers = {u1}
    MaxVersion = 4
PROPERTIES
    NeverReopened
