SPECIFICATION Spec
CONSTANTS
    h1 = h1
    h2 = h2
    Hosts = {h1, h2}
    Devices = {0, 1}
    Streams = {0, 1}
    Ptrs = {p1, p2}
    Events = {e1, e2, e3}
    Null = Null
    HomeDevice <- AtDeviceZero
    Worlds <- TwoDevices
    bin_growth = 2
    min_bin = 1
    max_bin = 2
    Capacity = 6
    MaxFaults = 1
SYMMETRY Symmetric
INVARIANTS
    DeviceReverted
