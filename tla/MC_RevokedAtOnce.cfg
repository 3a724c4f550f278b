SPECIFICATION LocalSpec
CONSTANTS
    l1 = l1
    l2 = l2
    l3 = l3
    d1 = d1
    d2 = d2
    d3 = d3
    ann = ann
    ben = ben
    Links = {l1, l2}
    Devices = {d1, d2}
    DeviceOf <- MCDeviceOf
    Holders = {ann}
    HolderOf <- MCHolderOf
INVARIANTS
    RevokedAtOnce
