SPECIFICATION Spec
CONSTANTS
    Ssids = {s1, s2}
    Bssids = {b1, b2}
    NoSsid = NoSsid
    NoAp = NoAp
    Rssi <- MCRssi
    Socks = {k1}
    MayFail = FALSE
    ROAMING_RSSI_THRESHOLD <- MCThreshold
    ROAMING_RSSI_DIFF = 10
PROPERTY StaticAddressStays
CHECK_DEADLOCK FALSE
