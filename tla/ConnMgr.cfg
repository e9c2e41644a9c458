SPECIFICATION FairSpec
CONSTANTS
    Ssids = {s1, s2}
    Bssids = {b1, b2}
    NoSsid = NoSsid
    NoAp = NoAp
    Rssi <- MCRssi
    Socks = {k1}
    MayFail = TRUE
    ROAMING_RSSI_THRESHOLD <- MCThreshold
    ROAMING_RSSI_DIFF = 10
INVARIANTS KeepsTrying ToldConnectedIsLinked DhcpFollowsLink ServersNeedInterface
PROPERTIES Rejoins GetsAddress
CHECK_DEADLOCK FALSE
