\* Two filters, two qualities of service, two links.
SPECIFICATION FairSpec
CONSTANTS
    Topics = {t1, t2}
    QoS = {0, 1}
    MaxLinks = 2
INVARIANTS ListedIsServed ListAgrees
PROPERTIES ReconnectServed
CHECK_DEADLOCK FALSE
