CONSTANTS
    BSP = BSP
    a1 = a1
    a2 = a2
    a3 = a3
    APs = {a1, a2, a3}
    LocalAPIC_Infos <- MCInfos
    PIT_IRQLINE = 0
    Wirings <- MCWirings

SPECIFICATION FairSpec
CHECK_DEADLOCK FALSE

INVARIANT BootStackExclusive
INVARIANT NoFault
INVARIANT CountExact
PROPERTY AllWork
