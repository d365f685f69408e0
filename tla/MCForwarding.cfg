CONSTANTS
 ea = ea  eb = eb  ec = ec
 Encap = {ea, eb, ec}
 Gateway <- Gw
 Tgre = {ec}
 MaxPaths <- TwoPaths
 Paths <- Given
 NrFibRes = 2
 Mac = {1}
 DefGwMac = 3
 NbMbuf = 1
SPECIFICATION FwdSpec
INVARIANTS FwdTypeOK ReadsLive KvCoherent MacWhole TablesReady
PROPERTIES PacketFreed CallReturns MainGetsReady
CHECK_DEADLOCK FALSE
