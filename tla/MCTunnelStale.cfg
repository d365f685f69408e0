CONSTANTS
 red = red  blue = blue
 p1 = p1  ea = ea  eb = eb  ga = ga  gb = gb
 Vrf = {1, 2}
 Prefix = {p1}
 Encap = {ea, eb}
 EncapOf <- OwnEncap
 Gateway <- Gw
 Tgre = {}
 Tunnel <- Tun
 ROUTE_MAX_ECMP = 1
 MROUTE_MAX_ECMP = 1
 NrFibRes = 2
 OidMax = 2
 U32 = 8
 RibTypes = {"RT_DEFAULT"}
 Static <- StaticGw
 Faults = {"none"}
 HashPos <- AtKeys
 Name = {red, blue}
 TunnelKeyOf <- RealVni
 Addr = {1, 2}
 Tuned <- NobodyTuned
 IntIp = {1}
 Mac = {2}
 FakeMac = 1
 Trees = {"agent"}
 ReuseKeys = FALSE
 Src = {1}
 Vni = {0}
SPECIFICATION RuleSpec
CHECK_DEADLOCK FALSE
PROPERTY UnmapDeletesEntry
