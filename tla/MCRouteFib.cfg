CONSTANTS
 v1 = v1  v2 = v2  p1 = p1  p2 = p2  ea = ea  eb = eb  ec = ec
 Vrf = {v1, v2}
 Prefix = {p1, p2}
 Encap = {ea, eb, ec}
 EncapOf <- Separate
 Gateway <- Gw
 Tgre = {ec}
 Tunnel <- Tun
 ROUTE_MAX_ECMP = 2
 MROUTE_MAX_ECMP = 1
 NrFibRes = 2
 OidMax = 2
 U32 = 8
 RibTypes = {"RT_DEFAULT", "RT_MROUTE"}
 Static <- StaticV1
 Faults <- AllFaults
 HashPos <- Placed
SPECIFICATION RouteSpec
INVARIANTS RouteTypeOK RefCountExact NeighExact TablesAgree AssertsHold
PROPERTIES FailedCallUndone RefinesRouteTable
