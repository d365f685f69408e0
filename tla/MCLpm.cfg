CONSTANTS
 V4Bits = 2
 ByteBits = 2
 V6Bytes = 2
 Texts <- SampleTexts
 Lookups <- AllAddr
 Info = {"x", "y"}
SPECIFICATION LpmSpec
INVARIANTS LpmTypeOK SubnetIsRange LookupIsLongest
PROPERTY RefinesPrefixTable
