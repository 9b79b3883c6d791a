SPECIFICATION FairSpec
CONSTANTS
    old = old
    new = new
    None = None
    Firmware <- MCFirmware
    ToolCount <- MCToolCount
    Etag <- MCEtag
    Fits <- MCFits
    Asked <- MCAsked
    Foreign <- MCForeign
    DefaultLimit = 3
    SizeModulus = 16
    ByteModulus = 4
    MaxFlashes = 2
INVARIANTS WalkIsExact ListedToolsExist NeverMoreThanAsked
PROPERTIES WalkEnds
CHECK_DEADLOCK FALSE
