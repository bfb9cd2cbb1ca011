CONSTANTS
  Urls <- DecodedUrls
  Callers <- MCCallers
  SizeMod = 1000000
SPECIFICATION DecodeSpec
INVARIANTS   PartsAsInRfc AddressesTold
CHECK_DEADLOCK FALSE
