SPECIFICATION ExchangeSpec
CONSTANTS
    Shapes = {"default", "some", "none", "null", "long", "huge"}
    MaxRequestBytes = 70000
    MaxResponseBytes = 140000
    Keys <- MCKeys
    UnknownKey = 7
INVARIANTS
    Understood
    SizeIsExact
    AdvertisedIsServed
