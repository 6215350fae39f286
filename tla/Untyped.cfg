\* An invite to a resource without a type.
SPECIFICATION Spec
CONSTANTS
    None = None
    Text <- Texts
    TrimSpace <- Trimmed
    ParseAddress <- Addresses
    AddressKey <- Keys
    Label <- Labels
    ParseURL <- URLs
    ClaimKey <- ClaimKeys
    Claims <- ClaimMaps
    Length <- Lengths
    MaxCustomClaims = 2
    MaxKeyLen = 1
    MaxValueLen = 1
    UID <- OneUID
    Second = 2
    Day = 5
    Leeway = 1
    Instant <- Instants
    Request <- Requests
    Environment <- Environments
    DefaultDays = 2
    MaxDays = 3
INVARIANTS
    ResourceTypeDefaulted
