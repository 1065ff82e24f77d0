SPECIFICATION Spec
CONSTANTS
    Systems <- MCSystems
    TypeOf <- MCTypeOf
    NoSystem = "none"
    Secrets <- MCSourceSecrets
    LegalSystemIds <- MCLegalSystemIds
    Classes <- MCSourceClasses
    SnapshotClasses <- MCSnapshotClasses
    VolumeNames <- MCSourceVolumeNames
    SnapshotNames <- MCSnapshotNames
    Places <- MCSourcePlaces
    Capabilities <- MCSourceCapabilities
    Sizes = {0}
    StrayIds <- NoStrayIds
    MaxNameLength <- MCMaxNameLength
    MaxPrefixLength <- MCMaxPrefixLength
    MaxCalls = 3
    MaxEdits = 0
INVARIANT ClonedFromSource
CHECK_DEADLOCK FALSE
