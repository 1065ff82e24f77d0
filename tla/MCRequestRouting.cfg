SPECIFICATION Spec
CONSTANTS
    Systems <- MCSystems
    TypeOf <- MCTypeOf
    NoSystem = "none"
    Secrets <- MCSecrets
    LegalSystemIds <- MCLegalSystemIds
    Classes <- MCClasses
    SnapshotClasses <- MCSnapshotClasses
    VolumeNames <- MCVolumeNames
    SnapshotNames <- MCSnapshotNames
    Places <- MCPlaces
    Capabilities <- MCCapabilities
    Sizes <- MCSizes
    StrayIds <- MCStrayIds
    MaxNameLength <- MCMaxNameLength
    MaxPrefixLength <- MCMaxPrefixLength
    MaxCalls = 3
    MaxEdits = 1
INVARIANT ActsOnOwn
INVARIANT DeletedWhenOk
INVARIANT SameVolumeSameName
INVARIANT RequestsServed
CHECK_DEADLOCK FALSE
