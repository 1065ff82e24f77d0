---------------------------- MODULE ArrayMediator ----------------------------
(***************************************************************************)
(* The contract of a storage mediator (array_mediator_interface.py): its   *)
(* class properties, with their values in the three classes that implement *)
(* it, and the array errors each method may raise, by the names of         *)
(* array_action/errors.py.                                                 *)
(***************************************************************************)
EXTENDS Integers, TLC

\* The class properties of the mediators: the port that tells an array's type,
\* limits on names, sessions and LUN retries.  Sizes are powers of two.
SvcClass ==
    [type |-> "SVC", port |-> 22, nameLength |-> 63, prefixLength |-> 20, prefix |-> <<"CSI">>,
     connections |-> 2, minSize |-> 9, maxSize |-> 48, lunRetries |-> 10]

XivClass ==
    [type |-> "A9000", port |-> 7778, nameLength |-> 63, prefixLength |-> 20, prefix |-> <<>>,
     connections |-> 2, minSize |-> 30, maxSize |-> 50, lunRetries |-> 10]

Ds8kClass ==
    [type |-> "DS8K", port |-> 8452, nameLength |-> 16, prefixLength |-> 5, prefix |-> <<>>,
     connections |-> 50, minSize |-> 9, maxSize |-> 44, lunRetries |-> 10]

Mediators == [svc |-> SvcClass, xiv |-> XivClass, ds8k |-> Ds8kClass]

\* What the models rest on: a port tells a class, and a hashed name keeps ten
\* digits of its digest behind the longest prefix.
ASSUME MediatorsAssumption ==
    /\ \A c, d \in DOMAIN Mediators : Mediators[c].port = Mediators[d].port => c = d
    /\ \A c \in DOMAIN Mediators :
          /\ Mediators[c].nameLength >= Mediators[c].prefixLength + 1 + 10
          /\ Mediators[c].minSize <= Mediators[c].maxSize

-----------------------------------------------------------------------------

VolumeErrors ==
    [create_volume |-> {"VolumeAlreadyExists", "PoolDoesNotExist", "PoolDoesNotMatchCapabilities",
                        "IllegalObjectName", "PermissionDeniedError"},
     copy_to_existing_volume_from_source |->
                       {"ObjectNotFoundError", "IllegalObjectID", "PermissionDeniedError"},
     delete_volume |-> {"ObjectNotFoundError", "IllegalObjectID", "PermissionDeniedError",
                        "ObjectIsStillInUseError"},
     get_volume    |-> {"ObjectNotFoundError", "IllegalObjectName", "PermissionDeniedError",
                        "PoolParameterIsMissing"},
     expand_volume |-> {"ObjectNotFoundError", "IllegalObjectID", "ObjectIsStillInUseError",
                        "NotEnoughSpaceInPool"}]

AttachErrors ==
    [get_volume_mappings |-> {"ObjectNotFoundError", "IllegalObjectID"},
     map_volume   |-> {"NoAvailableLunError", "LunAlreadyInUseError", "ObjectNotFoundError",
                       "HostNotFoundError", "PermissionDeniedError", "MappingError"},
     unmap_volume |-> {"VolumeAlreadyUnmappedError", "ObjectNotFoundError", "HostNotFoundError",
                       "PermissionDeniedError", "UnmappingError"}]

SnapshotErrors ==
    [get_snapshot     |-> {"ExpectedSnapshotButFoundVolumeError", "IllegalObjectName", "IllegalObjectID",
                           "PermissionDeniedError"},
     get_object_by_id |-> {"ExpectedSnapshotButFoundVolumeError"},
     create_snapshot  |-> {"SnapshotAlreadyExists", "ObjectNotFoundError", "IllegalObjectName",
                           "IllegalObjectID", "PermissionDeniedError", "NotEnoughSpaceInPool",
                           "SnapshotSourcePoolMismatch"},
     delete_snapshot  |-> {"ObjectNotFoundError", "IllegalObjectID", "PermissionDeniedError",
                           "ObjectIsStillInUseError"}]

HostErrors ==
    [get_iscsi_targets_by_iqn     |-> {"PermissionDeniedError", "NoIscsiTargetsFoundError"},
     get_array_fc_wwns            |-> {},
     get_host_by_host_identifiers |-> {"HostNotFoundError", "MultipleHostsFoundError",
                                       "PermissionDeniedError"}]

\* What a method may raise.
Raises(method) ==
    CASE method \in DOMAIN VolumeErrors   -> VolumeErrors[method]
      [] method \in DOMAIN AttachErrors   -> AttachErrors[method]
      [] method \in DOMAIN SnapshotErrors -> SnapshotErrors[method]
      [] method \in DOMAIN HostErrors     -> HostErrors[method]

\* The classes of array_action/errors.py.
SystemErrorClasses ==
    {"NoConnectionAvailableException", "StorageManagementIPsNotSupportError", "CredentialsError",
     "UnsupportedStorageVersionError"}

ObjectErrorClasses ==
    {"InvalidArgumentError", "ObjectNotFoundError", "VolumeNameBelongsToSnapshotError",
     "VolumeCreationError", "VolumeDeletionError", "IllegalObjectName", "IllegalObjectID",
     "PoolDoesNotMatchCapabilities", "SpaceEfficiencyNotSupported", "VolumeAlreadyExists",
     "PoolDoesNotExist", "PoolParameterIsMissing", "FailedToFindStorageSystemType",
     "PermissionDeniedError"}

HostErrorClasses ==
    {"MultipleHostsFoundError", "HostNotFoundError", "NoAvailableLunError", "LunAlreadyInUseError",
     "MappingError", "VolumeAlreadyUnmappedError", "UnmappingError",
     "VolumeMappedToMultipleHostsError", "NoIscsiTargetsFoundError",
     "UnsupportedConnectivityTypeError"}

SnapshotErrorClasses ==
    {"ExpectedSnapshotButFoundVolumeError", "SnapshotAlreadyExists", "SnapshotSourcePoolMismatch",
     "ObjectIsStillInUseError", "InvalidCliResponseError", "NotEnoughSpaceInPool"}

\* The interface declares errors that exist.
ASSUME DeclaredAssumption ==
    \A m \in UNION {DOMAIN VolumeErrors, DOMAIN AttachErrors, DOMAIN SnapshotErrors, DOMAIN HostErrors} :
        Raises(m) \subseteq SystemErrorClasses \cup ObjectErrorClasses \cup HostErrorClasses
                                 \cup SnapshotErrorClasses

\* Exceptions that are no array errors: of a library, or of Python itself.
ForeignErrors == {"XCLIError", "CLIFailureError", "AttributeError", "ClientException", "InternalServerError"}
=============================================================================
