------------------------------ MODULE RpcStatus ------------------------------
(***************************************************************************)
(* From exceptions to gRPC status codes: the except clauses of each RPC    *)
(* (csi_controller_server.py), which also catch subclasses, and behind     *)
(* them handle_common_exceptions (exception_handler.py), which looks up    *)
(* the exact class and answers INTERNAL for any other.                     *)
(***************************************************************************)

\* The subclasses of InvalidArgumentError (array_action/errors.py).
InvalidArgumentErrors ==
    {"IllegalObjectName", "IllegalObjectID", "PoolDoesNotMatchCapabilities",
     "SpaceEfficiencyNotSupported", "PoolDoesNotExist", "PoolParameterIsMissing",
     "UnsupportedConnectivityTypeError", "ExpectedSnapshotButFoundVolumeError"}

\* status_codes_by_exception.
CommonStatus(ex) ==
    CASE ex = "NotImplementedError" -> "UNIMPLEMENTED"
      [] ex \in {"ValidationException", "IllegalObjectID", "IllegalObjectName",
                 "PoolParameterIsMissing"} -> "INVALID_ARGUMENT"
      [] ex \in {"ObjectNotFoundError", "HostNotFoundError"} -> "NOT_FOUND"
      [] ex = "PermissionDeniedError" -> "PERMISSION_DENIED"
      [] ex = "ObjectIsStillInUseError" -> "FAILED_PRECONDITION"
      [] OTHER -> "INTERNAL"

\* The except clauses of the RPCs, around the part that uses the array.
CreateVolumeStatus(ex) ==
    IF ex \in InvalidArgumentErrors THEN "INVALID_ARGUMENT"
    ELSE IF ex = "VolumeAlreadyExists" THEN "ALREADY_EXISTS"
    ELSE CommonStatus(ex)

DeleteVolumeStatus(ex) == IF ex = "ObjectNotFoundError" THEN "OK" ELSE CommonStatus(ex)

CreateSnapshotStatus(ex) ==
    CASE ex \in {"ObjectIdError", "SnapshotSourcePoolMismatch"} -> "INVALID_ARGUMENT"
      [] ex = "SnapshotAlreadyExists" -> "ALREADY_EXISTS"
      [] ex = "NotEnoughSpaceInPool" -> "RESOURCE_EXHAUSTED"
      [] OTHER -> CommonStatus(ex)

DeleteSnapshotStatus(ex) == IF ex = "ObjectNotFoundError" THEN "OK" ELSE CommonStatus(ex)

ExpandStatus(ex) ==
    CASE ex = "ObjectIdError" -> "INVALID_ARGUMENT"
      [] ex = "NotEnoughSpaceInPool" -> "RESOURCE_EXHAUSTED"
      [] OTHER -> CommonStatus(ex)

PublishStatus(ex) ==
    CASE ex = "VolumeMappedToMultipleHostsError" -> "FAILED_PRECONDITION"
      [] ex \in {"LunAlreadyInUseError", "NoAvailableLunError"} -> "RESOURCE_EXHAUSTED"
      [] ex \in {"NoIscsiTargetsFoundError", "ObjectIdError"} -> "NOT_FOUND"
      [] ex = "UnsupportedConnectivityTypeError" -> "INVALID_ARGUMENT"
      [] OTHER -> CommonStatus(ex)

\* The clause for ObjectIdError is never reached: the validation before it
\* refuses such ids (and it names an exception as the type of the response).
UnpublishStatus(ex) ==
    IF ex \in {"VolumeAlreadyUnmappedError", "ObjectNotFoundError"} THEN "OK" ELSE CommonStatus(ex)

Status(rpc, ex) ==
    CASE ex = "none" -> "OK"
      [] ex # "none" /\ rpc = "CreateVolume"   -> CreateVolumeStatus(ex)
      [] ex # "none" /\ rpc = "DeleteVolume"   -> DeleteVolumeStatus(ex)
      [] ex # "none" /\ rpc = "CreateSnapshot" -> CreateSnapshotStatus(ex)
      [] ex # "none" /\ rpc = "DeleteSnapshot" -> DeleteSnapshotStatus(ex)
      [] ex # "none" /\ rpc = "Expand"         -> ExpandStatus(ex)
      [] ex # "none" /\ rpc = "Publish"        -> PublishStatus(ex)
      [] ex # "none" /\ rpc = "Unpublish"      -> UnpublishStatus(ex)
      [] ex # "none" /\ rpc \in {"ValidateVolumeCapabilities", "ListVolumes", "GetCapacity"} ->
            CommonStatus(ex)
=============================================================================
